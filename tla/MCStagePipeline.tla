-------------------------- MODULE MCStagePipeline --------------------------
(***************************************************************************)
(* The default pipeline, its two halves (an agent that stops in between),  *)
(* the tail alone, and the opt-in taint stage.                             *)
(***************************************************************************)
EXTENDS StagePipeline

MCWhole == {DefaultOrder, <<"s6_taint">>}

MCParts == {DefaultOrder, <<"s0_5", "s1", "s1b", "s2">>, <<"s3", "s4", "s5">>,
            <<"s4">>, <<"s6_taint">>}
=============================================================================
