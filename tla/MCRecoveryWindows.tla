------------------------- MODULE MCRecoveryWindows -------------------------
(***************************************************************************)
(* Chains that close and chains that do not, memory sinks that can and     *)
(* cannot be placed, and recoveries whose anchor is not on the output path.*)
(***************************************************************************)
EXTENDS RecoveryWindows

Scenario(anchor, chain, closes, coverage, varying, localized, vectors, staging, mem) ==
    [anchor |-> anchor, chain |-> chain, closes |-> closes, coverage |-> coverage,
     varying |-> varying, localized |-> localized, vectors |-> vectors,
     staging |-> staging, memSink |-> mem, undecided |-> mem = "placed"]

MCScenarios ==
    {Scenario("onpath", {1, 2, 5, 6}, TRUE, {<<1, 3>>, <<4, 5>>}, {4}, TRUE, 2, {}, "none"),
     Scenario("onpath", {1, 2, 8, 9, 10}, TRUE, {}, {}, FALSE, 2, {}, "placed"),
     Scenario("onpath", {3}, TRUE, {<<3, 4>>, <<7, 8>>}, {2}, FALSE, 2, {<<4, 5>>}, "unplaceable"),
     Scenario("none", {}, FALSE, {<<1, 3>>}, {4}, TRUE, 2, {}, "none"),
     Scenario("none", {}, FALSE, {<<1, 3>>}, {2}, TRUE, 1, {<<2, 3>>}, "none"),
     Scenario("recapture_directive", {}, FALSE, {<<1, 3>>}, {}, FALSE, 2, {}, "none"),
     Scenario("blocked_unplaceable", {}, FALSE, {}, {4}, TRUE, 2, {}, "none")}
=============================================================================
