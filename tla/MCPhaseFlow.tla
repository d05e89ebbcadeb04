---------------------------- MODULE MCPhaseFlow ----------------------------
(***************************************************************************)
(* Executions of five steps: a value copied down a chain into the region   *)
(* 4..5, and one that comes in through another chain, with and without a   *)
(* hook that can follow it.                                                *)
(***************************************************************************)
EXTENDS PhaseFlow

Traced(p, w, r, c) == [pc |-> p, write |-> w, read |-> r, copy |-> c]
TwoChains ==
    <<Traced(1, 1, 0, FALSE), Traced(2, 2, 1, TRUE), Traced(9, 6, 0, FALSE),
      Traced(4, 3, 2, TRUE), Traced(5, 5, 6, TRUE)>>

MCExecutions ==
    {[steps |-> <<Traced(1, 1, 0, FALSE), Traced(2, 2, 1, TRUE), Traced(3, 3, 2, TRUE),
                  Traced(4, 4, 3, TRUE), Traced(5, 5, 4, TRUE)>>,
      first |-> 4, last |-> 5, ledger |-> [a \in {} |-> 0],
      hooks |-> {"memregion_watch", "pc_first_exec_hook"}]}
    \union {[steps |-> TwoChains, first |-> 4, last |-> 5,
             ledger |-> [a \in {6} |-> 9], hooks |-> h] :
               h \in {{"memregion_watch"}, {"memregion_watch", "pc_first_exec_hook"}}}

MCRouting == [recognition_gap |-> "escalate_user", boundary_limit |-> "escalate_l3",
              strategy_gap |-> "ask_agent"]
=============================================================================
