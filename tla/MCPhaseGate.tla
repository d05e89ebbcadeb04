---------------------------- MODULE MCPhaseGate ----------------------------
(***************************************************************************)
(* A sequence with what PhaseSequence permits beyond the VMP one: two      *)
(* roots, a join, an ordinary phase that requires an escalation, and an    *)
(* escalation ordered before the phase it requires.                        *)
(***************************************************************************)
EXTENDS PhaseGate

MCPhases == {"observe", "trace", "induce", "heavy", "deep"}

MCRequires ==
    [p \in MCPhases |->
        CASE p = "induce" -> {"observe", "trace"}
          [] p = "heavy"  -> {"observe"}
          [] p = "deep"   -> {"heavy", "induce"}
          [] OTHER        -> {}]

MCOrder ==
    [p \in MCPhases |->
        CASE p = "heavy"   -> 1
          [] p = "observe" -> 2
          [] p = "trace"   -> 3
          [] p = "induce"  -> 4
          [] p = "deep"    -> 5]
=============================================================================
