----------------------------- MODULE PhaseGate -----------------------------
(***************************************************************************)
(* The forced-order phase machine of engine/phase_sequence.py: a PhaseRun  *)
(* over a validated PhaseSequence.  A phase is entered only when every     *)
(* phase it requires has recorded an outcome; an escalation phase is       *)
(* entered only after a machine proof or a human confirmation unlocked it. *)
(* A call the code refuses (PhaseGateError) changes nothing and is         *)
(* therefore no step here.                                                 *)
(***************************************************************************)
EXTENDS Naturals

CONSTANTS
    Phases,       \* the names of PhaseSequence.steps
    Requires,     \* [Phases -> SUBSET Phases]: PhaseDef.requires
    Order,        \* [Phases -> Nat]: PhaseDef.order
    Escalations,  \* the phases flagged is_escalation
    NotRun        \* marks a phase that has recorded no outcome

(* PhaseStatus.  COULD_NOT_CLOSE always carries a reason: PhaseOutcome     *)
(* refuses to be built without one.                                        *)
Status == {"ran", "closed", "could_not_close"}

(* The validation of PhaseSequence.__post_init__.                          *)
ASSUME PhaseAssumption ==
    /\ Escalations \subseteq Phases
    /\ Requires \in [Phases -> SUBSET Phases]
    /\ Order \in [Phases -> Nat]
    /\ NotRun \notin Status
    /\ \A p, q \in Phases : Order[p] = Order[q] => p = q
    /\ \A p \in Phases \ Escalations :
           \A r \in Requires[p] : Order[r] < Order[p]

VARIABLES
    outcome,    \* _outcomes: the last outcome each phase recorded
    entered,    \* _entered
    unlocked,   \* _escalation_unlocked
    confirmed   \* the keys of _confirmations

gateVars == <<outcome, entered, unlocked, confirmed>>

(* PhaseRun.ran: an outcome is on record.                                  *)
Ran == {p \in Phases : outcome[p] # NotRun}

CouldNotClose == {p \in Phases : outcome[p] = "could_not_close"}

(* Slip: a predecessor that was merely entered counts as run.              *)
CanEnterOnEntry(p) == Requires[p] \subseteq entered

(* can_enter: the predecessors have run.                                   *)
CanEnter(p) == Requires[p] \subseteq Ran

(* Slip: any phase that ran may be cited as a wall.                        *)
ProofAcceptedOnAnyOutcome(p, cites) ==
    /\ CanEnter(p)
    /\ cites # {}
    /\ cites \subseteq Ran

(* _validate_escalation: predecessors ran, at least one citation, and      *)
(* every cited phase recorded COULD_NOT_CLOSE.                             *)
ProofAccepted(p, cites) ==
    /\ CanEnter(p)
    /\ cites # {}
    /\ cites \subseteq CouldNotClose

GateInit ==
    /\ outcome = [p \in Phases |-> NotRun]
    /\ entered = {}
    /\ unlocked = {}
    /\ confirmed = {}

(* enter() of an ordinary phase.                                           *)
Enter(p) ==
    /\ p \in Phases \ Escalations
    /\ CanEnter(p)
    /\ entered' = entered \cup {p}
    /\ UNCHANGED <<outcome, unlocked, confirmed>>

(* enter(p, proof=...).  Once p is unlocked the proof is not looked at.    *)
EnterByProof(p, cites) ==
    /\ p \in Escalations
    /\ p \in unlocked \/ ProofAccepted(p, cites)
    /\ unlocked' = unlocked \cup {p}
    /\ entered' = entered \cup {p}
    /\ UNCHANGED <<outcome, confirmed>>

(* Slip: a confirmation opens any phase.                                   *)
EnterByConfirmationAnywhere(p) ==
    /\ confirmed' = IF p \in unlocked THEN confirmed ELSE confirmed \cup {p}
    /\ unlocked' = unlocked \cup {p}
    /\ entered' = entered \cup {p}
    /\ UNCHANGED outcome

(* enter(p, confirmation=...).  The human's yes needs no predecessor; it   *)
(* is kept for the audit unless p was unlocked already.                    *)
EnterByConfirmation(p) ==
    /\ p \in Escalations
    /\ confirmed' = IF p \in unlocked THEN confirmed ELSE confirmed \cup {p}
    /\ unlocked' = unlocked \cup {p}
    /\ entered' = entered \cup {p}
    /\ UNCHANGED outcome

(* Slip: an outcome is accepted for a phase nobody entered.                *)
RecordUnentered(p, s) ==
    /\ outcome' = [outcome EXCEPT ![p] = s]
    /\ UNCHANGED <<entered, unlocked, confirmed>>

(* record(): only an entered phase may leave an outcome; recording again   *)
(* overwrites the earlier one.                                             *)
Record(p, s) ==
    /\ p \in entered
    /\ outcome' = [outcome EXCEPT ![p] = s]
    /\ UNCHANGED <<entered, unlocked, confirmed>>

GateNext ==
    \/ \E p \in Phases : Enter(p)
    \/ \E p \in Phases, cites \in SUBSET Phases : EnterByProof(p, cites)
    \/ \E p \in Phases : EnterByConfirmation(p)
    \/ \E p \in Phases, s \in Status : Record(p, s)

GateSpec == GateInit /\ [][GateNext]_gateVars

-----------------------------------------------------------------------------
(* Every phase that p stands on, through ordinary phases only: the least   *)
(* set that holds p's requirements and, with an ordinary phase, its        *)
(* requirements.                                                           *)
Foundation(p) ==
    {q \in Phases :
        \A S \in SUBSET Phases :
            /\ Requires[p] \subseteq S
            /\ \A r \in S \ Escalations : Requires[r] \subseteq S
            => q \in S}

GateTypeOK ==
    /\ outcome \in [Phases -> Status \cup {NotRun}]
    /\ entered \subseteq Phases
    /\ unlocked \subseteq Escalations
    /\ confirmed \subseteq Escalations

(* Forced order: when an ordinary phase has been entered, not only the     *)
(* phases it requires but everything they stand on has run, whatever       *)
(* outcomes were overwritten and whatever escalation was confirmed in      *)
(* between.                                                                *)
ForcedOrder ==
    \A p \in entered \ Escalations : Foundation(p) \subseteq Ran

(* No verdict without entry, and no escalation entered around its gate:    *)
(* what has an outcome was entered, and an entered escalation is unlocked. *)
NothingAroundTheGate ==
    /\ Ran \subseteq entered
    /\ entered \cap Escalations \subseteq unlocked
    /\ confirmed \subseteq unlocked

(* Gated escalation: the step that unlocks a heavy phase either puts a     *)
(* human confirmation on record, or happens when every phase it requires   *)
(* has run and at least one phase of the run hit a wall.                   *)
UnlockJustified ==
    [][\A p \in unlocked' \ unlocked :
          \/ p \in confirmed'
          \/ CanEnter(p) /\ CouldNotClose # {}]_gateVars
=============================================================================
