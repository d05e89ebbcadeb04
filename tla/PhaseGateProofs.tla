-------------------------- MODULE PhaseGateProofs --------------------------
(***************************************************************************)
(* For every phase sequence that PhaseSequence accepts: the forced order   *)
(* and the escalation gate hold in every reachable state of a PhaseRun.    *)
(***************************************************************************)
EXTENDS PhaseGate, TLAPS

(* What is entered had its direct requirements run.                        *)
DirectOrder ==
    \A p \in entered \ Escalations : Requires[p] \subseteq Ran

(* The inductive invariant: ForcedOrder follows from it, and unlike        *)
(* ForcedOrder it speaks of one step of the requires relation at a time.   *)
GateInv == GateTypeOK /\ NothingAroundTheGate /\ DirectOrder

\* No phase is entered at first.
LEMMA GateInitInv == GateInit => GateInv
  BY PhaseAssumption
     DEF GateInit, GateInv, GateTypeOK, NothingAroundTheGate, DirectOrder, Ran

\* Entering and recording keep the requirements of entered phases run.
LEMMA GateStepInv == GateInv /\ [GateNext]_gateVars => GateInv'
<1> SUFFICES ASSUME GateInv, [GateNext]_gateVars
             PROVE  GateInv'
  OBVIOUS
<1> USE PhaseAssumption DEF GateInv, GateTypeOK, NothingAroundTheGate, DirectOrder
<1>1. ASSUME NEW p \in Phases, Enter(p)
      PROVE  GateInv'
  BY <1>1 DEF Enter, CanEnter, Ran
<1>2. ASSUME NEW p \in Phases, NEW cites \in SUBSET Phases,
             EnterByProof(p, cites)
      PROVE  GateInv'
  BY <1>2 DEF EnterByProof, Ran
<1>3. ASSUME NEW p \in Phases, EnterByConfirmation(p)
      PROVE  GateInv'
  BY <1>3 DEF EnterByConfirmation, Ran
<1>4. ASSUME NEW p \in Phases, NEW s \in Status, Record(p, s)
      PROVE  GateInv'
  <2>1. GateTypeOK'
    BY <1>4 DEF Record
  <2>2. Ran' = Ran \cup {p}
    BY <1>4 DEF Record, Ran
  <2>3. QED
    BY <1>4, <2>1, <2>2 DEF Record
<1>5. CASE UNCHANGED gateVars
  BY <1>5 DEF gateVars, Ran
<1>6. QED
  BY <1>1, <1>2, <1>3, <1>4, <1>5 DEF GateNext

(* The inductive invariant holds in every reachable state of a PhaseRun.   *)
THEOREM GateInvariant == GateSpec => []GateInv
  BY GateInitInv, GateStepInv, PTL DEF GateSpec

(* Only phases of the sequence are entered, unlocked, confirmed or given   *)
(* an outcome (PhaseRun).                                                  *)
THEOREM GateTypesHold == GateSpec => []GateTypeOK
<1>1. GateInv => GateTypeOK
  BY DEF GateInv
<1>2. QED
  BY <1>1, GateInvariant, PTL

(* Everything below an entered ordinary phase has run: Ran itself is one   *)
(* of the sets Foundation takes the intersection of.                       *)
THEOREM ForcedOrderHolds == GateSpec => []ForcedOrder
<1>1. GateInv => ForcedOrder
  <2> SUFFICES ASSUME GateInv, NEW p \in entered \ Escalations
               PROVE  Foundation(p) \subseteq Ran
    BY DEF ForcedOrder
  <2>1. Ran \in SUBSET Phases
    BY DEF Ran
  <2>2. Requires[p] \subseteq Ran
    BY DEF GateInv, DirectOrder
  <2>3. \A r \in Ran \ Escalations : Requires[r] \subseteq Ran
    BY DEF GateInv, DirectOrder, NothingAroundTheGate
  <2>4. QED
    BY <2>1, <2>2, <2>3 DEF Foundation
<1>2. QED
  BY <1>1, GateInvariant, PTL

(* No outcome without entry, no escalation around its gate.                *)
THEOREM NothingAroundTheGateHolds == GateSpec => []NothingAroundTheGate
<1>1. GateInv => NothingAroundTheGate
  BY DEF GateInv
<1>2. QED
  BY <1>1, GateInvariant, PTL

(* Every unlocking step is justified by a confirmation or by a wall.       *)
THEOREM UnlockIsJustified == GateSpec => UnlockJustified
<1>1. ASSUME GateTypeOK, [GateNext]_gateVars
      PROVE  [\A p \in unlocked' \ unlocked :
                 \/ p \in confirmed'
                 \/ CanEnter(p) /\ CouldNotClose # {}]_gateVars
  <2> SUFFICES ASSUME GateNext, NEW p \in unlocked' \ unlocked
               PROVE  \/ p \in confirmed'
                      \/ CanEnter(p) /\ CouldNotClose # {}
    BY <1>1
  <2>1. CASE \E q \in Phases : Enter(q)
    BY <2>1 DEF Enter
  <2>2. ASSUME NEW q \in Phases, NEW cites \in SUBSET Phases,
               EnterByProof(q, cites)
        PROVE  CanEnter(p) /\ CouldNotClose # {}
    BY <2>2 DEF EnterByProof, ProofAccepted
  <2>3. ASSUME NEW q \in Phases, EnterByConfirmation(q)
        PROVE  p \in confirmed'
    BY <2>3 DEF EnterByConfirmation
  <2>4. CASE \E q \in Phases, s \in Status : Record(q, s)
    BY <2>4 DEF Record
  <2>5. QED
    BY <2>1, <2>2, <2>3, <2>4 DEF GateNext
<1>2. GateInv => GateTypeOK
  BY DEF GateInv
<1>3. QED
  BY <1>1, <1>2, GateInvariant, PTL DEF GateSpec, UnlockJustified
=============================================================================
