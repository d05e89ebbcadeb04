-------------------------- MODULE VmpPhasesProofs --------------------------
(***************************************************************************)
(* Theorems about VmpPhases: the order of the route from the light phases  *)
(* to the full trace, and the budget that goes with it.                    *)
(***************************************************************************)
EXTENDS VmpPhases, TLAPS

\* The light phases by name; the full trace is none of them.
LEMMA LightPhases ==
  /\ Light = {"io_observe", "materialization", "provenance", "induction", "parity"}
  /\ Heavy \notin Light
<1>1. Light = {LightOrder[1], LightOrder[2], LightOrder[3], LightOrder[4], LightOrder[5]}
  BY DEF Light
<1>2. /\ LightOrder[1] = "io_observe" /\ LightOrder[2] = "materialization"
      /\ LightOrder[3] = "provenance" /\ LightOrder[4] = "induction"
      /\ LightOrder[5] = "parity"
  BY DEF LightOrder
<1> QED
  BY <1>1, <1>2 DEF Heavy

(* What carries the order: only entered phases have an outcome, and the    *)
(* full trace is entered only once unlocked, by a yes or past the analysis *)
(* phases.                                                                 *)
OrderInv ==
    /\ outcome \in [Light \cup {Heavy} -> Gate!Status \cup {NotRun}]
    /\ Gate!Ran \subseteq entered
    /\ Heavy \in entered => Heavy \in unlocked
    /\ Heavy \in unlocked /\ Heavy \notin confirmed => VmpRequires[Heavy] \subseteq Gate!Ran
    /\ \A i \in 1..5 : LightOrder[i] \in entered =>
           \A j \in 1..i - 1 : LightOrder[j] \in Gate!Ran

\* A phase of the chain requires the one before it.
LEMMA ChainRequires ==
  ASSUME NEW i \in 2..5
  PROVE  LightOrder[i - 1] \in VmpRequires[LightOrder[i]]
<1>1. LightOrder[i] \in Light /\ LightOrder[i] # Heavy
  BY LightPhases DEF Light
<1>2. VmpRequires[LightOrder[i]] = {LightOrder[k] : k \in {j \in 1..4 : LightOrder[j + 1] = LightOrder[i]}}
  BY <1>1 DEF VmpRequires
<1>3. i - 1 \in 1..4 /\ (i - 1) + 1 = i
  OBVIOUS
<1> QED
  BY <1>2, <1>3

\* No two places of the chain hold the same phase.
LEMMA ChainIsInjective ==
  \A i, j \in 1..5 : LightOrder[i] = LightOrder[j] => i = j
BY DEF LightOrder

\* Entering a light phase finds the whole chain below it on record.
LEMMA EnterKeepsOrder ==
  ASSUME OrderInv, NEW p \in Light, Gate!Enter(p)
  PROVE  OrderInv'
<1>1. /\ Gate!CanEnter(p) /\ entered' = entered \cup {p}
      /\ outcome' = outcome /\ unlocked' = unlocked /\ confirmed' = confirmed
      /\ Gate!Ran' = Gate!Ran
  BY DEF Gate!Enter, Gate!Ran
<1>2. Heavy \in entered' => Heavy \in entered
  BY <1>1, LightPhases
<1>3. ASSUME NEW i \in 1..5, LightOrder[i] \in entered', NEW j \in 1..i - 1
      PROVE  LightOrder[j] \in Gate!Ran
  <2>1. CASE LightOrder[i] \in entered
    BY <2>1 DEF OrderInv
  <2>2. CASE LightOrder[i] = p
    <3>1. i \in 2..5 /\ i - 1 \in 1..5
      OBVIOUS
    <3>2. LightOrder[i - 1] \in VmpRequires[p]
      BY <2>2, <3>1, ChainRequires
    <3>3. LightOrder[i - 1] \in Gate!Ran
      BY <1>1, <3>2 DEF Gate!CanEnter
    <3>4. CASE j = i - 1
      BY <3>3, <3>4
    <3>5. CASE j # i - 1
      <4>1. j \in 1..(i - 1) - 1 /\ LightOrder[i - 1] \in entered
        BY <3>3, <3>5 DEF OrderInv
      <4> QED
        BY <3>1, <4>1 DEF OrderInv
    <3> QED
      BY <3>4, <3>5
  <2> QED
    BY <1>1, <1>3, <2>1, <2>2
<1>4. \A i \in 1..5 : LightOrder[i] \in entered' => \A j \in 1..i - 1 : LightOrder[j] \in Gate!Ran
  BY <1>3
<1> QED
  BY <1>1, <1>2, <1>4 DEF OrderInv

\* What is on record is only ever added to.
LEMMA RecordKeepsOrder ==
  ASSUME OrderInv, NEW p \in Light \cup {Heavy}, NEW s \in Gate!Status, Gate!Record(p, s)
  PROVE  OrderInv'
<1>1. /\ p \in entered /\ outcome' = [outcome EXCEPT ![p] = s]
      /\ entered' = entered /\ unlocked' = unlocked /\ confirmed' = confirmed
  BY DEF Gate!Record
<1>2. outcome' \in [Light \cup {Heavy} -> Gate!Status \cup {NotRun}]
  BY <1>1 DEF OrderInv
<1>3. Gate!Ran' = Gate!Ran \cup {p}
  BY <1>1, OutcomeAssumption DEF OrderInv, Gate!Ran
<1> QED
  BY <1>1, <1>2, <1>3 DEF OrderInv

\* The two ways to the full trace.
LEMMA HeavyKeepsOrder ==
  ASSUME OrderInv,
         \/ \E cites : Gate!EnterByProof(Heavy, cites)
         \/ Gate!EnterByConfirmation(Heavy)
  PROVE  OrderInv'
<1>1. /\ entered' = entered \cup {Heavy} /\ unlocked' = unlocked \cup {Heavy}
      /\ outcome' = outcome /\ Gate!Ran' = Gate!Ran
      /\ Heavy \notin confirmed' => Heavy \notin confirmed
  BY DEF Gate!EnterByProof, Gate!EnterByConfirmation, Gate!Ran
<1>2. Heavy \notin confirmed' => VmpRequires[Heavy] \subseteq Gate!Ran
  BY <1>1 DEF OrderInv, Gate!EnterByProof, Gate!EnterByConfirmation, Gate!ProofAccepted, Gate!CanEnter
<1>3. \A i \in 1..5 : LightOrder[i] \in entered' => LightOrder[i] \in entered
  BY <1>1, LightPhases DEF Light
<1> QED
  BY <1>1, <1>2, <1>3 DEF OrderInv

\* Every call of the surface keeps the order.
LEMMA OrderStep == OrderInv /\ [VmpNext]_vmpVars => OrderInv'
<1> SUFFICES ASSUME OrderInv, [VmpNext]_vmpVars PROVE OrderInv'
  OBVIOUS
<1>1. ASSUME NEW p \in Light, LightPhase(p)
      PROVE  OrderInv'
  BY <1>1, EnterKeepsOrder DEF LightPhase
<1>2. CASE Classify
  BY <1>2, EnterKeepsOrder, LightPhases DEF Classify
<1>3. ASSUME NEW cites, NEW b, HeavyByProof(cites, b)
      PROVE  OrderInv'
  BY <1>3, HeavyKeepsOrder DEF HeavyByProof
<1>4. ASSUME NEW b, HeavyByConfirmation(b)
      PROVE  OrderInv'
  BY <1>4, HeavyKeepsOrder DEF HeavyByConfirmation
<1>5. ASSUME NEW p \in Light \cup {Heavy}, NEW s \in Gate!Status, PhaseRecord(p, s)
      PROVE  OrderInv'
  BY <1>5, RecordKeepsOrder DEF PhaseRecord
<1>6. CASE UNCHANGED vmpVars
  BY <1>6 DEF vmpVars, OrderInv, Gate!Ran
<1> QED
  BY <1>1, <1>2, <1>3, <1>4, <1>5, <1>6 DEF VmpNext

(* In every session no phase of the VMP route is entered past one without  *)
(* a verdict, and only a recorded yes reaches the full trace before the    *)
(* analysis phases have theirs (vmp_phase_api.py).                         *)
THEOREM RouteIsLightToHeavy == VmpSpec => []LightToHeavy
<1>1. VmpInit => OrderInv
  BY DEF VmpInit, Gate!GateInit, OrderInv, Gate!Ran
<1>2. OrderInv => LightToHeavy
  BY DEF OrderInv, LightToHeavy
<1> QED
  BY <1>1, <1>2, OrderStep, PTL DEF VmpSpec

\* Every call of the surface stores a budget with the gate or not at all.
LEMMA BudgetStep ==
  BudgetOnRecord /\ [VmpNext]_vmpVars => BudgetOnRecord'
<1> SUFFICES ASSUME BudgetOnRecord, [VmpNext]_vmpVars PROVE BudgetOnRecord'
  OBVIOUS
<1>1. ASSUME NEW p \in Light, Gate!Enter(p), UNCHANGED heavyBudget
      PROVE  BudgetOnRecord'
  BY <1>1, LightPhases DEF Gate!Enter, BudgetOnRecord
<1>2. ASSUME NEW cites, NEW b \in Budgets, HeavyByProof(cites, b)
      PROVE  BudgetOnRecord'
  BY <1>2, BudgetAssumption DEF HeavyByProof, Gate!EnterByProof, BudgetOnRecord
<1>3. ASSUME NEW b \in Budgets, HeavyByConfirmation(b)
      PROVE  BudgetOnRecord'
  BY <1>3, BudgetAssumption DEF HeavyByConfirmation, Gate!EnterByConfirmation, BudgetOnRecord
<1>4. ASSUME NEW p, NEW s, PhaseRecord(p, s)
      PROVE  BudgetOnRecord'
  BY <1>4 DEF PhaseRecord, Gate!Record, BudgetOnRecord
<1>5. CASE UNCHANGED vmpVars
  BY <1>5 DEF vmpVars, BudgetOnRecord
<1> QED
  BY <1>1, <1>2, <1>3, <1>4, <1>5, LightPhases DEF VmpNext, LightPhase, Classify

(* For every set of budgets: a budget is on record exactly when the full   *)
(* trace was let through the gate (phase_heavy_vmtrace).                   *)
THEOREM BudgetGoesWithTheGate == VmpSpec => []BudgetOnRecord
<1>1. VmpInit => BudgetOnRecord
  BY DEF VmpInit, Gate!GateInit, BudgetOnRecord
<1> QED
  BY <1>1, BudgetStep, PTL DEF VmpSpec

=============================================================================
