----------------------------- MODULE VmpPhases -----------------------------
(***************************************************************************)
(* The VMP route of engine/vmp_phase_api.py as an agent drives it through  *)
(* the RPC table of orchestrators/agent_mode.py: five light phases in a    *)
(* chain, and the full vmtrace behind the escalation gate and a budget.    *)
(* One behaviour is one agent-serve session: the VmpPhaseApi object lives  *)
(* in memory on the Core and is gone when the process ends.                *)
(***************************************************************************)
EXTENDS Naturals

CONSTANTS
    Budgets,   \* the valid VmtraceBudgets an agent may commit
    NoBudget,  \* heavy_budget is None
    NotRun     \* no outcome on record

ASSUME BudgetAssumption == NoBudget \notin Budgets

LightOrder ==
    <<"io_observe", "materialization", "provenance", "induction", "parity">>

Light == {LightOrder[i] : i \in 1..5}
Heavy == "heavy_vmtrace"

(* VMP_PHASE_SEQUENCE: each light phase requires the one before it, the    *)
(* heavy one the three analysis phases.                                    *)
VmpRequires ==
    [p \in Light \cup {Heavy} |->
        IF p = Heavy
        THEN {LightOrder[i] : i \in 1..3}
        ELSE {LightOrder[i] : i \in {j \in 1..4 : LightOrder[j + 1] = p}}]

VmpOrder ==
    [p \in Light \cup {Heavy} |->
        IF p = Heavy THEN 99 ELSE CHOOSE i \in 1..5 : LightOrder[i] = p]

VARIABLES
    outcome, entered, unlocked, confirmed,  \* api.run, a PhaseRun
    heavyBudget                             \* api.heavy_budget

vmpVars == <<outcome, entered, unlocked, confirmed, heavyBudget>>

Gate == INSTANCE PhaseGate WITH
            Phases <- Light \cup {Heavy}, Requires <- VmpRequires,
            Order <- VmpOrder, Escalations <- {Heavy}

(* PhaseStatus has no member that stands for "not recorded".               *)
ASSUME OutcomeAssumption == NotRun \notin Gate!Status

VmpInit == Gate!GateInit /\ heavyBudget = NoBudget

(* phase_1, phase_2, phase_3_watch_producer, phase_4, phase_5: enter, then *)
(* build the artifact the runner fulfils.  A refused artifact (unknown     *)
(* anchor, primitive disabled) leaves the phase entered.                   *)
LightPhase(p) ==
    /\ p \in Light
    /\ Gate!Enter(p)
    /\ UNCHANGED heavyBudget

(* Slip: classify enters provenance without asking the run.                *)
ClassifyEntersAnyway ==
    /\ entered' = entered \cup {"provenance"}
    /\ UNCHANGED <<outcome, unlocked, confirmed, heavyBudget>>

(* phase_3_classify: enters provenance unless the watchpoint call did.     *)
Classify ==
    /\ "provenance" \notin entered
    /\ Gate!Enter("provenance")
    /\ UNCHANGED heavyBudget

(* Slip: the budget is stored first, and stays when the gate refuses.      *)
HeavyByProofBudgetFirst(cites, b) ==
    /\ heavyBudget' = b
    /\ \/ Gate!EnterByProof(Heavy, cites)
       \/ UNCHANGED <<outcome, entered, unlocked, confirmed>>

(* phase_heavy_vmtrace with a proof (or none, once unlocked): a missing or *)
(* invalid budget is refused before the gate is asked, and the budget is   *)
(* committed only when the gate let the call in.                           *)
HeavyByProof(cites, b) ==
    /\ Gate!EnterByProof(Heavy, cites)
    /\ heavyBudget' = b

(* Slip: the human's yes enters the run around PhaseRun.                   *)
HeavyByConfirmationUnrecorded(b) ==
    /\ entered' = entered \cup {Heavy}
    /\ heavyBudget' = b
    /\ UNCHANGED <<outcome, unlocked, confirmed>>

(* phase_heavy_vmtrace with a confirmation.                                *)
HeavyByConfirmation(b) ==
    /\ Gate!EnterByConfirmation(Heavy)
    /\ heavyBudget' = b

(* phase_record.                                                           *)
PhaseRecord(p, s) ==
    /\ Gate!Record(p, s)
    /\ UNCHANGED heavyBudget

VmpNext ==
    \/ \E p \in Light : LightPhase(p)
    \/ Classify
    \/ \E cites \in SUBSET (Light \cup {Heavy}), b \in Budgets :
           HeavyByProof(cites, b)
    \/ \E b \in Budgets : HeavyByConfirmation(b)
    \/ \E p \in Light \cup {Heavy}, s \in Gate!Status : PhaseRecord(p, s)

VmpSpec == VmpInit /\ [][VmpNext]_vmpVars

-----------------------------------------------------------------------------
(* A conscious resource commitment: a budget is on record exactly when the *)
(* full trace was let through the gate.                                    *)
BudgetOnRecord == (Heavy \in entered) <=> (heavyBudget # NoBudget)

(* From light to heavy: no phase of the route is entered past one that     *)
(* left no verdict, whatever was re-recorded, escalated or classified on   *)
(* its own in between; and only the human's yes on record gets to the full *)
(* trace before the analysis phases have one.                              *)
LightToHeavy ==
    /\ \A i \in 1..5 : LightOrder[i] \in entered =>
           \A j \in 1..i - 1 : LightOrder[j] \in Gate!Ran
    /\ Heavy \in entered /\ Heavy \notin confirmed => VmpRequires[Heavy] \subseteq Gate!Ran
=============================================================================
