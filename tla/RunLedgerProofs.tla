-------------------------- MODULE RunLedgerProofs --------------------------
(***************************************************************************)
(* For every set of claims, every verifier and every bound: one Core over  *)
(* a run directory, crashes included, keeps the ledger well typed, inserts *)
(* findings only for hypotheses that are passed, and implements the        *)
(* abstract ledger.                                                        *)
(***************************************************************************)
EXTENDS RunLedger, FiniteSetTheorems, TLAPS

-----------------------------------------------------------------------------
(* How the two writes of the hypotheses table change it.                   *)

\* A new hypothesis is a row at the end and changes no other.
LEMMA AddHypGrows ==
    ASSUME hyps \in Seq(HypRow), NEW parent, NEW c \in Claims,
           NEW stage \in CreatedIn, AddHyp(parent, c, stage)
    PROVE  /\ hyps' \in Seq(HypRow)
           /\ Len(hyps') = Len(hyps) + 1
           /\ HypIds \subseteq HypIds'
           /\ Len(hyps) + 1 \in HypIds'
           /\ \A h \in HypIds : hyps'[h] = hyps[h]
<1> DEFINE d == IF parent = 0 THEN 0 ELSE hyps[parent].depth + 1
           row == [parent |-> parent, depth |-> d, status |-> "pending",
                   claim |-> c, stage |-> stage]
<1> HIDE DEF row
<1>0. parent \in HypIds \cup {0}
  BY DEF AddHyp
<1>1. d \in Nat /\ parent \in Nat
  <2>1. parent # 0 => hyps[parent] \in HypRow
    BY <1>0 DEF HypIds
  <2>2. QED
    BY <1>0, <2>1 DEF HypIds, HypRow
<1>2. row \in HypRow
  BY <1>1 DEF row, HypRow, HypStatus
<1>3. hyps' = Append(hyps, row)
  BY DEF AddHyp, row
<1>4. QED
  BY <1>2, <1>3 DEF HypIds

\* A verdict changes the status of one row and nothing else.
LEMMA SetStatusKeeps ==
    ASSUME hyps \in Seq(HypRow), NEW h \in HypIds, NEW s \in HypStatus,
           SetStatus(h, s)
    PROVE  /\ hyps' \in Seq(HypRow)
           /\ Len(hyps') = Len(hyps)
           /\ HypIds' = HypIds
           /\ \A g \in HypIds :
                 hyps'[g].status = IF g = h THEN s ELSE hyps[g].status
<1> DEFINE row == [hyps[h] EXCEPT !.status = s]
<1>1. hyps[h] \in HypRow
  BY DEF HypIds
<1>2. row \in HypRow /\ row.status = s
  BY <1>1 DEF HypRow
<1>3. hyps' = [hyps EXCEPT ![h] = row]
  BY DEF SetStatus
<1> HIDE DEF row
<1>4. hyps' \in Seq(HypRow) /\ Len(hyps') = Len(hyps)
  BY <1>2, <1>3 DEF HypIds
<1>5. HypIds' = HypIds
  BY <1>4 DEF HypIds
<1>6. \A g \in HypIds : hyps'[g] = IF g = h THEN row ELSE hyps[g]
  BY <1>3 DEF HypIds
<1>7. QED
  BY <1>2, <1>4, <1>5, <1>6

\* Every row is of a claim.
LEMMA ClaimOfRow ==
    ASSUME hyps \in Seq(HypRow), NEW h \in HypIds PROVE hyps[h].claim \in Claims
<1>1. hyps[h] \in HypRow
  BY DEF HypIds
<1>2. QED
  BY <1>1 DEF HypRow

(* Every verdict is stored as a status.                                    *)
LEMMA VerdictStatus ==
    ASSUME NEW v \in DOMAIN StatusOf PROVE StatusOf[v] \in HypStatus
  BY DEF StatusOf, HypStatus

\* Every verdict has a status.
LEMMA VerdictOfClaim ==
    ASSUME NEW c \in Claims PROVE StatusOf[Verdict[c]] \in HypStatus
  BY LedgerAssumption, VerdictStatus

-----------------------------------------------------------------------------
(* The inductive invariant.  Types alone are not inductive: a pass pops    *)
(* its list, so the list is not empty while it works; cur names a row      *)
(* where it is used as one; and what Insert and DeleteFindings rely on was *)
(* established by an earlier commit of the same method and no step of the  *)
(* Core undoes it in between.                                              *)

Working == {"verify", "scan", "mark", "promote", "insert", "link"}

AtWork == pc \in Working => passes # <<>>

CurIsRow == pc \in {"mark", "insert", "record"} => cur \in HypIds

InsertPassed == pc = "insert" => hyps[cur].status = "passed"

FreshIds == \A f \in findings : f.id < nextFinding

DoomedAbandoned ==
    pc = "delete" => \A h \in doomed : hyps[h].status = "abandoned"

LedgerInv ==
    /\ LedgerTypeOK
    /\ AtWork /\ CurIsRow /\ InsertPassed /\ FreshIds /\ DoomedAbandoned

\* A fresh run directory satisfies the invariant.
LEMMA LedgerInitInv == LedgerInit => LedgerInv
<1> SUFFICES ASSUME LedgerInit PROVE LedgerInv
  OBVIOUS
<1>1. hyps \in Seq(HypRow) /\ passes \in Seq(PassNames)
  BY DEF LedgerInit
<1>2. LedgerTypeOK
  BY <1>1 DEF LedgerInit, LedgerTypeOK
<1>3. QED
  BY <1>2 DEF LedgerInit, LedgerInv, AtWork, CurIsRow, InsertPassed,
              FreshIds, DoomedAbandoned, Working

(* The steps that seed the run or start a method.                          *)
LEMMA BeginInv ==
    ASSUME LedgerInv, SeedStart \/ SeedStep \/ BeginPass \/ BeginS6
    PROVE  LedgerInv'
<1> USE LedgerAssumption
    DEF LedgerInv, LedgerTypeOK, AtWork, CurIsRow, InsertPassed, FreshIds,
        DoomedAbandoned, Working, tables, work, tags
<1>1. CASE SeedStart
  BY <1>1 DEF SeedStart, HypIds, Claims
<1>2. ASSUME NEW c \in Fingerprints, SeedOne(c)
      PROVE  LedgerInv'
  <2>1. c \in Claims /\ "s1b" \in CreatedIn
    BY DEF Claims, CreatedIn
  <2>2. /\ hyps' \in Seq(HypRow)
        /\ HypIds \subseteq HypIds'
        /\ \A h \in HypIds : hyps'[h] = hyps[h]
    BY <1>2, <2>1, AddHypGrows DEF SeedOne
  <2>3. QED
    BY <1>2, <2>2 DEF SeedOne
<1>3. CASE SeedDone
  BY <1>3 DEF SeedDone, Return, ClearWork, HypIds
<1>4. ASSUME NEW p \in {"plugin", "handler", "algorithm"}, StartPass(p)
      PROVE  LedgerInv'
  BY <1>4 DEF StartPass, PassNames, HypIds
<1>5. ASSUME NEW list \in PassLists, StartBatch(list)
      PROVE  LedgerInv'
  BY <1>5 DEF StartBatch, HypIds
<1>6. ASSUME NEW parent \in HypIds \cup {0}, NEW cands \in SUBSET Guesses,
             NEW pass \in {"s6", "s6_auto"}, StartS6(parent, cands, pass)
      PROVE  LedgerInv'
  BY <1>6 DEF StartS6, PassNames, HypIds, Claims
<1>7. ASSUME NEW h \in HypIds, StartPromote(h)
      PROVE  LedgerInv'
  BY <1>7 DEF StartPromote, PassNames, HypIds
<1>8. QED
  BY <1>1, <1>2, <1>3, <1>4, <1>5, <1>6, <1>7 DEF SeedStep, BeginPass, BeginS6

(* The steps of a pass.                                                    *)
LEMMA PassInv ==
    ASSUME LedgerInv, PassStep
    PROVE  LedgerInv'
<1> USE DEF LedgerInv, LedgerTypeOK, AtWork, CurIsRow, InsertPassed, FreshIds,
        DoomedAbandoned, Working, tables, work, tags
<1>1. CASE BeginPlugin
  BY <1>1 DEF BeginPlugin, HypIds
<1>2. CASE BeginHandler
  BY <1>2 DEF BeginHandler, HypIds, Claims
<1>3. CASE BeginAlgorithm
  BY <1>3 DEF BeginAlgorithm, HypIds, Claims
<1>4. ASSUME NEW h \in queue, Verify(h)
      PROVE  LedgerInv'
  <2>1. hyps[h].claim \in Claims
    BY ClaimOfRow
  <2>2. /\ hyps' \in Seq(HypRow)
        /\ HypIds' = HypIds
    BY <1>4, <2>1, VerdictOfClaim, SetStatusKeeps DEF Verify
  <2>3. QED
    BY <1>4, <2>2 DEF Verify
<1>5. CASE VerifyDone
  BY <1>5 DEF VerifyDone, HypIds
<1>6. ASSUME NEW c \in claims, ScanOne(c)
      PROVE  LedgerInv'
  <2> DEFINE stage == IF Head(passes) \in {"s6", "s6_auto"} THEN "s6" ELSE "none"
  <2>1. c \in Claims /\ stage \in CreatedIn /\ AddHyp(under, c, stage)
    BY <1>6 DEF ScanOne, CreatedIn
  <2> HIDE DEF stage
  <2>2. /\ hyps' \in Seq(HypRow)
        /\ HypIds \subseteq HypIds'
        /\ Len(hyps) + 1 \in HypIds'
    BY <2>1, AddHypGrows
  <2>3. QED
    BY <1>6, <2>2 DEF ScanOne
<1>7. CASE Mark
  <2>1. cur \in HypIds /\ hyps[cur].claim \in Claims
    BY <1>7, ClaimOfRow DEF Mark
  <2>2. /\ hyps' \in Seq(HypRow)
        /\ HypIds' = HypIds
    BY <1>7, <2>1, VerdictOfClaim, SetStatusKeeps DEF Mark
  <2>3. QED
    BY <1>7, <2>1, <2>2 DEF Mark
<1>8. CASE ScanDone
  BY <1>8 DEF ScanDone, HypIds
<1>9. ASSUME NEW h \in won, PromoteRead(h)
      PROVE  LedgerInv'
  BY <1>9 DEF PromoteRead, HypIds
<1>10. CASE Insert
  <2> DEFINE new == [id |-> nextFinding, origin |-> cur, batch |-> batch]
  <2>1. new \in [id : Nat, origin : HypIds \cup {0}, batch : Nat]
    OBVIOUS
  <2>2. new.id = nextFinding
    OBVIOUS
  <2>3. findings' = findings \cup {new}
    BY <1>10 DEF Insert
  <2> HIDE DEF new
  <2>4. findings' \subseteq [id : Nat, origin : HypIds \cup {0}, batch : Nat]
    BY <2>1, <2>3
  <2>5. \A f \in findings' : f.id < nextFinding'
    BY <1>10, <2>2, <2>3 DEF Insert
  <2>6. pc' \in {"link", "promote"}
    BY <1>10 DEF Insert
  <2>7. QED
    BY <1>10, <2>4, <2>5, <2>6 DEF Insert, HypIds
<1>11. CASE Link
  <2>1. nextFinding > 0 \/ Anchors = {}
    BY DEF Anchors
  <2>2. groups' \subseteq Nat \X Nat
    BY <1>11, <2>1 DEF Link, Anchors
  <2>3. QED
    BY <1>11, <2>2 DEF Link, HypIds
<1>12. CASE PromoteDone
  <2>1. passes' \in Seq(PassNames)
    BY <1>12 DEF PromoteDone
  <2>2. pc' \in Working => passes' # <<>>
    BY <1>12 DEF PromoteDone
  <2>3. pc' \in {"scan", "pass"}
    BY <1>12 DEF PromoteDone
  <2>4. QED
    BY <1>12, <2>1, <2>2, <2>3 DEF PromoteDone, HypIds
<1>13. CASE PassRaises
  BY <1>13 DEF PassRaises, HypIds
<1>14. CASE PassesDone
  BY <1>14 DEF PassesDone, Return, ClearWork, HypIds
<1>15. QED
  BY <1>1, <1>2, <1>3, <1>4, <1>5, <1>6, <1>7, <1>8, <1>9, <1>10, <1>11,
     <1>12, <1>13, <1>14 DEF PassStep

(* What an intervention is going to flip is typed.                         *)
FlipRow == [hyp : HypIds, to : HypStatus, lazy : BOOLEAN]

\* The flips of an intervention are rows of their table.
LEMMA FlipTyped ==
    ASSUME NEW h \in HypIds, NEW to \in HypStatus, NEW lazy \in BOOLEAN
    PROVE  [hyp |-> h, to |-> to, lazy |-> lazy] \in FlipRow
  BY DEF FlipRow

\* Setting up flips keeps the invariant.
LEMMA FlipsOfWork ==
    ASSUME NEW F, F \subseteq FlipRow, LedgerInv, StartFlips(F)
    PROVE  LedgerInv'
  BY DEF StartFlips, FlipRow, HypIds, LedgerInv, LedgerTypeOK, AtWork, CurIsRow,
         InsertPassed, FreshIds, DoomedAbandoned, Working, tables, work, tags

\* So does every method that begins by setting them up.
LEMMA StartFlipsInv ==
    ASSUME LedgerInv,
           \/ \E H \in SUBSET HypIds, v \in DOMAIN StatusOf : OverrideVerdict(H, v)
           \/ \E h \in HypIds, s \in ForcedTo : ForceStatus(h, s)
           \/ \E b \in 1..(nextBatch - 1) : DiscardBatch(b)
           \/ \E f \in findings : InvalidateCluster(f)
    PROVE  LedgerInv'
<1>0. \A f \in findings : f.origin \in HypIds \cup {0}
  BY DEF LedgerInv, LedgerTypeOK
<1>1. ASSUME NEW H \in SUBSET HypIds, NEW v \in DOMAIN StatusOf,
             OverrideVerdict(H, v)
      PROVE  LedgerInv'
  <2> DEFINE F == {[hyp |-> h, to |-> StatusOf[v], lazy |-> FALSE] : h \in H}
  <2>1. F \subseteq FlipRow
    <3>1. StatusOf[v] \in HypStatus /\ FALSE \in BOOLEAN
      BY VerdictStatus
    <3>2. \A h \in H : [hyp |-> h, to |-> StatusOf[v], lazy |-> FALSE] \in FlipRow
      BY <3>1, FlipTyped
    <3>3. QED
      BY <3>2
  <2>2. StartFlips(F)
    BY <1>1 DEF OverrideVerdict
  <2> HIDE DEF F
  <2>3. QED
    BY <2>1, <2>2, FlipsOfWork
<1>2. ASSUME NEW h \in HypIds, NEW s \in ForcedTo, ForceStatus(h, s)
      PROVE  LedgerInv'
  <2> DEFINE F == {[hyp |-> h, to |-> s, lazy |-> FALSE]}
  <2>1. F \subseteq FlipRow
    BY LedgerAssumption DEF FlipRow
  <2>2. StartFlips(F)
    BY <1>2 DEF ForceStatus
  <2> HIDE DEF F
  <2>3. QED
    BY <2>1, <2>2, FlipsOfWork
<1>3. ASSUME NEW b \in 1..(nextBatch - 1), DiscardBatch(b)
      PROVE  LedgerInv'
  <2> DEFINE F == {[hyp |-> f.origin, to |-> "failed", lazy |-> FALSE] :
                      f \in {g \in findings : g.batch = b /\ g.origin # 0}}
  <2>1. F \subseteq FlipRow
    <3>1. "failed" \in HypStatus /\ FALSE \in BOOLEAN
      BY DEF HypStatus
    <3>2. \A f \in {g \in findings : g.batch = b /\ g.origin # 0} :
             [hyp |-> f.origin, to |-> "failed", lazy |-> FALSE] \in FlipRow
      BY <1>0, <3>1, FlipTyped
    <3>3. QED
      BY <3>2
  <2>2. StartFlips(F)
    BY <1>3 DEF DiscardBatch
  <2> HIDE DEF F
  <2>3. QED
    BY <2>1, <2>2, FlipsOfWork
<1>4. ASSUME NEW f \in findings, InvalidateCluster(f)
      PROVE  LedgerInv'
  <2> DEFINE P == {[hyp |-> g.origin, to |-> "failed", lazy |-> TRUE] :
                      g \in {f} \ {x \in findings : x.origin = 0}}
             M == {[hyp |-> m.origin, to |-> "pending", lazy |-> TRUE] :
                      m \in {x \in Members(f) : x.origin # 0}}
  <2>0. /\ "failed" \in HypStatus /\ "pending" \in HypStatus
        /\ TRUE \in BOOLEAN
    BY DEF HypStatus
  <2>1. P \subseteq FlipRow
    <3>1. \A g \in {f} \ {x \in findings : x.origin = 0} :
             [hyp |-> g.origin, to |-> "failed", lazy |-> TRUE] \in FlipRow
      BY <1>0, <2>0, FlipTyped
    <3>2. QED
      BY <3>1
  <2>2. M \subseteq FlipRow
    <3>1. \A m \in {x \in Members(f) : x.origin # 0} :
             [hyp |-> m.origin, to |-> "pending", lazy |-> TRUE] \in FlipRow
      BY <1>0, <2>0, FlipTyped DEF Members
    <3>2. QED
      BY <3>1
  <2>3. StartFlips(P \cup M)
    BY <1>4 DEF InvalidateCluster
  <2> HIDE DEF P, M
  <2>4. QED
    BY <2>1, <2>2, <2>3, FlipsOfWork
<1>5. QED
  BY <1>1, <1>2, <1>3, <1>4

(* The steps of the interventions and of a rerun.                          *)
LEMMA InterventionInv ==
    ASSUME LedgerInv, BeginIntervention \/ BeginRerun \/ InterventionStep
    PROVE  LedgerInv'
<1>1. CASE \/ \E H \in SUBSET HypIds, v \in DOMAIN StatusOf : OverrideVerdict(H, v)
           \/ \E h \in HypIds, s \in ForcedTo : ForceStatus(h, s)
           \/ \E b \in 1..(nextBatch - 1) : DiscardBatch(b)
           \/ \E f \in findings : InvalidateCluster(f)
  BY <1>1, StartFlipsInv
<1> USE DEF LedgerInv, LedgerTypeOK, AtWork, CurIsRow, InsertPassed, FreshIds,
        DoomedAbandoned, Working, tables, work, tags
<1>2. ASSUME NEW parent \in HypIds \cup {0}, NEW c \in Guesses, Submit(parent, c)
      PROVE  LedgerInv'
  <2>1. c \in Claims /\ "none" \in CreatedIn
    BY DEF Claims, CreatedIn
  <2>2. /\ hyps' \in Seq(HypRow)
        /\ HypIds \subseteq HypIds'
        /\ \A h \in HypIds : hyps'[h] = hyps[h]
    BY <1>2, <2>1, AddHypGrows DEF Submit
  <2>3. QED
    BY <1>2, <2>2 DEF Submit
<1>7. CASE InjectFinding
  <2> DEFINE new == [id |-> nextFinding, origin |-> 0, batch |-> 0]
  <2>1. new \in [id : Nat, origin : HypIds \cup {0}, batch : Nat]
    OBVIOUS
  <2>2. new.id = nextFinding
    OBVIOUS
  <2>3. findings' = findings \cup {new}
    BY <1>7 DEF InjectFinding
  <2> HIDE DEF new
  <2>4. findings' \subseteq [id : Nat, origin : HypIds \cup {0}, batch : Nat]
    BY <2>1, <2>3
  <2>5. \A f \in findings' : f.id < nextFinding'
    BY <1>7, <2>2, <2>3 DEF InjectFinding
  <2>6. QED
    BY <1>7, <2>4, <2>5 DEF InjectFinding, HypIds
<1>8. ASSUME NEW f \in flips, Flip(f)
      PROVE  LedgerInv'
  <2>1. f.hyp \in HypIds /\ f.to \in HypStatus
    OBVIOUS
  <2>2. CASE f.lazy /\ hyps[f.hyp].status = f.to
    BY <1>8, <2>2 DEF Flip, HypIds
  <2>3. CASE ~(f.lazy /\ hyps[f.hyp].status = f.to)
    <3>1. /\ hyps' \in Seq(HypRow)
          /\ HypIds' = HypIds
      BY <1>8, <2>1, <2>3, SetStatusKeeps DEF Flip
    <3>2. /\ flips' = flips \ {f} /\ cur' = f.hyp /\ pc' = "record"
          /\ unlogged' = unlogged \cup {<<"core", "hyp", f.hyp>>}
          /\ UNCHANGED <<findings, nextFinding, groups, seeded, passes, claims,
                         queue, won, doomed, under, tags, cli, faults>>
      BY <1>8, <2>3 DEF Flip
    <3>3. f.hyp \in Nat
      BY <2>1 DEF HypIds
    <3>4. unlogged' \subseteq {"core", "cli"} \X {"hyp", "finding"} \X Nat
      BY <3>2, <3>3
    <3>5. QED
      BY <2>1, <3>1, <3>2, <3>4
  <2>4. QED
    BY <2>2, <2>3
<1>9. CASE Record
  BY <1>9 DEF Record, HypIds
<1>10. CASE FlipsDone
  BY <1>10 DEF FlipsDone, Return, ClearWork, HypIds
<1>11. CASE RecordFinding
  BY <1>11 DEF RecordFinding, Return, ClearWork, HypIds
<1>12. ASSUME NEW stage, Rerun(stage)
       PROVE  LedgerInv'
  BY <1>12 DEF Rerun, HypIds
<1>13. CASE Abandon
  <2>0. \A h \in HypIds : hyps[h] \in HypRow
    BY DEF HypIds
  <2>1. \A h \in HypIds : /\ hyps[h] \in HypRow
                          /\ [hyps[h] EXCEPT !.status = "abandoned"] \in HypRow
    BY <2>0 DEF HypRow, HypStatus
  <2>2. hyps' \in [HypIds -> HypRow]
    BY <1>13, <2>1 DEF Abandon
  <2>3. hyps' \in Seq(HypRow) /\ HypIds' = HypIds
    BY <2>2 DEF HypIds
  <2>4. \A h \in doomed : hyps'[h].status = "abandoned"
    BY <1>13, <2>1 DEF Abandon, HypRow
  <2>5. unlogged' \subseteq {"core", "cli"} \X {"hyp", "finding"} \X Nat
    BY <1>13 DEF Abandon, HypIds
  <2>6. QED
    BY <1>13, <2>3, <2>4, <2>5 DEF Abandon
<1>14. CASE DeleteFindings
  BY <1>14 DEF DeleteFindings, HypIds
<1>15. CASE DeleteRefused
  BY <1>15 DEF DeleteRefused, Return, ClearWork, HypIds
<1>16. CASE RecordRerun
  BY <1>16 DEF RecordRerun, Return, ClearWork, HypIds
<1>17. QED
  BY <1>1, <1>2, <1>7, <1>8, <1>9, <1>10, <1>11, <1>12, <1>13, <1>14,
     <1>15, <1>16
     DEF BeginIntervention, BeginRerun, InterventionStep

\* Every commit of one Core keeps the invariant.
LEMMA LedgerStepInv == LedgerInv /\ [CoreNext]_vars => LedgerInv'
<1> SUFFICES ASSUME LedgerInv, [CoreNext]_vars PROVE LedgerInv'
  OBVIOUS
<1>1. CASE Crash
  BY <1>1 DEF Crash, Return, ClearWork, LedgerInv, LedgerTypeOK, AtWork,
     CurIsRow, InsertPassed, FreshIds, DoomedAbandoned, Working, HypIds,
     tables, work, tags
<1>2. CASE UNCHANGED vars
  BY <1>2 DEF vars, LedgerInv, LedgerTypeOK, AtWork,
     CurIsRow, InsertPassed, FreshIds, DoomedAbandoned, Working, HypIds,
     tables, work, tags
<1>3. QED
  BY <1>1, <1>2, BeginInv, PassInv, InterventionInv DEF CoreNext

(* The Core keeps its tables and its working state well typed.             *)
THEOREM LedgerTypesHold == CoreSpec => []LedgerTypeOK
<1>1. LedgerInv => LedgerTypeOK
  BY DEF LedgerInv
<1>2. QED
  BY <1>1, LedgerInitInv, LedgerStepInv, PTL DEF CoreSpec

(* Findings come from a promotion or from the hand of the agent only.      *)
LEMMA OnlyTwoInsert ==
    ASSUME CoreNext PROVE Insert \/ InjectFinding \/ findings' \subseteq findings
<1> USE DEF tables, work, tags, Return
<1>1. CASE SeedStart \/ SeedStep \/ BeginPass \/ BeginS6 \/ Crash
  BY <1>1 DEF SeedStart, SeedStep, SeedOne, SeedDone, BeginPass, StartPass,
     StartBatch, BeginS6, StartS6, StartPromote, Crash
<1>2. CASE PassStep
  BY <1>2 DEF PassStep, BeginPlugin, BeginHandler, BeginAlgorithm, Verify,
     VerifyDone, ScanOne, Mark, ScanDone, PromoteRead, Link, PromoteDone,
     PassRaises, PassesDone
<1>3. CASE BeginIntervention \/ BeginRerun
  BY <1>3 DEF BeginIntervention, Submit, OverrideVerdict, ForceStatus,
     DiscardBatch, InvalidateCluster, StartFlips, BeginRerun, Rerun
<1>4. CASE InterventionStep
  BY <1>4 DEF InterventionStep, Flip, Record, FlipsDone, RecordFinding,
     Abandon, DeleteFindings, DeleteRefused, RecordRerun
<1>5. QED
  BY <1>1, <1>2, <1>3, <1>4 DEF CoreNext

(* A finding with a hypothesis behind it is inserted only while that       *)
(* hypothesis is passed: what promote_to_finding read on one connection    *)
(* still stands when it inserts on the other.                              *)
THEOREM PromotedWhilePassedHolds == CoreSpec => PromotedWhilePassed
<1> DEFINE Justified ==
        \A f \in findings' \ findings :
            f.origin # 0 => hyps[f.origin].status = "passed"
<1>1. LedgerInv /\ [CoreNext]_vars => [Justified]_vars
  <2> SUFFICES ASSUME LedgerInv, CoreNext PROVE Justified
    BY DEF vars
  <2>1. CASE Insert
    BY <2>1 DEF Insert, LedgerInv, InsertPassed
  <2>2. CASE InjectFinding
    BY <2>2 DEF InjectFinding
  <2>3. CASE findings' \subseteq findings
    BY <2>3
  <2>4. QED
    BY <2>1, <2>2, <2>3, OnlyTwoInsert
<1>2. QED
  BY <1>1, LedgerInitInv, LedgerStepInv, PTL DEF CoreSpec, PromotedWhilePassed

-----------------------------------------------------------------------------
(* finding_groups, with the override command of other processes running.   *)

(* While the links of an algorithm finding are still to be written, that   *)
(* finding is the newest one and nothing has removed it.                   *)
NewestIsThere ==
    /\ nextFinding \in Nat
    /\ pc = "link" => \E f \in findings : f.id = nextFinding - 1

GroupsInv == GroupsResolve /\ NewestIsThere

(* Every other step leaves the findings and their groups alone.            *)
LEMMA FourTouchFindings ==
    ASSUME CoreNext \/ Cli
    PROVE  \/ Insert \/ InjectFinding \/ Link \/ DeleteFindings
           \/ UNCHANGED <<findings, nextFinding, groups>> /\ (pc' = "link" => pc = "link")
<1> USE DEF tables, work, tags, Return
<1>1. CASE SeedStart \/ SeedStep \/ BeginPass \/ BeginS6 \/ Crash \/ Cli
  BY <1>1 DEF SeedStart, SeedStep, SeedOne, SeedDone, BeginPass, StartPass,
     StartBatch, BeginS6, StartS6, StartPromote, Crash, Cli, CliOverride,
     CliLog, CliDies
<1>2. CASE PassStep
  BY <1>2 DEF PassStep, BeginPlugin, BeginHandler, BeginAlgorithm, Verify,
     VerifyDone, ScanOne, Mark, ScanDone, PromoteRead, PromoteDone,
     PassRaises, PassesDone
<1>3. CASE BeginIntervention \/ BeginRerun
  BY <1>3 DEF BeginIntervention, Submit, OverrideVerdict, ForceStatus,
     DiscardBatch, InvalidateCluster, StartFlips, BeginRerun, Rerun
<1>4. CASE InterventionStep
  BY <1>4 DEF InterventionStep, Flip, Record, FlipsDone, RecordFinding,
     Abandon, DeleteRefused, RecordRerun
<1>5. QED
  BY <1>1, <1>2, <1>3, <1>4 DEF CoreNext

\* No commit, of the Core or of the command, leaves a link dangling.
LEMMA GroupsStepInv == GroupsInv /\ [CoreNext \/ Cli]_vars => GroupsInv'
<1> SUFFICES ASSUME GroupsInv, [CoreNext \/ Cli]_vars PROVE GroupsInv'
  OBVIOUS
<1> USE DEF GroupsInv, GroupsResolve, NewestIsThere
<1>1. CASE Insert
  <2> DEFINE new == [id |-> nextFinding, origin |-> cur, batch |-> batch]
  <2>1. new \in findings' /\ new.id = nextFinding' - 1 /\ findings \subseteq findings'
    BY <1>1 DEF Insert
  <2> HIDE DEF new
  <2>2. QED
    BY <1>1, <2>1 DEF Insert
<1>2. CASE InjectFinding
  BY <1>2 DEF InjectFinding
<1>3. CASE Link
  <2>1. PICK p \in findings : p.id = nextFinding - 1
    BY <1>3 DEF Link
  <2>2. \A g \in groups' \ groups :
           \E m \in findings : g[1] = p.id /\ g[2] = m.id
    BY <1>3, <2>1 DEF Link, Anchors
  <2>3. QED
    BY <1>3, <2>2 DEF Link
<1>4. CASE DeleteFindings
  <2>1. \A f \in findings : Referenced(f) => f \in findings'
    BY <1>4 DEF DeleteFindings
  <2>2. QED
    BY <1>4, <2>1 DEF DeleteFindings, Referenced
<1>5. CASE UNCHANGED <<findings, nextFinding, groups>> /\ (pc' = "link" => pc = "link")
  BY <1>5
<1>6. CASE UNCHANGED vars
  BY <1>6 DEF vars, tables
<1>7. QED
  BY <1>1, <1>2, <1>3, <1>4, <1>5, <1>6, FourTouchFindings

(* A link of finding_groups never points at a finding that is gone: no     *)
(* rerun, whatever the override command does meanwhile and wherever a      *)
(* process dies, takes an anchor away from under a fitted algorithm.       *)
THEOREM GroupsResolveHolds == SharedSpec => []GroupsResolve
<1>1. LedgerInit => GroupsInv
  BY DEF LedgerInit, GroupsInv, GroupsResolve, NewestIsThere
<1>2. GroupsInv => GroupsResolve
  BY DEF GroupsInv
<1>3. QED
  BY <1>1, <1>2, GroupsStepInv, PTL DEF SharedSpec

(* The rows somebody is still going to write belong to the method that is  *)
(* under way: a step that starts none and ends none leaves them alone.     *)
LEMMA RowsStayOwed ==
    ASSUME nextFinding \in Nat, CoreNext \/ Cli
    PROVE  \/ unlogged' \ RowComing' \subseteq unlogged \ RowComing
           \/ Crash \/ CliDies \/ DeleteRefused
<1> USE DEF tables, work, tags, RowComing
<1>1. CASE SeedStart \/ SeedStep
  BY <1>1 DEF SeedStart, SeedStep, SeedOne, SeedDone, Return
<1>2. CASE BeginPass \/ BeginS6
  BY <1>2 DEF BeginPass, StartPass, StartBatch, BeginS6, StartS6, StartPromote
<1>3. CASE Cli
  <2>1. 0 \notin HypIds
    BY DEF HypIds
  <2>2. ASSUME NEW h \in HypIds, NEW v \in DOMAIN StatusOf, CliOverride(h, v)
        PROVE  unlogged' \ RowComing' \subseteq unlogged \ RowComing
    BY <2>1, <2>2 DEF CliOverride
  <2>3. CASE CliLog
    BY <2>3 DEF CliLog
  <2>4. QED
    BY <1>3, <2>2, <2>3 DEF Cli
<1>4. CASE PassStep
  BY <1>4 DEF PassStep, BeginPlugin, BeginHandler, BeginAlgorithm, Verify,
     VerifyDone, ScanOne, Mark, ScanDone, PromoteRead, Insert, Link, PromoteDone,
     PassRaises, PassesDone, Return
<1>5. CASE BeginIntervention \/ BeginRerun
  <2>1. CASE InjectFinding
    BY <2>1 DEF InjectFinding
  <2>2. QED
    BY <1>5, <2>1 DEF BeginIntervention, Submit, OverrideVerdict, ForceStatus,
       DiscardBatch, InvalidateCluster, StartFlips, BeginRerun, Rerun
<1>6. CASE InterventionStep
  BY <1>6 DEF InterventionStep, Flip, Record, FlipsDone, RecordFinding,
     Abandon, DeleteFindings, RecordRerun, Return
<1>7. QED
  BY <1>1, <1>2, <1>3, <1>4, <1>5, <1>6 DEF CoreNext

(* A manual write is orphaned of its interventions row only by a death in  *)
(* between or by the refused DELETE of a rerun.                            *)
THEOREM OnlyAFaultLosesARowHolds == SharedSpec => OnlyAFaultLosesARow
<1>1. GroupsInv /\ [CoreNext \/ Cli]_vars
      => [unlogged' \ RowComing' \subseteq unlogged \ RowComing
            \/ Crash \/ CliDies \/ DeleteRefused]_vars
  BY RowsStayOwed DEF GroupsInv, NewestIsThere
<1>2. LedgerInit => GroupsInv
  BY DEF LedgerInit, GroupsInv, GroupsResolve, NewestIsThere
<1>3. QED
  BY <1>1, <1>2, GroupsStepInv, PTL DEF SharedSpec, OnlyAFaultLosesARow

(* preprocess_batch's tag is not there while no pass runs, so nothing that *)
(* is promoted by hand is in a batch.                                      *)
THEOREM BatchTagScopedHolds == SharedSpec => []BatchTagScoped
<1>1. LedgerInit => BatchTagScoped
  BY DEF LedgerInit, BatchTagScoped
<1>2. BatchTagScoped /\ [CoreNext \/ Cli]_vars => BatchTagScoped'
  <2> SUFFICES ASSUME BatchTagScoped, [CoreNext \/ Cli]_vars
               PROVE  BatchTagScoped'
    OBVIOUS
  <2> USE DEF tables, work, tags, BatchTagScoped, Return
  <2>1. CASE SeedStart \/ SeedStep \/ BeginPass \/ BeginS6 \/ Crash \/ Cli
    BY <2>1 DEF SeedStart, SeedStep, SeedOne, SeedDone, BeginPass, StartPass,
       StartBatch, BeginS6, StartS6, StartPromote, Crash, Cli, CliOverride,
       CliLog, CliDies
  <2>2. CASE PassStep
    BY <2>2 DEF PassStep, BeginPlugin, BeginHandler, BeginAlgorithm, Verify,
       VerifyDone, ScanOne, Mark, ScanDone, PromoteRead, Insert, Link,
       PromoteDone, PassRaises, PassesDone
  <2>3. CASE BeginIntervention \/ BeginRerun \/ InterventionStep
    BY <2>3 DEF BeginIntervention, Submit, OverrideVerdict, ForceStatus,
       DiscardBatch, InvalidateCluster, StartFlips, InjectFinding, BeginRerun,
       Rerun, InterventionStep, Flip, Record, FlipsDone, RecordFinding,
       Abandon, DeleteFindings, DeleteRefused, RecordRerun
  <2>4. CASE UNCHANGED vars
    BY <2>4 DEF vars
  <2>5. QED
    BY <2>1, <2>2, <2>3, <2>4 DEF CoreNext
<1>3. QED
  BY <1>1, <1>2, PTL DEF SharedSpec

-----------------------------------------------------------------------------
(* The refinement.                                                         *)

\* The length of a function over a prefix of the numbers.
LEMMA LenOfTable ==
    ASSUME NEW n \in Nat, NEW f, DOMAIN f = 1..n, f = [i \in 1..n |-> f[i]]
    PROVE  Len(f) = n
  OBVIOUS

(* Rows of hypotheses are never deleted.                                   *)
LEMMA HypsNeverShrink ==
    ASSUME LedgerInv, [CoreNext]_vars PROVE Len(hyps') >= Len(hyps)
<1>0. /\ hyps \in Seq(HypRow) /\ Len(hyps) \in Nat
      /\ queue \subseteq HypIds /\ flips \subseteq FlipRow
      /\ CurIsRow
  BY DEF LedgerInv, LedgerTypeOK, FlipRow
<1>1. ASSUME NEW parent, NEW c, NEW stage, AddHyp(parent, c, stage)
      PROVE  Len(hyps') >= Len(hyps)
  BY <1>0, <1>1 DEF AddHyp
<1>2. ASSUME NEW h, NEW s, SetStatus(h, s)
      PROVE  Len(hyps') >= Len(hyps)
  BY <1>0, <1>2 DEF SetStatus
<1>3. CASE Abandon
  BY <1>0, <1>3, LedgerStepInv DEF Abandon, HypIds
<1>4. CASE UNCHANGED hyps
  BY <1>0, <1>4
<1> USE DEF tables, work, tags, Return
<1>5. CASE SeedStart \/ SeedStep \/ BeginPass \/ BeginS6 \/ Crash
  BY <1>1, <1>4, <1>5 DEF SeedStart, SeedStep, SeedOne, SeedDone, BeginPass,
     StartPass, StartBatch, BeginS6, StartS6, StartPromote, Crash
<1>6. CASE PassStep
  BY <1>1, <1>2, <1>4, <1>6
     DEF PassStep, BeginPlugin, BeginHandler, BeginAlgorithm, Verify,
     VerifyDone, ScanOne, Mark, ScanDone, PromoteRead, Insert, Link,
     PromoteDone, PassRaises, PassesDone
<1>7. CASE BeginIntervention \/ BeginRerun
  BY <1>1, <1>4, <1>7 DEF BeginIntervention, Submit, OverrideVerdict,
     ForceStatus, DiscardBatch, InvalidateCluster, StartFlips, InjectFinding,
     BeginRerun, Rerun
<1>8. CASE InterventionStep
  BY <1>2, <1>3, <1>4, <1>8 DEF InterventionStep, Flip, Record, FlipsDone,
     RecordFinding, DeleteFindings, DeleteRefused, RecordRerun
<1>9. QED
  BY <1>4, <1>5, <1>6, <1>7, <1>8 DEF CoreNext, vars

(* A run directory implements the abstract ledger: Insert and              *)
(* InjectFinding publish, DeleteFindings withdraws, every other step       *)
(* judges.  Publishing rests on InsertPassed and withdrawing on            *)
(* DoomedAbandoned.                                                        *)
THEOREM LedgerRefines == CoreSpec => RefinesVerifiedLedger
<1> DEFINE S == [h \in HypIds |-> hyps[h].status]
           F == {[id |-> f.id, origin |-> f.origin] : f \in findings}
<1>1. LedgerInit => Abstract!Init
  BY DEF LedgerInit, Abstract!Init, HypIds
<1>2. LedgerInv /\ LedgerInv' /\ [CoreNext]_vars => [Abstract!Next]_<<S, F>>
  <2> SUFFICES ASSUME LedgerInv, LedgerInv', [CoreNext]_vars
               PROVE  Abstract!Next \/ UNCHANGED <<S, F>>
    OBVIOUS
  <2>1. CASE Insert \/ InjectFinding
    <3> DEFINE o == IF Insert THEN cur ELSE 0
               b == IF Insert THEN batch ELSE 0
               new == [id |-> nextFinding, origin |-> o, batch |-> b]
               fact == [id |-> nextFinding, origin |-> o]
    <3>1. findings' = findings \cup {new} /\ hyps' = hyps
      BY <2>1 DEF Insert, InjectFinding
    <3>0. /\ new.id = nextFinding /\ new.origin = o
          /\ fact.id = nextFinding /\ fact.origin = o
          /\ fact = [id |-> new.id, origin |-> new.origin]
      OBVIOUS
    <3> HIDE DEF new, fact, o
    <3>2. F' = F \cup {fact}
      BY <3>0, <3>1
    <3>3. \A g \in F : g.id < nextFinding
      BY DEF LedgerInv, FreshIds
    <3>4. fact \notin F
      <4>1. nextFinding \in Nat /\ ~(nextFinding < nextFinding)
        BY DEF LedgerInv, LedgerTypeOK
      <4> HIDE DEF F
      <4>2. QED
        BY <3>0, <3>3, <4>1
    <3>5. o # 0 => S[o] = "passed"
      BY DEF o, Insert, LedgerInv, InsertPassed, CurIsRow
    <3>6. S' = S
      BY <3>1 DEF HypIds
    <3> HIDE DEF b, S, F
    <3>7. fact \in F' \ F
      BY <3>2, <3>4
    <3>8. QED
      BY <3>0, <3>2, <3>3, <3>5, <3>6, <3>7
      DEF Abstract!Next, Abstract!Publish, S, F
  <2>2. CASE DeleteFindings
    <3>1. findings' = findings \ DoomedFindings /\ hyps' = hyps
      BY <2>2 DEF DeleteFindings
    <3>2. F' \subseteq F
      BY <3>1
    <3>3. \A f \in findings : f.origin \in HypIds \cup {0}
      BY DEF LedgerInv, LedgerTypeOK
    <3>4. \A h \in doomed : h \in HypIds /\ hyps[h].status = "abandoned"
      BY <2>2 DEF DeleteFindings, LedgerInv, LedgerTypeOK, DoomedAbandoned
    <3>5. \A f \in F \ F' : f.origin \in doomed
      BY <3>1 DEF DoomedFindings
    <3>6. \A g \in F' : g.origin \notin doomed
      BY <3>1 DEF DoomedFindings
    <3>7. S' = S /\ \A h \in HypIds : S[h] = hyps[h].status
      BY <3>1 DEF HypIds
    <3>8. 0 \notin doomed
      BY <3>4 DEF HypIds
    <3> HIDE DEF S, F
    <3>9. QED
      BY <3>2, <3>4, <3>5, <3>6, <3>7, <3>8
      DEF Abstract!Next, Abstract!Withdraw, S, F
  <2>3. CASE UNCHANGED findings
    <3>1. F' = F
      BY <2>3
    <3>2. Len(S') >= Len(S)
      <4>1. Len(hyps) \in Nat /\ Len(hyps') \in Nat
        BY DEF LedgerInv, LedgerTypeOK
      <4>2. Len(S) = Len(hyps)
        BY <4>1, LenOfTable DEF HypIds
      <4>3. Len(S') = Len(hyps')
        BY <4>1, LenOfTable DEF HypIds
      <4>4. QED
        BY <4>2, <4>3, HypsNeverShrink
    <3>3. QED
      BY <3>1, <3>2 DEF Abstract!Next, Abstract!Judge
  <2>4. QED
    BY <2>1, <2>2, <2>3, FourTouchFindings DEF vars, tables, Link
<1>3. QED
  BY <1>1, <1>2, LedgerInitInv, LedgerStepInv, PTL
  DEF CoreSpec, RefinesVerifiedLedger, Abstract!Spec

-----------------------------------------------------------------------------
(* Seeding.  As long as no process has died: what a rerun takes down it    *)
(* abandons before the next seeding, no pass brings an abandoned seed      *)
(* back, and a fingerprint still to be seeded has no live row.             *)

OneLiveSeed ==
    \A fp \in Fingerprints : \A g, h \in LiveSeeds(fp) : g = h

StillToSeed ==
    pc = "seed" =>
        /\ ~seeded /\ claims \subseteq Fingerprints
        /\ \A fp \in claims : LiveSeeds(fp) = {}

NoneLeftBehind ==
    (~seeded /\ pc # "seed") =>
        \A fp \in Fingerprints : LiveSeeds(fp) \subseteq IF pc = "abandon" THEN doomed ELSE {}

NothingRevived ==
    /\ pc \notin {"flip", "record"}
    /\ queue # {} => pc = "verify"
    /\ \A h \in queue : hyps[h].status # "abandoned"
    /\ pc = "mark" => hyps[cur].stage # "s1b"

SeedInv ==
    /\ faults \in Nat
    /\ faults = 0 => OneLiveSeed /\ StillToSeed /\ NoneLeftBehind /\ NothingRevived

(* One write to the table at a time: what was alive of the seeds stays the *)
(* same or dwindles when the table keeps its rows and brings none back.    *)
LEMMA SeedsDwindle ==
    ASSUME HypIds' = HypIds,
           \A h \in HypIds : /\ hyps'[h].claim = hyps[h].claim
                             /\ hyps'[h].stage = hyps[h].stage,
           \A h \in HypIds : (hyps[h].stage = "s1b" /\ hyps[h].status = "abandoned")
                                => hyps'[h].status = "abandoned"
    PROVE  \A fp \in Fingerprints : LiveSeeds(fp)' \subseteq LiveSeeds(fp)
  BY DEF LiveSeeds

(* A row added by another stage is no seed.                                *)
LEMMA AddOther ==
    ASSUME hyps \in Seq(HypRow), NEW parent, NEW c \in Claims, NEW stage \in CreatedIn,
           AddHyp(parent, c, stage)
    PROVE  /\ hyps'[Len(hyps) + 1].stage = stage /\ hyps'[Len(hyps) + 1].claim = c
           /\ \A fp \in Fingerprints :
                 LiveSeeds(fp)' \subseteq LiveSeeds(fp) \cup
                     (IF stage = "s1b" /\ fp = c THEN {Len(hyps) + 1} ELSE {})
<1>1. /\ HypIds' = HypIds \cup {Len(hyps) + 1} /\ \A h \in HypIds : hyps'[h] = hyps[h]
  <2>1. Len(hyps') = Len(hyps) + 1 /\ \A h \in HypIds : hyps'[h] = hyps[h]
    BY AddHypGrows
  <2>2. QED
    BY <2>1 DEF HypIds
<1>2. hyps'[Len(hyps) + 1].stage = stage /\ hyps'[Len(hyps) + 1].claim = c
  BY DEF AddHyp
<1>3. QED
  BY <1>1, <1>2 DEF LiveSeeds

(* SetStatus on a row whose life is not in question.                       *)
LEMMA SetStatusDwindles ==
    ASSUME hyps \in Seq(HypRow), NEW h \in HypIds, NEW s \in HypStatus, SetStatus(h, s),
           hyps[h].stage = "s1b" => hyps[h].status # "abandoned"
    PROVE  /\ HypIds' = HypIds
           /\ \A fp \in Fingerprints : LiveSeeds(fp)' \subseteq LiveSeeds(fp)
           /\ \A g \in HypIds : g # h => hyps'[g] = hyps[g]
<1>1. HypIds' = HypIds /\ \A g \in HypIds : hyps'[g].status = IF g = h THEN s ELSE hyps[g].status
  BY SetStatusKeeps
<1>2. \A g \in HypIds : hyps'[g] = IF g = h THEN [hyps[h] EXCEPT !.status = s] ELSE hyps[g]
  BY DEF SetStatus, HypIds
<1>3. \A g \in HypIds : hyps'[g].claim = hyps[g].claim /\ hyps'[g].stage = hyps[g].stage
  <2>1. hyps[h] \in HypRow
    BY DEF HypIds
  <2>2. QED
    BY <1>2, <2>1 DEF HypRow
<1>4. QED
  BY <1>1, <1>2, <1>3, SeedsDwindle

PipelineNext ==
    SeedStart \/ SeedStep \/ BeginPass \/ PassStep \/ BeginRerun \/ InterventionStep \/ Crash

\* Seeding gives a hypothesis only to a fingerprint that has none alive.
LEMMA SeedStepKeeps ==
    ASSUME LedgerInv, SeedInv, faults = 0, SeedStart \/ SeedStep
    PROVE  SeedInv'
<1> USE DEF SeedInv, StillToSeed, NoneLeftBehind, NothingRevived, tables, tags
<1>1. CASE SeedStart
  BY <1>1 DEF SeedStart, OneLiveSeed, LiveSeeds, HypIds
<1>2. ASSUME NEW c \in Fingerprints, SeedOne(c)
      PROVE  SeedInv'
  <2>1. /\ hyps \in Seq(HypRow) /\ c \in Claims /\ "s1b" \in CreatedIn
        /\ AddHyp(0, c, "s1b") /\ c \in claims /\ claims' = claims \ {c}
        /\ pc = "seed" /\ UNCHANGED <<pc, seeded, queue, doomed, cur, faults>>
    BY <1>2 DEF SeedOne, LedgerInv, LedgerTypeOK, Claims, CreatedIn
  <2>2. /\ \A fp \in Fingerprints : LiveSeeds(fp)' \subseteq LiveSeeds(fp) \cup
                (IF fp = c THEN {Len(hyps) + 1} ELSE {})
    BY <2>1, AddOther
  <2>3. LiveSeeds(c) = {} /\ queue = {} /\ claims \subseteq Fingerprints
    BY <2>1, <1>2
  <2>4. OneLiveSeed'
    BY <2>1, <2>2, <2>3 DEF OneLiveSeed
  <2>5. StillToSeed'
    BY <2>1, <2>2, <2>3
  <2>6. QED
    BY <2>1, <2>3, <2>4, <2>5
<1>3. CASE SeedDone
  BY <1>3 DEF SeedDone, Return, ClearWork, OneLiveSeed, LiveSeeds, HypIds
<1>4. QED
  BY <1>1, <1>2, <1>3 DEF SeedStep

(* What is left to do while neither seeding nor a rerun is under way, when *)
(* the live seeds have dwindled and the marks are as they were.            *)
LEMMA QuietStepKeeps ==
    ASSUME SeedInv, faults = 0, pc \notin {"seed", "abandon"}, pc' \notin {"seed", "abandon"},
           seeded' = seeded, faults' = faults,
           \A fp \in Fingerprints : LiveSeeds(fp)' \subseteq LiveSeeds(fp),
           NothingRevived'
    PROVE  SeedInv'
  BY DEF SeedInv, OneLiveSeed, StillToSeed, NoneLeftBehind

\* Verification passes seed no fingerprint.
LEMMA PassStepKeeps ==
    ASSUME LedgerInv, SeedInv, faults = 0, BeginPass \/ PassStep
    PROVE  SeedInv'
<1>1. /\ pc \notin {"seed", "abandon"} /\ pc' \notin {"seed", "abandon"}
      /\ seeded' = seeded /\ faults' = faults
  BY DEF BeginPass, StartPass, StartBatch, PassStep, BeginPlugin, BeginHandler,
     BeginAlgorithm, Verify, VerifyDone, ScanOne, Mark, ScanDone, PromoteRead, Insert,
     Link, PromoteDone, PassRaises, PassesDone, Return, tables
<1> SUFFICES /\ \A fp \in Fingerprints : LiveSeeds(fp)' \subseteq LiveSeeds(fp)
             /\ NothingRevived'
  BY <1>1, QuietStepKeeps
<1>2. NothingRevived /\ hyps \in Seq(HypRow)
  BY DEF SeedInv, LedgerInv, LedgerTypeOK
<1> USE <1>2 DEF NothingRevived
<1>3. ASSUME UNCHANGED hyps, queue' \in {queue, {}}, queue' = {} \/ pc' = pc,
             pc' \notin {"flip", "record", "mark"}
      PROVE  /\ \A fp \in Fingerprints : LiveSeeds(fp)' \subseteq LiveSeeds(fp)
             /\ NothingRevived'
  BY <1>3 DEF LiveSeeds, HypIds
<1>4. CASE BeginPass \/ BeginHandler \/ BeginAlgorithm \/ VerifyDone \/ ScanDone
             \/ (\E h \in won : PromoteRead(h)) \/ Insert \/ Link \/ PromoteDone
             \/ PassRaises \/ PassesDone
  <2>1. UNCHANGED hyps /\ queue' \in {queue, {}} /\ pc' \notin {"flip", "record", "mark"}
    BY <1>4 DEF BeginPass, StartPass, StartBatch, BeginHandler, BeginAlgorithm, VerifyDone,
       ScanDone, PromoteRead, Insert, Link, PromoteDone, PassRaises, PassesDone, Return,
       ClearWork, tables, work
  <2>2. queue' = {} \/ pc' = pc
    BY <1>4 DEF BeginPass, StartPass, StartBatch, BeginHandler, BeginAlgorithm, VerifyDone,
       ScanDone, PromoteRead, Insert, Link, PromoteDone, PassRaises, PassesDone, Return,
       ClearWork, tables, work
  <2>3. QED
    BY <1>3, <2>1, <2>2
<1>5. CASE BeginPlugin
  BY <1>5 DEF BeginPlugin, tables, LiveSeeds, HypIds
<1>6. ASSUME NEW h \in queue, Verify(h)
      PROVE  /\ \A fp \in Fingerprints : LiveSeeds(fp)' \subseteq LiveSeeds(fp)
             /\ NothingRevived'
  <2>1. h \in HypIds /\ queue \subseteq HypIds
    BY DEF LedgerInv, LedgerTypeOK
  <2>2. StatusOf[Verdict[hyps[h].claim]] \in HypStatus
    BY <2>1, ClaimOfRow, VerdictOfClaim
  <2>3. /\ \A fp \in Fingerprints : LiveSeeds(fp)' \subseteq LiveSeeds(fp)
        /\ \A g \in HypIds : g # h => hyps'[g] = hyps[g]
    BY <1>6, <2>1, <2>2, SetStatusDwindles DEF Verify
  <2>4. queue' = queue \ {h} /\ pc' = pc /\ pc = "verify"
    BY <1>6 DEF Verify
  <2>5. QED
    BY <2>1, <2>3, <2>4
<1>7. ASSUME NEW c \in claims, ScanOne(c)
      PROVE  /\ \A fp \in Fingerprints : LiveSeeds(fp)' \subseteq LiveSeeds(fp)
             /\ NothingRevived'
  <2> DEFINE stage == IF Head(passes) \in {"s6", "s6_auto"} THEN "s6" ELSE "none"
  <2>1. /\ c \in Claims /\ stage \in CreatedIn /\ stage # "s1b" /\ AddHyp(under, c, stage)
        /\ cur' = Len(hyps) + 1 /\ pc' = "mark" /\ queue' = queue /\ pc = "scan"
    BY <1>7 DEF ScanOne, CreatedIn, LedgerInv, LedgerTypeOK
  <2> HIDE DEF stage
  <2>2. /\ hyps'[cur'].stage # "s1b"
        /\ \A fp \in Fingerprints : LiveSeeds(fp)' \subseteq LiveSeeds(fp)
    BY <2>1, AddOther
  <2>3. QED
    BY <2>1, <2>2
<1>8. CASE Mark
  <2>1. cur \in HypIds /\ hyps[cur].stage # "s1b" /\ queue = {} /\ queue' = queue
    BY <1>8 DEF Mark, LedgerInv, CurIsRow
  <2>2. StatusOf[Verdict[hyps[cur].claim]] \in HypStatus
    BY <2>1, ClaimOfRow, VerdictOfClaim
  <2>3. \A fp \in Fingerprints : LiveSeeds(fp)' \subseteq LiveSeeds(fp)
    BY <1>8, <2>1, <2>2, SetStatusDwindles DEF Mark
  <2>4. pc' \in {"scan", "promote"}
    BY <1>8 DEF Mark
  <2>5. QED
    BY <2>1, <2>3, <2>4
<1>9. QED
  BY <1>4, <1>5, <1>6, <1>7, <1>8 DEF PassStep

\* A rerun abandons the seeds before the stage is due again.
LEMMA RerunStepKeeps ==
    ASSUME LedgerInv, SeedInv, faults = 0, BeginRerun \/ InterventionStep
    PROVE  SeedInv'
<1>1. NothingRevived /\ hyps \in Seq(HypRow) /\ doomed \subseteq HypIds
  BY DEF SeedInv, LedgerInv, LedgerTypeOK
<1> USE <1>1 DEF NothingRevived
<1>2. ASSUME NEW stage \in {"s1b", "s6"}, Rerun(stage)
      PROVE  SeedInv'
  <2>1. /\ pc = "idle" /\ pc' = "abandon" /\ seeded' = (seeded /\ stage = "s6")
        /\ doomed' = {h \in HypIds : hyps[h].stage \in
                          (IF stage = "s6" THEN {"s6"} ELSE {"s1b", "s6"})}
        /\ UNCHANGED <<hyps, queue, claims, cur, faults>>
    BY <1>2 DEF Rerun
  <2>2. \A fp \in Fingerprints : LiveSeeds(fp)' = LiveSeeds(fp)
    BY <2>1 DEF LiveSeeds, HypIds
  <2>3. NoneLeftBehind'
    <3>1. CASE stage = "s1b"
      BY <2>1, <2>2, <3>1 DEF NoneLeftBehind, LiveSeeds
    <3>2. CASE stage = "s6"
      BY <2>1, <2>2, <3>2 DEF NoneLeftBehind, SeedInv
    <3>3. QED
      BY <3>1, <3>2
  <2>4. QED
    BY <2>1, <2>2, <2>3 DEF SeedInv, OneLiveSeed, StillToSeed
<1>3. CASE Abandon
  <2>1. /\ pc = "abandon" /\ pc' = "delete" /\ UNCHANGED <<seeded, queue, doomed, cur, faults>>
        /\ hyps' = [h \in HypIds |-> IF h \in doomed
                                     THEN [hyps[h] EXCEPT !.status = "abandoned"] ELSE hyps[h]]
    BY <1>3 DEF Abandon, tags, work
  <2>2. HypIds' = HypIds
    <3>1. DOMAIN hyps' = 1..Len(hyps) /\ Len(hyps) \in Nat
      BY <2>1 DEF HypIds
    <3>2. hyps' = [h \in 1..Len(hyps) |-> hyps'[h]]
      BY <2>1 DEF HypIds
    <3>3. Len(hyps') = Len(hyps)
      BY <3>1, <3>2, LenOfTable
    <3>4. QED
      BY <3>3 DEF HypIds
  <2>3. /\ \A h \in HypIds : /\ hyps'[h].claim = hyps[h].claim /\ hyps'[h].stage = hyps[h].stage
                             /\ hyps[h].status = "abandoned" => hyps'[h].status = "abandoned"
                             /\ h \in doomed => hyps'[h].status = "abandoned"
    <3>1. \A h \in HypIds : hyps[h] \in HypRow
      BY DEF HypIds
    <3>2. QED
      BY <2>1, <3>1 DEF HypRow
  <2>4. /\ \A fp \in Fingerprints : LiveSeeds(fp)' \subseteq LiveSeeds(fp) \ doomed
    BY <2>2, <2>3 DEF LiveSeeds
  <2>5. QED
    BY <2>1, <2>4 DEF SeedInv, OneLiveSeed, StillToSeed, NoneLeftBehind
<1>4. CASE DeleteFindings \/ DeleteRefused \/ RecordRerun \/ FlipsDone \/ RecordFinding
  <2>1. /\ pc \notin {"seed", "abandon"} /\ pc' \notin {"seed", "abandon", "flip", "record", "mark"}
        /\ UNCHANGED <<hyps, seeded, faults>> /\ pc # "verify" /\ queue' \in {queue, {}}
    BY <1>4 DEF DeleteFindings, DeleteRefused, RecordRerun, FlipsDone, RecordFinding, tables,
       work, tags, Return, ClearWork
  <2>2. QED
    BY <2>1, QuietStepKeeps DEF LiveSeeds, HypIds
<1>5. CASE (\E f \in flips : Flip(f)) \/ Record
  BY <1>5 DEF Flip, Record, SeedInv
<1>6. QED
  BY <1>2, <1>3, <1>4, <1>5 DEF BeginRerun, InterventionStep

\* Every step of the pipeline keeps fingerprints seeded once.
LEMMA SeedStepInv == LedgerInv /\ SeedInv /\ [PipelineNext]_vars => SeedInv'
<1> SUFFICES ASSUME LedgerInv, SeedInv, [PipelineNext]_vars
             PROVE  SeedInv'
  OBVIOUS
<1>1. CASE Crash
  BY <1>1 DEF Crash, SeedInv
<1>2. CASE UNCHANGED vars
  BY <1>2 DEF vars, tables, work, tags, SeedInv, OneLiveSeed, StillToSeed, NoneLeftBehind,
     NothingRevived, LiveSeeds, HypIds
<1>3. ASSUME ~Crash, PipelineNext PROVE faults' = faults
  BY <1>3 DEF PipelineNext, SeedStart, SeedStep, SeedOne, SeedDone, BeginPass, StartPass, StartBatch,
     PassStep, BeginPlugin, BeginHandler, BeginAlgorithm, Verify, VerifyDone, ScanOne, Mark,
     ScanDone, PromoteRead, Insert, Link, PromoteDone, PassRaises, PassesDone, BeginRerun,
     Rerun, InterventionStep, Flip, Record, FlipsDone, RecordFinding, Abandon,
     DeleteFindings, DeleteRefused, RecordRerun
<1>4. CASE ~Crash /\ PipelineNext /\ faults # 0
  BY <1>3, <1>4 DEF SeedInv
<1>5. CASE ~Crash /\ PipelineNext /\ faults = 0
  BY <1>5, SeedStepKeeps, PassStepKeeps, RerunStepKeeps DEF PipelineNext
<1>6. QED
  BY <1>1, <1>2, <1>4, <1>5

(* For every set of fingerprints and every verifier: however often a run   *)
(* is seeded and rerun, and also when a rerun is refused half way, no      *)
(* fingerprint has two live hypotheses, as long as no process died         *)
(* (stages/s1b_fingerprint.py, rerun_from_stage).                          *)
THEOREM SeededOnceHolds == PipelineSpec => []SeededOnceUnlessKilled
<1>1. LedgerInit => SeedInv
  BY DEF LedgerInit, SeedInv, OneLiveSeed, StillToSeed, NoneLeftBehind, NothingRevived,
     LiveSeeds, HypIds
<1>2. SeedInv => SeededOnceUnlessKilled
  <2> SUFFICES ASSUME SeedInv, faults = 0, NEW fp \in Fingerprints
               PROVE  Cardinality(LiveSeeds(fp)) <= 1
    BY DEF SeededOnceUnlessKilled, OneSeedPerFingerprint
  <2>1. LiveSeeds(fp) = {} \/ \E h \in LiveSeeds(fp) : LiveSeeds(fp) = {h}
    BY DEF SeedInv, OneLiveSeed
  <2>2. CASE LiveSeeds(fp) = {}
    BY <2>2, FS_EmptySet
  <2>3. ASSUME NEW h \in LiveSeeds(fp), LiveSeeds(fp) = {h}
        PROVE  Cardinality(LiveSeeds(fp)) <= 1
    <3>1. Cardinality({h}) = 1
      BY FS_Singleton
    <3>2. QED
      BY <2>3, <3>1
  <2>4. QED
    BY <2>1, <2>2, <2>3
<1>3. [PipelineNext]_vars => [CoreNext]_vars
  BY DEF PipelineNext, CoreNext
<1>4. PipelineSpec => LedgerInit /\ [][PipelineNext]_vars
  BY DEF PipelineSpec, PipelineNext
<1>5. QED
  BY <1>1, <1>2, <1>3, <1>4, LedgerInitInv, LedgerStepInv, SeedStepInv, PTL
=============================================================================
