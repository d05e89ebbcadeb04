--------------------------- MODULE RecoveryProofs ---------------------------
(***************************************************************************)
(* Theorems about the recovery of an output: CvdDrive, Recapture,          *)
(* RecoveryWindows, CvdLedger and ClosureStamp.                            *)
(***************************************************************************)
EXTENDS CvdDrive, Recapture, RecoveryWindows, CvdLedger, ClosureStamp, FiniteOrders

-----------------------------------------------------------------------------
(* CvdDrive.                                                               *)

(* A collecting run holds what it has not dealt with on its frontier, and  *)
(* whenever it returns the checkpoint is that frontier.                    *)
CvdInv ==
    /\ {"outcome", "collecting", "tried", "confirms", "widened", "jumped"} \subseteq DOMAIN drive
    /\ drive.outcome = "none" => met = {}
    /\ drive.collecting =>
          /\ met \subseteq looked \union gaps \union BagToSet(frontier)
          /\ drive.outcome \notin {"none", "running"} => checkpoint = frontier

-----------------------------------------------------------------------------
\* The sets of elements behind the bag operators the drive uses.
LEMMA BagSets ==
  ASSUME NEW B, NEW C, NEW S, NEW e
  PROVE  /\ BagToSet(SetToBag(S)) = S
         /\ BagToSet(B (+) C) = BagToSet(B) \union BagToSet(C)
         /\ BagToSet(B) \ {e} \subseteq BagToSet(BagRemove(B, e))
  BY DEF BagToSet, SetToBag, (+), BagRemove

(* What leaves the frontier is the candidate itself.                       *)
LEMMA SpawnedKeep ==
  ASSUME NEW c, NEW spawn
  PROVE  /\ BagToSet(frontier) \ {c} \subseteq BagToSet(Left(c))
         /\ BagToSet(frontier) \ {c} \subseteq BagToSet(WithSpawned(c, spawn))
         /\ spawn \subseteq BagToSet(WithSpawned(c, spawn))
<1>1. BagToSet(frontier) \ {c} \subseteq BagToSet(Left(c))
  BY BagSets DEF Left
<1>2. BagToSet(WithSpawned(c, spawn)) = BagToSet(Left(c)) \union (spawn \ BagToSet(Left(c)))
  BY BagSets DEF WithSpawned
<1> QED
  BY <1>1, <1>2

\* No candidate is met before a drive begins.
LEMMA CvdInitInv == CvdInit => CvdInv
<1> SUFFICES ASSUME CvdInit PROVE CvdInv
  OBVIOUS
<1>1. /\ {"outcome", "collecting", "tried", "confirms", "widened", "jumped"} \subseteq DOMAIN drive
      /\ drive.collecting = FALSE
  BY DEF CvdInit, FreshDrive
<1> QED
  BY <1>1 DEF CvdInit, CvdInv

\* Every step of the drive keeps a candidate on the frontier or dealt with.
LEMMA CvdStepInv == CvdInv /\ [CvdNext]_cvdVars => CvdInv'
<1> SUFFICES ASSUME CvdInv, [CvdNext]_cvdVars PROVE CvdInv'
  OBVIOUS
<1>1. ASSUME NEW submitted, NEW collect \in BOOLEAN, NEW at, Place(submitted, collect, at)
      PROVE  CvdInv'
  <2>1. PICK found \in Generated(at) :
           frontier' = SetToBag(submitted \union found) /\ met' = submitted \union found
    BY <1>1 DEF Place
  <2>2. met' \subseteq BagToSet(frontier')
    BY <2>1, BagSets
  <2>3. /\ DOMAIN drive' = DOMAIN drive
        /\ drive'.outcome = "running"
    BY <1>1 DEF Place, CvdInv
  <2> QED
    BY <2>2, <2>3 DEF CvdInv
<1>2. CASE Exhausted
  <2>1. CASE CanWiden
    <3>1. PICK found \in Generated(1) :
             frontier' = EmptyBag (+) SetToBag(found) /\ met' = met \union found
      BY <1>2, <2>1 DEF Exhausted, Widen
    <3>2. found \subseteq BagToSet(frontier') /\ BagToSet(frontier) \subseteq BagToSet(frontier')
      <4>1. BagToSet(frontier') = BagToSet(EmptyBag) \union BagToSet(SetToBag(found))
        BY <3>1, BagSets
      <4>2. BagToSet(SetToBag(found)) = found /\ frontier = EmptyBag
        BY <1>2, BagSets DEF Exhausted
      <4> QED
        BY <4>1, <4>2
    <3>3. /\ UNCHANGED <<looked, gaps>> /\ drive.outcome = "running"
          /\ drive' = [drive EXCEPT !.widened = @ + 1]
      BY <1>2, <2>1 DEF Exhausted, Widen
    <3> QED
      BY <3>1, <3>2, <3>3 DEF CvdInv
  <2>2. CASE ~CanWiden
    <3>1. PICK ending \in IF drive.collecting THEN {"COLLECTED"}
                           ELSE {"SUCCESS", "TERMINAL", "EXTENSION_REQUEST"} :
             StopDrive(ending, EmptyBag)
      BY <1>2, <2>2 DEF Exhausted
    <3>2. UNCHANGED <<met, looked, gaps>> /\ drive.outcome = "running" /\ frontier = EmptyBag
      BY <1>2, <2>2 DEF Exhausted
    <3> QED
      BY <3>1, <3>2 DEF StopDrive, CvdInv
  <2> QED
    BY <2>1, <2>2
<1>3. CASE LevelJump
  <2>1. ~drive.collecting /\ drive.outcome = "running"
    BY <1>3 DEF LevelJump, Jumps
  <2>2. /\ DOMAIN drive' = DOMAIN drive
        /\ drive'.collecting = drive.collecting
        /\ drive'.outcome # "none"
    BY <1>3, <2>1 DEF LevelJump, StopDrive, CvdInv
  <2> QED
    BY <2>1, <2>2 DEF CvdInv
<1>4. ASSUME NEW c, OverBudget(c)
      PROVE  CvdInv'
  BY <1>4 DEF OverBudget, Popped, StopDrive, Resumable, CvdInv
<1>5. ASSUME NEW c, NoVerifier(c)
      PROVE  CvdInv'
  <2>1. BagToSet(frontier) \ {c} \subseteq BagToSet(Left(c))
    BY SpawnedKeep
  <2>2. CASE drive.collecting
    BY <1>5, <2>1, <2>2 DEF NoVerifier, WithinBudget, Popped, CvdInv
  <2>3. CASE ~drive.collecting
    BY <1>5, <2>3 DEF NoVerifier, WithinBudget, Popped, StopDrive, CvdInv
  <2> QED
    BY <2>2, <2>3
<1>6. ASSUME NEW c, NEW spawn, Defer(c, spawn)
      PROVE  CvdInv'
  <2>1. /\ BagToSet(frontier) \ {c} \subseteq BagToSet(WithSpawned(c, spawn))
        /\ spawn \subseteq BagToSet(WithSpawned(c, spawn))
    BY SpawnedKeep
  <2>2. CASE drive.collecting
    BY <1>6, <2>1, <2>2 DEF Defer, WithinBudget, Popped, CvdInv
  <2>3. CASE ~drive.collecting
    BY <1>6, <2>3 DEF Defer, WithinBudget, Popped, StopDrive, CvdInv
  <2> QED
    BY <2>2, <2>3
<1>7. ASSUME NEW c, NEW spawn, NEW confirmed \in BOOLEAN, Settle(c, spawn, confirmed)
      PROVE  CvdInv'
  <2>1. /\ BagToSet(frontier) \ {c} \subseteq BagToSet(WithSpawned(c, spawn))
        /\ spawn \subseteq BagToSet(WithSpawned(c, spawn))
    BY SpawnedKeep
  <2> QED
    BY <1>7, <2>1 DEF Settle, WithinBudget, Popped, CvdInv
<1>8. ASSUME NEW c, NEW success \in BOOLEAN, Terminal(c, success)
      PROVE  CvdInv'
  <2>1. BagToSet(frontier) \ {c} \subseteq BagToSet(Left(c))
    BY SpawnedKeep
  <2>2. CASE drive.collecting
    BY <1>8, <2>1, <2>2 DEF Terminal, WithinBudget, Popped, CvdInv
  <2>3. CASE ~drive.collecting
    <3>1. /\ DOMAIN drive' = DOMAIN drive
          /\ drive'.collecting = drive.collecting
          /\ drive'.outcome # "none"
      BY <1>8, <2>3 DEF Terminal, WithinBudget, Popped, StopDrive, CvdInv
    <3> QED
      BY <2>3, <3>1 DEF CvdInv
  <2> QED
    BY <2>2, <2>3
<1>9. ASSUME NEW kinds, NEW arm, NEW collect \in BOOLEAN, ResumeDrive(kinds, arm, collect)
      PROVE  CvdInv'
  <2>1. /\ {"outcome", "collecting", "tried", "confirms", "widened", "jumped"} \subseteq DOMAIN drive'
        /\ drive'.outcome = "running" /\ drive'.collecting = collect
    BY <1>9 DEF ResumeDrive, FreshDrive
  <2> QED
    BY <1>9, <2>1 DEF ResumeDrive, Resumable, CvdInv
<1>10. CASE UNCHANGED cvdVars
  BY <1>10 DEF cvdVars, CvdInv
<1> QED
  BY <1>1, <1>2, <1>3, <1>4, <1>5, <1>6, <1>7, <1>8, <1>9, <1>10 DEF CvdNext, Finished

(* For every set of candidates, tools and budgets: a run in collect mode   *)
(* forgets no candidate, over any number of pauses and resumes, and from   *)
(* the resume on when only that tells it to collect (run_cvd,              *)
(* resume_cvd).                                                            *)
THEOREM NothingForgotten == CvdSpec => []GapMapComplete
<1>1. CvdInv => GapMapComplete
  BY DEF CvdInv, GapMapComplete
<1> QED
  BY <1>1, CvdInitInv, CvdStepInv, PTL DEF CvdSpec

-----------------------------------------------------------------------------
(* Recapture.                                                              *)

(* Whatever a loop closes on, it takes from the rerun it has just made.    *)
LEMMA RoundIsOneExecution ==
  ASSUME NEW captured, Round(captured)
  PROVE  \A s \in have' : s.from = expected'
  BY DEF Round

(* For every trace, output and bound: the snapshots a closed loop hands on *)
(* and the output it looked for are from one rerun (run_recapture_loop).   *)
THEOREM LoopsCloseOnOneExecution == RecaptureSpec => []OneExecution
<1>1. RecaptureInit => OneExecution
  BY DEF RecaptureInit, OneExecution
<1>2. ASSUME OneExecution, [RecaptureNext]_recaptureVars
      PROVE  OneExecution'
  <2>1. CASE Collect
    BY <2>1 DEF Collect, OneExecution
  <2>2. ASSUME NEW captured, Round(captured)
        PROVE  OneExecution'
    BY <2>2, RoundIsOneExecution DEF OneExecution
  <2>3. CASE EmptyRound
    BY <2>3 DEF EmptyRound, LeaveLoop, OneExecution
  <2>4. CASE Probe
    BY <2>4 DEF Probe, OneExecution
  <2>5. CASE UNCHANGED recaptureVars
    BY <1>2, <2>5 DEF recaptureVars, OneExecution
  <2> QED
    BY <1>2, <2>1, <2>2, <2>3, <2>4, <2>5 DEF RecaptureNext, Recovered
<1> QED
  BY <1>1, <1>2, PTL DEF RecaptureSpec

-----------------------------------------------------------------------------
(* ClosureStamp.                                                           *)

(* A name derived from content that supports no closure claims none.       *)
LEMMA SafeNameClaims ==
  ASSUME NEW payload, NEW ending \in Outcomes, ~Supported(payload)
  PROVE  FilenameClaims(SafeName(payload, ending)) = {}
<1> DEFINE name == SafeName(payload, ending)
<1>1. name = <<"cvd", "gap", "map">> \o ending
  BY DEF SafeName
<1>2. \A i \in DOMAIN name : name[i] \notin ClaimTokens
  BY <1>1 DEF Outcomes, ClaimTokens
<1> QED
  BY <1>2 DEF FilenameClaims

(* For every set of windows and of names: an export that carries no flag,  *)
(* or whose name was derived, claims a closure only when a window of the   *)
(* file supports it (export_stamp.py).                                     *)
THEOREM NamesAreHonest == StampSpec => []DerivedNameIsHonest
<1>1. StampInit => DerivedNameIsHonest
  BY DEF StampInit, DerivedNameIsHonest
<1>2. ASSUME DerivedNameIsHonest, [Export]_export
      PROVE  DerivedNameIsHonest'
  <2>1. CASE Export
    <3>0. PICK payload \in SUBSET Windows, ending \in Outcomes, derived \in BOOLEAN :
             \E name \in IF derived THEN {SafeName(payload, ending)} ELSE Names :
                export' = [name |-> name, claims |-> FilenameClaims(name),
                           flagged |-> Mismatch(name, payload),
                           supported |-> Supported(payload), derived |-> derived]
      BY <2>1 DEF Export
    <3>1. PICK name \in IF derived THEN {SafeName(payload, ending)} ELSE Names :
             export' = [name |-> name, claims |-> FilenameClaims(name),
                        flagged |-> Mismatch(name, payload),
                        supported |-> Supported(payload), derived |-> derived]
      BY <3>0
    <3>2. Mismatch(name, payload) = (FilenameClaims(name) # {} /\ ~Supported(payload))
      BY DEF Mismatch
    <3>3. derived /\ ~Supported(payload) => FilenameClaims(name) = {}
      BY SafeNameClaims
    <3> QED
      BY <3>1, <3>2, <3>3 DEF DerivedNameIsHonest
  <2>2. CASE UNCHANGED export
    BY <1>2, <2>2 DEF DerivedNameIsHonest
  <2> QED
    BY <1>2, <2>1, <2>2
<1> QED
  BY <1>1, <1>2, PTL DEF StampSpec

-----------------------------------------------------------------------------
(* RecoveryWindows.                                                        *)

(* Every index of a finite chain is in one of its bands: the band of the   *)
(* last start at or before it reaches up to the next start at least.       *)
LEMMA BandsCover ==
  ASSUME NEW chain \in SUBSET Nat, IsFiniteSet(chain), NEW i \in chain
  PROVE  \E b \in Bands(chain) : i \in b[1]..b[2] /\ b[1] \in Nat /\ b[2] \in Nat
<1> DEFINE near(j, k) == k - j <= (IF GapThreshold > 1 THEN GapThreshold ELSE 1)
           starts == {k \in chain : \A j \in chain : j < k => ~near(j, k)}
           run(s) == {k \in chain : s <= k /\ \A t \in starts : s < t => k < t}
           before == {t \in starts : t <= i}
<1>0. IsFiniteSet(chain)
  OBVIOUS
<1>1. \A s \in starts : <<s, Max(run(s))>> \in Bands(chain)
  BY DEF Bands
<1>2. before # {}
  <2>0. chain \in SUBSET Int /\ chain # {}
    OBVIOUS
  <2>1. PICK m \in chain : \A j \in chain : m <= j
    BY <1>0, <2>0, MinOfFinite
  <2>2. m \in starts
    BY <2>1
  <2> QED
    BY <2>1, <2>2
<1>3. PICK s \in before : \A t \in before : t <= s
  <2>1. before \in SUBSET chain
    OBVIOUS
  <2> HIDE DEF before
  <2>2. before \in SUBSET Int
    BY <2>1
  <2>3. IsFiniteSet(before)
    BY <1>0, <2>1, SubsetIsFinite
  <2> QED
    BY <1>2, <2>2, <2>3, MaxOfFinite
<1>4. s \in starts /\ s \in chain /\ s <= i /\ i \in run(s)
  <2>1. \A t \in starts : s < t => i < t
    BY <1>3
  <2> QED
    BY <2>1
<1>5. Max(run(s)) \in Nat /\ i <= Max(run(s))
  <2>1. run(s) \in SUBSET chain
    OBVIOUS
  <2> HIDE DEF run
  <2>2. run(s) # {}
    BY <1>4
  <2>5. run(s) \in SUBSET Int
    <3>1. chain \subseteq Int
      OBVIOUS
    <3> QED
      BY <2>1, <3>1
  <2>3. IsFiniteSet(run(s))
    BY <1>0, <2>1, SubsetIsFinite
  <2>4. Max(run(s)) \in run(s) /\ \A y \in run(s) : y <= Max(run(s))
    BY <2>2, <2>3, <2>5, MaxOfFinite
  <2> QED
    BY <1>4, <2>1, <2>4
<1>6. s \in Nat /\ s <= i
  BY <1>4
<1>7. <<s, Max(run(s))>> \in Bands(chain)
  BY <1>1, <1>4
<1> HIDE DEF run, starts
<1>8. i \in s..Max(run(s))
  BY <1>5, <1>6
<1> QED
  BY <1>5, <1>6, <1>7, <1>8

(* A band is the only one that starts where it starts.                     *)
LEMMA OneBandPerStart ==
  ASSUME NEW chain, NEW a \in Bands(chain), NEW b \in Bands(chain), a[1] = b[1]
  PROVE  a[2] = b[2]
<1> DEFINE near(j, k) == k - j <= (IF GapThreshold > 1 THEN GapThreshold ELSE 1)
           starts == {k \in chain : \A j \in chain : j < k => ~near(j, k)}
           last(s) == Max({k \in chain : s <= k /\ \A t \in starts : s < t => k < t})
<1>1. Bands(chain) = {<<s, last(s)>> : s \in starts}
  BY DEF Bands
<1> HIDE DEF last, starts
<1>2. \A c \in Bands(chain) : c[2] = last(c[1])
  BY <1>1
<1> QED
  BY <1>2

(* What is not found from the output's own chain ranks lowest.             *)
LEMMA SecondaryRanks == \A w \in Secondary : w.rank \in {0, 1}
<1>1. ASSUME NEW w, w.rank = 1, "onPath" \in DOMAIN w, "rank" \in DOMAIN w
      PROVE  Demoted(w).rank \in {0, 1}
  <2> DEFINE on == OnPath(w.lo, w.hi)
  <2>1. CASE scenario.anchor = "onpath"
    <3>1. Demoted(w).rank = IF on THEN w.rank ELSE 0
      BY <1>1, <2>1 DEF Demoted
    <3> QED
      BY <1>1, <3>1
  <2>2. CASE scenario.anchor # "onpath"
    BY <1>1, <2>2 DEF Demoted
  <2> QED
    BY <2>1, <2>2
<1>2. \A signal, lo, hi : LET w == Window(signal, lo, hi, 1) IN
         w.rank = 1 /\ "onPath" \in DOMAIN w /\ "rank" \in DOMAIN w
  BY DEF Window
<1>3. \A signal, lo, hi : Demoted(Window(signal, lo, hi, 1)).rank \in {0, 1}
  BY <1>1, <1>2
<1> QED
  BY <1>2, <1>3 DEF Secondary

(* Windows that start with a band, and rank as high, are that band.        *)
LEMMA BandIsPlaced ==
  ASSUME NEW b \in Bands(scenario.chain),
         NEW w \in OnPathWindows \union Secondary, w.lo = b[1], w.rank >= 3
  PROVE  w.hi = b[2] /\ w.by = "idx"
<1>1. CASE w \in Secondary
  <2>1. w.rank \in {0, 1}
    BY <1>1, SecondaryRanks
  <2> QED
    BY <2>1
<1>2. CASE w \in OnPathWindows
  <2>0. w.rank # 2
    OBVIOUS
  <2>1. \/ \E a \in Bands(scenario.chain) : w = [[Window("provenance_onpath", a[1], a[2], 3)
                                EXCEPT !.band = TRUE] EXCEPT !.onPath = TRUE]
        \/ w.rank = 2
    BY <1>2 DEF OnPathWindows, Window
  <2>2. PICK a \in Bands(scenario.chain) : w = [[Window("provenance_onpath", a[1], a[2], 3)
                                EXCEPT !.band = TRUE] EXCEPT !.onPath = TRUE]
    BY <2>0, <2>1
  <2>3. w.lo = a[1] /\ w.hi = a[2] /\ w.by = "idx"
    BY <2>2 DEF Window
  <2> QED
    BY <2>3, OneBandPerStart
<1> QED
  BY <1>1, <1>2

(* Only the report about the cap ranks above three among what is listed.   *)
LEMMA ReportIsPlaced ==
  ASSUME NEW w \in OnPathWindows \union Secondary \union {BudgetReport}, w.rank >= 4
  PROVE  w = BudgetReport
<1>1. w \in Secondary => w.rank \in {0, 1}
  BY SecondaryRanks
<1>2. w \in OnPathWindows => w.rank \in {2, 3}
  BY DEF OnPathWindows, Window
<1> QED
  BY <1>1, <1>2

\* Generated windows cover the chain, or one of them reports the spent budget.
LEMMA GenerateCovers ==
  ASSUME scenario \in Scenarios, Generate
  PROVE  ChainCovered'
<1> SUFFICES ASSUME scenario.anchor = "onpath"
             PROVE  \/ \A i \in scenario.chain : \E w \in todo' : w.by = "idx" /\ i \in w.lo..w.hi
                    \/ \E w \in todo' : w.signal = "generation_budget_exhausted"
  BY DEF Generate, ChainCovered, Tried
<1> DEFINE all == OnPathWindows \union Secondary
<1>1. PICK kept \in SUBSET all :
        PlacedOnce(IF kept = all THEN all ELSE kept \union {BudgetReport}, todo')
  BY DEF Generate, Suppressed
<1> HIDE DEF all
<1>2. CASE kept = all
  <2>1. ASSUME NEW i \in scenario.chain
        PROVE  \E w \in todo' : w.by = "idx" /\ i \in w.lo..w.hi
    <3>1. PICK b \in Bands(scenario.chain) : i \in b[1]..b[2] /\ b[1] \in Nat /\ b[2] \in Nat
      BY BandsCover, WindowsAssumption
    <3> DEFINE w == [[Window("provenance_onpath", b[1], b[2], 3)
                        EXCEPT !.band = TRUE] EXCEPT !.onPath = TRUE]
    <3>2. w \in all /\ w.lo = b[1] /\ w.rank = 3
      BY DEF all, OnPathWindows, Window
    <3>3. PICK s \in todo' : s.lo = b[1] /\ s.rank >= 3 /\ s \in all
      BY <1>1, <1>2, <3>2 DEF PlacedOnce
    <3> QED
      BY <3>1, <3>3, BandIsPlaced DEF all
  <2> QED
    BY <2>1
<1>3. CASE kept # all
  <2>1. BudgetReport.lo = 0 /\ BudgetReport.rank = 4 /\ BudgetReport.signal = "generation_budget_exhausted"
    BY DEF BudgetReport, Window
  <2>2. PICK s \in todo' : s.rank >= 4 /\ s \in kept \union {BudgetReport}
    BY <1>1, <1>3, <2>1 DEF PlacedOnce
  <2>3. s = BudgetReport
    BY <2>2, ReportIsPlaced DEF all
  <2> QED
    BY <2>1, <2>2, <2>3
<1> QED
  BY <1>2, <1>3

(* For every chain, cap and gap threshold: whatever is coalesced, cut off, *)
(* thrown together or moved, an instruction of the output's producer chain *)
(* is in a window that is or was tried, or the run says that the cap cut   *)
(* windows off (RecoveryWindowGenerator, RecoverWindowVerifier).           *)
THEOREM ChainIsCovered == WindowsSpec => []ChainCovered
<1> DEFINE Inv == scenario \in Scenarios /\ ChainCovered
<1>1. WindowsInit => Inv
  BY DEF WindowsInit, ChainCovered
<1>2. ASSUME Inv, [WindowsNext]_windowsVars
      PROVE  Inv'
  <2>1. CASE Generate
    BY <1>2, <2>1, GenerateCovers DEF Generate
  <2>2. ASSUME NEW w \in todo, NEW v, Settled(w, v)
        PROVE  Inv'
    <3>1. Tried \subseteq Tried' /\ UNCHANGED <<scenario, generated>>
      <4>1. [window |-> w, verdict |-> v] \in verdicts' /\ verdicts \subseteq verdicts'
        BY <2>2 DEF Settled
      <4>2. todo \ {w} \subseteq todo'
        BY <2>2 DEF Settled
      <4>3. w \in {e.window : e \in verdicts'}
        BY <4>1
      <4>4. {e.window : e \in verdicts} \subseteq {e.window : e \in verdicts'}
        BY <4>1
      <4>5. Tried \subseteq Tried'
        BY <4>2, <4>3, <4>4 DEF Tried
      <4> QED
        BY <2>2, <4>5 DEF Settled
    <3> QED
      BY <1>2, <3>1 DEF ChainCovered
  <2>3. CASE UNCHANGED windowsVars
    BY <1>2, <2>3 DEF windowsVars, ChainCovered, Tried
  <2> QED
    BY <1>2, <2>1, <2>2, <2>3 DEF WindowsNext, VerifyWindow, AllVerified
<1> QED
  BY <1>1, <1>2, PTL DEF WindowsSpec
-----------------------------------------------------------------------------
(* CvdLedger.                                                              *)

RowKinds == {"producer", "static_terminal", "open_hypothesis", "sink", "verdict", "emit"}
LedgerRow == [call : Calls, exec : Execs, ts : Stamps,
              verdict : Verdicts \union {"PASS", "FAIL"}, kind : RowKinds]
SkipInv == rows \in Seq(LedgerRow) /\ SkippedByOwnRow

(* A key with a row has a newest one.                                      *)
LEMMA LatestIsOwn ==
  ASSUME rows \in Seq(LedgerRow), NEW call, NEW exec,
         {i \in DOMAIN rows : KeyOf(rows[i]) = EntryKey(call, exec)} # {}
  PROVE  /\ GetLatest(call, exec) \in DOMAIN rows
         /\ KeyOf(rows[GetLatest(call, exec)]) = EntryKey(call, exec)
         /\ \A j \in DOMAIN rows :
               KeyOf(rows[j]) = EntryKey(call, exec) => ~RowBefore(GetLatest(call, exec), j)
<1> DEFINE ofKey == {i \in DOMAIN rows : KeyOf(rows[i]) = EntryKey(call, exec)}
           R == {p \in ofKey \X ofKey : ~RowBefore(p[1], p[2])}
<1>1. ofKey # {} /\ GetLatest(call, exec) = CHOOSE i \in ofKey : \A j \in ofKey : ~RowBefore(i, j)
  BY DEF GetLatest
<1>2. \A i \in ofKey : i \in 1..Len(rows) /\ i \in Nat /\ rows[i].ts \in Nat
  <2>1. ASSUME NEW i \in ofKey
        PROVE  i \in 1..Len(rows) /\ i \in Nat /\ rows[i].ts \in Nat
    <3>1. i \in 1..Len(rows) /\ i \in Nat
      BY <2>1
    <3>2. rows[i] \in LedgerRow
      BY <3>1
    <3>3. rows[i].ts \in Stamps
      BY <3>2 DEF LedgerRow
    <3> QED
      BY <3>1, <3>3, LedgerAssumption
  <2> QED
    BY <2>1
<1>3. IsFiniteSet(ofKey)
  <2>1. IsFiniteSet(1..Len(rows))
    BY UpToIsFinite
  <2>2. ofKey \subseteq 1..Len(rows)
    BY <1>2
  <2> QED
    BY <2>1, <2>2, SubsetIsFinite
<1>4. \A x, y \in ofKey : <<x, y>> \in R <=> ~RowBefore(x, y)
  OBVIOUS
<1> HIDE DEF ofKey, R
<1>5. \A x, y \in ofKey : <<x, y>> \in R \/ <<y, x>> \in R
  <2>1. ASSUME NEW x \in ofKey, NEW y \in ofKey
        PROVE  ~RowBefore(x, y) \/ ~RowBefore(y, x)
    <3>1. /\ x \in Nat /\ y \in Nat
          /\ rows[x].ts \in Nat /\ rows[y].ts \in Nat
      BY <1>2
    <3> QED
      BY <3>1 DEF RowBefore
  <2> QED
    BY <1>4, <2>1
<1>6. \A x, y, z \in ofKey : <<x, y>> \in R /\ <<y, z>> \in R => <<x, z>> \in R
  <2>1. ASSUME NEW x \in ofKey, NEW y \in ofKey, NEW z \in ofKey,
               ~RowBefore(x, y), ~RowBefore(y, z)
        PROVE  ~RowBefore(x, z)
    <3>1. /\ x \in Nat /\ y \in Nat /\ z \in Nat
          /\ rows[x].ts \in Nat /\ rows[y].ts \in Nat /\ rows[z].ts \in Nat
      BY <1>2
    <3> QED
      BY <2>1, <3>1 DEF RowBefore
  <2> QED
    BY <1>4, <2>1
<1>7. \E x \in ofKey : \A y \in ofKey : <<x, y>> \in R
  BY <1>1, <1>3, <1>5, <1>6, FirstOfFinite
<1>8. \E x \in ofKey : \A y \in ofKey : ~RowBefore(x, y)
  BY <1>4, <1>7
<1>9. GetLatest(call, exec) \in ofKey /\ \A j \in ofKey : ~RowBefore(GetLatest(call, exec), j)
  BY <1>1, <1>8
<1> QED
  BY <1>9 DEF ofKey

(* The rows of an execution in the order of the reader.                    *)
OwnRows(exec) == {i \in DOMAIN rows : rows[i].exec = exec}
RankIn(exec) ==
    [i \in OwnRows(exec) |-> Cardinality({j \in OwnRows(exec) : RowBefore(j, i)})]

(* Finitely many rows have ranks that tell their order.                    *)
LEMMA RowsAreOrdered ==
  ASSUME rows \in Seq(LedgerRow), NEW exec
  PROVE  LET S == OwnRows(exec)
             rank == RankIn(exec)
         IN  /\ Cardinality(S) \in Nat
             /\ \A i \in S : /\ i \in Nat /\ i # 0 /\ rows[i].call \in Calls
                             /\ rank[i] \in Nat /\ rank[i] + 1 \in 1..Cardinality(S)
             /\ \A i, j \in S : RowBefore(i, j) <=> rank[i] < rank[j]
             /\ \A i, j \in S : rank[i] = rank[j] => i = j
             /\ \A n \in 1..Cardinality(S) : \E i \in S : rank[i] = n - 1
<1> DEFINE S == OwnRows(exec)
           rank == RankIn(exec)
           R == {p \in S \X S : RowBefore(p[1], p[2])}
<1>1. \A i \in S : i \in Nat /\ i # 0 /\ rows[i].call \in Calls /\ rows[i].ts \in Nat
  <2>1. ASSUME NEW i \in S
        PROVE  i \in Nat /\ i # 0 /\ rows[i].call \in Calls /\ rows[i].ts \in Nat
    <3>1. i \in 1..Len(rows) /\ i \in Nat /\ i # 0
      BY <2>1 DEF OwnRows
    <3>2. rows[i] \in LedgerRow
      BY <3>1
    <3>3. rows[i].ts \in Stamps /\ rows[i].call \in Calls
      BY <3>2 DEF LedgerRow
    <3> QED
      BY <3>1, <3>3, LedgerAssumption
  <2> QED
    BY <2>1
<1>2. IsFiniteSet(S)
  <2>1. IsFiniteSet(1..Len(rows))
    BY UpToIsFinite
  <2>2. S \subseteq 1..Len(rows)
    BY DEF OwnRows
  <2> HIDE DEF S
  <2> QED
    BY <2>1, <2>2, SubsetIsFinite
<1>3. \A i, j \in S : <<i, j>> \in R <=> RowBefore(i, j)
  OBVIOUS
<1>4. /\ \A i \in S : ~RowBefore(i, i)
      /\ \A i, j \in S : i # j => RowBefore(i, j) \/ RowBefore(j, i)
      /\ \A i, j, k \in S : RowBefore(i, j) /\ RowBefore(j, k) => RowBefore(i, k)
  <2> HIDE DEF S
  <2> QED
    BY <1>1 DEF RowBefore
<1>5. \A i \in S : rank[i] = Cardinality({j \in S : <<j, i>> \in R})
  <2>1. ASSUME NEW i \in S
        PROVE  {j \in S : <<j, i>> \in R} = {j \in S : RowBefore(j, i)}
    BY <1>3
  <2>2. \A i \in S : rank[i] = Cardinality({j \in S : RowBefore(j, i)})
    BY DEF RankIn
  <2> HIDE DEF S, R, rank
  <2> QED
    BY <2>1, <2>2
<1> HIDE DEF S, R, rank
<1>6. /\ \A i \in S : <<i, i>> \notin R
      /\ \A i, j \in S : i # j => <<i, j>> \in R \/ <<j, i>> \in R
      /\ \A i, j, k \in S : <<i, j>> \in R /\ <<j, k>> \in R => <<i, k>> \in R
  BY <1>3, <1>4
<1>7. /\ Cardinality(S) \in Nat
      /\ \A x \in S : rank[x] \in Nat /\ rank[x] + 1 \in 1..Cardinality(S)
      /\ \A x, y \in S : <<x, y>> \in R <=> rank[x] < rank[y]
      /\ \A x, y \in S : rank[x] = rank[y] => x = y
      /\ \A n \in 1..Cardinality(S) : \E x \in S : rank[x] = n - 1
  <2>1. RankedBy(S, R, rank)
    BY <1>2, <1>5, <1>6 DEF RankedBy
  <2>2. ExactRanks(S, R, rank)
    BY <2>1, RanksAreExact
  <2> QED
    BY <2>2 DEF ExactRanks
<1>8. \A i, j \in S : RowBefore(i, j) <=> rank[i] < rank[j]
  BY <1>3, <1>7
<1> QED
  BY <1>1, <1>7, <1>8 DEF S, rank

(* The fold of the rows in ascending order keeps the last row of each key. *)
LEMMA FoldKeepsLast ==
  ASSUME rows \in Seq(LedgerRow), NEW exec, NEW c \in Calls
  PROVE  LET ofKey == {i \in OwnRows(exec) : rows[i].call = c}
             last == LatestPerKey(exec)[c]
         IN  IF ofKey = {} THEN last = 0
             ELSE last \in ofKey /\ \A j \in ofKey : ~RowBefore(last, j)
<1> DEFINE S == OwnRows(exec)
           N == Cardinality(S)
           rank == RankIn(exec)
           before(i) == {j \in S : rows[j].ts < rows[i].ts
                                     \/ (rows[j].ts = rows[i].ts /\ j < i)}
           nth(n) == CHOOSE i \in S : Cardinality(before(i)) = n - 1
           V == [Calls -> S \union {0}]
           none == [d \in Calls |-> 0]
           g == [n \in 1..N |-> [v \in V |-> [v EXCEPT ![rows[nth(n)].call] = nth(n)]]]
           latest == CHOOSE f : f = [n \in 0..N |->
                        IF n = 0 THEN [d \in Calls |-> 0]
                        ELSE [f[n - 1] EXCEPT ![rows[nth(n)].call] = nth(n)]]
<1>1. LatestPerKey(exec) = latest[N]
  BY DEF LatestPerKey, OwnRows
<1>2. /\ N \in Nat
      /\ \A i \in S : /\ i \in Nat /\ i # 0 /\ rows[i].call \in Calls
                      /\ rank[i] \in Nat /\ rank[i] + 1 \in 1..N
      /\ \A i, j \in S : RowBefore(i, j) <=> rank[i] < rank[j]
      /\ \A i, j \in S : rank[i] = rank[j] => i = j
      /\ \A n \in 1..N : \E i \in S : rank[i] = n - 1
  BY RowsAreOrdered
<1>3. \A i \in S : rank[i] = Cardinality(before(i))
  BY DEF RankIn, RowBefore
<1> HIDE DEF before, rank, S
<1>4. \A n \in 1..N : nth(n) \in S /\ rank[nth(n)] = n - 1
  BY <1>2, <1>3
<1> HIDE DEF nth, N
<1>5. StepsWithin(N, V, none, g)
  <2>1. none \in V
    OBVIOUS
  <2>2. ASSUME NEW n \in 1..N, NEW v \in V
        PROVE  [v EXCEPT ![rows[nth(n)].call] = nth(n)] \in V
    BY <1>2, <1>4
  <2> HIDE DEF V, none
  <2> QED
    BY <1>2, <2>1, <2>2 DEF StepsWithin
<1>6. \A n \in 1..N, v \in V : g[n][v] = [v EXCEPT ![rows[nth(n)].call] = nth(n)]
  <2> HIDE DEF V
  <2> QED
    OBVIOUS
<1> HIDE DEF g
<1>7. PICK f \in [0..N -> V] : f[0] = none /\ \A n \in 1..N : f[n] = g[n][f[n - 1]]
  <2> HIDE DEF V, none
  <2>1. \E f : Solves(f, N, V, none, g)
    BY <1>5, RecursionUpTo
  <2> QED
    BY <2>1 DEF Solves
<1>8. \A n \in 1..N : f[n] = [f[n - 1] EXCEPT ![rows[nth(n)].call] = nth(n)]
  <2>1. \A n \in 1..N : f[n - 1] \in V
    <3> HIDE DEF V
    <3> QED
      BY <1>2, <1>7
  <2> HIDE DEF V
  <2> QED
    BY <1>6, <1>7, <2>1
<1>9. f = [n \in 0..N |-> IF n = 0 THEN [d \in Calls |-> 0]
                          ELSE [f[n - 1] EXCEPT ![rows[nth(n)].call] = nth(n)]]
  <2>1. \A n \in 0..N : n = 0 \/ n \in 1..N
    BY <1>2
  <2> HIDE DEF V
  <2> QED
    BY <1>7, <1>8, <2>1
<1>10. latest = [n \in 0..N |-> IF n = 0 THEN [d \in Calls |-> 0]
                          ELSE [latest[n - 1] EXCEPT ![rows[nth(n)].call] = nth(n)]]
  BY <1>9
<1> HIDE DEF latest
<1> DEFINE key == {i \in S : rows[i].call = c}
           LastSeen(n) == LET seen == {i \in key : rank[i] < n} IN
                          IF seen = {} THEN latest[n][c] = 0
                          ELSE latest[n][c] \in seen /\ \A j \in seen : rank[j] <= rank[latest[n][c]]
           Good == {n \in 0..N : latest[n] \in V /\ LastSeen(n)}
<1>11. 0 \in Good
  <2>1. 0 \in 0..N /\ latest[0] = none
    BY <1>2, <1>10
  <2>2. {i \in key : rank[i] < 0} = {}
    BY <1>2
  <2>3. none[c] = 0 /\ none \in V
    BY <1>5 DEF StepsWithin
  <2> HIDE DEF V, none, key
  <2> QED
    BY <2>1, <2>2, <2>3
<1>12. ASSUME NEW n \in 1..N, n - 1 \in Good
       PROVE  n \in Good
  <2> DEFINE i == nth(n)
  <2>1. n \in 0..N /\ n # 0 /\ n - 1 \in 0..N
    BY <1>2
  <2>2. i \in S /\ rank[i] = n - 1 /\ rows[i].call \in Calls /\ i # 0
    BY <1>2, <1>4
  <2>3. latest[n] = [latest[n - 1] EXCEPT ![rows[i].call] = i]
    <3> HIDE DEF i
    <3> QED
      BY <1>10, <2>1 DEF i
  <2>4. latest[n - 1] \in V /\ LastSeen(n - 1)
    BY <1>12
  <2> HIDE DEF i
  <2>5. latest[n] \in V
    BY <2>2, <2>3, <2>4
  <2>6. \A j \in S : rank[j] < n <=> rank[j] < n - 1 \/ j = i
    <3>1. ASSUME NEW j \in S
          PROVE  rank[j] < n <=> rank[j] < n - 1 \/ j = i
      <4>1. rank[j] \in Nat /\ n \in Nat
        BY <1>2
      <4>2. rank[j] = n - 1 <=> j = i
        BY <1>2, <2>2
      <4> QED
        BY <4>1, <4>2, <2>2
    <3> QED
      BY <3>1
  <2>7. CASE rows[i].call = c
    <3>1. latest[n][c] = i
      BY <2>2, <2>3, <2>4, <2>7
    <3>2. i \in {j \in key : rank[j] < n}
      BY <2>2, <2>6, <2>7
    <3>3. \A j \in key : rank[j] < n => rank[j] <= rank[i]
      <4>1. \A j \in key : rank[j] \in Nat /\ n \in Nat
        BY <1>2
      <4> QED
        BY <2>2, <4>1
    <3> HIDE DEF V, key
    <3> QED
      BY <2>1, <2>5, <3>1, <3>2, <3>3
  <2>8. CASE rows[i].call # c
    <3>1. latest[n][c] = latest[n - 1][c]
      BY <2>2, <2>3, <2>4, <2>8
    <3>2. {j \in key : rank[j] < n} = {j \in key : rank[j] < n - 1}
      BY <2>6, <2>8
    <3> HIDE DEF V, key
    <3> QED
      BY <2>1, <2>4, <2>5, <3>1, <3>2
  <2> QED
    BY <2>7, <2>8
<1>13. N \in Good
  <2> HIDE DEF Good
  <2>1. 0..N \subseteq Good
    BY <1>2, <1>11, <1>12, InductionUpTo
  <2>2. N \in 0..N
    BY <1>2
  <2> QED
    BY <2>1, <2>2
<1>14. LastSeen(N)
  BY <1>13
<1>15. {j \in key : rank[j] < N} = key
  <2>1. \A j \in S : rank[j] < N
    <3>1. ASSUME NEW j \in S
          PROVE  rank[j] < N
      <4>1. rank[j] \in Nat /\ rank[j] + 1 \in 1..N
        BY <1>2
      <4> QED
        BY <1>2, <4>1
    <3> QED
      BY <3>1
  <2> QED
    BY <2>1
<1>16. IF key = {} THEN latest[N][c] = 0
       ELSE latest[N][c] \in key /\ \A j \in key : rank[j] <= rank[latest[N][c]]
  <2> HIDE DEF key
  <2> QED
    BY <1>14, <1>15
<1>17. ASSUME latest[N][c] \in key, NEW j \in key, rank[j] <= rank[latest[N][c]]
       PROVE  ~RowBefore(latest[N][c], j)
  <2> DEFINE l == latest[N][c]
  <2>1. l \in S /\ j \in S /\ rank[l] \in Nat /\ rank[j] \in Nat
    BY <1>2, <1>17
  <2>2. ~(rank[l] < rank[j])
    <3> HIDE DEF l
    <3>1. rank[j] <= rank[l]
      BY <1>17 DEF l
    <3> QED
      BY <2>1, <3>1
  <2> HIDE DEF l
  <2>3. ~RowBefore(l, j)
    BY <1>2, <2>1, <2>2
  <2> QED
    BY <2>3 DEF l
<1>18. IF key = {} THEN latest[N][c] = 0
       ELSE latest[N][c] \in key /\ \A j \in key : ~RowBefore(latest[N][c], j)
  <2> HIDE DEF key
  <2> QED
    BY <1>16, <1>17
<1> QED
  BY <1>1, <1>18 DEF S

(* One asks for the newest row of a key, the other folds the rows of the   *)
(* execution: they come to the same row.                                   *)
LEMMA FoldIsLatest ==
  ASSUME rows \in Seq(LedgerRow), NEW exec, NEW c \in Calls
  PROVE  LatestPerKey(exec)[c] = GetLatest(c, exec)
<1> DEFINE ofKey == {i \in OwnRows(exec) : rows[i].call = c}
           last == LatestPerKey(exec)[c]
           newest == GetLatest(c, exec)
<1>1. ofKey = {i \in DOMAIN rows : KeyOf(rows[i]) = EntryKey(c, exec)}
  BY DEF OwnRows, KeyOf, EntryKey
<1>2. \A i \in DOMAIN rows : i \in Nat /\ i # 0 /\ rows[i].ts \in Nat
  <2>1. ASSUME NEW i \in DOMAIN rows
        PROVE  i \in Nat /\ i # 0 /\ rows[i].ts \in Nat
    <3>1. i \in 1..Len(rows) /\ i \in Nat /\ i # 0
      BY <2>1
    <3>2. rows[i] \in LedgerRow
      BY <3>1
    <3>3. rows[i].ts \in Stamps
      BY <3>2 DEF LedgerRow
    <3> QED
      BY <3>1, <3>3, LedgerAssumption
  <2> QED
    BY <2>1
<1>3. IF ofKey = {} THEN last = 0
      ELSE last \in ofKey /\ \A j \in ofKey : ~RowBefore(last, j)
  BY FoldKeepsLast
<1>4. ofKey = {} => newest = 0
  BY <1>1 DEF GetLatest
<1>5. ofKey # {} => newest \in ofKey /\ \A j \in ofKey : ~RowBefore(newest, j)
  <2>1. ASSUME ofKey # {}
        PROVE  /\ newest \in DOMAIN rows
               /\ KeyOf(rows[newest]) = EntryKey(c, exec)
               /\ \A j \in DOMAIN rows :
                     KeyOf(rows[j]) = EntryKey(c, exec) => ~RowBefore(newest, j)
    BY <1>1, <2>1, LatestIsOwn
  <2> HIDE DEF newest
  <2> QED
    BY <1>1, <2>1
<1> HIDE DEF ofKey, last, newest
<1>6. ASSUME ofKey # {}
      PROVE  last = newest
  <2>1. /\ last \in DOMAIN rows /\ newest \in DOMAIN rows
        /\ ~RowBefore(last, newest) /\ ~RowBefore(newest, last)
    BY <1>1, <1>3, <1>5, <1>6
  <2>2. /\ last \in Nat /\ newest \in Nat
        /\ rows[last].ts \in Nat /\ rows[newest].ts \in Nat
    BY <1>2, <2>1
  <2> QED
    BY <2>1, <2>2 DEF RowBefore
<1> QED
  BY <1>3, <1>4, <1>6 DEF last, newest

\* So both readers close the same calls.
LEMMA ReadersClose ==
  ASSUME rows \in Seq(LedgerRow)
  PROVE  ClosedAreSkipped
<1>1. \A exec \in Execs, c \in Calls : LatestPerKey(exec)[c] = GetLatest(c, exec)
  BY FoldIsLatest
<1> QED
  BY <1>1 DEF ClosedAreSkipped, ClosedSubjects, ShouldSkip

(* A row lands behind the rows there are.                                  *)
LEMMA LandKeeps ==
  ASSUME SkipInv, NEW call \in Calls, NEW exec \in Execs, NEW ts \in Stamps,
         NEW verdict \in Verdicts \union {"PASS", "FAIL"}, NEW kind \in RowKinds,
         NEW autoView, Land(call, exec, verdict, kind, ts, autoView), skipped' = skipped
  PROVE  SkipInv'
<1> DEFINE row == [call |-> call, exec |-> exec, ts |-> ts, verdict |-> verdict, kind |-> kind]
<1>1. row \in LedgerRow /\ rows' = Append(rows, row)
  BY DEF LedgerRow, Land
<1>2. rows \in Seq(LedgerRow)
  BY DEF SkipInv
<1> HIDE DEF row
<1>3. rows' \in Seq(LedgerRow) /\ DOMAIN rows \subseteq DOMAIN rows'
      /\ \A i \in DOMAIN rows : rows'[i] = rows[i]
  BY <1>1, <1>2
<1> QED
  BY <1>3 DEF SkipInv, SkippedByOwnRow

(* For every set of calls, executions and stamps: what a round leaves out  *)
(* was closed by a row of the same call in the same execution, also when   *)
(* rows are stamped alike or out of order, and the subjects reported       *)
(* closed are those of the calls it would leave out                        *)
(* (cvd_ledger.py, should_skip and latest_per_key).                        *)
THEOREM ReadersDoAgree == CvdLedgerSpec => []ReadersAgree
<1>1. CvdLedgerInit => SkipInv
  BY DEF CvdLedgerInit, SkipInv, SkippedByOwnRow
<1>2. ASSUME SkipInv, [CvdLedgerNext]_cvdLedgerVars
      PROVE  SkipInv'
  <2>1. CASE RecordVerdict
    <3>1. PICK call \in Calls, exec \in Execs, verdict \in Verdicts, force \in BOOLEAN,
               ts \in Stamps : Land(call, exec, verdict, KindFor(verdict), ts, TRUE)
      BY <2>1 DEF RecordVerdict
    <3>2. KindFor(verdict) \in RowKinds
      <4>1. verdict \in {"SUCCESS", "TERMINAL_STATIC", "NEEDS_OBSERVATION", "SINK_CONFIRMED"}
               => KindFor(verdict) \in {"producer", "static_terminal", "open_hypothesis", "sink"}
        BY DEF KindFor
      <4>2. verdict \notin {"SUCCESS", "TERMINAL_STATIC", "NEEDS_OBSERVATION", "SINK_CONFIRMED"}
               => KindFor(verdict) = "verdict"
        BY DEF KindFor
      <4> QED
        BY <4>1, <4>2 DEF RowKinds
    <3> QED
      BY <1>2, <2>1, <3>1, <3>2, LandKeeps DEF RecordVerdict
  <2>2. CASE RecordEmit
    <3>1. PICK call \in Calls, exec \in Execs, verdict \in {"PASS", "FAIL"}, ts \in Stamps :
             Land(call, exec, verdict, "emit", ts, FALSE)
      BY <2>2 DEF RecordEmit
    <3> QED
      <4>1. verdict \in Verdicts \union {"PASS", "FAIL"}
        BY <3>1
      <4>2. "emit" \in RowKinds
        BY DEF RowKinds
      <4>3. skipped' = skipped
        BY <2>2 DEF RecordEmit
      <4> QED
        BY <1>2, <3>1, <4>1, <4>2, <4>3, LandKeeps
  <2>3. CASE SkipCall
    <3>1. PICK call \in Calls, exec \in Execs :
             ShouldSkip(call, exec)
             /\ skipped' = [call |-> call, exec |-> exec, row |-> GetLatest(call, exec)]
      BY <2>3 DEF SkipCall
    <3> DEFINE i == GetLatest(call, exec)
    <3>2. i # 0 /\ Closing(rows[i])
      BY <3>1 DEF ShouldSkip
    <3>3. i \in DOMAIN rows /\ KeyOf(rows[i]) = EntryKey(call, exec)
      <4>1. {r \in DOMAIN rows : KeyOf(rows[r]) = EntryKey(call, exec)} # {}
        BY <3>2 DEF GetLatest
      <4> QED
        BY <1>2, <4>1, LatestIsOwn DEF SkipInv
    <3>4. rows[i].call = call /\ rows[i].exec = exec
      BY <3>3 DEF KeyOf, EntryKey
    <3>5. rows' = rows
      BY <2>3 DEF SkipCall
    <3> HIDE DEF i
    <3>6. skipped' = [call |-> call, exec |-> exec, row |-> i]
      BY <3>1 DEF i
    <3> QED
      BY <1>2, <3>2, <3>3, <3>4, <3>5, <3>6 DEF SkipInv, SkippedByOwnRow
  <2>4. CASE UNCHANGED <<rows, skipped>>
    BY <1>2, <2>4 DEF SkipInv, SkippedByOwnRow
  <2> QED
    BY <1>2, <2>1, <2>2, <2>3, <2>4 DEF CvdLedgerNext, RefreshView, ViewLost, cvdLedgerVars
<1>3. SkipInv => ReadersAgree
  BY ReadersClose DEF SkipInv, ReadersAgree
<1> QED
  BY <1>1, <1>2, <1>3, PTL DEF CvdLedgerSpec
=============================================================================
