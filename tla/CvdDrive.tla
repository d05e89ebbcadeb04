------------------------------ MODULE CvdDrive ------------------------------
(***************************************************************************)
(* The candidate drive of cvd/_driver.py: run_cvd places a goal, generates *)
(* candidates, and verifies them one by one until something ends the run;  *)
(* a paused run is resumed from its checkpoint with more verifiers or more *)
(* budget.  In collect mode nothing ends the run early: every obstacle is  *)
(* recorded and the run goes on.  Which candidate scores best is left      *)
(* open: the drive may take any of them.                                   *)
(***************************************************************************)
EXTENDS Naturals, FiniteSets, Bags, BagsExt

CONSTANTS
    KindOf,         \* candidate -> its kind; two candidates differ in kind or locus
    SpawnOf,        \* candidate -> candidates its verdict may spawn
    GeneratedAt,    \* observation scope -> candidates the generators find in it
    Heavy,          \* the candidate inserted for a heavy tool
    MaxCandidates,  \* budget.max_candidates
    MaxWiden,       \* budget.max_widen
    StallBound,     \* stall_theta * expected_tries
    MaxResumes      \* bound: times the agent resumes the run

Cands == DOMAIN KindOf

ASSUME CvdAssumption ==
    /\ SpawnOf \in [Cands -> SUBSET Cands]
    /\ GeneratedAt \in [0..1 -> SUBSET Cands]
    /\ Heavy \in Cands
    /\ {MaxCandidates, MaxWiden, StallBound, MaxResumes} \subseteq Nat

VARIABLES
    frontier,    \* bag of candidates still to verify
    scope,       \* state.obs_scope
    drive,       \* [outcome, collecting, tried, confirms, widened, jumped, resumes, wider]
    tools,       \* candidate kinds some registered verifier applies to
    armed,       \* the heavy tier is armed in the policy
    checkpoint,  \* the frontier a paused run was serialized with
    met,         \* history: candidates on the frontier since the run collects
    looked,      \* history: candidates a verifier has looked at
    gaps         \* candidates reported as a capability gap or a judgment

cvdVars == <<frontier, scope, drive, tools, armed, checkpoint, met, looked, gaps>>

Resumable == {"EXTENSION_REQUEST", "BUDGET_EXHAUSTED", "BUDGET_PAUSE", "PENDING_JUDGMENT"}

(* A drive starts its counters afresh.                                     *)
FreshDrive(outcome, collecting, resumes, wider) ==
    [outcome |-> outcome, collecting |-> collecting, tried |-> 0, confirms |-> 0,
     widened |-> 0, jumped |-> FALSE, resumes |-> resumes, wider |-> wider]

CvdInit ==
    /\ frontier = EmptyBag /\ scope = 0 /\ checkpoint = EmptyBag
    /\ drive = FreshDrive("none", FALSE, 0, FALSE)
    /\ tools \in SUBSET {KindOf[c] : c \in Cands} /\ armed \in BOOLEAN
    /\ met = {} /\ looked = {} /\ gaps = {}

-----------------------------------------------------------------------------
(* A generator that raises is recorded and contributes nothing; what the   *)
(* others find is listed once per kind and locus.                          *)
Generated(at) == SUBSET GeneratedAt[at]

(* run_cvd: submissions first, then what is generated and not among them.  *)
(* With snapshots or a window there is a wider scope to turn to.           *)
Place(submitted, collect, at) ==
    /\ drive.outcome = "none"
    /\ \E found \in Generated(at) :
          /\ frontier' = SetToBag(submitted \union found)
          /\ met' = submitted \union found
    /\ scope' = at
    /\ \E wider \in BOOLEAN :
          drive' = [drive EXCEPT !.outcome = "running", !.collecting = collect, !.wider = wider]
    /\ UNCHANGED <<tools, armed, checkpoint, looked, gaps>>

CanWiden == scope = 0 /\ drive.wider /\ drive.widened < MaxWiden

(* A wider observation scope; what it brings is added without looking at   *)
(* what is already there.                                                  *)
Widen(left) ==
    /\ \E found \in Generated(1) :
          frontier' = left (+) SetToBag(found) /\ met' = met \union found
    /\ scope' = 1
    /\ drive' = [drive EXCEPT !.widened = @ + 1]

(* The run returns; a paused one carries its frontier.                     *)
StopDrive(outcome, left) ==
    /\ drive' = [drive EXCEPT !.outcome = outcome]
    /\ frontier' = left
    /\ checkpoint' = IF outcome \in Resumable \union {"COLLECTED"} THEN left ELSE EmptyBag

(* Nothing left: widen once more, or ask the terminal classifiers.         *)
Exhausted ==
    /\ drive.outcome = "running" /\ frontier = EmptyBag
    /\ IF CanWiden
       THEN Widen(EmptyBag) /\ UNCHANGED checkpoint
       ELSE /\ \E outcome \in IF drive.collecting THEN {"COLLECTED"}
                              ELSE {"SUCCESS", "TERMINAL", "EXTENSION_REQUEST"} :
                  StopDrive(outcome, EmptyBag)
            /\ UNCHANGED <<scope, met>>
    /\ UNCHANGED <<tools, armed, looked, gaps>>

-----------------------------------------------------------------------------
(* cvd_mount.stall_pressure > stall_theta: many tried, many left, few      *)
(* confirmed.                                                              *)
Pressed ==
    drive.tried * BagCardinality(frontier)
        > StallBound * (IF drive.confirms > 1 THEN drive.confirms ELSE 1)

Half(n) == IF n > 3 THEN n \div 2 ELSE 1

(* Slip: collect mode level-jumps too.                                     *)
JumpsAnyway == ~drive.jumped /\ Pressed

(* Once per drive, never in collect mode.                                  *)
Jumps == ~drive.jumped /\ ~drive.collecting /\ Pressed

(* The tail of the frontier is dropped, and the heavy tier is mounted if   *)
(* it is armed and affordable.                                             *)
LevelJump ==
    /\ drive.outcome = "running" /\ frontier # EmptyBag /\ Jumps
    /\ \E keep \in SubBag(frontier) :
          /\ BagCardinality(keep) = Half(BagCardinality(frontier))
          /\ \/ /\ ~armed
                /\ StopDrive("EXTENSION_REQUEST", keep) /\ met' = met
             \/ /\ armed
                /\ StopDrive("BUDGET_PAUSE", keep) /\ met' = met
             \/ /\ armed
                /\ frontier' = BagAdd(keep, Heavy)
                /\ met' = met \union {Heavy}
                /\ drive' = [drive EXCEPT !.jumped = TRUE]
                /\ UNCHANGED checkpoint
    /\ UNCHANGED <<scope, tools, armed, looked, gaps>>

-----------------------------------------------------------------------------
(* The candidate on top; a heavy one just inserted is on top.              *)
Popped(c) ==
    /\ drive.outcome = "running" /\ BagIn(c, frontier) /\ ~Jumps
    /\ BagIn(Heavy, frontier) => c = Heavy

Left(c) == BagRemove(frontier, c)

(* The budget is spent: the candidate is put back.                         *)
OverBudget(c) ==
    /\ Popped(c) /\ drive.tried >= MaxCandidates
    /\ StopDrive("BUDGET_EXHAUSTED", frontier)
    /\ UNCHANGED <<scope, tools, armed, met, looked, gaps>>

WithinBudget(c) == Popped(c) /\ drive.tried < MaxCandidates

(* No verifier applies to its kind (one that raises does not apply).       *)
NoVerifier(c) ==
    /\ WithinBudget(c) /\ KindOf[c] \notin tools
    /\ gaps' = gaps \union {c}
    /\ IF drive.collecting
       THEN /\ frontier' = Left(c)
            /\ drive' = [drive EXCEPT !.tried = @ + 1]
            /\ UNCHANGED checkpoint
       ELSE StopDrive("EXTENSION_REQUEST", Left(c))
    /\ UNCHANGED <<scope, tools, armed, met, looked>>

(* Spawned candidates are added unless the frontier has them already.      *)
WithSpawned(c, spawn) == Left(c) (+) SetToBag(spawn \ BagToSet(Left(c)))

(* Confirmed, or eliminated (a verifier that raises eliminates too).       *)
Settle(c, spawn, confirmed) ==
    /\ WithinBudget(c) /\ KindOf[c] \in tools
    /\ frontier' = WithSpawned(c, spawn) /\ met' = met \union spawn
    /\ looked' = looked \union {c}
    /\ drive' = [drive EXCEPT !.tried = @ + 1,
                              !.confirms = IF confirmed THEN @ + 1 ELSE @]
    /\ UNCHANGED <<scope, tools, armed, checkpoint, gaps>>

(* The verdict is the agent's to make.                                     *)
Defer(c, spawn) ==
    /\ WithinBudget(c) /\ KindOf[c] \in tools
    /\ looked' = looked \union {c} /\ gaps' = gaps \union {c}
    /\ met' = met \union spawn
    /\ IF drive.collecting
       THEN /\ frontier' = WithSpawned(c, spawn)
            /\ drive' = [drive EXCEPT !.tried = @ + 1]
            /\ UNCHANGED checkpoint
       ELSE StopDrive("PENDING_JUDGMENT", WithSpawned(c, spawn))
    /\ UNCHANGED <<scope, tools, armed>>

(* A terminal verdict: the goal, or the end of what can be observed.       *)
Terminal(c, success) ==
    /\ WithinBudget(c) /\ KindOf[c] \in tools
    /\ looked' = looked \union {c}
    /\ gaps' = IF drive.collecting /\ ~success THEN gaps \union {c} ELSE gaps
    /\ IF drive.collecting
       THEN /\ frontier' = Left(c)
            /\ drive' = [drive EXCEPT !.tried = @ + 1]
            /\ UNCHANGED <<scope, met, checkpoint>>
       ELSE IF success
       THEN StopDrive("SUCCESS", Left(c)) /\ UNCHANGED <<scope, met>>
       ELSE IF CanWiden
       THEN /\ \E found \in Generated(1) :
                  /\ frontier' = Left(c) (+) SetToBag(found)
                  /\ met' = met \union found
            /\ scope' = 1
            /\ drive' = [drive EXCEPT !.widened = @ + 1, !.tried = @ + 1]
            /\ UNCHANGED checkpoint
       ELSE StopDrive("TERMINAL", Left(c)) /\ UNCHANGED <<scope, met>>
    /\ UNCHANGED <<tools, armed>>

(* The agent resumes a paused run: another verifier, or the heavy tier.    *)
(* The counters start afresh, and whether to collect is said anew.         *)
ResumeDrive(kinds, arm, collect) ==
    /\ drive.outcome \in Resumable /\ drive.resumes < MaxResumes
    /\ tools' = tools \union kinds /\ armed' = arm
    /\ frontier' = checkpoint
    /\ drive' = FreshDrive("running", collect, drive.resumes + 1, drive.wider)
    /\ met' = IF collect /\ ~drive.collecting THEN BagToSet(checkpoint) ELSE met
    /\ UNCHANGED <<scope, checkpoint, looked, gaps>>

Finished == drive.outcome \notin {"none", "running"} /\ UNCHANGED cvdVars

CvdNext ==
    \/ \E submitted \in SUBSET {c \in Cands : c # Heavy}, collect \in BOOLEAN, at \in 0..1 :
          Cardinality(submitted) <= 1 /\ Place(submitted, collect, at)
    \/ Exhausted \/ LevelJump
    \/ \E c \in BagToSet(frontier) :
          \/ OverBudget(c) \/ NoVerifier(c)
          \/ \E spawn \in {{}, SpawnOf[c]} :
                Defer(c, spawn) \/ \E confirmed \in BOOLEAN : Settle(c, spawn, confirmed)
          \/ \E success \in BOOLEAN : Terminal(c, success)
    \/ \E kinds \in SUBSET {KindOf[c] : c \in Cands}, arm, collect \in BOOLEAN :
          ResumeDrive(kinds, arm, collect)
    \/ Finished

CvdSpec == CvdInit /\ [][CvdNext]_cvdVars

-----------------------------------------------------------------------------
(* A collecting run returns the whole map: every candidate that was on its *)
(* frontier since it collects has been verified, is reported as a gap or a *)
(* judgment, or is in the checkpoint the run is resumed from.              *)
GapMapComplete ==
    drive.collecting /\ drive.outcome # "running" =>
        met \subseteq looked \union gaps \union BagToSet(checkpoint)

=============================================================================
