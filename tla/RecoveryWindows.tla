-------------------------- MODULE RecoveryWindows --------------------------
(***************************************************************************)
(* The windows a recovery run tries: RecoveryWindowGenerator               *)
(* (cvd_recovery/_generator.py) turns the back-trace of the output, the    *)
(* dispatch coverage and the cohort's variance into candidate windows, and *)
(* RecoverWindowVerifier (_verifier.py) gives each a verdict from a        *)
(* symbolic drive over it, which may spawn one more window.  The drive     *)
(* itself is external: any result it can report is possible.               *)
(***************************************************************************)
EXTENDS Naturals, FiniteSets, FiniteSetsExt

CONSTANTS
    Scenarios,        \* [anchor, chain, closes, coverage, varying, localized,
                      \*  vectors, staging, memSink, undecided]
    GapThreshold,     \* budget.band_gap_threshold
    GenCap,           \* budget.max_gen_candidates
    MaxSpan,          \* budget.max_composite_symex_items
    MinCohortVectors,       \* parity_min_vectors
    PcBase            \* a program counter is PcBase plus its index

ASSUME WindowsAssumption ==
    /\ {GapThreshold, GenCap, MaxSpan, MinCohortVectors, PcBase} \subseteq Nat
    /\ \A s \in Scenarios : s.chain \union s.varying \subseteq Nat /\ IsFiniteSet(s.chain)

VARIABLES
    scenario,   \* what the generator is given
    todo,       \* candidates not yet verified
    verdicts,   \* [window, status, kind, closed] of those that were
    generated   \* the generator has run

windowsVars == <<scenario, todo, verdicts, generated>>

WindowsInit ==
    scenario \in Scenarios /\ todo = {} /\ verdicts = {} /\ generated = FALSE

-----------------------------------------------------------------------------
(* A candidate window.  `captured' is the sink_captured entry of its       *)
(* payload, which only a report about an unobserved output carries.        *)
Window(signal, lo, hi, rank) ==
    [signal |-> signal, lo |-> lo, hi |-> hi, rank |-> rank, by |-> "idx",
     onPath |-> FALSE, band |-> FALSE, captured |-> FALSE,
     flipped |-> FALSE, anchored |-> FALSE]

(* Slip: the band being built when the indices end is not listed.          *)
BandsButLast(chain) ==
    LET near(i, j) == j - i <= (IF GapThreshold > 1 THEN GapThreshold ELSE 1)
        starts == {i \in chain : \A j \in chain : j < i => ~near(j, i)}
        last(i) == Max({k \in chain : /\ i <= k
                                      /\ \A s \in starts : i < s => k < s})
    IN  {<<i, last(i)>> : i \in {s \in starts : last(s) # Max(chain)}}

(* Runs of on-path indices no further apart than the threshold.            *)
Bands(chain) ==
    LET near(i, j) == j - i <= (IF GapThreshold > 1 THEN GapThreshold ELSE 1)
        starts == {i \in chain : \A j \in chain : j < i => ~near(j, i)}
        last(i) == Max({k \in chain : /\ i <= k
                                      /\ \A s \in starts : i < s => k < s})
    IN  {<<i, last(i)>> : i \in starts}

(* The bands of the output's producer chain, and the store next to the     *)
(* sink on its own when a band is longer than that.                        *)
OnPathWindows ==
    LET path(w) == [w EXCEPT !.onPath = TRUE]
        bands == Bands(scenario.chain)
        sink == Max(scenario.chain)
    IN  {path([Window("provenance_onpath", b[1], b[2], 3) EXCEPT !.band = TRUE]) : b \in bands}
          \union {path(Window("provenance_onpath", sink, sink, 2)) :
                     b \in {c \in bands : c[1] # c[2]}}

(* One report when the output cannot be anchored: nothing else is tried.   *)
Report == {Window(scenario.anchor, 0, 0, 4)}
Suppressed == scenario.anchor \in {"recapture_directive", "unanchored", "blocked_unplaceable"}

OnPath(lo, hi) == scenario.anchor # "onpath" \/ scenario.chain \intersect (lo..hi) # {}
Demoted(w) ==
    IF scenario.anchor = "onpath"
    THEN [w EXCEPT !.onPath = OnPath(w.lo, w.hi),
                   !.rank = IF OnPath(w.lo, w.hi) THEN @ ELSE 0]
    ELSE w

Divergence == Min(scenario.varying)
Secondary ==
    {Demoted(Window("dispatch_type_rep", r[1], r[2], 1)) : r \in scenario.coverage}
      \union {Demoted(Window("input_varying", v, v, 1)) :
                 v \in {u \in scenario.varying : scenario.localized}}
      \union {Window("opaque_staging_forward", s[1], s[2], 1) : s \in scenario.staging}

(* Over the cap only the best are kept, with one report of the rest.       *)
Capped(all, kept) ==
    IF Cardinality(all) <= GenCap
    THEN kept = all
    ELSE /\ kept \subseteq all /\ Cardinality(kept) = GenCap
         /\ \A k \in kept : \A d \in all \ kept : d.rank <= k.rank

BudgetReport == Window("generation_budget_exhausted", 0, 0, 4)

(* Candidates are told apart by where they start.                          *)
PlacedOnce(windows, some) ==
    /\ some \subseteq windows
    /\ \A w \in windows : \E s \in some : s.lo = w.lo /\ s.rank >= w.rank
    /\ \A s, t \in some : s.lo = t.lo => s = t

Generate ==
    /\ ~generated /\ generated' = TRUE
    /\ LET all == IF Suppressed THEN Report
                  ELSE (IF scenario.anchor = "onpath" THEN OnPathWindows ELSE {})
                         \union Secondary
       IN  \E kept \in SUBSET all :
              /\ Capped(all, kept)
              /\ LET listed == IF kept = all THEN all ELSE kept \union {BudgetReport}
                 IN  \E some \in SUBSET listed : PlacedOnce(listed, some) /\ todo' = some
    /\ UNCHANGED <<scenario, verdicts>>

-----------------------------------------------------------------------------
Given(status, kind) == [status |-> status, kind |-> kind, closed |-> FALSE]

(* Whether the inputs vary inside the window, read as indices or as PCs.   *)
Varies(w) ==
    \E v \in scenario.varying :
        (IF w.by = "idx" THEN v ELSE PcBase + v) \in w.lo..w.hi

(* The window is decided without a drive: its memory sink has no address,  *)
(* nothing varies in it, or there are too few vectors to close anything.   *)
Preflight(w) ==
    CASE w.signal = "generation_budget_exhausted" ->
             {Given("TERMINAL", "GENERATION_BUDGET_EXHAUSTED")}
      [] w.signal # "generation_budget_exhausted" /\ scenario.memSink = "unplaceable" ->
             {Given("TERMINAL", "MEM_SINK_UNPLACEABLE")}
      [] scenario.memSink # "unplaceable" /\ scenario.localized /\ ~Varies(w) ->
             {Given("ELIMINATED", "no_window_variance")}
      [] scenario.memSink # "unplaceable" /\ scenario.localized /\ Varies(w)
         /\ scenario.vectors < MinCohortVectors ->
             {Given("ELIMINATED", "cohort_diversity_insufficient")}
      [] OTHER -> {}

(* classify_closure over _window_closure's reading of the payload.         *)
AlgorithmClosed(w) ==
    LET sinkConfirmed == w.onPath /\ w.captured
        provenanceClosed == w.onPath /\ scenario.closes
    IN  sinkConfirmed /\ provenanceClosed

(* Bands that did not close alone: combined when that is affordable.       *)
Composite ==
    LET bands == Bands(scenario.chain)
        span == Max({b[2] : b \in bands}) - Min({b[1] : b \in bands}) + 1
    IN  IF span > MaxSpan THEN {Given("TERMINAL", "COMPOSITE_RECOVERY_TOO_EXPENSIVE")}
        ELSE IF Cardinality(bands) >= 2
             THEN {Given("CONFIRMED", "composite"),
                   Given("TERMINAL", "COMPOSITE_SYMBOLIC_RECOVERY_REQUIRED"),
                   Given("TERMINAL", "BAND_PARITY_FAIL")}
             ELSE {Given("TERMINAL", "BAND_PARITY_FAIL")}

(* What the drive may report, and what the verifier makes of it.  `result' *)
(* names the first of the conditions _classify_drive_result finds.         *)
DriveResults == {"paused", "closed", "unbacked", "decode", "unmodeled", "unsound",
                 "parity", "seed_blocked", "opaque", "sink_unreadable", "sink_invariant"}
CollapsedUndecided(result) ==
    scenario.undecided /\ result \in {"opaque", "parity"}

Judged(w, result, constant) ==
    CASE result = "paused" -> {Given("PENDING", "judgment")}
      [] result = "closed" ->
             {[Given("CONFIRMED", "window") EXCEPT !.closed = AlgorithmClosed(w)]}
      [] result = "sink_invariant" -> {Given("TERMINAL", "seed_invariant")}
      [] result = "sink_unreadable" -> {Given("TERMINAL", "MEM_SINK_UNPLACEABLE")}
      [] CollapsedUndecided(result) /\ (result = "opaque" \/ constant) ->
             {Given("TERMINAL", "MEMORY_DISPOSITION_MISSING")}
      [] result = "unmodeled" -> {Given("TERMINAL", "unmodeled_instruction")}
      [] result = "opaque" /\ ~scenario.undecided ->
             {Given("TERMINAL", "opaque_staging")}
      [] result = "seed_blocked" -> {Given("TERMINAL", "seed_invariant")}
      [] result = "parity" /\ ~(CollapsedUndecided(result) /\ constant) /\ w.band -> Composite
      [] OTHER -> {Given("ELIMINATED", result)}

(* A window where nothing varies is moved, once, to where something does;  *)
(* one whose backing or byte feed is off is read, once, the other way.     *)
Spawned(w, v) ==
    CASE v.kind = "no_window_variance" /\ scenario.varying # {} /\ ~w.anchored ->
             {[Window("variance_anchor", Divergence, Divergence, 1) EXCEPT !.anchored = TRUE]}
      [] v.kind \in {"unbacked", "decode"} /\ ~w.flipped ->
             {[w EXCEPT !.signal = "geometry_retry", !.flipped = TRUE,
                        !.by = IF w.by = "idx" THEN "pc" ELSE "idx"]}
      [] OTHER -> {}

(* The verdict is recorded; what it spawns joins unless a window that      *)
(* starts there is waiting.                                                *)
Settled(w, v) ==
    /\ verdicts' = verdicts \union {[window |-> w, verdict |-> v]}
    /\ todo' = (todo \ {w}) \union
                   {s \in Spawned(w, v) : \A t \in todo \ {w} : t.lo # s.lo}
    /\ UNCHANGED <<scenario, generated>>

VerifyWindow(w) ==
    /\ w \in todo
    /\ IF Preflight(w) # {}
       THEN \E v \in Preflight(w) : Settled(w, v)
       ELSE \E result \in DriveResults, constant \in BOOLEAN :
               /\ result \in {"sink_unreadable", "sink_invariant"} => scenario.memSink # "none"
               /\ \E v \in Judged(w, result, constant) : Settled(w, v)

AllVerified == generated /\ todo = {} /\ UNCHANGED windowsVars

WindowsNext == Generate \/ (\E w \in todo : VerifyWindow(w)) \/ AllVerified

WindowsSpec == WindowsInit /\ [][WindowsNext]_windowsVars

-----------------------------------------------------------------------------
(* Every instruction on the output's producer chain is in a window that    *)
(* was tried or is waiting, unless the run says that the cap cut windows   *)
(* off, however the bands were coalesced and windows that start at the     *)
(* same place thrown together.                                             *)
Tried == todo \union {v.window : v \in verdicts}
ChainCovered ==
    generated /\ scenario.anchor = "onpath"
        => \/ \A i \in scenario.chain : \E w \in Tried : w.by = "idx" /\ i \in w.lo..w.hi
           \/ \E w \in Tried : w.signal = "generation_budget_exhausted"

(* Claimed by tests/test_cvd_recovery.py:329: a window on the output path, *)
(* with closing provenance, whose drive closes is an algorithm closure.    *)
GenuineClosureIsOne ==
    \A v \in verdicts :
        v.verdict.kind = "window" /\ v.window.onPath /\ scenario.closes => v.verdict.closed
=============================================================================
