----------------------------- MODULE Recapture -----------------------------
(***************************************************************************)
(* How an output whose writer was not traced is observed: run_recovery     *)
(* (cvd_recovery/_driver.py) collects, and when the back-trace of the      *)
(* output asks for observations it drives run_recapture_loop, which        *)
(* re-runs the target with watches on the missing addresses until          *)
(* trace_provenance (oracle_provenance.py) closes, then collects again     *)
(* with the snapshots.  Bytes are abstracted to the execution they were    *)
(* produced in: two executions agree unless the output varies.             *)
(* Execution 0 is the one the trace and the caller's expected output are   *)
(* from; every rerun is an execution of its own.                           *)
(***************************************************************************)
EXTENDS Naturals, FiniteSets, SequencesExt, FiniteSetsExt

CONSTANTS
    Cases,          \* [trace, edge, sinkKnown]; an instruction is
                    \* [reads, writes, deps, call, output]
    Sink,           \* the addresses of the output
    NoEdge,         \* no boundary edge was declared
    MaxWalk,       \* max_steps of a back-trace
    MaxRounds,      \* max_rounds of a recapture loop
    MaxReentries,   \* budget.max_recapture_reentries
    RegionFloor     \* _DIFFUSION_REGION_FLOOR

ASSUME RecaptureAssumption ==
    /\ {MaxWalk, MaxRounds, MaxReentries, RegionFloor} \subseteq Nat
    /\ \A c \in Cases : \A i \in DOMAIN c.trace :
          c.trace[i].deps \subseteq 1..(i - 1)

VARIABLES
    case,        \* the case under recovery
    varies,      \* the output differs from one execution to the next
    adapter,     \* a rerun-capable adapter and its input were supplied
    stage,       \* where run_recovery is
    execution,   \* executions so far; the newest has this number
    watch,       \* plan: gaps to observe in the next rerun
    loop,        \* [round, before, groups, flat, diffused]
    reentry,     \* recapture loops driven so far
    have,        \* snapshots: [addr, from]
    expected,    \* the execution whose output is looked for
    prov,        \* the last provenance: [verdict, gaps, open]
    outcome,     \* LoopOutcome of the last loop, or "none"
    stable       \* what the determinism probe recorded

recaptureVars == <<case, varies, adapter, stage, execution, watch, loop, reentry,
                   have, expected, prov, outcome, stable>>

-----------------------------------------------------------------------------
(* trace_provenance.                                                       *)
Writers(a) == {i \in DOMAIN case.trace : a \in case.trace[i].writes}
SinkWriter(a) == Max(Writers(a))
SeenIn(snaps) == {s.addr : s \in snaps}

(* The output of this execution is the one the trace shows.                *)
Matches(e) == ~varies \/ e = 0

(* Each sink byte was last written, up to instruction n, with the output.  *)
WrittenBy(n) ==
    \A a \in Sink : \E i \in Writers(a) :
        i <= n /\ case.trace[i].output /\ \A j \in Writers(a) : j > n \/ j <= i
Buffered(e) == Matches(e) /\ \E n \in DOMAIN case.trace : WrittenBy(n)

(* The output appears in the stream of writes, wherever they went.         *)
Streamed(e) ==
    Matches(e) /\ \E n \in DOMAIN case.trace :
                     case.trace[n].output /\ case.trace[n].writes # {}
                     /\ case.trace[n].writes \intersect Sink = {}

(* The output is first seen by a read, after a call returned.              *)
ReadAt(n) == Sink \subseteq UNION {case.trace[i].reads : i \in 1..n}
BehindCall(e) ==
    Matches(e) /\ \E n \in DOMAIN case.trace :
        ReadAt(n) /\ ~ReadAt(n - 1) /\ \E i \in 1..(n - 1) : case.trace[i].call

Feeds(i) == {SinkWriter(a) : a \in {b \in case.trace[i].reads : Writers(b) # {}}}
              \union case.trace[i].deps
Stacked(S) == SetToSortSeq(S, <)

(* _walk_back: depth first from the sink's writers, MaxWalk pops at most. *)
Walk ==
    LET walk[n \in 0..MaxWalk] ==
            IF n = 0
            THEN [stack |-> Stacked({SinkWriter(a) : a \in {b \in Sink : Writers(b) # {}}}),
                  visited |-> {}]
            ELSE LET before == walk[n - 1]
                     top == Last(before.stack)
                 IN  CASE before.stack = <<>> -> before
                       [] before.stack # <<>> /\ top \in before.visited ->
                              [before EXCEPT !.stack = Front(@)]
                       [] OTHER ->
                              [stack   |-> Front(before.stack)
                                             \o Stacked(Feeds(top) \ (before.visited \union {top})),
                               visited |-> before.visited \union {top}]
    IN  walk[MaxWalk]

(* A read of an address with no captured write or snapshot; `at' is the    *)
(* reading instruction, 0 when there is none to hang a watch on.           *)
ReadGaps(snaps) ==
    UNION {{[addr |-> a, at |-> i] : a \in {b \in case.trace[i].reads \ SeenIn(snaps) :
                                            Writers(b) = {}}} : i \in Walk.visited}
NoReader(S) == {[addr |-> a, at |-> 0] : a \in S}
OrElse(gaps, others) == IF gaps # {} THEN gaps ELSE others
Unwritten == {a \in Sink : Writers(a) = {}}

Provenance(e, snaps) ==
    LET result(verdict, gaps) ==
            [verdict |-> verdict, gaps |-> gaps,
             open |-> \E i \in Range(Walk.stack) : i \notin Walk.visited]
        gaps == ReadGaps(snaps)
    IN  CASE Buffered(e) -> result("CONTINUOUS_BUFFER", {})
          [] ~Buffered(e) /\ Streamed(e) -> result("STREAMING", {})
          [] ~Buffered(e) /\ ~Streamed(e) /\ Unwritten # Sink ->
                 result("NEEDS_OBSERVATION", OrElse(gaps, NoReader(Unwritten \ SeenIn(snaps))))
          [] ~Streamed(e) /\ Unwritten = Sink /\ case.edge # NoEdge ->
                 result("BOUNDARY_EDGE",
                        {[addr |-> case.edge, at |-> Max({0} \union Writers(case.edge))]})
          [] ~Streamed(e) /\ Unwritten = Sink /\ case.edge = NoEdge /\ BehindCall(e) ->
                 result("OPAQUE_CALLEE", {})
          [] OTHER -> result("NEEDS_OBSERVATION", OrElse(gaps, NoReader(Sink)))

IsClosed(p) ==
    \/ p.verdict \in {"CONTINUOUS_BUFFER", "STREAMING"}
    \/ p.verdict = "NEEDS_OBSERVATION" /\ p.gaps = {}

Placeable(gaps) == {g \in gaps : g.at # 0}

-----------------------------------------------------------------------------
NoProvenance == [verdict |-> "NEEDS_OBSERVATION", gaps |-> {}, open |-> FALSE]
NewLoop == [round |-> 1, before |-> 0, groups |-> 0, flat |-> 0, diffused |-> 0]

RecaptureInit ==
    /\ case \in Cases /\ varies \in BOOLEAN /\ adapter \in BOOLEAN
    /\ stage = "collect" /\ execution = 0 /\ watch = {} /\ loop = NewLoop
    /\ reentry = 0 /\ have = {} /\ expected = 0 /\ prov = NoProvenance
    /\ outcome = "none" /\ stable = "none"

(* _output_provenance_anchor: the sink is not in what was captured at all, *)
(* or its chain has a gap a watch can be hung on.                          *)
Observable(snaps) ==
    \/ Buffered(0)
    \/ Streamed(0)
    \/ ReadAt(Len(case.trace))
    \/ Sink \subseteq {s.addr : s \in {t \in snaps : Matches(t.from)}}
Captured(snaps) == Unwritten # Sink \/ Sink \intersect SeenIn(snaps) # {}
AsksForRecapture(snaps) ==
    LET p == Provenance(0, snaps)
    IN  \/ ~Observable(snaps) \/ ~Captured(snaps)
        \/ p.verdict = "NEEDS_OBSERVATION" /\ Placeable(p.gaps) # {}

(* collect_once on the caller's expected output.  The directive is heeded  *)
(* only from the extension, pending and confirmed lists of the gap map; a  *)
(* verifier that eliminates its candidate leaves it in none of them.       *)
Collect ==
    /\ stage = "collect"
    /\ prov' = Provenance(0, have) /\ expected' = 0
    /\ \E heeded \in BOOLEAN :
          LET wanted == case.sinkKnown /\ AsksForRecapture(have) /\ heeded
              again == wanted /\ adapter /\ reentry < MaxReentries
          IN  /\ stage' = IF again THEN "loop" ELSE "probe"
              /\ reentry' = IF again THEN reentry + 1 ELSE reentry
              /\ loop' = NewLoop /\ watch' = {}
    /\ UNCHANGED <<case, varies, adapter, execution, have, outcome, stable>>

-----------------------------------------------------------------------------
Groups(gaps) == Cardinality({g.at : g \in gaps})

(* The loop returns with this outcome.                                     *)
LeaveLoop(result) ==
    /\ outcome' = result
    /\ stage' = IF result = "CLOSED" THEN "collect" ELSE "probe"
    /\ UNCHANGED <<watch, loop>>

(* The counters of a round whose gaps did not shrink.                      *)
Flat(p) == IF loop.round = 1 \/ Cardinality(p.gaps) < loop.before THEN 0 ELSE loop.flat + 1
Diffused(p) ==
    IF /\ loop.round > 1 /\ Cardinality(p.gaps) >= loop.before
       /\ Groups(p.gaps) >= RegionFloor /\ Groups(p.gaps) >= 2 * loop.groups
    THEN loop.diffused + 1 ELSE 0

(* What one round concludes from its provenance: the loop goes on only     *)
(* when there is something left to watch and the gaps still move.          *)
Concluded(p) ==
    IF IsClosed(p)
    THEN LeaveLoop(IF Cardinality({s.from : s \in have'}) > 1 THEN "CROSS_RERUN_G1" ELSE "CLOSED")
    ELSE IF watch = {} /\ p.gaps # {} /\ Placeable(p.gaps) = {} THEN LeaveLoop("UNPLACEABLE")
    ELSE IF Flat(p) >= 2 \/ Diffused(p) >= 2 THEN LeaveLoop("STALLED")
    ELSE IF loop.round = MaxRounds THEN LeaveLoop("BUDGET_EXHAUSTED")
    ELSE /\ watch' = watch \union p.gaps
         /\ loop' = [round |-> loop.round + 1, before |-> Cardinality(p.gaps),
                     groups |-> Groups(p.gaps), flat |-> Flat(p), diffused |-> Diffused(p)]
         /\ UNCHANGED <<stage, outcome>>

(* Slip: the first round's output stays the one looked for.                *)
RoundOnFirstOutput(captured) ==
    /\ stage = "loop"
    /\ captured \subseteq {g.addr : g \in Placeable(watch)}
                            \union (IF loop.round > 1 THEN Sink ELSE {})
    /\ execution' = execution + 1
    /\ have' = {[addr |-> a, from |-> execution + 1] : a \in captured}
    /\ expected' = IF loop.round = 1 THEN execution + 1 ELSE expected
    /\ prov' = Provenance(expected', have')
    /\ Concluded(prov')
    /\ UNCHANGED <<case, varies, adapter, reentry, stable>>

(* One rerun with every watch of the plan and, when the sink's PC is known *)
(* (from the second round on), the sink itself; the runner may capture     *)
(* less.  Its own output is what is looked for, its own snapshots are all  *)
(* there is.                                                               *)
Round(captured) ==
    /\ stage = "loop"
    /\ captured \subseteq {g.addr : g \in Placeable(watch)}
                            \union (IF loop.round > 1 THEN Sink ELSE {})
    /\ execution' = execution + 1
    /\ expected' = execution + 1
    /\ have' = {[addr |-> a, from |-> execution + 1] : a \in captured}
    /\ prov' = Provenance(execution + 1, have')
    /\ Concluded(prov')
    /\ UNCHANGED <<case, varies, adapter, reentry, stable>>

(* A rerun that answers with no output stalls the loop; its snapshots are  *)
(* not kept.                                                               *)
EmptyRound ==
    /\ stage = "loop"
    /\ execution' = execution + 1
    /\ LeaveLoop("STALLED")
    /\ have' = {}
    /\ prov' = IF loop.round = 1 THEN NoProvenance ELSE prov
    /\ UNCHANGED <<case, varies, adapter, reentry, expected, stable>>

(* probe_output_determinism: K reruns of the input; one that raises or     *)
(* answers nothing means the output's stability was not observed.          *)
Probe ==
    /\ stage = "probe" /\ stage' = "done"
    /\ stable' \in IF ~adapter THEN {"not_observed"}
                   ELSE {"not_observed", IF varies THEN "varies" ELSE "stable"}
    /\ UNCHANGED <<case, varies, adapter, execution, watch, loop, reentry, have,
                   expected, prov, outcome>>

Recovered == stage = "done" /\ UNCHANGED recaptureVars

RecaptureNext ==
    \/ Collect
    \/ \E captured \in SUBSET (Sink \union {g.addr : g \in watch}) : Round(captured)
    \/ EmptyRound
    \/ Probe
    \/ Recovered

RecaptureSpec == RecaptureInit /\ [][RecaptureNext]_recaptureVars

-----------------------------------------------------------------------------
(* Whenever a loop has closed, the output looked for and every snapshot    *)
(* that closed it are from one and the same rerun, whatever the rounds     *)
(* before it captured.                                                     *)
OneExecution ==
    stage = "collect" /\ outcome = "CLOSED" => \A s \in have : s.from = expected

=============================================================================
