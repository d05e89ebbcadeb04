# A TLA+ model of clark-utov

clark-utov recovers algorithms from instruction traces. A deterministic
pipeline reads a trace, seeds hypotheses, verifies them and promotes what a
verifier passes to findings; an agent or a script drives it, proposes further
hypotheses, overrides verdicts, reruns stages and may be interrupted at any
moment. What makes it worth modelling is not the arithmetic of the stages but
the bookkeeping around them: several files and two databases written one after
the other, commands that may arrive in any order, a process that may die
between any two writes, and gates that must not be walked around.

Paths below are relative to `src/engine/engine/`.

## 1. Inventory

| Component | State | Operations | Interacts with | What is hard |
|---|---|---|---|---|
| Phase machine (`phase_sequence.py`) | outcomes, entered, unlocked, confirmations of a `PhaseRun` | `enter`, `request_escalation`, `confirm_escalation`, `record` | the VMP tool surface | only direct requirements are looked at; outcomes are overwritten; two ways to unlock |
| VMP tool surface (`vmp_phase_api.py`, RPCs in `orchestrators/agent_mode.py`) | a `PhaseRun` and the vmtrace budget | `phase_1` .. `phase_5`, `phase_heavy_vmtrace`, `phase_record` | phase machine, runner | the budget and the gate must go together |
| Run ledger (`core/_hyp.py`, `core/_batch.py`, `core/_handler_verify.py`, `core/_algorithm.py`, `hyp_tree.py`, `store.py`, `cluster.py`, s1b, s6) | `hypotheses.sqlite` (hypotheses, interventions), `findings.sqlite` (findings, finding_groups), `_current_batch_id` | submit, seed, three kinds of verification pass, promote, `preprocess_batch`, `discard_batch`, overrides, `invalidate_cluster`, `inject_finding`, `rerun_from_stage` | both drivers, `utov override` in another process | every method is several commits on two databases |
| Stage pipeline and run directory (`core/_lifecycle.py`, `core/_core.py`, `store.WorkDir`, `stages/*`) | `stage_state.json`, `stage_outputs/`, `session.json`, `meta.json`; the items and session in memory | `run_stage`, `run_pipeline`, `pause`, `resume_run`, `rerun_from_stage`, opening a run | ledger (s1b seeds, rerun abandons), drivers | what is marked done on disk and what a new process finds in memory |
| Archive (`archive_abandoned`, `store.archive_subtree`) | `archived/hyps_<ts>.sqlite` | copy and delete an abandoned subtree | ledger | two databases, foreign keys |
| Deterministic passes (`core/_handler_verify.py`) | none of their own; findings they promote | scans, Ch, Maj, Triton, sigma folds over a trace | ledger | passes are re-run over the ledger they filled |
| Derived findings (`core/_algorithm.py`) | algorithm, mode, table, timeline and key findings | fit, refit, rescan, aggregate | ledger | what is on record while evidence keeps arriving |
| Script driver (`orchestrators/script_mode.py`, `cost.py`, `progress.py`, `llm_client.py`) | budget meter, futures of prefetched proposals | the stage chain, s6 over stuck points | ledger, LLM | a thread pool against a budget, retries, pauses |
| Agent driver (`orchestrators/agent_mode.py`) | request and answer queues | RPC dispatch, delegated LLM calls | everything | late and mismatched answers, 300 s time-outs, end of file |
| Conformance and runner client (`conformance.py`, `runner_client.py`) | report; number of the last request, the pipe | the checks C1 to C10, `_call` over a line protocol | profile, agent driver, `utov verify-construction` | order of the checks, a runner that is not deterministic; lines that are no reply, error replies, end of file |
| Discipline (`discipline_wrapper.py`, `methodology.py`, `m1_*`, `m3_*`) | counters, cards, history of observations, dead blocks | wrap every tool call | agent driver | what counts as an attempt |
| Phase discovery (`phase_discovery.py`, `block_cause.py`, `rerun_*`, `phase_replay.py`) | window, backlog, requests, captured units | walk back, route, capture, load | runner, profile | the unit loaded must answer what was asked |
| Task layer (`task/`) | tree of tasks, contracts, audit file | load, change the structure, declare done | profile gate | the trail must account for the tree |
| Profile layer (`profile/registry.py`, `loader.py`, `lint.py`, `state_machine.py`) | parsed files and merged profiles, both cached | load, resolve | probes, tasks | a lower profile must not weaken the baseline |
| Probes and the mechanism gate (`profile/gate_runtime.py`, `probes.py`, `synthesis.py`, scope gates) | dead blocks and postures | evaluate a call | tasks, discipline | caps of many probes, blocks given up |
| Provenance (`constant_provenance.py`, `value_provenance.py`, `watch_first_write.py`, `dataflow.py`) | none | classify a value | mechanism gate | crossing of probes that may be inconclusive |
| CVD drive (`cvd/`, `cvd_mount.py`) | frontier, queue, checkpoint, level | generate, verify, spawn, resume | CVD recovery, ledger | what is lost between a pause and a resume |
| CVD ledger (`cvd_ledger.py`) | rows, a markdown view | record, read, skip | later rounds | two readers of the same rows |
| CVD recovery (`cvd_recovery/_generator.py`, `_verifier.py`, `_compose.py`) | windows and verdicts | generate, try, classify | symbolic set-up, cohort | caps and coalescing that drop windows |
| Recapture (`recapture_loop.py`, `oracle_provenance.py`, `cvd_recovery/_driver.py`) | rounds, watch set, snapshots | plan, rerun, close, re-enter | runner | snapshots of different executions |
| Cohort (`cvd_recovery/_cohort.py`, `trace_merge.py`, `trace_observability.py`, `opaque_staging.py`) | vectors | fold sidecars, compare, advise | recovery, symbolic set-up | unreadable recordings, missing values |
| Symbolic set-up (`setup_symex/`) | answers so far | questions, backing, drive, self-check, parity, retry | recovery | what may be called closed |
| Closure and stamps (`closure_classification.py`, `export_stamp.py`) | none | classify, name, flag | recovery | a name that claims more than the content |
| Rules (`rules/`) | registry, telemetry | admit, promote, retire | advisors | promotion thresholds |
| Other audits, extern model, emitters, readers, advisors, CLI, integration, data | mostly none | | | I/O, code generation, tables |

What makes each of the first four correct, in a sentence: a heavy phase is
never entered around its gate; a finding stands on a hypothesis that was passed
when it was published, and whatever is changed by hand leaves an audit row; what
is marked done has its result, computed from what is on disk now.

## 2. Modules

| Module | What it is | Depends on |
|---|---|---|
| `PhaseGate` | the phase machine for any validated sequence | |
| `PhaseGateProofs` | its theorems | `PhaseGate` |
| `VmpPhases` | the RPC surface over the VMP sequence, with the budget | instance of `PhaseGate` |
| `VerifiedLedger` | abstract: facts published and withdrawn, no commits, passes or batches | |
| `RunLedger` | every method of the ledger, one step per commit | refines `VerifiedLedger` |
| `RunLedgerProofs` | its theorems, the refinement included | `RunLedger` |
| `StagePipeline` | stages, run directory, memory, restart | |
| `StagePipelineProofs` | its theorems | `StagePipeline` |
| `S6Loop` | the hypothesis loop of the script driver with its pool, retries, budget and pauses | |
| `AgentSession` | reader thread, request loop, delegated calls of agent mode | |
| `VmpPhasesProofs` | its theorems | `VmpPhases` |
| `FiniteOrders` | lemmas the later proofs share: least and greatest elements of finite sets, sizes of images, ranks, recursion and induction up to a number | |
| `DriverProofs` | theorems of `S6Loop`, `AgentSession`, `Discipline`, `RunnerGate`, `RunnerPipe`, `TaskTree`, `ProfileRegistry`, `PhaseFlow`, `ValueClaims` | these, `FiniteOrders` |
| `RecoveryProofs` | theorems of `CvdDrive`, `Recapture`, `RecoveryWindows`, `CvdLedger`, `ClosureStamp` | these, `FiniteOrders` |
| `AnalysisProofs` | theorems of `IdiomPasses`, `DerivedFindings`, `SymexDrive`, `CohortEvidence` | these, `FiniteOrders` |
| `Discipline` | the wrapper around every tool call | |
| `RunnerGate` | the conformance checks | |
| `RunnerPipe` | the line protocol of the runner client; also carries a violation run | |
| `PhaseFlow` | from a value without a producer to a captured window | |
| `TaskTree` | tasks, structural operations, audit file, declaring done | |
| `ProfileRegistry` | profile files, chains, locks, merges, caches | |
| `ValueClaims` | provenance classifiers, scope gates, mechanism gate | |
| `IdiomPasses` | the deterministic passes over a trace | |
| `DerivedFindings` | algorithm fits and aggregates | |
| `CvdDrive` | the candidate drive with its checkpoint | |
| `Recapture` | recapture rounds and re-entries of a recovery | |
| `RecoveryWindows` | generating and trying windows | |
| `SymexDrive` | setting up and judging a symbolic execution | |
| `CvdLedger` | the stamped ledger of a work directory | |
| `ClosureStamp` | levels of closure and export names | |
| `CohortEvidence` | what several recordings prove | |
| `MCAgentSide` | small instance of everything an agent or a script drives | `VmpPhases`, `S6Loop`, `AgentSession`, `Discipline`, `RunnerGate`, `RunnerPipe`, `PhaseFlow`, `TaskTree`, `ProfileRegistry`, `ValueClaims` |
| `MCIdiomPasses`, `MCValueClaims` | small traces for the passes, small calls and profiles for the gate | `IdiomPasses`, `ValueClaims` |
| `MCAnalysis` | small instance of the analyses | `MCIdiomPasses` and the other eight |
| `MCPhaseFlow`, `MCRecoveryWindows` | instances that also carry a violation run | |
| other `MC...` | small instances for TLC | |

`MCAgentSide` and `MCAnalysis` put components side by side that share no state:
each is driven by its own caller and keeps its own files. Their variable `active`
is chosen initially and names the one component that runs; the others keep their
initial state. An interleaving of two of them would say nothing more, since no
property relates them; so the run has the sum of the components' states and not
the product. The components that do share state are composed for real: the phase
machine inside `VmpPhases`, the methods, passes and the override command inside
`RunLedger`, stage pipeline and directory inside `StagePipeline`, the drive and
the recapture rounds inside `Recapture`.

Definitions whose comment begins with "Slip:" are plausible mistakes in the
definition that follows them. No specification uses them: replacing the
definition by its slip must break a property, which is how each property is
known to say something about the code.

### 2.1 PhaseGate and VmpPhases

`outcome`, `entered`, `unlocked`, `confirmed` are the four dictionaries and sets
of `PhaseRun`. `Enter`, `EnterByProof` and `EnterByConfirmation` are the three
ways through `enter()`; `Record` is `record()`. A call the code refuses raises
before it has changed anything and is no step. The reason texts, and that both
a proof and a confirmation at once are refused, are left out.
`VmpPhases` instantiates it with the six phases of `VMP_PHASE_SEQUENCE`; the
heavy call checks the budget first, asks the gate, and stores the budget last,
which is one step because the gate is the only thing that can refuse.

### 2.2 RunLedger

The two databases are `hyps`, `findings`, `groups` and `unlogged` (the manual
writes whose interventions row is missing). `pc` says where the Core's current
method stands between two commits and the other variables hold that method's
local variables. A step is one commit, or one read whose result is used later:
`PromoteRead` and `Insert` are the two connections of `promote_to_finding`;
`Verify` commits the verdict of one hypothesis and `VerifyDone` starts the
promotions; `Flip` and `Record` are the status change and the audit row of an
intervention; `Rerun`, `Abandon`, `DeleteFindings` and `RecordRerun` are the
writes of `rerun_from_stage`, and `DeleteRefused` the foreign keys of
`finding_groups` refusing the third. `PassRaises` ends a pass at any point, the
way an exception does; `preprocess_batch` goes on with the next pass. The Core
is single-threaded over these methods, so the only concurrency is the
`utov override` command (`CliOverride`, `CliLog`), and `Crash` at any point.

What the verifier says of a claim is the constant `Verdict`. A claim is a model
value: a fingerprint, a scanned handler, a guess or the algorithm template.
`LedgerInit` is a fresh run directory.

Specifications: `CoreSpec` (one Core), `SharedSpec` (with the override
command), `PipelineSpec` (no agent: seeding, passes, batches and reruns),
`FairSpec`.

### 2.3 StagePipeline

`done`, `output`, `paused`, `savedHints` are what is on disk, `hints` and
`normalised` what is in memory. Instead of its content a file is represented by
what it was computed from: whether the trace was normalised and whether the
session had fingerprint anchors. The trace is one that carries pre-state
snapshots only, the case s0_5 exists for. `Compute`, `Mark` and `Save` are the
three writes of a stage; `Open` is `Core.__init__` on an existing directory,
`Exit` and `Crash` are the ways out. `Rerun`, `Clean`, `Wipe` are
`rerun_from_stage`, `LedgerRefuses` the case in which `RunLedger`'s
`DeleteRefused` raises in the middle of it.

### 2.4 The drivers: S6Loop, AgentSession, Discipline

`S6Loop` is the s6 loop of `run_full_pipeline`: the main thread submits stuck
points while a slot is free (`Submit`, `Filled`), waits for the first futures
(`Wait`), and looks at them one at a time (`Drain`, `Pause`, `Raise`). A worker's
call (`Start`, `LlmReply`, `ServiceError`) goes through `DirectBackend`'s attempts; `calls` is the meter, charged and
compared by each worker by itself. One stuck point is one future; the text of a
proposal is irrelevant, only whether there is one. Of the budget the calls axis
is kept; the other axes are compared at the same place.

`AgentSession` has the two queues the reader thread fills (`rpcQ`, `llmQ`), the
position of `serve_mcp`, and the sequence number of the delegated back end. An
answer may arrive before, after or twice; `TimeOut` is the 300 s limit. Nothing
makes the agent answer or close.

`Discipline` is one step per wrapped call: both gates may refuse or rewrite it,
then counters and the card. `RunnerGate` chooses a runner when it is connected
(what it declares, whether it is random, leaks, or ignores its input) and the
checks see only what its calls return.

`RunnerPipe` is what lies under those calls. A call is two steps, because the runner
may do anything in between: `Request` uses up a number and writes the line,
`ReadLine` or `EndOfFile` ends it, and `ends` keeps with what. The runner answers in
order with a result or an error (`Respond`), writes a line `_call` cannot take for a
reply (`MakeNoise`: no JSON, no object, or neither `result` nor `error`), closes its
stdout or ends (`Stop`). An error reply, noise and end of file all raise; only a
result is returned, and the number it carries is not looked at. `shutdown` is a call
whose end is swallowed, after which the runner is terminated.

### 2.5 Tasks, profiles, values, phases

`TaskTree` keeps the tree in memory, the audit file and the log's own list apart,
because the file may fail to be written after the list has grown. `ProfileRegistry`
keeps `raw` (parses) and `resolved` (merges) apart from the files, which may be
edited between two loads. `ValueClaims` has the classifiers as operators over
records of what each probe said, and the mechanism gate as the state machine it
is, which remembers failed postures and blocks given up between evaluations.
`PhaseFlow` is the walk back of a wrapped call, the router, the captures a runner
makes and the units loaded from them.

### 2.6 The analyses

`IdiomPasses` runs the passes over small programs that really execute, so that a
register read has the value the last write gave it; what was *emitted* is stated
apart from how the passes look for it. `DerivedFindings` takes anchors that arrive
in any order between the passes. `CvdDrive` leaves open which candidate scores
best; checkpoint, frontier, level and resume are kept, and a resume brings its own
`collect_extensions`, which need not be that of the run before it. `Recapture` abstracts a byte
to the execution it was produced in, which is all its property needs.
`RecoveryWindows` reads the back-trace, the dispatch coverage and the cohort from a
scenario. `SymexDrive` takes what the executor returns as given and models every
decision around it. A runner may state vectors of its own (`RunnerVectors`), each with
its input, outputs, execution and the flag that it is the deriving trace's; without
them a bare "m/n" (`GoldParities`) becomes n vectors that name no execution. The drive
always tells the parity check the execution of its own trace
(`setup_symex/_driver.py:386`, `:769`), so the check's default of none is not a case.
`CvdLedger` models the commits, the view that is written after them and the two ways of
reading. `ClosureStamp` is a pure function of the windows; `CohortEvidence` recomputes
what the cohort proves whenever it grows.

## 3. What the runs check

| Run | Question | Bounds |
|---|---|---|
| `phase_gate` | forced order, gate | 5 phases, an ordinary one behind the escalation |
| `ledger_core` | promotion, types, refinement of the abstract ledger, methods return | 1 fingerprint, 1 guess, template of 1 anchor, 2 hypotheses, 2 findings, 1 batch |
| `ledger_pipeline` | groups, batch tag, seeding | 2 fingerprints, 1 handler, template of 2 anchors, 5 hypotheses, 4 findings, 1 batch, 1 crash |
| `ledger_shared` | audit rows with the override command | as core, 1 death |
| `stage_pipeline` | marks, files, freshness, completion | default list, two halves, s4 alone, taint; 1 crash |
| `agent_side` | the drivers and gates, one component at a time | below |
| `analysis_side` | the analyses, one component at a time | below |

The bounds are enough for the interesting cases to happen: two hypotheses
suffice for an algorithm over an anchor and its group, two findings for one to
reference the other; five allow a seeding, an algorithm over both anchors, and a
second seeding after a rerun. `MaxHyps`, `MaxFindings`, `MaxBatches` and
`MaxFaults` (`MaxCrashes`) bound counters in the guards and nothing else.
Deadlock is checked in these five.

In `agent_side` three stuck points go through two workers with a budget of three
calls, so that a breach, a retry and a refill overlap; a session sees three
requests and three answers, one more than a late and a repeated one need; four
wrapped calls reach a card, an interception and a checkpoint; two structural
operations follow each other on a tree of three tasks; four edits walk a chain of
three profiles through every lock; four calls over the pipe meet two lines that are
no reply, so that a call can be given a reply two behind its own. `MaxLlmCalls` and
`MinCalls` are limits of the code; `MaxRequests`, `MaxPoints`, `MaxAnswers`, `MaxSteps`, `MaxPipeCalls`, `MaxNoise`,
`MaxWraps`, `MaxOps`, `MaxEdits`, `MaxEvaluations` bound what callers and runners do.
In `analysis_side` programs have up to a handful of instructions over registers of
three bits, enough for each idiom and for a register overwritten in the middle of
one; a drive sees three candidates, one spawned, and one resume; a recapture three
rounds and two re-entries; a cohort grows to three vectors; the vectors a runner
states include one of the deriving execution and one flagged as derived. `MaxPasses`,
`MaxCandidates`, `MaxResumes`, `MaxRows`, `MaxCohort` bound the runs; `MaxRounds`,
`MaxReentries`, `MaxWalk`, `MaxWiden`, `GenCap`, `MaxSpan`, `MaxPauses` are limits of the
code, smaller here. Deadlock is not checked in these two nor in the violation runs
that are instances of their components: a session, a drive and a recapture end.
The violation runs take the bounds of the passing run of their component, or
smaller ones.

What the properties say that is not obvious:

* `UnlockJustified` and `ForcedOrder` need several calls to be broken: the code
  looks at direct requirements only and lets outcomes be overwritten.
  `LightToHeavy` says of the VMP surface, where provenance has two entries and outcomes
  are re-recorded, that no phase was ever entered past one without a verdict, and that
  only a confirmation on record gets to the full trace before the analysis phases have
  one. `BudgetOnRecord`: a budget is stored exactly for an admitted full trace.
* `PromotedWhilePassed`: between the read and the insert of a promotion nothing
  un-passes the hypothesis; `RefinesVerifiedLedger`: findings are withdrawn only
  all at once and only with abandoned hypotheses. `OnlyAFaultLosesARow` follows
  each write to its audit row across two databases and two processes.
  `SeededOnceUnlessKilled`: reruns, also half refused ones, never make a
  fingerprint compete with itself.
* `DoneHasOutput` and `UpToDateUnlessKilled` relate the state file to the outputs
  over runs, reruns and partial runs.
* `Overdraft`: the budget is exceeded by at most the other workers' calls in
  flight. `NothingLostSilently`: a loop that ended by itself drained every point.
* `OwnAnswerOrNone`, `EveryRequestReplied`: late and repeated answers reach no other
  call, and a request is answered or the session is over.
* `BooksKept`: no mix of refused, failed and successful calls goes an interval
  without a card. `PassMeansSound`: a runner that passes has the qualities the gate
  tests whatever defect hides another.
* `ShiftedByNoise`: how wrong a reply can be. A call is given the reply to the call as
  many before it as calls of this adapter have raised on noise so far: never the reply
  to a later call, never one reply twice, a foreign one only after an exception. That
  it can be foreign at all is the run `pipe_mixup`.
* `CollectedOnce`: a captured unit answers its question, with two exceptions the code
  makes: the walk is cut off by its depth, or the region was first written at another
  byte than the one watched. The small instance has the value 4, which lies inside a
  region, so that the second one is met. `TrailAccountsForTree`:
  every task that came or went is in the audit file. `ServedIsWhole`: no chain of
  profiles, edited in any order, weakens the baseline or takes a role away.
  `AnswersForEveryProbe`: an evaluation answers for all its probes. One of the
  profiles lists a class twice, which the loader accepts; the later place counts.
* `IdiomsFound`, `FoldedOnce`: what a program emitted is claimed, also past an
  instruction that seems to carry a chain on and leads nowhere, and the sigma fold of
  a triple of places is claimed once. `DerivedIsSettled`: fits are current after a refit and aggregates unique.
* `GapMapComplete`: a collecting run reports every candidate it ever had, over
  pauses and resumes. `OneExecution`: the snapshots that close a recapture are of
  one rerun. `ChainCovered`: no instruction of the producer chain falls between
  the windows unless the run says so. `ClosedIsGrounded`: a closed window has its
  evidence: backed addresses, both judgments, a transform that is not refuted, and
  enough matching inputs none of which is the deriving trace's own, by its execution or
  by the runner's word; those that name an execution have one each and outputs that
  differ.
  `ReadersAgree`: the reader that takes the newest row of a key and the one that folds
  all rows close the same subjects, and a call is left out only by a closing row of its
  own in its own execution. `DerivedNameIsHonest`, `VarianceIsKept`: the check of names
  and a growing cohort do not contradict themselves.

### Where the code does not do what it says

A run marked "violation" checks a sentence of the repository that the code does
not keep, and TLC finds the behaviour.

| Run | What happens |
|---|---|
| `stage_graph` | s0_5 is marked done on disk and its effect is in memory: a restart before s3 builds the graph from the raw trace |
| `stage_hints_rerun` | a rerun from s2 or later drops the anchors s1b published while s1b stays done |
| `windows_closure` | a generated window never carries the flag the closure of a window asks for, so none can be an algorithm closure |
| `phase_copies` | a copy by the instruction with index 0 is taken for a plain writer (`writer.idx or -1`) |
| `pipe_mixup` | a line of the runner that is no reply uses up a call; from then on `verify-construction` compares each input with the output for the one before (`runner_client.py:774`) |

Further deviations met while reading, which the models reproduce and no run
asserts.

Ledger and stages: a crash between the verdicts and the promotions of a plugin
pass leaves passed hypotheses no later pass looks at (`core/_handler_verify.py:82`);
`rerun_from_stage` after an algorithm was fitted is refused by foreign keys half
way (`core/_hyp.py:516`); `utov override` between the read and the insert of a
promotion publishes a finding of a failed hypothesis (`core/_algorithm.py:1303`, read
on a connection that is closed before the insert); a crash inside s1b seeds its
fingerprints twice, although it should create ONE hypothesis for each
(`stages/s1b_fingerprint.py:3`); a handler pass run twice promotes every claim twice,
although it should skip them by a UNIQUE the schema does not have
(`core/_handler_verify.py:112`); opening a paused run in the other mode erases `paused` (`core/_lifecycle.py:60`);
a crash between an algorithm finding and its member links leaves it without them for
good (`core/_algorithm.py:170`); `promote_to_finding` called twice makes two findings; nothing reads the paused flag
before `run_pipeline` (`contracts/agent_protocol.md:611`); a rerun deletes the file
of the taint stage, which stays done (`stages/s6_taint.py:10`); `invalidate_cluster`
logs nothing for a member that is pending already (`core/_hyp.py:321`); an
escalation proof may cite a phase that is none of the three analysis phases
(`vmp_phase_api.py:344`).

Drivers: a stalled call is not noticed by the pacing heuristic (`progress.py:160`);
a JSON line that is not an object ends the reader thread (`orchestrators/agent_mode.py:77`);
class A does not need `MinSamples` samples when no dependency is declared (`m1_success_audit.py:705`); `pending_ack` is
never set (`methodology.py:232`); C5 passes with a second trace under ten lines
(`conformance.py:562`).

Tasks, profiles, values, phases: `ReplaceChild` takes the new child's criterion
(`task/audit.py:287`); a `child_done` atom may name no child (`task/tree.py:171`); an
audit entry stays in memory when its line could not be written; a name disabled
anywhere in a chain is removed at the end, also when a lower profile declares it
again (`profile/registry.py:265`);
duplicate ids are accepted; a class outside the order is never capped by
`_min_class`; a value that changed between two reruns of one session is classified as
hardcoded when its data flow is static (`constant_provenance.py:533`); a step counts as inside the
window by its pc, and the backlog repeats itself.

Analyses: sigma folds are promoted without a group of their own
(`core/_handler_verify.py:1139`); the entropy threshold 4.5 is above what a
16-byte key can reach (`core/_algorithm.py:641`); a candidate asked for and absent
from the checkpoint is passed over (`cvd/_driver.py:227`) and candidates are
compared by kind and locus only (`cvd/_driver.py:662`); a truncated walk closes
with an open producer (`recapture_loop.py:412`); a drive may be EXACT despite
mismatches (`setup_symex/_parity.py:262`) and closed with unpinned memory inputs
(`setup_symex/_driver.py:495`); a crash between a commit and the view leaves the
markdown behind; an event whose index matches no instruction is folded onto the
first of its pc (`trace_merge.py:169`), and keys are counted over all vectors though
values are judged on the readable ones.

## 4. Fairness

`FairSpec` of `RunLedger`: weak fairness of the steps of a method that has been
entered. The Core runs a method to its end on one thread, so nothing but a
death keeps it from its next step. Nothing is assumed of callers.

`DrivenSpec` of `StagePipeline`: weak fairness of a call that was entered and of
opening the run again, and strong fairness of asking for the default pipeline,
since an agent may pause and exit in between infinitely often. This is a driver
that keeps coming back, as the script mode does when it is started until it
succeeds. Reruns are not fair; `PipelineCompletes` allows a run that is rerun
for ever.

`AgentSpec` of `MCAgentSide`: weak fairness of the main thread of the s6 loop and of
its workers (a call comes back, because the client has a time-out), and weak
fairness of the engine's side of a session. Nothing makes the agent answer, send
or close, and nothing makes the user act.

## 5. What is proved

All proofs are checked by TLAPS for every value of the constants that satisfies
the named assumptions of the module. Every safety invariant and every action
property of the passing runs is a theorem, and so is the refinement of the abstract
ledger; what is left to TLC is liveness (below).

The assumptions say what the code validates or what its data are: a sequence of
phases that the constructor of `PhaseSequence` accepts (`PhaseAssumption`); bounds that are numbers
(`S6Assumption`, `DisciplineAssumption`, `LedgerAssumption`, `PipelineAssumption`,
`SessionAssumption`, `RunnerAssumption`, `PipeAssumption`, `DerivedAssumption`,
`CvdAssumption`); names
that are sequences, and values that stand for none (`StampAssumption`,
`ExecAssumption`, `BudgetAssumption`, `OutcomeAssumption`); producer chains and
recordings that are finite, and vectors a runner states that are lists
(`WindowsAssumption`, `SymexAssumption`); a run of program
counters with an operation inside it (`CohortAssumption`); task files and drafts that
are trees, as `children` lists nested in a YAML file are (`TaskAssumption`); finitely
many profile names, and files whose `inherits` is one of them or none
(`ProfileAssumption`); recorded steps with addresses (`FlowAssumption`); dependencies
that point backwards (`RecaptureAssumption`); instructions over the modelled
operations and registers, and a search window that holds two gaps, 32 against 9 and 9
in the code (`IdiomAssumption`); classes that are names of the alphabet, and calls that
submit finitely many records, of values there are (`ClaimAssumption`).

* `PhaseGateProofs`. The invariant adds to the types that requirements of every
  entered ordinary phase have run; `Foundation`, a least set, is then inside
  `Ran` because `Ran` itself is one of the sets it is the intersection of.
  `UnlockIsJustified` follows from the guards of the two unlocking actions.
* `RunLedgerProofs`. The inductive invariant `LedgerInv` adds to the types which
  local variables are filled at which `pc` (`AtWork`), that the current
  hypothesis is a row (`CurIsRow`), that a promotion under way is of a passed
  hypothesis (`InsertPassed`), that finding ids are fresh (`FreshIds`) and that
  a rerun deletes behind abandoned hypotheses only (`DoomedAbandoned`). From it
  follow `PromotedWhilePassed`, the batch tag, and, action by action, the
  refinement of `VerifiedLedger`. `GroupsResolve` and `OnlyAFaultLosesARow` hold
  with the override command interleaved and have their own, smaller invariants.
  `SeededOnceHolds` needs `SeedInv`: until a process has died, what is alive of the
  seeds before the next seeding is what a rerun is about to abandon
  (`NoneLeftBehind`), a fingerprint still to be seeded has no live row
  (`StillToSeed`), and no pass brings an abandoned seed back (`NothingRevived`).
* `StagePipelineProofs`. Types, and `DoneHasOutput`, whose strengthening says
  that a stage about to be marked has written its file and that a cascade being
  cleaned is out of `done` already. `UpToDateHolds` adds that, until a crash, a file
  belongs to a stage that is done, about to be marked or about to lose it
  (`FilesOfDone`) and that a stage stands on a done source and the file that source
  has now (`OnItsSource`); `CascadeLemma` says that a rerun takes a stage down with
  its source.
* `VmpPhasesProofs`. `RouteIsLightToHeavy` needs `OrderInv`: only entered phases have
  an outcome, so what has run stays run when it is recorded again; a heavy phase that
  is entered is unlocked; and an unlocking without a confirmation happened with the
  analysis phases run. The chain follows by the one requirement each light phase has.
  `BudgetOnRecord` is inductive with the fact that no light phase is the heavy one.
* `DriverProofs`.
  * `OverdraftIsBounded`, `NothingIsLostSilently`. Before a breach is seen, calls over
    the limit are at most the broken futures still pending, and no more are pending
    than there are workers; after it nothing starts and every worker still asking
    pays once more. The step from the first form to the second is `Pause`. A loop
    that ends has handed out every point and has no future left.
  * `AnswersAreOwn`. Calls are numbered without a gap: there is an entry in `used` for
    every delegated call but the one that waits, so the answer it takes lands at its
    own index.
  * `BooksAreKept`. No card lies ahead of the calls; one lemma covers every kind of call.
  * `PassedRunnersAreSound`. `Found` says for each check that is past what it must have
    recorded of this runner; a check that would have failed is then on record, and an
    overall pass has none.
  * `RepliesAreShiftedByNoise`. `PipeInv`: the replies in the pipe are numbered without
    a gap up to the last one served, and the first of them is the one due, which is the
    number of the call less the noise read (`HoldsFrom(Due)`); or the runner is gone
    and there is nothing left to read, after which calls end without a line and the
    number due no longer matters (`NothingToRead`). The noise read is a finite set that
    a call enlarges by itself or not (`EndCounts`).
  * `TrailTellsTheTree`. `TaskInv`: tree and loaded files stay nested, and of every task
    the trail names it or one of its ancestors, or it still stands under the ancestors
    it was loaded with. The ancestors of a task are an intersection of upward-closed
    sets, and a closed set is exhibited where one inclusion is needed.
  * `ServedProfilesAreWhole`. `ServedInv`: what the registry keeps of a file was written
    for that name, and what it serves was merged over the base it keeps. The lemmas
    say of one merge, for any chain: the last declaration of a section wins, locks of
    base are compared along the whole chain, a role the base asks for stays bound.
  * `UnitsAnswer`. `FlowInv`: what is captured begins where its anchor is hit. A walk over
    such a unit ends before the anchor, at its first step, or on its depth.
  * `EvaluationsAnswerForAll`. The weakest of finitely many classes exists, by the place
    of each in the profile (`HindmostIsLast`). A probe whose records allow no class the
    profile orders gives one it does not order, so it cannot displace another's.
* `RecoveryProofs`.
  * `NothingForgotten`. A collecting run keeps on its frontier whatever it has not dealt
    with, and the checkpoint it returns is that frontier; frontiers are bags.
  * `LoopsCloseOnOneExecution`. Inductive as it stands, round by round.
  * `NamesAreHonest`. A fact about the naming functions, for any set of windows.
  * `ChainIsCovered`. Between two starts of windows no chain instruction is left over,
    because the starts are the chain instructions far enough from the one before, and
    coalescing, the cap and the widest span each keep that or set a flag.
  * `ReadersDoAgree`. The newest row of a key exists and is unique in the order by stamp,
    then by row. The reader that folds the rows is a recursion over them in that order:
    an induction shows that after each row it holds the last of those seen
    (`FoldKeepsLast`), so it ends where the other begins (`FoldIsLatest`).
* `AnalysisProofs`.
  * `FoldsAreFoundOnce`. A fold in the bag of claims is there once, since a pass takes
    only places that are in no fold on record.
  * `IdiomsAreFound`. `FoundInv`. The registers before each instruction are shown to exist
    and to change by one destination at a time (`Execution`), so a register holds what
    its last writer wrote (`HeldFromLastWriter`). The three instructions of an emitted
    `Ch` then compute what the matcher compares with, in both operand orders; the three
    of a sigma chain pass the ungrouped search, whatever the search along the
    accumulator ran into.
  * `FindingsSettle`. A fit equals what the findings of the moment say after each refit,
    and an aggregate is promoted for a row that is not on record.
  * `ClosuresAreGrounded`. `SymexInv`: a judgment given is kept until the drive starts
    again, what is taken for backed is, and the run that closes is the one whose
    parity was computed. What the property says of the vectors is then a fact about the
    parity check over any list a runner, a bare parity and a cohort can make together.
  * `VarianceStays`. An action property: the present cohort is a prefix of any later one
    (`TakingGrows`), and what two recordings show to vary the longer one shows as well.

`FiniteOrders` holds what several of these need. A recursive function of the models
runs over numbers up to a bound; `RecursionUpTo` says that such a function exists and
`InductionUpTo` that what passes from a number to the next holds up to the bound.
`RanksAreExact` numbers a finite strict order, and the rest is about greatest
elements and sizes of finite sets.

Only model-checked are the liveness properties `MethodsReturn`, `PipelineCompletes`,
`S6LoopEnds` and `EveryRequestReplied`: they rest on fairness, which is beyond the
prover. What a violation run refutes is of course not proved.

## 6. Plan

The components of the drivers have no type invariant as a theorem of its own; the
types are conjuncts of the invariants above. Worth stating next is an abstract
specification of the CVD ledger (a map from key to newest row), with its refinement.

Modules still to write: the archive of abandoned subtrees with the tags and
dependencies of hypotheses; the life cycle of rules (admission, promotion,
retirement); the implementation paths of a task; `dataflow.py`, whose result
`ValueClaims` takes as given, as functions checked against a reference definition.

## 7. Not modelled

* `rules/`: bookkeeping of advisory rules that no gate and no finding depends on.
* What is only computed once and kept nowhere: code generation, emitters,
  pseudocode, the readers of binaries and traces (`extern*`, `*_reader.py`), the
  advisors and projections, ranking and scores. They read state and change none.
* The audits nothing here depends on (`length_chain_check`, `framing_transform`,
  `dispatch_coverage` beyond what the window generator reads, `blue_team`,
  `invariants`): pure reports.
* The execution of machine code under symbolic execution, the verifier's arithmetic
  beyond the operations of `IdiomPasses`, hashes, byte formats, markdown.
* External runners, language models and agents, except for the answers they may
  give; the Java contract and the example runner.
* The command line beyond the override command, which is the only command that
  touches state another process holds.
* Details inside modelled operations that no property tells apart: the cap of 50 on
  candidate keys (`core/_algorithm.py:731`), which drops rows no other row depends on;
  the separate routing of a collapse to a constant (`cvd_recovery/_verifier.py:681`),
  which the model leaves among the other unverified windows; rows with an empty subject
  and the filter by call in `closed_subjects` (`cvd_ledger.py:502`); the width hint of
  the ungrouped sigma search (`core/_handler_verify.py:1475`), since the traces of the
  model have one width.
