----------------------------- MODULE SymexDrive -----------------------------
(***************************************************************************)
(* Setting up and running symbolic execution of one window: derive what to *)
(* symbolize, ask what the code cannot know (memory inputs, alias or       *)
(* compute, which static), gate on the concrete backing of the addresses,  *)
(* run the symbolic executor, check the emitted transform against its own  *)
(* trace and against the runs of the cohort, and retry once with forwarded *)
(* staging.  A question nobody answers pauses the drive; the caller drives *)
(* again from the start with the answers so far.                           *)
(***************************************************************************)
EXTENDS Naturals, FiniteSets, SequencesExt, FiniteSetsExt, Functions

CONSTANTS
    SymexCases,   \* the windows and configurations a drive may be given
    CohortRuns,   \* how the cohort's own runs may go, one list per cohort
    RunnerVectors,  \* the parity vectors a runner may state, one list per run
    GoldParities, \* the "m/n" a runner may state, as pairs
    ParityMin,    \* parity_min of the configuration
    MinVectors,   \* parity_min_vectors
    MaxPauses     \* bound on the pauses a caller answers

ASSUME SymexAssumption ==
    /\ {ParityMin, MinVectors, MaxPauses} \subseteq Nat
    /\ \A runs \in CohortRuns : IsFiniteSet(DOMAIN runs)
    /\ \A vectors \in RunnerVectors : vectors \in Seq(ToSet(vectors))
    /\ GoldParities \subseteq Nat \X Nat

VARIABLES
    setup,      \* the case: window, registers, backing, memory, cohort
    answers,    \* the decisions so far
    at,         \* where the drive is
    entry,      \* the entry state: symbolic registers, memory and staging
    backed,     \* the backing gate passed
    result,     \* of the last symbolic run
    retried,
    conclusion, \* what the drive returned
    pauses

symexVars == <<setup, answers, at, entry, backed, result, retried, conclusion, pauses>>

CaseWindow == setup.window
Idxs == DOMAIN CaseWindow
NoAnswers == [asked |-> FALSE, mem |-> <<>>, alias |-> FALSE, static |-> FALSE]
NoEntry == [regs |-> {}, mem |-> {}, unpinned |-> {}, staging |-> {}, blocked |-> FALSE]
NoRun == [ran |-> FALSE, emitted |-> FALSE, ok |-> FALSE, unmodeled |-> FALSE, forwards |-> 0,
          check |-> "none", parity |-> "none", vectors |-> <<>>]
Unconcluded == [closed |-> FALSE, note |-> "none"]

SymexInit ==
    /\ setup \in SymexCases
    /\ answers = NoAnswers /\ at = "begin" /\ entry = NoEntry /\ backed = FALSE
    /\ result = NoRun /\ retried = FALSE /\ conclusion = Unconcluded /\ pauses = 0

Go(next) == at' = next /\ UNCHANGED <<setup, conclusion>>

-----------------------------------------------------------------------------
(* What the window takes from outside.                                     *)

Latest(i, r) == LET W == {j \in 1..i - 1 : r \in CaseWindow[j].writes} IN IF W = {} THEN 0 ELSE Max(W)

LiveInRegs == {r \in setup.regFile : \E i \in Idxs : r \in CaseWindow[i].reads /\ Latest(i, r) = 0}
MemLiveIn == {a \in UNION {CaseWindow[i].loads : i \in Idxs} :
                \E i \in Idxs : a \in CaseWindow[i].loads /\ \A j \in 1..i - 1 : a \notin CaseWindow[j].stores}

\* The roots of a register's address leg that no concrete value backs: a
\* live-in register, or a load whose address the trace did not observe.
Unbacked ==
    LET roots[i \in 1..Len(CaseWindow) + 1] ==
          [r \in setup.regs |->
             LET w == Latest(i, r) IN
             IF r \in setup.backing.regs THEN {}
             ELSE IF w = 0 THEN {r}
             ELSE IF CaseWindow[w].op = "load"
                  THEN (IF CaseWindow[w].loads = {} THEN {w} ELSE {}) \union UNION {roots[w][a] : a \in CaseWindow[w].addr}
                  ELSE UNION {roots[w][s] : s \in CaseWindow[w].reads}]
    IN roots
StepUnbacked(i) == UNION {Unbacked[i][a] : a \in CaseWindow[i].addr}
MemSteps == {i \in Idxs : CaseWindow[i].op \in {"load", "store"}}

\* A memory step is blind unless the trace observed its address, the backing
\* resolves it, or its value is on the registers the trace records.
Blind(i) ==
    /\ CaseWindow[i].loads \union CaseWindow[i].stores = {}
    /\ ~(setup.backing.regs \union setup.backing.addrs # {} /\ CaseWindow[i].addr # {} /\ StepUnbacked(i) = {})
    /\ IF CaseWindow[i].op = "load" THEN CaseWindow[i].writes = {} ELSE CaseWindow[i].reads = {}
BackingOk == \A i \in MemSteps : ~Blind(i)
AddressesClosed == \A i \in MemSteps : StepUnbacked(i) = {}

-----------------------------------------------------------------------------
(* The questions.                                                          *)

\* A boundary that was typed by hand instead of located is refused.
Begin ==
    /\ at = "begin"
    /\ Go(IF setup.located THEN "memory" ELSE "raised")
    /\ UNCHANGED <<answers, entry, backed, result, retried, pauses>>

Pinned == setup.symMem \union setup.backing.addrs
Undecided == {a \in MemLiveIn \ Pinned : a \notin DOMAIN answers.mem}

Pause(name) ==
    /\ pauses < MaxPauses
    /\ at' = name /\ pauses' = pauses + 1
    /\ UNCHANGED <<setup, answers, entry, backed, result, retried, conclusion>>

\* A callback's answer replaces the decisions on memory inputs made before;
\* without one the drive pauses, unless it has ever had an answer.
MemInputs ==
    /\ at = "memory"
    /\ \/ /\ Undecided = {} \/ setup.systematic \/ (~setup.callback /\ answers.asked)
          /\ UNCHANGED answers /\ Go("seed") /\ UNCHANGED <<entry, backed, result, retried, pauses>>
       \/ /\ Undecided # {} /\ ~setup.systematic /\ setup.callback
          /\ \E S \in SUBSET Undecided : \E f \in [S -> {"back", "symbolize"}] :
                answers' = [answers EXCEPT !.mem = f, !.asked = TRUE]
          /\ Go("seed") /\ UNCHANGED <<entry, backed, result, retried, pauses>>
       \/ /\ Undecided # {} /\ ~setup.systematic /\ ~setup.callback /\ ~answers.asked
          /\ Pause("ask_mem")

Answered == setup.systematic \/ setup.callback

AliasGate ==
    /\ at = "alias"
    /\ \/ /\ Answered \/ answers.alias
          /\ answers' = [answers EXCEPT !.alias = @ \/ (setup.callback /\ ~setup.systematic)]
          /\ Go("static") /\ UNCHANGED <<entry, backed, result, retried, pauses>>
       \/ ~Answered /\ ~answers.alias /\ Pause("ask_alias")

StaticGate ==
    /\ at = "static"
    /\ \/ /\ Answered \/ answers.static
          /\ answers' = [answers EXCEPT !.static = @ \/ (setup.callback /\ ~setup.systematic)]
          /\ Go("symex") /\ UNCHANGED <<entry, backed, result, retried, pauses>>
       \/ ~Answered /\ ~answers.static /\ Pause("ask_static")

\* The caller drives again with one more answer; a drive keeps no state.
Redrive ==
    /\ at \in {"ask_mem", "ask_alias", "ask_static"}
    /\ \/ /\ at = "ask_mem"
          /\ \E S \in SUBSET Undecided : \E f \in [S -> {"back", "symbolize"}] :
                answers' = [answers EXCEPT !.mem = f, !.asked = TRUE]
       \/ at = "ask_alias" /\ answers' = [answers EXCEPT !.alias = TRUE]
       \/ at = "ask_static" /\ answers' = [answers EXCEPT !.static = TRUE]
    /\ Go("begin")
    /\ entry' = NoEntry /\ backed' = FALSE /\ result' = NoRun /\ retried' = FALSE
    /\ UNCHANGED pauses

-----------------------------------------------------------------------------
(* The entry state and its backing.                                        *)

\* The window's live-in registers, or else the register file, but never one
\* the backing pins.
AutoSeed ==
    LET basis == IF LiveInRegs # {} THEN LiveInRegs ELSE setup.regFile IN
    IF basis \ setup.backing.regs # {} THEN basis \ setup.backing.regs
    ELSE setup.regFile \ setup.backing.regs

Seed == IF setup.symRegs # {} THEN setup.symRegs ELSE AutoSeed
\* Nothing is left to symbolize, although there are registers.
SeedBlocked == setup.symRegs = {} /\ AutoSeed = {}
Malformed ==
    \/ setup.regFile = {}
    \/ ~(Seed \subseteq setup.regFile)
    \/ Seed \intersect setup.backing.regs # {}

SeedEntry ==
    /\ at = "seed"
    /\ IF Malformed
       THEN Go("raised") /\ UNCHANGED <<entry, backed>>
       ELSE /\ entry' = [regs |-> Seed, blocked |-> SeedBlocked,
                         mem |-> setup.symMem \union {a \in DOMAIN answers.mem : answers.mem[a] = "symbolize"},
                         unpinned |-> MemLiveIn \ (Pinned \union DOMAIN answers.mem),
                         \* staged loads behind a symbolic address are forwarded
                         staging |-> IF BackingOk /\ ~AddressesClosed THEN setup.staging[1] ELSE {}]
            /\ backed' = BackingOk
            /\ Go("alias")
    /\ UNCHANGED <<answers, result, retried, pauses>>

-----------------------------------------------------------------------------
(* The symbolic run, its self-check and its parity.                        *)

\* Executions are numbered; a vector may carry none, and the trace the
\* transform was derived from has its own, which the drive always names.
NoExec == 0
Self == 1
OwnExec(k) == 100 + k

\* A vector is the deriving trace's own on the word of the runner, or by its
\* execution.
Derived(v) == v.derived \/ v.exec = Self

\* Slip: a vector of the deriving execution counts as an independent one.
CountedWithSelf(vectors) ==
    {i \in DOMAIN vectors : \A j \in 1..i - 1 : vectors[j].key # vectors[i].key}

\* The first vector of each input that is not the deriving execution's own.
Counted(vectors) ==
    {i \in DOMAIN vectors : ~Derived(vectors[i])
        /\ \A j \in 1..i - 1 : ~Derived(vectors[j]) => vectors[j].key # vectors[i].key}
Matching(vectors) == {i \in Counted(vectors) : vectors[i].observed = vectors[i].predicted}
Evidenced(vectors) == {i \in Counted(vectors) : vectors[i].exec # NoExec}
Deterministic(vectors) ==
    \A i, j \in Evidenced(vectors) : i # j => vectors[i].exec # vectors[j].exec
Observed(vectors) == {vectors[i].observed : i \in Evidenced(vectors)}

\* Mismatches are reported and do not block.
ParityVerdict(vectors) ==
    IF Evidenced(vectors) # {} /\ Cardinality(Observed(vectors)) < MinVectors THEN "UNCLOSABLE"
    ELSE IF Cardinality(Matching(vectors)) >= MinVectors /\ Deterministic(vectors) THEN "EXACT"
    ELSE "BLOCK"

\* A text that is no "m/n" counts as none matched of parity_min.
Parities == GoldParities \union {<<0, ParityMin>>}

\* A bare "m/n" becomes n vectors without an execution, m of them matching.
GoldVectors(gold) == [i \in 1..gold[2] |->
    [key |-> i + 100, observed |-> 1, predicted |-> IF i <= gold[1] THEN 1 ELSE 0,
     exec |-> NoExec, derived |-> FALSE]]

\* The vectors a runner states itself come before its bare parity.
MainVectors(stated, gold) == IF stated # <<>> THEN stated ELSE GoldVectors(gold)

\* The transform on the values its own trace started from, against the value
\* the trace ended with.
SelfCheck(known, evaluates, equal) ==
    IF ~known \/ ~evaluates THEN "INCONCLUSIVE" ELSE IF equal THEN "PASS" ELSE "BLOCK"
Checks == {SelfCheck(known, evaluates, equal) : known, evaluates, equal \in BOOLEAN}

\* A cohort run that fails, states no facts or cannot be evaluated is left
\* out; one that names no execution is given one of its own.
CohortVectors(runs) ==
    LET usable == {k \in DOMAIN runs : runs[k].usable}
        nth(i) == CHOOSE k \in usable : Cardinality({j \in usable : j <= k}) = i
    IN [i \in 1..Cardinality(usable) |-> LET k == nth(i) IN
       [key |-> runs[k].key, observed |-> runs[k].observed, predicted |-> runs[k].predicted,
        exec |-> IF runs[k].exec = NoExec THEN OwnExec(k) ELSE runs[k].exec, derived |-> FALSE]]

Runs == backed /\ ~setup.systematic /\ ~entry.blocked

\* What the runner tells apart from the transform it may emit.
Unemitted(unmodeled, forwards) == [NoRun EXCEPT !.ran = TRUE, !.unmodeled = unmodeled, !.forwards = forwards]

\* The window is accepted when an emitted transform passes all three checks.
EmittedRun(run, gold, check, vectors) ==
    LET parity == ParityVerdict(vectors) IN
    [run EXCEPT !.emitted = TRUE, !.check = check, !.parity = parity, !.vectors = vectors,
                !.ok = gold[1] >= ParityMin /\ parity = "EXACT" /\ check # "BLOCK"]

RunOnce(next) ==
    /\ \E unmodeled \in BOOLEAN, forwards \in {0, 1} :
          LET run == Unemitted(unmodeled, forwards) IN
          \/ result' = run
          \/ \E gold \in Parities, check \in Checks, stated \in RunnerVectors, runs \in CohortRuns :
                result' = EmittedRun(run, gold, check, MainVectors(stated, gold) \o CohortVectors(runs))
    /\ Go(next)

Symex ==
    /\ at = "symex"
    /\ IF Runs THEN RunOnce("check") ELSE Go("check") /\ UNCHANGED result
    /\ UNCHANGED <<answers, entry, backed, retried, pauses>>

\* An opaque run that forwarded nothing is tried again, once, with the
\* staging intervals it did not have.
Opaque == Runs /\ ~result.ok /\ result.forwards = 0
NewStaging == setup.staging[2] \ entry.staging
Retry ==
    /\ at = "check" /\ ~retried /\ Opaque /\ NewStaging # {}
    /\ entry' = [entry EXCEPT !.staging = @ \union NewStaging]
    /\ retried' = TRUE
    /\ RunOnce("check")
    /\ UNCHANGED <<answers, backed, pauses>>

Note ==
    CASE setup.systematic -> "decode"
      [] ~backed -> "unbacked"
      [] entry.blocked -> "seed"
      [] result.unmodeled -> "unmodeled"
      [] entry.unpinned # {} -> "unpinned"
      [] result.check = "BLOCK" -> "unsound"
      [] result.parity \in {"BLOCK", "UNCLOSABLE"} -> "parity"
      [] result.check = "INCONCLUSIVE" -> "unchecked"
      [] OTHER -> "none"

Conclude ==
    /\ at = "check" /\ (retried \/ ~Opaque \/ NewStaging = {})
    /\ at' = "done"
    /\ conclusion' = [closed |-> Runs /\ result.ok, note |-> Note]
    /\ UNCHANGED <<setup, answers, entry, backed, result, retried, pauses>>

DriveOver == at \in {"done", "raised"} /\ UNCHANGED symexVars

SymexNext ==
    \/ Begin \/ MemInputs \/ SeedEntry \/ AliasGate \/ StaticGate \/ Redrive
    \/ Symex \/ Retry \/ Conclude \/ DriveOver

SymexSpec == SymexInit /\ [][SymexNext]_symexVars

-----------------------------------------------------------------------------
(* Properties.                                                             *)

\* A window is closed only on a verified byte feed and backed addresses, with
\* both judgments made, a transform its own trace does not refute, enough
\* inputs whose outputs it predicts in runs that are neither of the deriving
\* execution nor marked as derived from it, no two of them from one execution.
\* Once such a run has an execution to show - for an input that no run without
\* one stands for - enough different outputs were observed (_driver.py:701-803).
ClosedIsGrounded ==
    conclusion.closed =>
      LET foreign == {v \in ToSet(result.vectors) : ~v.derived /\ v.exec # Self}
          witnessed == {v \in foreign : v.exec # NoExec}
          claimed == {v.key : v \in foreign \ witnessed}
      IN
      /\ ~setup.systematic /\ BackingOk /\ answers.alias /\ answers.static
      /\ result.emitted /\ result.check # "BLOCK"
      /\ \E W \in SUBSET {v \in foreign : v.observed = v.predicted} :
            /\ Cardinality(W) >= MinVectors
            /\ \A v, w \in W : v # w => v.key # w.key /\ (v.exec # w.exec \/ v.exec = NoExec)
      /\ (\E v \in witnessed : v.key \notin claimed) =>
            Cardinality({v.observed : v \in witnessed}) >= MinVectors

=============================================================================
