----------------------------- MODULE ValueClaims -----------------------------
(***************************************************************************)
(* What a claim about a recovered value is worth: the two provenance       *)
(* classifiers (constant_provenance.py, value_provenance.py), the scope    *)
(* gates (scope_boundary_gate.py, scope_upscale_gate.py, use_case_fork.py) *)
(* and the gate that runs every mechanism probe over the parameters of a   *)
(* call and caps the node (profile/gate_runtime.py, probes, synthesis).    *)
(* The success audit's grade is an input here: Discipline models it.       *)
(***************************************************************************)
EXTENDS Integers, Sequences, FiniteSets, SequencesExt

CONSTANTS
    ClaimProfiles,  \* merged profiles a gate may be built for
    Alphabet,       \* the class ids in alphabetical order
    ValueNames,     \* the values of a session that calls submit
    ValueRecords,   \* what an agent may say of a value
    GateCalls,      \* the calls a gate may be asked about
    GateBlocks, GatePostures,  \* what an observation may be about and done by
    GateMinFailed,  \* failed postures that give a block up
    AxisSamples,    \* min_samples_per_axis
    WideRank,       \* wide_threshold_rank, counted from 1
    MaxEvaluations  \* bound on the calls

(* A class is a name of the alphabet; a call submits finitely many records. *)
NoAttempt == [block |-> "none", posture |-> "none", failed |-> FALSE]

ASSUME ClaimAssumption ==
    /\ {GateMinFailed, AxisSamples, WideRank} \subseteq Nat \ {0}
    /\ MaxEvaluations \in Nat
    /\ Alphabet \in Seq(STRING) /\ {"A", "B", "C"} \subseteq ToSet(Alphabet)
    /\ \A p \in ClaimProfiles :
          /\ p.classes \in Seq(ToSet(Alphabet) \union {""})
          /\ \A c \in DOMAIN p.caps : p.caps[c] \in ToSet(Alphabet) \union {""}
    /\ \A c \in GateCalls :
          /\ IsFiniteSet(c.constants) /\ IsFiniteSet(c.values) /\ c.values \subseteq ValueNames
          /\ c.audit \in ToSet(Alphabet) \union {""}
          /\ c.attempt = NoAttempt \/ c.attempt.block \in GateBlocks \ {"none"}

VARIABLES
    profileInUse,  \* the profile the gate was built with
    records,       \* the value records, as the last evaluation left them
    gateTried,     \* the M3 instance's history: block and posture
    gateDead,      \* the blocks that instance has given up
    judged,        \* the last call, its verdicts, cap and suggestions
    evaluations    \* evaluations so far

claimVars == <<profileInUse, records, gateTried, gateDead, judged, evaluations>>

-----------------------------------------------------------------------------
(* constant_provenance: rerun observations are <<axis, value>>, a dataflow *)
(* is the set of what the producer reads, or NoFlow.                       *)

NoFlow == {"no dataflow"}
Axes == {"same_session", "new_session", "new_appkey", "new_per_input"}

OnAxis(runs, axis) == SelectSeq(runs, LAMBDA run : run[1] = axis)
SeenOn(runs, axis) == {OnAxis(runs, axis)[i][2] : i \in DOMAIN OnAxis(runs, axis)}

(* The baseline is the first value of the session, else of the axis itself. *)
Baseline(runs, axis) ==
    IF OnAxis(runs, "same_session") # <<>> THEN OnAxis(runs, "same_session")[1][2]
    ELSE OnAxis(runs, axis)[1][2]

Axis(runs, axis) ==
    IF axis = "same_session"
    THEN IF Len(OnAxis(runs, axis)) < AxisSamples THEN "unknown"
         ELSE IF Cardinality(SeenOn(runs, axis)) = 1 THEN "stable" ELSE "changes"
    ELSE IF OnAxis(runs, axis) = <<>> THEN "unknown"
         ELSE IF SeenOn(runs, axis) = {Baseline(runs, axis)} THEN "stable" ELSE "changes"

Meaningful(reads) == IF reads = NoFlow THEN {} ELSE reads \ {"allocator"}
Entropy(reads) == Meaningful(reads) \intersect {"time", "random", "session_token"} # {}
StaticOrAppkey(reads) ==
    Meaningful(reads) # {} /\ Meaningful(reads) \subseteq {"static", "appkey"}

(* classify_from_dataflow_only.                                            *)
FromDataflow(reads) ==
    IF Meaningful(reads) = {} THEN "undetermined"
    ELSE IF Entropy(reads) THEN "session_level_derived"
    ELSE IF "input" \in reads THEN "per_input_variable"
    ELSE IF "appkey" \in reads THEN "appkey_fixed_function"
    ELSE IF StaticOrAppkey(reads) THEN "hardcoded_fixed" ELSE "undetermined"

(* classify_value, for a record [runs, reads].                             *)
Category(c) ==
    LET axis(a) == Axis(c.runs, a)
        allStable == \A a \in Axes \ {"new_per_input"} : axis(a) = "stable"
    IN  IF Entropy(c.reads) THEN "session_level_derived"
        ELSE IF axis("new_per_input") = "changes" THEN "per_input_variable"
        ELSE IF axis("new_session") = "changes" THEN "session_level_derived"
        ELSE IF axis("new_appkey") = "changes" THEN "appkey_fixed_function"
        ELSE IF allStable /\ StaticOrAppkey(c.reads)
             THEN IF "appkey" \in c.reads THEN "appkey_fixed_function" ELSE "hardcoded_fixed"
        ELSE FromDataflow(c.reads)

(* The ceiling of a category: the profile's, or the built-in one; "" is no *)
(* cap at all.                                                             *)
BuiltInCeiling(category) ==
    IF category \in {"hardcoded_fixed", "appkey_fixed_function"} THEN "A"
    ELSE IF category = "per_input_variable" THEN "" ELSE "B"

CategoryCeiling(category) ==
    IF category \in DOMAIN profileInUse.caps THEN profileInUse.caps[category]
    ELSE BuiltInCeiling(category)

-----------------------------------------------------------------------------
(* value_provenance, for a record [source, verified, hybrid, requested,    *)
(* landed, provenance].                                                    *)

Observing == {"hook", "dump", "io", "snapshot", "memcpy_capture", "memory_watch"}
Closed == {"formula", "closed_form", "ir", "decompiler", "triton_symbolic",
           "algorithm_template"}

Provenance(r) ==
    IF r.hybrid THEN "hybrid"
    ELSE IF r.source \in Closed /\ r.verified THEN "closed_form"
    ELSE IF r.source \in Observing \union Closed THEN "observed" ELSE "unknown"

ValueCeiling(r) ==
    CASE Provenance(r) = "closed_form" -> "A"
      [] Provenance(r) \in {"hybrid", "observed"} -> "B"
      [] Provenance(r) = "unknown" -> "C"

(* _min_class: a label that is not A, B or C counts below all of them.     *)
Strength(class) ==
    CASE class = "A" -> 3 [] class = "B" -> 2 [] class = "C" -> 1 [] OTHER -> 0

(* tag_values_in_params writes its verdict back into the record.           *)
Tagged(r) ==
    [r EXCEPT !.provenance = Provenance(r),
              !.requested = IF r.requested # "none"
                               /\ Strength(r.requested) > Strength(ValueCeiling(r))
                            THEN ValueCeiling(r) ELSE r.requested]

(* maybe_suggest_watch, on the record as it is by then.                    *)
Suggested(r) ==
    /\ r.landed /\ ~r.verified
    /\ r.source \in Observing \/ r.provenance \in {"observed", "hybrid"}

-----------------------------------------------------------------------------
(* The scope gates, for [claim, observed, attested, proof, category,       *)
(* useCase]; "" is a field the call did not give.                          *)

Rank(scope) ==
    IF scope \in ToSet(profileInUse.scopes)
    THEN CHOOSE i \in DOMAIN profileInUse.scopes : profileInUse.scopes[i] = scope
    ELSE 0

ScopeBoundary(s) ==
    IF s.claim = "" \/ s.observed = "" \/ Rank(s.claim) = 0 \/ Rank(s.observed) = 0
    THEN "undetermined"
    ELSE IF Rank(s.claim) > Rank(s.observed) THEN "fail" ELSE "pass"

Backed(s) ==
    s.attested \/ s.proof \/ s.category \in {"hardcoded_fixed", "appkey_fixed_function"}

ScopeUpscale(s) ==
    IF s.claim = "" THEN "undetermined"
    ELSE IF IF Rank(s.claim) = 0 THEN s.claim # "cross_env" ELSE Rank(s.claim) < WideRank
         THEN "pass"
    ELSE IF Backed(s) THEN "pass" ELSE "fail"

(* use_case_fork ranks a scope its profile does not order by a fixed list. *)
FallbackScopes == <<"task_bound", "env_bound", "single_identity_bound", "cross_env">>
ForkRank(scope) ==
    IF Rank(scope) # 0 THEN Rank(scope)
    ELSE IF scope \in ToSet(FallbackScopes)
         THEN CHOOSE i \in DOMAIN FallbackScopes : FallbackScopes[i] = scope
    ELSE 0

UseCaseFork(s) ==
    IF s.useCase = "current_context_reproduction"
    THEN IF s.claim = "" \/ ForkRank(s.claim) = 0 THEN "undetermined"
         ELSE IF ForkRank(s.claim) > ForkRank("env_bound") THEN "fail" ELSE "pass"
    ELSE IF s.useCase = "cross_context_claim"
    THEN IF \/ /\ s.claim \notin {"", "cross_env"}
               /\ ForkRank(s.claim) # 0 /\ ForkRank(s.claim) < ForkRank("cross_env")
            \/ ~Backed(s)
         THEN "fail" ELSE "pass"
    ELSE "undetermined"

-----------------------------------------------------------------------------
(* evidence_class_synth.                                                   *)

(* Where a class stands; a profile that lists one twice means the last.    *)
Position(class, order) ==
    CHOOSE i \in DOMAIN order :
       order[i] = class /\ \A j \in DOMAIN order : order[j] = class => j <= i
Hindmost(classes, order) ==
    CHOOSE c \in classes : \A d \in classes : Position(d, order) <= Position(c, order)

(* most_restrictive_class_id: the last one in the profile's order, of      *)
(* those it orders; by name when it orders none.                           *)
Weakest(classes) ==
    LET known == (classes \ {""}) \intersect ToSet(profileInUse.classes)
    IN  IF classes \ {""} = {} THEN ""
        ELSE IF known # {} THEN Hindmost(known, profileInUse.classes)
        ELSE Hindmost(classes \ {""}, Alphabet)

(* The mechanism probes, each with its verdict and its cap.  A call is     *)
(* [constants, values, scope, attempt, audit, forked].                     *)
Verdict(probe, result, cap) == [probe |-> probe, result |-> result, cap |-> cap]

ConstantVerdict(call) ==
    Verdict("constant_provenance", IF call.constants = {} THEN "undetermined" ELSE "pass",
            Weakest({CategoryCeiling(Category(c)) : c \in call.constants}))

AuditVerdict(call) ==
    Verdict("m1_success_audit",
            CASE call.audit = "" -> "undetermined" [] call.audit = "A" -> "pass"
              [] OTHER -> "fail", call.audit)

ValueVerdict(call) ==
    Verdict("value_provenance", IF call.values = {} THEN "undetermined" ELSE "pass",
            Weakest({ValueCeiling(records[v]) : v \in call.values}))

Recorded(a) == [gateTried EXCEPT ![a.block][a.posture] = IF a.failed THEN "failed" ELSE "varied"]
GivesUp(a) ==
    Cardinality({p \in GatePostures : Recorded(a)[a.block][p] = "failed"}) >= GateMinFailed

(* A block this detector gave up is refused before anything is recorded.   *)
AttemptVerdict(call) ==
    Verdict("m3_bypass_block",
            IF call.attempt = NoAttempt THEN "undetermined"
            ELSE IF call.attempt.block \in gateDead \/ GivesUp(call.attempt)
            THEN "fail" ELSE "pass", "")

(* Slip: the watch probe reads the records before they are tagged.         *)
SuggestionsUntagged(call) == {v \in call.values : Suggested(records[v])}

(* The probes run in the order of their names: value_provenance has tagged *)
(* the records by the time watch_first_write reads them.                   *)
Suggestions(call) == {v \in call.values : Suggested(Tagged(records[v]))}

Verdicts(call) ==
    {ConstantVerdict(call), AuditVerdict(call), AttemptVerdict(call), ValueVerdict(call),
     Verdict("scope_boundary_gate", ScopeBoundary(call.scope), ""),
     Verdict("scope_upscale_gate", ScopeUpscale(call.scope), ""),
     Verdict("watch_first_write", IF Suggestions(call) = {} THEN "undetermined" ELSE "pass", "")}
    \union (IF call.forked THEN {Verdict("use_case_fork", UseCaseFork(call.scope), "")} ELSE {})

(* ConjunctiveGate.evaluate.                                               *)
Evaluate(call) ==
    /\ evaluations < MaxEvaluations /\ evaluations' = evaluations + 1
    /\ judged' = [call |-> call, passed |-> \A v \in Verdicts(call) : v.result # "fail",
                  cap |-> Weakest({v.cap : v \in Verdicts(call)}),
                  suggested |-> Suggestions(call)]
    /\ records' = [v \in ValueNames |->
                     IF v \in call.values THEN Tagged(records[v]) ELSE records[v]]
    /\ IF call.attempt = NoAttempt \/ call.attempt.block \in gateDead
       THEN UNCHANGED <<gateTried, gateDead>>
       ELSE /\ gateTried' = Recorded(call.attempt)
            /\ gateDead' = IF GivesUp(call.attempt) THEN gateDead \union {call.attempt.block}
                           ELSE gateDead
    /\ UNCHANGED profileInUse

(* The agent revises what it says of a value; the tags stay in the record. *)
Revise(v) ==
    /\ evaluations < MaxEvaluations
    /\ \E r \in ValueRecords :
          records' = [records EXCEPT ![v] = [r EXCEPT !.provenance = records[v].provenance]]
    /\ UNCHANGED <<profileInUse, gateTried, gateDead, judged, evaluations>>

NoScope == [claim |-> "", observed |-> "", attested |-> FALSE, proof |-> FALSE,
            category |-> "", useCase |-> ""]
NotJudged == [call |-> [constants |-> {}, values |-> {}, scope |-> NoScope,
                        attempt |-> NoAttempt, audit |-> "", forked |-> FALSE],
              passed |-> TRUE, cap |-> "", suggested |-> {}]

ClaimInit ==
    /\ profileInUse \in ClaimProfiles
    /\ records = [v \in ValueNames |-> CHOOSE r \in ValueRecords : r.provenance = "none"]
    /\ gateTried = [b \in GateBlocks |-> [p \in GatePostures |-> "none"]]
    /\ gateDead = {} /\ judged = NotJudged /\ evaluations = 0

ClaimNext ==
    \/ \E call \in GateCalls : Evaluate(call)
    \/ \E v \in ValueNames : Revise(v)

ClaimSpec == ClaimInit /\ [][ClaimNext]_claimVars

-----------------------------------------------------------------------------
(* The cap an evaluation gives is the weakest, in the order of the profile *)
(* in use, of what any record of the call allows: summing each probe's     *)
(* records up first hides none of them.                                    *)
CapIsWeakest(call, cap, now) ==
    LET order == ToSet(profileInUse.classes) \ {""}
        allowed == {CategoryCeiling(Category(c)) : c \in call.constants}
                   \cup {ValueCeiling(now[v]) : v \in call.values} \cup {call.audit}
    IN  \A class \in allowed \cap order :
           /\ cap \in allowed \cap order
           /\ Position(class, profileInUse.classes) <= Position(cap, profileInUse.classes)

(* Every value that it tags as observed or half observed, that lies at an  *)
(* address and has no verified recompute is offered a watch.               *)
ObservedIsWatched(call, suggested, now) ==
    \A v \in call.values :
       now[v].provenance \in {"observed", "hybrid"} /\ now[v].landed /\ ~now[v].verified
       => v \in suggested

(* What an evaluation answers holds for all its probes together, whatever  *)
(* the order they ran in and whatever earlier calls left in the gate: the  *)
(* weakest cap, a watch for every observation, and no pass for a block the *)
(* gate has given up, by whatever posture it is looked at again.           *)
AnswersForEveryProbe ==
    [][evaluations' > evaluations =>
         /\ CapIsWeakest(judged'.call, judged'.cap, records)
         /\ ObservedIsWatched(judged'.call, judged'.suggested, records')
         /\ judged'.call.attempt.block \in gateDead => ~judged'.passed]_claimVars

=============================================================================
