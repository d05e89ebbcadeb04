----------------------------- MODULE Discipline -----------------------------
(***************************************************************************)
(* The discipline wrapper around every tool call of an agent session       *)
(* (discipline_wrapper.py, methodology.py), with the two gates that can    *)
(* change or refuse a call: the bypass-block detector (m3_bypass_block.py) *)
(* and the success audit (m1_success_audit.py).  The taggers that only add *)
(* a note to the envelope are left out here.                               *)
(***************************************************************************)
EXTENDS Integers, FiniteSets

CONSTANTS
    Blocks,        \* block ids an observation may be about
    Postures,      \* observation methods
    MinFailed,     \* min_failed_observations
    CardInterval,  \* periodic_interval
    StepsWarn,     \* steps_since_checkpoint_warn
    FailuresWarn,  \* failure_streak_threshold
    BypassWarn,    \* bypass_alert_threshold
    MinSamples,    \* min_samples_for_class_a
    Tallies,       \* <<passed, checked, env_limit>> a claim may report
    MaxSteps       \* bound on the calls of a session

ASSUME DisciplineAssumption ==
    /\ MinFailed \in Nat \ {0} /\ CardInterval \in Nat \ {0}
    /\ {StepsWarn, FailuresWarn, BypassWarn, MaxSteps} \subseteq Nat
    /\ MinSamples \in Nat \ {0, 1} /\ Tallies \subseteq Nat \X (Nat \ {0}) \X Nat

VARIABLES
    steps,       \* MethodologyState.step_count
    sinceCheck,  \* steps_since_checkpoint
    failures,    \* failures_since_checkpoint
    bypasses,    \* bypass_count
    cardAt,      \* last_periodic_card_at
    history,     \* per block and posture: "none", "failed" or "varied"
    dead,        \* confirmed_bypass
    last         \* what became of the last call

disciplineVars ==
    <<steps, sinceCheck, failures, bypasses, cardAt, history, dead, last>>

NoClaim == [grade |-> "none", samples |-> 0]
NoCall == [kind |-> "none", outcome |-> "none", audit |-> NoClaim, alerts |-> {}]

DisciplineInit ==
    /\ steps = 0 /\ sinceCheck = 0 /\ failures = 0 /\ bypasses = 0 /\ cardAt = 0
    /\ history = [b \in Blocks |-> [o \in Postures |-> "none"]]
    /\ dead = {} /\ last = NoCall

-----------------------------------------------------------------------------
(* A success claim, by what the audit reads of it.                         *)

Claims == {c \in [deps : BOOLEAN,                  \* success_dependencies declared
                  varied : BOOLEAN,                \* each took two values or more
                  samples : {0, MinSamples - 1, MinSamples},
                  tally : Tallies,
                  scope : {"wide", "in_session", "unknown"},
                  paths : {"one", "agree", "differ"}] :
             c.varied => c.deps /\ c.samples >= 2}

Untested(c) == c.deps /\ ~c.varied

(* An explicit scope is honoured; otherwise it follows from the samples.   *)
Scope(c) ==
    IF c.scope # "unknown" THEN c.scope
    ELSE IF ~c.deps THEN "unknown"
    ELSE IF c.varied /\ c.samples >= MinSamples THEN "wide" ELSE "in_session"

(* Rows the runner could not grade leave the denominator when some remain. *)
Graded(c) == IF c.tally[3] < c.tally[2] THEN c.tally[2] - c.tally[3] ELSE c.tally[2]
RateAtLeast(c, percent) == 100 * c.tally[1] >= percent * Graded(c)

(* _grade: C refuses, B downgrades, A lets the claim stand.                *)
Grade(c) ==
    IF \/ c.deps /\ c.samples = 0
       \/ ~RateAtLeast(c, 95)
       \/ c.paths = "differ"
    THEN "C"
    ELSE IF \/ Untested(c)
            \/ Scope(c) # "wide"
            \/ c.paths = "one"
            \/ c.deps /\ c.samples < MinSamples
    THEN "B" ELSE "A"

-----------------------------------------------------------------------------
(* What every call does first, unless the layer is switched off.           *)
Count ==
    /\ steps < MaxSteps
    /\ steps' = steps + 1

(* Slip: the envelope of a call that raises books no card.                 *)
BookCardUnlessRaised(outcome) ==
    cardAt' = IF steps + 1 - cardAt >= CardInterval /\ outcome # "raised"
              THEN steps + 1 ELSE cardAt

(* _maybe_book_periodic_card, on the envelope of every call.               *)
BookCard(outcome) ==
    cardAt' = IF steps + 1 - cardAt >= CardInterval THEN steps + 1 ELSE cardAt

(* _post_dispatch_alerts reads the counters this call has already changed. *)
Alerts ==
    (IF bypasses' > bypasses /\ bypasses' >= BypassWarn THEN {"verifier_bypass"} ELSE {})
    \union
    (IF sinceCheck' >= StepsWarn /\ failures' >= FailuresWarn
     THEN {"no_recent_checkpoint"} ELSE {})

Outcome(kind, outcome, alerting, audit) ==
    /\ BookCard(outcome)
    /\ last' = [kind |-> kind, outcome |-> outcome, audit |-> audit,
                alerts |-> IF alerting THEN Alerts ELSE {}]

(* The call was refused before its dispatch: an experiment's payload on a  *)
(* promotion path without the exception in its reason, a forbidden keyword *)
(* in the reason, or the gates below.                                      *)
Refuse(kind, audit) ==
    /\ Count
    /\ sinceCheck' = sinceCheck + 1
    /\ UNCHANGED <<failures, bypasses, history, dead>>
    /\ Outcome(kind, "refused", FALSE, audit)

(* The dispatch raised: one more failure, alerts, DisciplineRaise.         *)
Raised(kind) ==
    /\ Count
    /\ sinceCheck' = sinceCheck + 1
    /\ failures' = failures + 1
    /\ bypasses' = IF kind = "override" THEN bypasses + 1 ELSE bypasses
    /\ UNCHANGED <<history, dead>>
    /\ Outcome(kind, "raised", TRUE, NoClaim)

(* The dispatch returned; a verdict written past the verifier is counted,  *)
(* unless the call answered with nothing.                                  *)
Done(kind, audit) ==
    /\ Count
    /\ sinceCheck' = sinceCheck + 1
    /\ UNCHANGED failures
    /\ \E answered \in BOOLEAN :
          /\ bypasses' = IF kind = "override" /\ answered THEN bypasses + 1 ELSE bypasses
          /\ Outcome(kind, "done", answered, audit)

(* checkpoint and rerun_from_stage reset the failures once they returned.  *)
Checkpoint ==
    /\ Count
    /\ sinceCheck' = 0 /\ failures' = 0
    /\ UNCHANGED <<bypasses, history, dead>>
    /\ Outcome("checkpoint", "done", TRUE, NoClaim)

(* A call that carries target_success or archival_allowed.                 *)
Claim(c) ==
    LET audit == [grade |-> Grade(c), samples |-> c.samples] IN
    \/ Grade(c) = "C" /\ Refuse("claim", audit)
    \/ Grade(c) # "C" /\ Done("claim", audit) /\ UNCHANGED <<history, dead>>

(* record_attempt: the latest attempt of each posture counts, and a block  *)
(* is dead once enough postures failed on it.                              *)
Flips(b) == Cardinality({o \in Postures : history'[b][o] = "failed"}) >= MinFailed

RecordAttempt(b, o, verdict) ==
    /\ history' = [history EXCEPT ![b][o] = verdict]
    /\ dead' = IF Flips(b) THEN dead \union {b} ELSE dead

(* An observation of a block.  When the parameters name it, a dead block   *)
(* is refused; when only the result does, the call goes through and its    *)
(* verdict is recorded.                                                    *)
Observe(b, o, verdict, named) ==
    IF named /\ b \in dead THEN Refuse("observe", NoClaim)
    ELSE /\ Done("observe", NoClaim)
         /\ RecordAttempt(b, o, verdict)

DisciplineNext ==
    \/ \E kind \in {"plain", "override"} :
          \/ Refuse(kind, NoClaim)
          \/ Raised(kind)
          \/ Done(kind, NoClaim) /\ UNCHANGED <<history, dead>>
    \/ Checkpoint
    \/ \E c \in Claims : Claim(c)
    \/ \E b \in Blocks, o \in Postures, v \in {"failed", "varied"}, n \in BOOLEAN :
          Observe(b, o, v, n)

DisciplineSpec == DisciplineInit /\ [][DisciplineNext]_disciplineVars

-----------------------------------------------------------------------------
(* Whatever mix of refused, failed and successful calls a session makes,   *)
(* no more than an interval passes without a card, and the failures since  *)
(* the checkpoint are calls since the checkpoint.                          *)
BooksKept == steps - cardAt < CardInterval /\ failures <= sinceCheck

=============================================================================
