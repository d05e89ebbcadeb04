------------------------------- MODULE S6Loop -------------------------------
(***************************************************************************)
(* The hypothesis loop of orchestrators/script_mode.py: an answer of the   *)
(* language model is bought for every stuck point, within a budget, by one *)
(* thread or by a pool of prefetching workers; ingesting and promoting     *)
(* stay with the main thread.  With llm_client.DirectBackend, cost.py and  *)
(* progress.py.  Only the calls axis of the budget is kept: the others are *)
(* compared the same way, after the charge.                                *)
(***************************************************************************)
EXTENDS Integers, Sequences, FiniteSets

CONSTANTS
    NPoints,    \* stuck points found
    Workers,    \* s6_concurrency: 1 is the sequential loop
    MaxLlmCalls,   \* Budget.max_calls
    Delays,     \* ticks a call may take; a tick is twenty seconds
    MinCalls    \* calls the pacing heuristic waits for (5 in the code)

ASSUME S6Assumption ==
    /\ NPoints \in Nat \ {0} /\ Workers \in Nat \ {0}
    /\ MaxLlmCalls \in Nat \ {0} /\ MinCalls \in Nat /\ Delays \subseteq Nat

Points == 1..NPoints
Minute == 3   \* ticks: the window of _rate_per_min

VARIABLES
    driver,    \* "fill" | "wait" | "drain" | "pausing" | "raising" | an ending
    next,      \* the first stuck point the iterator has not handed out
    call,      \* per point: where its future is
    attempt,   \* per point: attempts made by DirectBackend
    batch,     \* futures the last wait() returned, not yet looked at
    calls,     \* CostMeter._calls
    clock,     \* time.monotonic() in ticks
    closedAt,  \* Tracker._closure_times
    passed     \* Tracker.findings of this loop

s6Vars == <<driver, next, call, attempt, batch, calls, clock, closedAt, passed>>

Endings == {"finished", "paused", "stalled", "raised"}

(* Futures the main thread still holds, and calls a worker is inside.      *)
Settled == {p \in Points : call[p] \in {"paid", "empty", "broke", "failed"}}
Asking  == {p \in Points : call[p] = "asking"}
Pending == {p \in Points : call[p] = "queued"} \union Asking \union Settled

S6Init ==
    /\ driver = "fill" /\ next = 1 /\ batch = {}
    /\ call = [p \in Points |-> "todo"]
    /\ attempt = [p \in Points |-> 0]
    /\ calls = 0 /\ clock = 0 /\ closedAt = <<>> /\ passed = 0

(* _rate_per_min(closures) < 0.05 with the window ending now: the rate is  *)
(* number / age-of-the-oldest, and there is none when the window is empty. *)
Recent == SelectSeq(closedAt, LAMBDA t : t >= clock - Minute)
RateBelowFloor == 20 * Minute * Len(Recent) < clock - Recent[1]

(* Tracker._classify_pacing, backtracks aside.                             *)
Pacing ==
    IF Recent = <<>> THEN IF calls < 2 * MinCalls THEN "ok" ELSE "slowing"
    ELSE IF RateBelowFloor /\ calls > MinCalls THEN "stalled" ELSE "ok"

(* The next stuck point is submitted while there is a free slot.  The      *)
(* sequential loop asks for the pacing first and bails when it stalled     *)
(* (request_pause without a handler).                                      *)
Submit ==
    /\ driver = "fill" /\ next <= NPoints
    /\ Cardinality(Pending) < Workers
    /\ IF Workers = 1 /\ Pacing = "stalled"
       THEN driver' = "stalled" /\ UNCHANGED <<call, next>>
       ELSE /\ call' = [call EXCEPT ![next] = "queued"]
            /\ next' = next + 1
            /\ UNCHANGED driver
    /\ UNCHANGED <<attempt, batch, calls, clock, closedAt, passed>>

(* Nothing left to hand out or no free slot.                               *)
Filled ==
    /\ driver = "fill"
    /\ next > NPoints \/ Cardinality(Pending) >= Workers
    /\ driver' = IF Pending = {} THEN "finished" ELSE "wait"
    /\ UNCHANGED <<next, call, attempt, batch, calls, clock, closedAt, passed>>

(* A worker takes a future off the executor's queue.                       *)
Start(p) ==
    /\ call[p] = "queued"
    /\ call' = [call EXCEPT ![p] = "asking"]
    /\ UNCHANGED <<driver, next, attempt, batch, calls, clock, closedAt, passed>>

(* Slip: the limit is compared with what was spent before this call, and   *)
(* one more is let through.                                                *)
BreachedStrictly == calls > MaxLlmCalls

(* CostMeter.charge adds the call first; _check_budget raises when what    *)
(* was added reaches the limit.                                            *)
Breached == calls + 1 >= MaxLlmCalls

(* Slip: an unparsable text is asked for again for as long as it takes.    *)
ReplyForever(p, parses) ==
    /\ call[p] = "asking"
    /\ UNCHANGED calls
    /\ attempt' = [attempt EXCEPT ![p] = 1 - @]
    /\ call' = [call EXCEPT ![p] = IF parses THEN "paid" ELSE "asking"]
    /\ \E d \in Delays : clock' = clock + d
    /\ UNCHANGED <<driver, next, batch, closedAt, passed>>

(* One reply of the service.  A paid call over the limit raises before its *)
(* text is parsed; an unparsable text is asked for once more, then given   *)
(* up with no hypotheses: the answer is "empty".                           *)
LlmReply(p, parses) ==
    /\ call[p] = "asking"
    /\ calls' = calls + 1
    /\ attempt' = [attempt EXCEPT ![p] = @ + 1]
    /\ call' = [call EXCEPT ![p] =
                   IF Breached THEN "broke"
                   ELSE IF parses THEN "paid"
                   ELSE IF attempt[p] = 1 THEN "empty" ELSE "asking"]
    /\ \E d \in Delays : clock' = clock + d
    /\ UNCHANGED <<driver, next, batch, closedAt, passed>>

(* The request itself fails, or its text parses to something that is no    *)
(* object: an error generate_hypotheses does not catch.                    *)
ServiceError(p) ==
    /\ call[p] = "asking"
    /\ call' = [call EXCEPT ![p] = "failed"]
    /\ UNCHANGED <<driver, next, attempt, batch, calls, clock, closedAt, passed>>

(* wait(FIRST_COMPLETED) returns what is settled by then.                  *)
Wait ==
    /\ driver = "wait" /\ Settled # {}
    /\ batch' = Settled
    /\ driver' = "drain"
    /\ UNCHANGED <<next, call, attempt, calls, clock, closedAt, passed>>

(* _drain_one: each hypothesis of the answer is added, verified, promoted  *)
(* when it passes, and closed.  One hypothesis stands for the answer's,    *)
(* an empty answer has nothing to close.                                   *)
Drain(p, pass) ==
    /\ driver = "drain" /\ p \in batch
    /\ call[p] = "paid" \/ (call[p] = "empty" /\ ~pass)
    /\ call' = [call EXCEPT ![p] = "drained"]
    /\ batch' = batch \ {p}
    /\ closedAt' = IF call[p] = "paid" THEN Append(Recent, clock) ELSE closedAt
    /\ passed' = passed + (IF pass THEN 1 ELSE 0)
    /\ UNCHANGED <<driver, next, attempt, calls, clock>>

Drained ==
    /\ driver = "drain" /\ batch = {}
    /\ driver' = "fill"
    /\ UNCHANGED <<next, call, attempt, batch, calls, clock, closedAt, passed>>

(* Slip: after a breach the loop goes on with the rest.                    *)
PauseNot(p) ==
    /\ driver = "drain" /\ p \in batch /\ call[p] = "broke"
    /\ call' = [call EXCEPT ![p] = "dropped"]
    /\ batch' = batch \ {p}
    /\ UNCHANGED <<driver, next, attempt, calls, clock, closedAt, passed>>

(* BudgetExceeded comes out of a future: core.pause, what has not started  *)
(* is cancelled, every other future is forgotten, settled ones included.   *)
Pause(p) ==
    /\ driver = "drain" /\ p \in batch /\ call[p] = "broke"
    /\ driver' = "pausing"
    /\ call' = [q \in Points |->
                   IF q = p THEN "dropped"
                   ELSE IF q \in Pending \ Asking
                   THEN "dropped" ELSE call[q]]
    /\ batch' = {}
    /\ UNCHANGED <<next, attempt, calls, clock, closedAt, passed>>

(* Any other error comes out of a future and leaves run_full_pipeline.     *)
Raise(p) ==
    /\ driver = "drain" /\ p \in batch /\ call[p] = "failed"
    /\ driver' = "raising"
    /\ batch' = {}
    /\ UNCHANGED <<next, call, attempt, calls, clock, closedAt, passed>>

(* Leaving the executor's block waits for the workers; then the report is  *)
(* made, or the error is passed on without one.                            *)
Leave ==
    /\ driver \in {"pausing", "raising"}
    /\ Asking = {} /\ \A p \in Points : call[p] # "queued"
    /\ driver' = IF driver = "pausing" THEN "paused" ELSE "raised"
    /\ UNCHANGED <<next, call, attempt, batch, calls, clock, closedAt, passed>>

(* The report is returned; the process has nothing left to do.             *)
Reported == driver \in Endings /\ UNCHANGED s6Vars

Worker == \E p \in Points :
    \/ Start(p)
    \/ \E parses \in BOOLEAN : LlmReply(p, parses)
    \/ ServiceError(p)

Main ==
    \/ Submit \/ Filled \/ Wait \/ Drained \/ Leave
    \/ \E p \in Points, pass \in BOOLEAN : Drain(p, pass)
    \/ \E p \in Points : Pause(p) \/ Raise(p)

S6Next == Main \/ Worker \/ Reported

(* The main thread runs, the pool runs what it was given, and the client's *)
(* time-out makes every call come back.                                    *)
S6Spec ==
    /\ S6Init /\ [][S6Next]_s6Vars
    /\ WF_s6Vars(Main) /\ WF_s6Vars(Worker)

-----------------------------------------------------------------------------
(* The budget is compared by each worker on its own, while the main thread *)
(* hears of a breach only when it looks at that future: the overdraft is   *)
(* one call for every other worker, whatever is retried or refilled.       *)
Overdraft == calls <= MaxLlmCalls + Workers - 1

(* When the loop ends by itself every stuck point was drained; a point is  *)
(* lost only to a pause or an error, and no worker outlives the loop.      *)
NothingLostSilently ==
    driver \in Endings =>
        /\ Asking = {}
        /\ driver = "finished" => \A p \in Points : call[p] = "drained"
        /\ (\E p \in Points : call[p] = "dropped") => driver = "paused"

(* The loop comes to an end, with a worker pool, retries, errors and all.  *)
LoopEnds == <>(driver \in Endings)

=============================================================================
