---------------------------- MODULE DriverProofs ----------------------------
(***************************************************************************)
(* Theorems about what drives a run: S6Loop, AgentSession, Discipline,     *)
(* RunnerGate, RunnerPipe, TaskTree, ProfileRegistry, PhaseFlow and        *)
(* ValueClaims.                                                            *)
(***************************************************************************)
EXTENDS S6Loop, AgentSession, Discipline, RunnerGate, RunnerPipe, TaskTree, ProfileRegistry,
        PhaseFlow, ValueClaims, FiniteOrders

-----------------------------------------------------------------------------
(* S6Loop.                                                                 *)

Futures == {"todo", "queued", "asking", "paid", "empty", "broke", "failed", "drained", "dropped"}

S6TypeOK ==
    /\ driver \in {"fill", "wait", "drain", "pausing", "raising"} \union Endings
    /\ next \in Nat \ {0}
    /\ call \in [Points -> Futures]
    /\ calls \in Nat

(* What has not been handed out has not been touched.                      *)
FromNextOn == \A p \in Points : p >= next => call[p] = "todo"

Broke == {p \in Points : call[p] = "broke"}

(* While futures are looked at, the calls over the limit are those whose   *)
(* breach the main thread has not seen, and they fill slots of the pool.   *)
BeforePause ==
    /\ Cardinality(Pending) <= Workers
    /\ calls <= MaxLlmCalls - 1 + Cardinality(Broke)
    /\ Broke # {} => calls >= MaxLlmCalls

(* After it, the workers that are inside a call pay for one more each, and *)
(* nothing else is started.                                                *)
AfterPause ==
    /\ calls >= MaxLlmCalls
    /\ calls + Cardinality(Asking) <= MaxLlmCalls - 1 + Workers
    /\ \A p \in Points : call[p] # "queued"

S6Inv ==
    /\ S6TypeOK /\ FromNextOn
    /\ IF driver \in {"pausing", "paused"} THEN AfterPause ELSE BeforePause

-----------------------------------------------------------------------------
\* Sets of stuck points are finite, and a part of one is no larger.
LEMMA SetsOfPoints ==
  ASSUME NEW S \in SUBSET Points
  PROVE  /\ IsFiniteSet(S) /\ Cardinality(S) \in Nat
         /\ \A T \in SUBSET S : Cardinality(T) <= Cardinality(S)
<1>1. IsFiniteSet(Points)
  BY S6Assumption, FS_Interval DEF Points
<1>2. IsFiniteSet(S)
  BY <1>1, FS_Subset
<1> QED
  BY <1>2, FS_Subset, FS_CardinalityType

\* Adding or removing one point changes the number of points by one or none.
LEMMA OneMore ==
  ASSUME NEW S \in SUBSET Points, NEW p \in Points
  PROVE  /\ Cardinality(S \union {p}) = IF p \in S THEN Cardinality(S) ELSE Cardinality(S) + 1
         /\ Cardinality(S \ {p}) = IF p \in S THEN Cardinality(S) - 1 ELSE Cardinality(S)
  BY SetsOfPoints, FS_AddElement, FS_RemoveElement

\* The futures that ask and those that broke are two parts of the pending.
LEMMA SetsOfFutures ==
  /\ Asking \subseteq Pending /\ Broke \subseteq Pending /\ Pending \subseteq Points
  /\ Broke \intersect Asking = {}
  BY DEF Asking, Broke, Pending, Settled

(* A step that keeps the books of both phases: no more is pending, no less *)
(* is broken, and who stops asking pays one call at most.                  *)
LEMMA KeepsBooks ==
  ASSUME S6Inv, S6TypeOK', FromNextOn',
         (driver \in {"pausing", "paused"}) <=> (driver' \in {"pausing", "paused"}),
         calls' = calls, Pending' \subseteq Pending, Broke' = Broke, Asking' \subseteq Asking,
         \A q \in Points : call'[q] = "queued" => call[q] = "queued"
  PROVE  S6Inv'
<1>1. /\ Cardinality(Pending') <= Cardinality(Pending) /\ Cardinality(Asking') <= Cardinality(Asking)
      /\ {Cardinality(Pending'), Cardinality(Pending), Cardinality(Asking), Cardinality(Asking'), Cardinality(Broke)} \subseteq Nat
  <2>1. Asking \in SUBSET Points /\ Pending \in SUBSET Points /\ Broke \in SUBSET Points
    BY SetsOfFutures
  <2>2. Asking' \in SUBSET Points /\ Pending' \in SUBSET Points
    BY <2>1
  <2> QED
    BY <2>1, <2>2, SetsOfPoints
<1>2. Cardinality(Broke') = Cardinality(Broke)
  OBVIOUS
<1>3. CASE driver \in {"pausing", "paused"}
  BY <1>1, <1>3, S6Assumption DEF S6Inv, AfterPause, S6TypeOK
<1>4. CASE driver \notin {"pausing", "paused"}
  BY <1>1, <1>2, <1>4, S6Assumption DEF S6Inv, BeforePause, S6TypeOK
<1> QED
  BY <1>3, <1>4

\* The loop starts with its books balanced.
LEMMA S6InitInv == S6Init => S6Inv
<1> SUFFICES ASSUME S6Init PROVE S6Inv
  OBVIOUS
<1>1. Pending = {} /\ Broke = {}
  BY DEF S6Init, Pending, Broke, Asking, Settled
<1>2. Cardinality(Pending) = 0 /\ Cardinality(Broke) = 0
  BY <1>1, FS_EmptySet
<1> QED
  BY <1>1, <1>2, S6Assumption
     DEF S6Init, S6Inv, S6TypeOK, FromNextOn, BeforePause, Futures

\* A submission fills a free slot and leaves the books balanced.
LEMMA SubmitKeeps == S6Inv /\ Submit => S6Inv'
<1> SUFFICES ASSUME S6Inv, Submit PROVE S6Inv'
  OBVIOUS
<1>1. S6TypeOK' /\ FromNextOn'
  BY S6Assumption DEF Submit, S6Inv, S6TypeOK, FromNextOn, Futures, Endings, Points
<1>2. CASE Workers = 1 /\ Pacing = "stalled"
  BY <1>1, <1>2, KeepsBooks DEF Submit, Pending, Broke, Asking, Settled
<1>3. CASE ~(Workers = 1 /\ Pacing = "stalled")
  <2>1. call' = [call EXCEPT ![next] = "queued"] /\ UNCHANGED <<driver, calls>>
    BY <1>3 DEF Submit
  <2>2. next \in Points
    <3>1. call \in [Points -> Futures] /\ next \in Nat \ {0} /\ next <= NPoints
      BY DEF Submit, S6Inv, S6TypeOK
    <3> QED
      BY <3>1, S6Assumption DEF Points
  <2>3. call[next] = "todo" /\ driver = "fill" /\ driver' = "fill"
    BY <2>1, <2>2 DEF Submit, S6Inv, S6TypeOK, FromNextOn
  <2>4. Pending' = Pending \union {next} /\ Broke' = Broke
    BY <2>1, <2>2, <2>3 DEF S6Inv, S6TypeOK, Pending, Broke, Asking, Settled
  <2>5. /\ Cardinality(Pending') \in {Cardinality(Pending), Cardinality(Pending) + 1}
        /\ Cardinality(Pending) \in Nat
    BY <2>2, <2>4, OneMore, SetsOfPoints, SetsOfFutures
  <2>6. Cardinality(Pending') <= Workers
    BY <2>5, S6Assumption DEF Submit
  <2>7. BeforePause'
    BY <2>1, <2>3, <2>4, <2>6 DEF S6Inv, BeforePause
  <2> QED
    BY <1>1, <2>3, <2>7 DEF S6Inv
<1> QED
  BY <1>2, <1>3

\* A reply charges one call: over the limit, its future has broken.
LEMMA LlmReplyKeeps ==
  ASSUME S6Inv, NEW p \in Points, NEW parses \in BOOLEAN, LlmReply(p, parses)
  PROVE  S6Inv'
<1>1. /\ S6TypeOK' /\ FromNextOn' /\ calls' = calls + 1 /\ driver' = driver
      /\ \A q \in Points \ {p} : call'[q] = call[q]
      /\ call'[p] = "broke" <=> Breached
      /\ call'[p] \in {"broke", "paid", "empty", "asking"}
  BY DEF LlmReply, S6Inv, S6TypeOK, FromNextOn, Futures
<1>2. p \in Asking /\ p \notin Broke /\ p \in Pending
  BY DEF LlmReply, Asking, Broke, Pending
<1>3. /\ Pending' = Pending
      /\ Broke' = IF Breached THEN Broke \union {p} ELSE Broke
      /\ Breached => Asking' = Asking \ {p}
  BY <1>1, <1>2 DEF Pending, Broke, Asking, Settled
<1>4. /\ Cardinality(Broke \union {p}) = Cardinality(Broke) + 1
      /\ Cardinality(Asking \ {p}) = Cardinality(Asking) - 1
      /\ Cardinality(Broke) \in Nat /\ Cardinality(Asking) \in Nat
  BY <1>2, OneMore, SetsOfPoints, SetsOfFutures
<1>5. CASE driver \in {"pausing", "paused"}
  <2>1. AfterPause /\ Breached /\ calls \in Nat
    BY <1>5, S6Assumption DEF S6Inv, S6TypeOK, AfterPause, Breached
  <2>2. calls' >= MaxLlmCalls /\ \A q \in Points : call'[q] # "queued"
    BY <1>1, <2>1, S6Assumption DEF AfterPause
  <2>3. calls' + Cardinality(Asking') <= MaxLlmCalls - 1 + Workers
    <3>1. Cardinality(Asking') = Cardinality(Asking) - 1
      BY <1>3, <1>4, <2>1
    <3> QED
      BY <1>1, <1>4, <2>1, <3>1, S6Assumption DEF AfterPause
  <2> QED
    BY <1>1, <1>5, <2>2, <2>3 DEF S6Inv, AfterPause
<1>6. CASE driver \notin {"pausing", "paused"}
  BY <1>1, <1>3, <1>4, <1>6, S6Assumption DEF S6Inv, BeforePause, Breached, S6TypeOK
<1> QED
  BY <1>5, <1>6

\* Seeing the breach cancels what is pending: no call starts afterwards.
LEMMA PauseKeeps ==
  ASSUME S6Inv, NEW p \in Points, Pause(p)
  PROVE  S6Inv'
<1>1. S6TypeOK' /\ FromNextOn' /\ calls' = calls /\ driver' = "pausing" /\ driver = "drain"
  BY DEF Pause, S6Inv, S6TypeOK, FromNextOn, Futures, Endings, Pending, Asking, Settled
<1>2. p \in Broke
  BY DEF Pause, Broke
<1>3. Asking' = Asking /\ \A q \in Points : call'[q] # "queued"
  BY DEF Pause, S6Inv, S6TypeOK, Asking, Pending, Settled
<1>4. Cardinality(Broke) + Cardinality(Asking) <= Cardinality(Pending)
  <2>1. Cardinality(Broke \union Asking) = Cardinality(Broke) + Cardinality(Asking)
    <3>1. IsFiniteSet(Broke) /\ IsFiniteSet(Asking) /\ Cardinality(Broke \intersect Asking) = 0
      BY SetsOfFutures, SetsOfPoints, FS_EmptySet
    <3>2. Cardinality(Broke \union Asking)
            = Cardinality(Broke) + Cardinality(Asking) - Cardinality(Broke \intersect Asking)
      BY <3>1, FS_Union
    <3>3. Cardinality(Broke) \in Nat /\ Cardinality(Asking) \in Nat
      BY <3>1, FS_CardinalityType
    <3> QED
      BY <3>1, <3>2, <3>3
  <2> QED
    BY <2>1, SetsOfFutures, SetsOfPoints
<1>5. {Cardinality(Broke), Cardinality(Asking), Cardinality(Pending)} \subseteq Nat
  BY SetsOfFutures, SetsOfPoints
<1> QED
  BY <1>1, <1>2, <1>3, <1>4, <1>5, S6Assumption DEF S6Inv, BeforePause, AfterPause, S6TypeOK

\* Every step of the loop and its workers keeps the books balanced.
LEMMA S6StepInv == S6Inv /\ [S6Next]_s6Vars => S6Inv'
<1> SUFFICES ASSUME S6Inv, [S6Next]_s6Vars PROVE S6Inv'
  OBVIOUS
<1>1. CASE Submit
  BY <1>1, SubmitKeeps
<1>2. CASE Filled \/ Wait \/ Drained \/ UNCHANGED s6Vars
  BY <1>2, KeepsBooks
     DEF Filled, Wait, Drained, s6Vars, S6Inv, S6TypeOK, FromNextOn, Endings,
         Pending, Broke, Asking, Settled
<1>3. CASE Leave
  BY <1>3, KeepsBooks
     DEF Leave, S6Inv, S6TypeOK, FromNextOn, Endings, Pending, Broke, Asking, Settled
<1>4. ASSUME NEW p \in Points, NEW pass \in BOOLEAN, Drain(p, pass)
      PROVE  S6Inv'
  BY <1>4, KeepsBooks
     DEF Drain, S6Inv, S6TypeOK, FromNextOn, Futures, Pending, Broke, Asking, Settled
<1>5. ASSUME NEW p \in Points, Pause(p)
      PROVE  S6Inv'
  BY <1>5, PauseKeeps
<1>6. ASSUME NEW p \in Points, Raise(p)
      PROVE  S6Inv'
  BY <1>6, KeepsBooks
     DEF Raise, S6Inv, S6TypeOK, FromNextOn, Endings, Pending, Broke, Asking, Settled
<1>7. ASSUME NEW p \in Points, Start(p)
      PROVE  S6Inv'
  <2>1. driver \notin {"pausing", "paused"} /\ BeforePause
    BY <1>7 DEF Start, S6Inv, AfterPause
  <2>2. S6TypeOK' /\ FromNextOn' /\ Pending' = Pending /\ Broke' = Broke
    BY <1>7 DEF Start, S6Inv, S6TypeOK, FromNextOn, Futures, Pending, Broke, Asking, Settled
  <2> QED
    BY <1>7, <2>1, <2>2 DEF Start, S6Inv, BeforePause
<1>8. ASSUME NEW p \in Points, NEW parses \in BOOLEAN, LlmReply(p, parses)
      PROVE  S6Inv'
  BY <1>8, LlmReplyKeeps
<1>9. ASSUME NEW p \in Points, ServiceError(p)
      PROVE  S6Inv'
  BY <1>9, KeepsBooks
     DEF ServiceError, S6Inv, S6TypeOK, FromNextOn, Futures, Pending, Broke, Asking, Settled
<1>10. CASE Reported
  BY <1>10, <1>2 DEF Reported
<1> QED
  BY <1>1, <1>2, <1>3, <1>4, <1>5, <1>6, <1>7, <1>8, <1>9, <1>10
     DEF S6Next, Main, Worker

(* For every number of stuck points, workers and calls allowed: the budget *)
(* is overdrawn by no more than one call for every other worker            *)
(* (CostMeter.charge, s6_auto_loop).                                       *)
THEOREM OverdraftIsBounded == S6Spec => []Overdraft
<1>1. S6Inv => Overdraft
  <2> SUFFICES ASSUME S6Inv PROVE Overdraft
    OBVIOUS
  <2>1. /\ {Cardinality(Broke), Cardinality(Asking), Cardinality(Pending)} \subseteq Nat
        /\ Cardinality(Broke) <= Cardinality(Pending)
    BY SetsOfFutures, SetsOfPoints
  <2> QED
    BY <2>1, S6Assumption DEF S6Inv, S6TypeOK, BeforePause, AfterPause, Overdraft
<1> QED
  BY <1>1, S6InitInv, S6StepInv, PTL DEF S6Spec
(* Who is where when the loop is over: every point handed out was drained, *)
(* but for those a pause forgets, and nothing is left with the pool.       *)
Accounted ==
    /\ \A p \in Points : p < next => call[p] # "todo"
    /\ (\E p \in Points : call[p] = "dropped") => driver \in {"pausing", "paused"}
    /\ driver \in Endings => \A p \in Points : call[p] \notin {"asking", "queued"}
    /\ driver = "finished" => \A p \in Points : call[p] = "drained"

\* The main thread stops submitting with every point accounted for.
LEMMA FilledAccounts == S6Inv /\ Accounted /\ Filled => Accounted'
<1> SUFFICES ASSUME S6Inv, Accounted, Filled PROVE Accounted'
  OBVIOUS
<1>1. CASE Pending = {}
  <2>1. next > NPoints
    <3>1. Cardinality(Pending) = 0
      BY <1>1, FS_EmptySet
    <3> QED
      BY <3>1, S6Assumption DEF Filled
  <2>2. ASSUME NEW p \in Points
        PROVE  call[p] = "drained"
    <3>1. p < next
      BY <2>1, S6Assumption DEF Points, S6Inv, S6TypeOK
    <3>2. call[p] \in Futures /\ call[p] # "dropped" /\ call[p] # "todo"
      BY <3>1 DEF S6Inv, S6TypeOK, Accounted, Filled
    <3> QED
      BY <1>1, <3>2 DEF Pending, Asking, Settled, Futures
  <2> QED
    BY <2>2 DEF Accounted, Filled
<1>2. CASE Pending # {}
  BY <1>2 DEF Accounted, Filled, Endings
<1> QED
  BY <1>1, <1>2

\* No step of the loop or its workers loses a point from the account.
LEMMA AccountedStep == S6Inv /\ Accounted /\ [S6Next]_s6Vars => Accounted'
<1> SUFFICES ASSUME S6Inv, Accounted, [S6Next]_s6Vars PROVE Accounted'
  OBVIOUS
<1> USE DEF S6Inv, S6TypeOK, Accounted, Endings
<1>1. CASE Submit
  <2>1. CASE Workers = 1 /\ Pacing = "stalled"
    <3>1. Pending = {}
      <4>1. Cardinality(Pending) = 0
        BY <1>1, <2>1, SetsOfPoints, SetsOfFutures DEF Submit
      <4> QED
        BY <4>1, SetsOfPoints, SetsOfFutures, FS_EmptySet
    <3> QED
      BY <1>1, <2>1, <3>1 DEF Submit, Pending, Asking, Settled
  <2>2. CASE ~(Workers = 1 /\ Pacing = "stalled")
    <3>1. /\ call' = [call EXCEPT ![next] = "queued"] /\ next' = next + 1
          /\ driver = "fill" /\ driver' = "fill"
      BY <1>1, <2>2 DEF Submit
    <3>2. \A p \in Points : call'[p] = IF p = next THEN "queued" ELSE call[p]
      BY <3>1
    <3>3. \A p \in Points : p < next' => p = next \/ p < next
      BY <3>1 DEF Points
    <3> QED
      BY <3>1, <3>2, <3>3
  <2> QED
    BY <2>1, <2>2
<1>2. CASE Filled
  BY <1>2, FilledAccounts
<1>3. CASE Wait \/ Drained \/ UNCHANGED s6Vars
  BY <1>3 DEF Wait, Drained, s6Vars
<1>4. CASE Leave
  BY <1>4 DEF Leave, Asking
<1>5. ASSUME NEW p \in Points, NEW pass \in BOOLEAN, Drain(p, pass)
      PROVE  Accounted'
  BY <1>5 DEF Drain
<1>6. ASSUME NEW p \in Points, Pause(p) \/ Raise(p)
      PROVE  Accounted'
  BY <1>6 DEF Pause, Raise, Pending, Asking, Settled
<1>7. ASSUME NEW p \in Points, NEW parses \in BOOLEAN, Start(p) \/ LlmReply(p, parses) \/ ServiceError(p)
      PROVE  Accounted'
  BY <1>7 DEF Start, LlmReply, ServiceError
<1>8. CASE Reported
  BY <1>3, <1>8 DEF Reported
<1> QED
  BY <1>1, <1>2, <1>3, <1>4, <1>5, <1>6, <1>7, <1>8 DEF S6Next, Main, Worker

(* For every number of points and workers: a loop that ends by itself has  *)
(* drained every point, a point is dropped by a pause only, and nobody is  *)
(* asking when the loop is over (s6_auto_loop, ThreadPoolExecutor).        *)
THEOREM NothingIsLostSilently == S6Spec => []NothingLostSilently
<1>1. S6Init => Accounted
  BY S6Assumption DEF S6Init, Accounted, Endings, Points
<1>2. Accounted => NothingLostSilently
  BY DEF Accounted, NothingLostSilently, Asking, Endings
<1> QED
  BY <1>1, <1>2, S6InitInv, S6StepInv, AccountedStep, PTL DEF S6Spec

-----------------------------------------------------------------------------
(* AgentSession.                                                           *)

Requests == [id : Nat, kind : Kinds \union {"eof"}]

SessionTypeOK ==
    /\ rpcQ \in Seq(Requests)
    /\ llmQ \in Seq(Nat)
    /\ server \in [at : {"idle", "serving", "waiting", "ended"}, id : Nat]
    /\ llmSeq \in Nat
    /\ used \in Seq(Nat)
    /\ sent \in Nat

(* Calls are numbered without a gap: the one that waits is the only one    *)
(* that has no entry in used yet.                                          *)
OneEntryPerCall == Len(used) = IF server.at = "waiting" THEN llmSeq - 1 ELSE llmSeq

SessionInv == SessionTypeOK /\ OneEntryPerCall /\ OwnAnswerOrNone

\* A session starts with no call delegated and none used.
LEMMA SessionInitInv == SessionInit => SessionInv
  BY DEF SessionInit, SessionInv, SessionTypeOK, OneEntryPerCall, OwnAnswerOrNone, Idle

\* Every step of reader, main loop and agent keeps calls numbered without a gap.
LEMMA SessionStepInv ==
  SessionInv /\ [SessionNext]_sessionVars => SessionInv'
<1> SUFFICES ASSUME SessionInv, [SessionNext]_sessionVars
             PROVE  SessionInv'
  OBVIOUS
<1> USE DEF SessionInv, SessionTypeOK, OneEntryPerCall, OwnAnswerOrNone
<1>1. ASSUME NEW kind \in Kinds, SendRequest(kind)
      PROVE  SessionInv'
  BY <1>1 DEF SendRequest, Requests
<1>2. ASSUME NEW id \in 1..llmSeq, SendAnswer(id)
      PROVE  SessionInv'
  BY <1>2 DEF SendAnswer
<1>3. CASE Close
  BY <1>3 DEF Close, Requests, Eof
<1>4. CASE TakeRequest
  <2>1. Head(rpcQ) \in Requests /\ rpcQ' \in Seq(Requests)
    BY <1>4 DEF TakeRequest
  <2>2. /\ server' \in [at : {"idle", "serving", "waiting", "ended"}, id : Nat]
        /\ server'.at # "waiting" /\ server.at = "idle"
    <3> DEFINE req == Head(rpcQ)
    <3>1. req.id \in Nat /\ req.kind \in {"plain", "s6_auto_loop", "shutdown", "eof"}
      BY <2>1 DEF Requests, Kinds
    <3>2. CASE req.kind = "eof"
      <4>1. server' = [Idle EXCEPT !.at = "ended"] /\ server.at = "idle"
        BY <1>4, <3>2, Zenon DEF TakeRequest
      <4> QED
        BY <3>1, <4>1 DEF Idle
    <3>3. CASE req.kind = "shutdown"
      <4>1. server' = [Idle EXCEPT !.at = "ended"] /\ server.at = "idle"
        BY <1>4, <3>3, Zenon DEF TakeRequest
      <4> QED
        BY <3>1, <4>1 DEF Idle
    <3>4. CASE req.kind = "plain"
      <4>1. server' = [at |-> "serving", id |-> req.id] /\ server.at = "idle"
        BY <1>4, <3>4, Zenon DEF TakeRequest
      <4> QED
        BY <3>1, <4>1 DEF Idle
    <3>5. CASE req.kind = "s6_auto_loop"
      <4>1. server' = [at |-> "serving", id |-> req.id] /\ server.at = "idle"
        BY <1>4, <3>5, Zenon DEF TakeRequest
      <4> QED
        BY <3>1, <4>1 DEF Idle
    <3> QED
      BY <3>1, <3>2, <3>3, <3>4, <3>5
  <2>3. UNCHANGED <<sent, llmQ, llmSeq, used>>
    BY <1>4, Zenon DEF TakeRequest
  <2> QED
    BY <2>1, <2>2, <2>3
<1>5. CASE Ask
  BY <1>5 DEF Ask
<1>6. CASE TakeAnswer
  <2>1. Len(used) = llmSeq - 1 /\ llmQ' \in Seq(Nat) /\ Head(llmQ) \in Nat
    BY <1>6 DEF TakeAnswer
  <2>2. CASE Head(llmQ) = llmSeq
    <3>1. /\ used' = Append(used, llmSeq) /\ server' = [server EXCEPT !.at = "serving"]
          /\ UNCHANGED <<sent, rpcQ, llmSeq>>
      BY <1>6, <2>2 DEF TakeAnswer, Resume
    <3>2. SessionTypeOK' /\ OneEntryPerCall'
      <4>1. used' \in Seq(Nat) /\ Len(used') = llmSeq
        BY <2>1, <3>1
      <4>2. /\ server' \in [at : {"idle", "serving", "waiting", "ended"}, id : Nat]
            /\ server'.at = "serving"
        BY <3>1
      <4> QED
        BY <2>1, <3>1, <4>1, <4>2
    <3>3. OwnAnswerOrNone'
      <4>1. \A i \in DOMAIN used' : used'[i] = IF i \in DOMAIN used THEN used[i] ELSE llmSeq
        BY <2>1, <3>1
      <4>2. \A i \in DOMAIN used' : i \in DOMAIN used \/ i = llmSeq
        BY <2>1, <3>1
      <4> QED
        BY <4>1, <4>2
    <3> QED
      BY <3>2, <3>3
  <2>3. CASE Head(llmQ) # llmSeq
    BY <1>6, <2>1, <2>3 DEF TakeAnswer
  <2> QED
    BY <2>2, <2>3
<1>7. CASE TimeOut
  BY <1>7 DEF TimeOut, Resume
<1>8. CASE Reply
  BY <1>8 DEF Reply, Idle
<1>9. CASE AutoLoopFails
  BY <1>9 DEF AutoLoopFails
<1>10. CASE Gone
  BY <1>10 DEF Gone, sessionVars
<1>11. CASE UNCHANGED sessionVars
  BY <1>11 DEF sessionVars
<1> QED
  BY <1>1, <1>2, <1>3, <1>4, <1>5, <1>6, <1>7, <1>8, <1>9, <1>10, <1>11
     DEF SessionNext, Engine

(* However many requests, questions and answers there are, late, repeated  *)
(* or missing, a delegated call is given its own answer or none            *)
(* (_QueueDelegatedBackend.generate_hypotheses).                           *)
THEOREM AnswersAreOwn == SessionSpec => []OwnAnswerOrNone
<1>1. SessionInv => OwnAnswerOrNone
  BY DEF SessionInv
<1> QED
  BY <1>1, SessionInitInv, SessionStepInv, PTL DEF SessionSpec
-----------------------------------------------------------------------------
(* Discipline.                                                             *)

(* The counters, with a card never ahead of the calls.                     *)
CounterInv ==
    /\ {steps, sinceCheck, failures, bypasses, cardAt} \subseteq Nat
    /\ cardAt <= steps
    /\ BooksKept

\* The wrapper starts with its counters at zero.
LEMMA CounterInit == DisciplineInit => CounterInv
  BY DisciplineAssumption DEF DisciplineInit, CounterInv, BooksKept

(* Every call counts itself, may book a card, and moves the failures only  *)
(* together with the calls since the checkpoint.                           *)
LEMMA CallKeepsBooks ==
  ASSUME CounterInv, Count, NEW outcome, BookCard(outcome),
         bypasses' \in {bypasses, bypasses + 1},
         \/ sinceCheck' = sinceCheck + 1 /\ failures' \in {failures, failures + 1}
         \/ sinceCheck' = 0 /\ failures' = 0
  PROVE  CounterInv'
<1>1. {steps', sinceCheck', failures', bypasses', cardAt'} \subseteq Nat /\ cardAt' <= steps'
  BY DisciplineAssumption DEF CounterInv, Count, BookCard
<1>2. steps' - cardAt' < CardInterval
  BY DisciplineAssumption DEF CounterInv, Count, BookCard
<1>3. failures' <= sinceCheck'
  BY DEF CounterInv, BooksKept
<1> QED
  BY <1>1, <1>2, <1>3 DEF CounterInv, BooksKept

\* Every wrapped call keeps the counters natural and the card behind them.
LEMMA CounterStep == CounterInv /\ [DisciplineNext]_disciplineVars => CounterInv'
<1> SUFFICES ASSUME CounterInv, [DisciplineNext]_disciplineVars PROVE CounterInv'
  OBVIOUS
<1>1. ASSUME NEW kind, NEW audit, Refuse(kind, audit)
      PROVE  CounterInv'
  BY <1>1, CallKeepsBooks DEF Refuse, Outcome
<1>2. ASSUME NEW kind, Raised(kind)
      PROVE  CounterInv'
  BY <1>2, CallKeepsBooks DEF Raised, Outcome
<1>3. ASSUME NEW kind, NEW audit, Done(kind, audit)
      PROVE  CounterInv'
  BY <1>3, CallKeepsBooks DEF Done, Outcome
<1>4. CASE Checkpoint
  BY <1>4, CallKeepsBooks DEF Checkpoint, Outcome
<1>5. ASSUME NEW c, Claim(c)
      PROVE  CounterInv'
  BY <1>1, <1>3, <1>5 DEF Claim
<1>6. ASSUME NEW b, NEW o, NEW v, NEW n, Observe(b, o, v, n)
      PROVE  CounterInv'
  BY <1>1, <1>3, <1>6 DEF Observe
<1>7. CASE UNCHANGED disciplineVars
  BY <1>7 DEF disciplineVars, CounterInv, BooksKept
<1> QED
  BY <1>1, <1>2, <1>3, <1>4, <1>5, <1>6, <1>7 DEF DisciplineNext

(* For every interval and every mix of refused, failed and successful      *)
(* calls: no interval passes without a card, and the failures counted are  *)
(* calls since the checkpoint (discipline_wrapper.py, methodology.py).     *)
THEOREM BooksAreKept == DisciplineSpec => []BooksKept
<1>1. CounterInv => BooksKept
  BY DEF CounterInv
<1> QED
  BY <1>1, CounterInit, CounterStep, PTL DEF DisciplineSpec

-----------------------------------------------------------------------------
(* RunnerGate.                                                             *)

Gates == {"connect", "C5", "C1", "C2", "C3", "C7", "C4", "done"}

(* The gate and the runner it was given.                                   *)
GateTyped ==
    /\ gate \in Gates /\ overall \in {"none", "pass", "fail"}
    /\ runner \in IF gate = "connect" THEN {NoRunner} ELSE Runners \union FileRunners
    /\ gate = "connect" => checks = {}
    /\ gate = "C5" => reruns = 1
    /\ overall # "none" => gate = "done"

(* What a live gate has found by the time it is past a check.  C5 is the   *)
(* one that must come first; the rest counts for a deterministic runner.   *)
Found ==
    LET r == runner IN
    (gate # "connect" /\ r.mode = "live") =>
        /\ gate # "C5" => C5(r, FALSE) \in checks
        /\ gate \notin {"C5", "C1"} => C1(r) \in checks
        /\ (~r.random /\ gate \notin {"C5", "C1", "C2"}) => C2(r) \in checks
        /\ (~r.random /\ gate \notin {"C5", "C1", "C2", "C3"}) => C3(r) \in checks
        /\ (~r.random /\ gate \in {"C4", "done"}) => C7(r) \subseteq checks

RunnerGateInv ==
    /\ GateTyped /\ Found
    /\ overall = "pass" => \A c \in checks : c.result # "fail"

\* A live check that passes leaves no defect of its kind in the runner.
LEMMA LiveCheckFinds == RunnerGateInv /\ LiveCheck => RunnerGateInv'
<1> SUFFICES ASSUME RunnerGateInv, LiveCheck PROVE RunnerGateInv'
  OBVIOUS
<1>1. /\ gate \in {"C5", "C1", "C2", "C3", "C7"}
      /\ gate' = LiveOrder[gate] /\ gate' \in {"C1", "C2", "C3", "C7", "C4"}
      /\ UNCHANGED <<runner, overall>> /\ checks \subseteq checks'
  <2>1. gate \in DOMAIN LiveOrder /\ gate' = LiveOrder[gate] /\ UNCHANGED <<runner, overall>>
    BY DEF LiveCheck
  <2>2. checks \subseteq checks'
    BY Zenon DEF LiveCheck
  <2> QED
    BY <2>1, <2>2 DEF LiveOrder
<1>2. GateTyped' /\ overall = "none"
  BY <1>1 DEF RunnerGateInv, GateTyped, Gates
<1>3. ASSUME runner.mode = "live"
      PROVE  Found'
  <2> DEFINE r == runner
             det == Check("C1", "pass", FALSE) \in checks
  <2>1. CASE gate = "C5"
    <3>1. C5(r, reruns > 1) \in checks' /\ gate' = "C1"
      BY <2>1 DEF LiveCheck, LiveOrder
    <3>2. C5(r, reruns > 1) = C5(r, FALSE)
      BY <2>1 DEF RunnerGateInv, GateTyped, C5
    <3> QED
      BY <1>1, <3>1, <3>2 DEF Found
  <2>2. CASE gate = "C1"
    <3>1. C1(r) \in checks' /\ gate' = "C2"
      BY <2>2 DEF LiveCheck, LiveOrder
    <3> QED
      BY <1>1, <1>3, <2>2, <3>1 DEF RunnerGateInv, Found
  <2>3. ASSUME gate \in {"C2", "C3", "C7"}, ~r.random
        PROVE  det
    BY <1>3, <2>3 DEF RunnerGateInv, Found, C1
  <2>4. CASE gate = "C2"
    <3>1. gate' = "C3" /\ (~r.random => C2(r) \in checks')
      BY <2>3, <2>4 DEF LiveCheck, LiveOrder
    <3> QED
      BY <1>1, <1>3, <2>4, <3>1 DEF RunnerGateInv, Found
  <2>5. CASE gate = "C3"
    <3>1. gate' = "C7" /\ (~r.random => C3(r) \in checks')
      BY <2>3, <2>5 DEF LiveCheck, LiveOrder
    <3> QED
      BY <1>1, <1>3, <2>5, <3>1 DEF RunnerGateInv, Found
  <2>6. CASE gate = "C7"
    <3>1. gate' = "C4" /\ (~r.random => C7(r) \subseteq checks')
      BY <2>3, <2>6 DEF LiveCheck, LiveOrder
    <3> QED
      BY <1>1, <1>3, <2>6, <3>1 DEF RunnerGateInv, Found
  <2> QED
    BY <1>1, <2>1, <2>2, <2>4, <2>5, <2>6
<1> QED
  BY <1>1, <1>2, <1>3 DEF RunnerGateInv, Found

\* Every step of the gate keeps what its passed checks have established.
LEMMA RunnerGateStep == RunnerGateInv /\ [RunnerNext]_runnerVars => RunnerGateInv'
<1> SUFFICES ASSUME RunnerGateInv, [RunnerNext]_runnerVars PROVE RunnerGateInv'
  OBVIOUS
<1>1. ASSUME NEW r \in Runners \union FileRunners, Connect(r)
      PROVE  RunnerGateInv'
  <2>1. r.mode \in {"live", "file"}
    BY DEF Runners, FileRunners
  <2> QED
    BY <1>1, <2>1 DEF Connect, RunnerGateInv, GateTyped, Gates, Found
<1>2. CASE LiveCheck
  BY <1>2, LiveCheckFinds
<1>3. CASE Conclude
  <2>1. /\ gate = "C4" /\ gate' = "done" /\ runner' = runner /\ checks \subseteq checks'
        /\ overall' \in {"pass", "fail"}
        /\ overall' = "pass" => \A c \in checks' : c.result # "fail"
    BY <1>3 DEF Conclude
  <2> QED
    BY <2>1 DEF RunnerGateInv, GateTyped, Gates, Found
<1>4. CASE UNCHANGED runnerVars
  BY <1>4 DEF runnerVars, RunnerGateInv, GateTyped, Found
<1> QED
  BY <1>1, <1>2, <1>3, <1>4 DEF RunnerNext

(* What the checks say of a runner none of them failed.                    *)
LEMMA CleanRunnerIsSound ==
  ASSUME NEW r \in Runners,
         C5(r, FALSE).result # "fail", C1(r).result # "fail",
         C2(r).result # "fail", C3(r).result # "fail",
         \A c \in C7(r) : c.result # "fail"
  PROVE  /\ ~r.random /\ r.differing >= 2 /\ r.leak = "no"
         /\ 2 * r.lengths[2] >= r.lengths[1]
         /\ "observe_point" \in r.caps => r.regs = "some"
         /\ "mem_capture" \in r.caps => r.mem
<1>1. /\ r.leak \in {"no", "unprimed", "always"} /\ r.regs \in {"none", "empty", "some"}
      /\ r.differing \in 1..2 /\ r.mem \in BOOLEAN
      /\ r.lengths[1] \in Nat /\ r.lengths[2] \in Nat
  BY RunnerAssumption DEF Runners
<1>2. r.leak = "no" /\ ~(2 * r.lengths[2] < r.lengths[1])
  BY <1>1 DEF C5, Check
<1>3. ~r.random /\ r.differing >= 2
  BY <1>1 DEF C1, C2, Check
<1>4. "observe_point" \in r.caps => r.regs = "some"
  BY <1>1 DEF C3, Check
<1>5. ASSUME "mem_capture" \in r.caps
      PROVE  r.mem
  <2> SUFFICES ASSUME ~MemRoundTrips(r) PROVE FALSE
    BY DEF MemRoundTrips
  <2> DEFINE works == [c \in Capabilities |->
                IF c = "mem_capture" THEN MemRoundTrips(r) ELSE r.regs = "some"]
             tried == {d \in Capabilities : d \in r.caps \/ (d = "mem_capture" /\ works[d])}
             outcomes == {Check("C7", IF works[c] THEN "pass" ELSE "fail", FALSE) : c \in tried}
  <2>1. "mem_capture" \in tried /\ ~works["mem_capture"]
    BY <1>5 DEF Capabilities
  <2>2. Check("C7", "fail", FALSE) \in outcomes
    BY <2>1
  <2>3. C7(r) = outcomes
    BY <2>2 DEF C7
  <2>4. Check("C7", "fail", FALSE).result = "fail"
    BY DEF Check
  <2> HIDE DEF outcomes
  <2> QED
    BY <2>2, <2>3, <2>4
<1> QED
  BY <1>1, <1>2, <1>3, <1>4, <1>5

(* For every runner of the description, trace length and anchor: the live  *)
(* gate lets by none that is random, ignores its input, spoils a later     *)
(* trace or cannot do what it declares (run_conformance).                  *)
THEOREM PassedRunnersAreSound == RunnerSpec => []PassMeansSound
<1>1. RunnerInit => RunnerGateInv
  BY DEF RunnerInit, RunnerGateInv, GateTyped, Gates, Found
<1>2. RunnerGateInv => PassMeansSound
  <2> SUFFICES ASSUME RunnerGateInv, overall = "pass", runner.mode = "live"
               PROVE  PassMeansSound
    BY DEF PassMeansSound
  <2>1. gate = "done" /\ runner \in Runners
    BY DEF RunnerGateInv, GateTyped, Gates, FileRunners
  <2>2. C5(runner, FALSE).result # "fail" /\ C1(runner).result # "fail"
    BY <2>1 DEF RunnerGateInv, Found
  <2>3. ~runner.random
    BY <2>1, <2>2 DEF C1, Check
  <2>4. C2(runner).result # "fail" /\ C3(runner).result # "fail" /\ \A c \in C7(runner) : c.result # "fail"
    BY <2>1, <2>3 DEF RunnerGateInv, Found
  <2> QED
    BY <2>1, <2>2, <2>4, CleanRunnerIsSound DEF PassMeansSound
<1> QED
  BY <1>1, <1>2, RunnerGateStep, PTL DEF RunnerSpec

-----------------------------------------------------------------------------
(* RunnerPipe.                                                             *)

Replies == [says : {"result", "error"}, id : Nat \ {0}]
Lineless == {"eof", "broken"}

(* The number of the reply that is due.                                    *)
Due == Len(ends) + 1 - Cardinality(ReadNoise(Len(ends)))

(* The replies in the pipe are those from d on, in rising order and with   *)
(* noise between them.                                                     *)
HoldsFrom(d) ==
    /\ d \in 1..served + 1
    /\ \A j \in 1..Len(pipe) : pipe[j] # Noise => pipe[j].id \in d..served
    /\ \A i, j \in 1..Len(pipe) :
           (i < j /\ pipe[i] # Noise /\ pipe[j] # Noise) => pipe[i].id < pipe[j].id
    /\ \A v \in d..served : \E j \in 1..Len(pipe) : pipe[j] # Noise /\ pipe[j].id = v

(* Once a call ended without a line none reads a line any more.            *)
NothingToRead == serving # "on" /\ (pipe = <<>> \/ (serving = "gone" /\ ~waiting))

PipeInv ==
    /\ pipe \in Seq(Replies \union {Noise}) /\ served \in Nat
    /\ ends \in Seq([says : {"result", "error", "noise"} \union Lineless, id : Nat])
    /\ ShiftedByNoise
    /\ HoldsFrom(Due) \/ NothingToRead

\* Noise is no reply.
LEMMA NoiseIsNoReply == Noise \notin Replies
BY DEF Noise, Line, Replies

\* The calls that read noise are finitely many.
LEMMA NoiseIsCounted ==
  ASSUME NEW n \in Nat
  PROVE  IsFiniteSet(ReadNoise(n)) /\ Cardinality(ReadNoise(n)) \in Nat
<1>1. IsFiniteSet(ReadNoise(n))
  BY UpToIsFinite, SubsetIsFinite DEF ReadNoise
<1> QED
  BY <1>1, FS_CardinalityType

\* A call that ends adds itself to them or nothing.
LEMMA EndCounts ==
  ASSUME PipeInv, NEW e, ends' = Append(ends, e)
  PROVE  /\ Len(ends) \in Nat /\ Len(ends') = Len(ends) + 1
         /\ ends'[Len(ends) + 1] = e /\ \A n \in 1..Len(ends) : ends'[n] = ends[n]
         /\ \A n \in 1..Len(ends) : ReadNoise(n)' = ReadNoise(n)
         /\ Cardinality(ReadNoise(Len(ends))) \in Nat
         /\ Cardinality(ReadNoise(Len(ends)))'
              = Cardinality(ReadNoise(Len(ends))) + (IF e.says = "noise" THEN 1 ELSE 0)
<1>1. /\ Len(ends) \in Nat /\ Len(ends') = Len(ends) + 1
      /\ ends'[Len(ends) + 1] = e /\ \A n \in 1..Len(ends) : ends'[n] = ends[n]
  BY DEF PipeInv
<1>2. \A n \in 1..Len(ends) : ReadNoise(n)' = ReadNoise(n)
  <2> SUFFICES ASSUME NEW n \in 1..Len(ends) PROVE ReadNoise(n)' = ReadNoise(n)
    OBVIOUS
  <2>1. \A m \in 1..n : m \in 1..Len(ends)
    BY <1>1
  <2> QED
    BY <1>1, <2>1 DEF ReadNoise
<1> DEFINE before == ReadNoise(Len(ends))
<1>3. ReadNoise(Len(ends))' = IF e.says = "noise" THEN before \union {Len(ends) + 1} ELSE before
  <2>1. \A m \in 1..Len(ends) + 1 : m \in 1..Len(ends) \/ m = Len(ends) + 1
    BY <1>1
  <2>2. \A m \in 1..Len(ends) : m \in 1..Len(ends) + 1 /\ m # Len(ends) + 1
    BY <1>1
  <2>3. Len(ends) + 1 \in 1..Len(ends) + 1
    BY <1>1
  <2>4. ReadNoise(Len(ends))' = {m \in 1..Len(ends) + 1 : ends'[m].says = "noise"}
    BY <1>1 DEF ReadNoise
  <2>5. ReadNoise(Len(ends))' = {m \in 1..Len(ends) : ends[m].says = "noise"}
                                   \union {m \in {Len(ends) + 1} : e.says = "noise"}
    BY <1>1, <2>1, <2>2, <2>3, <2>4
  <2> QED
    BY <2>5 DEF ReadNoise
<1>4. IsFiniteSet(before) /\ Cardinality(before) \in Nat /\ Len(ends) + 1 \notin before
  <2>1. Len(ends) + 1 \notin before
    BY <1>1 DEF ReadNoise
  <2> QED
    BY <1>1, <2>1, NoiseIsCounted
<1>5. Cardinality(before \union {Len(ends) + 1}) = Cardinality(before) + 1
  BY <1>4, FS_AddElement
<1> HIDE DEF before
<1>6. Cardinality(ReadNoise(Len(ends)))'
        = Cardinality(before) + (IF e.says = "noise" THEN 1 ELSE 0)
  BY <1>3, <1>4, <1>5
<1> QED
  BY <1>1, <1>2, <1>4, <1>6 DEF before

\* A call that is given no reply leaves the others as they are.
LEMMA EndWithoutReply ==
  ASSUME PipeInv, NEW e \in [says : {"noise"} \union Lineless, id : Nat], ends' = Append(ends, e)
  PROVE  /\ ends' \in Seq([says : {"result", "error", "noise"} \union Lineless, id : Nat])
         /\ ShiftedByNoise'
<1>1. ends' \in Seq([says : {"result", "error", "noise"} \union Lineless, id : Nat])
  BY DEF PipeInv
<1>2. \A n \in Replied' : n \in Replied /\ n \in 1..Len(ends)
  BY EndCounts DEF Replied, Lineless, PipeInv
<1>3. ASSUME NEW n \in Replied'
      PROVE  (ends[n].id + Cardinality(ReadNoise(n)) = n)'
  BY <1>2, EndCounts DEF PipeInv, ShiftedByNoise
<1> QED
  BY <1>1, <1>3 DEF ShiftedByNoise

\* A line written to the pipe is noise or the next reply.
LEMMA PipeAppends ==
  ASSUME PipeInv, ~NothingToRead, NEW line \in Replies \union {Noise},
         pipe' = Append(pipe, line), ends' = ends,
         \/ line = Noise /\ served' = served
         \/ line # Noise /\ line.id = served + 1 /\ served' = served + 1
  PROVE  PipeInv'
<1>1. /\ Len(pipe') = Len(pipe) + 1 /\ Len(pipe) \in Nat
      /\ \A j \in 1..Len(pipe) : pipe'[j] = pipe[j]
      /\ pipe'[Len(pipe) + 1] = line
      /\ pipe' \in Seq(Replies \union {Noise})
  BY DEF PipeInv
<1>2. \A j \in 1..Len(pipe') : j \in 1..Len(pipe) \/ j = Len(pipe) + 1
  BY <1>1
<1>3. HoldsFrom(Due) /\ Due' = Due /\ Due \in 1..served + 1 /\ served \in Nat
  <2>1. \A n : ReadNoise(n)' = ReadNoise(n)
    BY DEF ReadNoise
  <2> QED
    BY <2>1 DEF PipeInv, HoldsFrom, Due
<1>4. \A j \in 1..Len(pipe') : pipe'[j] # Noise => pipe'[j].id \in Due .. served'
  BY <1>1, <1>2, <1>3 DEF HoldsFrom
<1>5. \A i, j \in 1..Len(pipe') :
         (i < j /\ pipe'[i] # Noise /\ pipe'[j] # Noise) => pipe'[i].id < pipe'[j].id
  <2> SUFFICES ASSUME NEW i \in 1..Len(pipe'), NEW j \in 1..Len(pipe'),
                      i < j, pipe'[i] # Noise, pipe'[j] # Noise
               PROVE  pipe'[i].id < pipe'[j].id
    OBVIOUS
  <2>1. i \in 1..Len(pipe) /\ pipe'[i] = pipe[i] /\ pipe[i].id \in Due .. served
    BY <1>1, <1>3 DEF HoldsFrom
  <2>2. CASE j \in 1..Len(pipe)
    BY <1>1, <1>3, <2>1, <2>2 DEF HoldsFrom
  <2>3. CASE j = Len(pipe) + 1
    BY <1>1, <1>3, <2>1, <2>3
  <2> QED
    BY <1>2, <2>2, <2>3
<1>6. \A v \in Due .. served' : \E j \in 1..Len(pipe') : pipe'[j] # Noise /\ pipe'[j].id = v
  <2> SUFFICES ASSUME NEW v \in Due .. served'
               PROVE  \E j \in 1..Len(pipe') : pipe'[j] # Noise /\ pipe'[j].id = v
    OBVIOUS
  <2>1. CASE v \in Due .. served
    <3>1. PICK j \in 1..Len(pipe) : pipe[j] # Noise /\ pipe[j].id = v
      BY <1>3, <2>1 DEF HoldsFrom
    <3> QED
      BY <1>1, <3>1
  <2>2. CASE v = served + 1 /\ line # Noise
    <3>1. Len(pipe) + 1 \in 1..Len(pipe')
      BY <1>1
    <3> QED
      BY <1>1, <2>2, <3>1
  <2> QED
    BY <1>3, <2>1, <2>2
<1>7. HoldsFrom(Due)'
  BY <1>1, <1>3, <1>4, <1>5, <1>6 DEF HoldsFrom
<1>8. ShiftedByNoise'
  BY DEF PipeInv, ShiftedByNoise, Replied, ReadNoise
<1> QED
  BY <1>1, <1>3, <1>7, <1>8 DEF PipeInv

\* The line read is the oldest: noise, or the reply that is due.
LEMMA HeadIsDue ==
  ASSUME PipeInv, pipe # <<>>, NEW d, HoldsFrom(d)
  PROVE  /\ Head(pipe) # Noise => Head(pipe).id = d /\ d <= served
         /\ pipe' = Tail(pipe) /\ served' = served
              => \A e : e = (IF Head(pipe) = Noise THEN d ELSE d + 1) => HoldsFrom(e)'
<1>1. /\ Len(pipe) \in Nat \ {0} /\ Head(pipe) = pipe[1] /\ 1 \in 1..Len(pipe)
      /\ served \in Nat /\ d \in 1..served + 1
  BY DEF PipeInv, HoldsFrom
<1>2. Head(pipe) # Noise => Head(pipe).id = d /\ d <= served
  <2> SUFFICES ASSUME Head(pipe) # Noise PROVE Head(pipe).id = d /\ d <= served
    OBVIOUS
  <2>1. pipe[1].id \in d..served
    BY <1>1 DEF HoldsFrom
  <2>2. PICK j \in 1..Len(pipe) : pipe[j] # Noise /\ pipe[j].id = d
    <3>1. d \in d..served
      BY <1>1, <2>1
    <3> QED
      BY <3>1 DEF HoldsFrom
  <2>3. j = 1
    <3> SUFFICES ASSUME j # 1 PROVE FALSE
      OBVIOUS
    <3>1. pipe[1].id < pipe[j].id
      BY <1>1, <2>2 DEF HoldsFrom
    <3> QED
      BY <1>1, <2>1, <2>2, <3>1
  <2> QED
    BY <1>1, <2>1, <2>2, <2>3
<1>3. ASSUME pipe' = Tail(pipe), served' = served,
             NEW e, e = (IF Head(pipe) = Noise THEN d ELSE d + 1)
      PROVE  HoldsFrom(e)'
  <2>1. Len(pipe') = Len(pipe) - 1 /\ \A j \in 1..Len(pipe') : pipe'[j] = pipe[j + 1]
    BY <1>1, <1>3 DEF PipeInv
  <2>2. \A j \in 1..Len(pipe') : j + 1 \in 1..Len(pipe) /\ 1 < j + 1
    BY <1>1, <2>1
  <2>3. e \in 1..served + 1
    BY <1>1, <1>2, <1>3
  <2>4. \A j \in 1..Len(pipe') : pipe'[j] # Noise => pipe'[j].id \in e..served
    <3> SUFFICES ASSUME NEW j \in 1..Len(pipe'), pipe'[j] # Noise
                 PROVE  pipe'[j].id \in e..served
      OBVIOUS
    <3>1. pipe[j + 1] # Noise /\ pipe[j + 1].id \in d..served
      BY <2>1, <2>2 DEF HoldsFrom
    <3>2. Head(pipe) # Noise => d < pipe[j + 1].id
      BY <1>1, <1>2, <2>2, <3>1 DEF HoldsFrom
    <3> QED
      BY <1>1, <1>3, <2>1, <3>1, <3>2
  <2>5. \A i, j \in 1..Len(pipe') :
           (i < j /\ pipe'[i] # Noise /\ pipe'[j] # Noise) => pipe'[i].id < pipe'[j].id
    <3> SUFFICES ASSUME NEW i \in 1..Len(pipe'), NEW j \in 1..Len(pipe'),
                        i < j, pipe'[i] # Noise, pipe'[j] # Noise
                 PROVE  pipe'[i].id < pipe'[j].id
      OBVIOUS
    <3>1. i + 1 \in 1..Len(pipe) /\ j + 1 \in 1..Len(pipe) /\ i + 1 < j + 1
      BY <2>2
    <3> QED
      BY <2>1, <3>1 DEF HoldsFrom
  <2>6. \A v \in e..served : \E j \in 1..Len(pipe') : pipe'[j] # Noise /\ pipe'[j].id = v
    <3> SUFFICES ASSUME NEW v \in e..served
                 PROVE  \E j \in 1..Len(pipe') : pipe'[j] # Noise /\ pipe'[j].id = v
      OBVIOUS
    <3>1. v \in d..served /\ (Head(pipe) # Noise => v # d)
      BY <1>1, <1>3
    <3>2. PICK j \in 1..Len(pipe) : pipe[j] # Noise /\ pipe[j].id = v
      BY <3>1 DEF HoldsFrom
    <3>3. j # 1
      BY <1>1, <1>2, <3>1, <3>2
    <3>4. j - 1 \in 1..Len(pipe') /\ (j - 1) + 1 = j
      BY <1>1, <2>1, <3>3
    <3> QED
      BY <2>1, <3>2, <3>4
  <2> QED
    BY <1>3, <2>3, <2>4, <2>5, <2>6 DEF HoldsFrom
<1> QED
  BY <1>2, <1>3

\* Reading a line.
LEMMA ReadLineKeeps == PipeInv /\ ReadLine => PipeInv'
<1> SUFFICES ASSUME PipeInv, ReadLine PROVE PipeInv'
  OBVIOUS
<1> DEFINE h == Head(pipe)
<1>1. /\ pipe # <<>> /\ waiting /\ pipe' = Tail(pipe) /\ ends' = Append(ends, h)
      /\ served' = served
  BY DEF ReadLine, CallEnds
<1>2. HoldsFrom(Due)
  BY <1>1 DEF PipeInv, NothingToRead
<1>3. /\ h \in Replies \union {Noise} /\ pipe' \in Seq(Replies \union {Noise})
      /\ served' \in Nat /\ Due \in Nat
  BY <1>1, <1>2 DEF PipeInv, HoldsFrom
<1> PICK d : d = Due
  OBVIOUS
<1>4. HoldsFrom(d)
  BY <1>2 DEF HoldsFrom
<1>5. ASSUME Due' = IF h = Noise THEN d ELSE d + 1
      PROVE  HoldsFrom(Due)'
  <2>1. PICK e : e = Due'
    OBVIOUS
  <2>2. HoldsFrom(e)'
    BY <1>1, <1>4, <1>5, <2>1, HeadIsDue
  <2> QED
    BY <2>1, <2>2 DEF HoldsFrom
<1>6. CASE h = Noise
  <2>1. h.says = "noise" /\ h \in [says : {"noise"} \union Lineless, id : Nat]
    BY <1>6 DEF Noise, Line
  <2>2. Due' = Due
    BY <1>1, <2>1, EndCounts DEF Due
  <2>3. HoldsFrom(Due)'
    BY <1>6, <1>5, <2>2
  <2> QED
    BY <1>1, <1>3, <2>1, <2>3, EndWithoutReply DEF PipeInv
<1>7. CASE h \in Replies
  <2>1. h # Noise /\ h.says \in {"result", "error"} /\ h.says # "noise" /\ h.id = d
    BY <1>1, <1>7, <1>4, HeadIsDue, NoiseIsNoReply DEF Replies
  <2>2. Due' = Due + 1
    <3>1. \A e : ends' = Append(ends, e) /\ e.says # "noise" =>
             /\ Cardinality(ReadNoise(Len(ends)))' = Cardinality(ReadNoise(Len(ends)))
             /\ Len(ends') = Len(ends) + 1 /\ Len(ends) \in Nat
             /\ Cardinality(ReadNoise(Len(ends))) \in Nat
      BY EndCounts
    <3> QED
      BY <1>1, <2>1, <3>1 DEF Due
  <2>3. HoldsFrom(Due)'
    BY <1>5, <2>1, <2>2
  <2>4. ends' \in Seq([says : {"result", "error", "noise"} \union Lineless, id : Nat])
    <3>1. h \in [says : {"result", "error", "noise"} \union Lineless, id : Nat]
      BY <1>7 DEF Replies
    <3> HIDE DEF h
    <3> QED
      BY <1>1, <3>1 DEF PipeInv
  <2>5. ASSUME NEW n \in Replied'
        PROVE  (ends[n].id + Cardinality(ReadNoise(n)) = n)'
    <3>1. n \in 1..Len(ends) \/ n = Len(ends) + 1
      BY <1>1, <2>4, EndCounts DEF Replied
    <3>2. CASE n \in 1..Len(ends)
      <4>1. n \in Replied
        BY <1>1, <3>2, EndCounts DEF Replied, PipeInv
      <4> QED
        BY <1>1, <3>2, <4>1, EndCounts DEF PipeInv, ShiftedByNoise
    <3>3. CASE n = Len(ends) + 1
      <4>1. ReadNoise(n)' = ReadNoise(Len(ends))'
        BY <1>1, <3>3, EndCounts DEF ReadNoise
      <4>2. ends'[n].id = Len(ends) + 1 - Cardinality(ReadNoise(Len(ends)))
        BY <1>1, <2>1, <3>3, EndCounts DEF Due
      <4> QED
        BY <1>1, <2>1, <3>3, <4>1, <4>2, EndCounts
    <3> QED
      BY <3>1, <3>2, <3>3
  <2> QED
    BY <1>3, <2>3, <2>4, <2>5 DEF PipeInv, ShiftedByNoise
<1> QED
  BY <1>3, <1>6, <1>7

\* Every step of client and runner keeps the replies in order.
LEMMA PipeStep == PipeInv /\ [PipeNext]_pipeVars => PipeInv'
<1> SUFFICES ASSUME PipeInv, [PipeNext]_pipeVars PROVE PipeInv'
  OBVIOUS
<1>1. ASSUME NEW says \in {"result", "error"}, Respond(says)
      PROVE  PipeInv'
  <2>1. Line(says, served + 1) \in Replies /\ Line(says, served + 1).id = served + 1
    BY DEF PipeInv, Line, Replies
  <2> QED
    BY <1>1, <2>1, PipeAppends, NoiseIsNoReply DEF Respond, clientVars, NothingToRead
<1>2. CASE MakeNoise
  BY <1>2, PipeAppends DEF MakeNoise, clientVars, NothingToRead
<1>3. CASE ReadLine
  BY <1>3, ReadLineKeeps
<1>4. ASSUME NEW why \in Lineless, ends' = Append(ends, NoLine(why)), NothingToRead',
             UNCHANGED <<pipe, served>>
      PROVE  PipeInv'
  <2>1. NoLine(why) \in [says : {"noise"} \union Lineless, id : Nat]
    BY DEF NoLine, Line
  <2> QED
    BY <1>4, <2>1, EndWithoutReply DEF PipeInv
<1>5. CASE EndOfFile
  <2>1. NothingToRead'
    BY <1>5 DEF EndOfFile, CallEnds, NothingToRead
  <2> QED
    BY <1>4, <1>5, <2>1 DEF EndOfFile, CallEnds, Lineless
<1>6. CASE RequestBreaks
  <2>1. NothingToRead'
    BY <1>6 DEF RequestBreaks, processVars, NothingToRead
  <2> QED
    BY <1>4, <1>6, <2>1 DEF RequestBreaks, processVars, Lineless
<1>7. ASSUME UNCHANGED <<pipe, served, ends>>, NothingToRead => NothingToRead'
      PROVE  PipeInv'
  BY <1>7 DEF PipeInv, ShiftedByNoise, Replied, ReadNoise, HoldsFrom, Due
<1>8. ASSUME NEW final \in BOOLEAN, Request(final)
      PROVE  PipeInv'
  BY <1>7, <1>8 DEF Request, processVars, NothingToRead
<1>9. CASE Stop
  BY <1>7, <1>9 DEF Stop, clientVars, NothingToRead
<1>10. CASE UNCHANGED pipeVars
  BY <1>7, <1>10 DEF pipeVars, clientVars, processVars, NothingToRead
<1> QED
  BY <1>1, <1>2, <1>3, <1>5, <1>6, <1>8, <1>9, <1>10 DEF PipeNext

(* However much noise comes between, however many replies carry an error   *)
(* and whenever the runner stops: a call is given the reply to the call    *)
(* that many before it as calls have read noise                            *)
(* (SubprocessRunnerAdapter._call).                                        *)
THEOREM RepliesAreShiftedByNoise == PipeSpec => []ShiftedByNoise
<1>1. PipeInit => PipeInv
  <2> SUFFICES ASSUME PipeInit PROVE PipeInv
    OBVIOUS
  <2>1. ReadNoise(0) = {} /\ Cardinality({}) = 0
    BY FS_EmptySet DEF ReadNoise
  <2>2. Due = 1
    BY <2>1 DEF PipeInit, Due
  <2> QED
    BY <2>2 DEF PipeInit, PipeInv, ShiftedByNoise, Replied, HoldsFrom
<1>2. PipeInv => ShiftedByNoise
  BY DEF PipeInv
<1> QED
  BY <1>1, <1>2, PipeStep, PTL DEF PipeSpec

-----------------------------------------------------------------------------
(* TaskTree.                                                                *)

(* Every task knows the tasks above it.                                    *)
Climbs(tasks, up) ==
    \A id \in DOMAIN tasks :
        up[id] = IF tasks[id].parent = TopLevel THEN {}
                 ELSE {tasks[id].parent} \cup up[tasks[id].parent]

(* The tasks above a task are those in every set of tasks that holds its   *)
(* parent and the parents of its members: this satisfies the recursion.    *)
LEMMA AncestorsClimb ==
  ASSUME NEW tasks, Nested(tasks)
  PROVE  Climbs(tasks, AncestorsIn(tasks))
<1> DEFINE D == DOMAIN tasks
           par(id) == tasks[id].parent
           Upward(ids) == \A x \in ids : par(x) \in ids \cup {TopLevel}
           above == [id \in D |-> IF par(id) = TopLevel THEN {}
                                  ELSE {p \in D : \A ids \in SUBSET D :
                                          Upward(ids) /\ par(id) \in ids => p \in ids}]
           up == CHOOSE f : f = [id \in DOMAIN tasks |->
                      IF tasks[id].parent = TopLevel THEN {}
                      ELSE {tasks[id].parent} \cup f[tasks[id].parent]]
<1>1. AncestorsIn(tasks) = up
  BY DEF AncestorsIn
<1>2. TopLevel \notin D /\ \A id \in D : par(id) \in D \cup {TopLevel}
  BY DEF Nested
<1>3. ASSUME NEW id \in D, par(id) # TopLevel
      PROVE  above[id] = {par(id)} \cup above[par(id)]
  <2> DEFINE p == par(id)
  <2>1. p \in D
    BY <1>2, <1>3
  <2>2. above[id] = {q \in D : \A ids \in SUBSET D : Upward(ids) /\ p \in ids => q \in ids}
    BY <1>3
  <2>3. p \in above[id]
    BY <2>1, <2>2
  <2>4. above[p] \subseteq above[id]
    <3>1. CASE par(p) = TopLevel
      BY <2>1, <3>1
    <3>2. CASE par(p) # TopLevel
      <4>1. \A ids \in SUBSET D : Upward(ids) /\ p \in ids => par(p) \in ids
        BY <3>2
      <4>2. above[p] = {q \in D : \A ids \in SUBSET D : Upward(ids) /\ par(p) \in ids => q \in ids}
        BY <2>1, <3>2
      <4> HIDE DEF p, above, Upward, par
      <4> QED
        BY <2>2, <4>1, <4>2
    <3> QED
      BY <3>1, <3>2
  <2>5. ASSUME NEW q \in above[id], q # p
        PROVE  q \in above[p]
    <3>1. CASE par(p) = TopLevel
      <4>1. {p} \in SUBSET D /\ Upward({p})
        BY <2>1, <3>1
      <4>2. q \in {p}
        <5> HIDE DEF p, above, Upward, par
        <5> QED
          BY <2>2, <2>5, <4>1
      <4> QED
        BY <2>5, <4>2
    <3>2. CASE par(p) # TopLevel
      <4>1. above[p] = {r \in D : \A ids \in SUBSET D : Upward(ids) /\ par(p) \in ids => r \in ids}
        BY <2>1, <3>2
      <4>2. ASSUME NEW ids \in SUBSET D, Upward(ids), par(p) \in ids
            PROVE  q \in ids
        <5>1. ids \cup {p} \in SUBSET D /\ Upward(ids \cup {p}) /\ p \in ids \cup {p}
          BY <2>1, <4>2
        <5>2. q \in ids \cup {p}
          <6> HIDE DEF p, above, Upward, par
          <6> QED
            BY <2>2, <2>5, <5>1
        <5> QED
          BY <2>5, <5>2
      <4>3. q \in D
        BY <2>2, <2>5
      <4> HIDE DEF p, above, Upward, par
      <4> QED
        BY <4>1, <4>2, <4>3
    <3> QED
      BY <3>1, <3>2
  <2> HIDE DEF above
  <2> QED
    BY <2>3, <2>4, <2>5
<1>4. \A id \in D : par(id) = TopLevel => above[id] = {}
  OBVIOUS
<1>5. above = [id \in DOMAIN tasks |->
                 IF tasks[id].parent = TopLevel THEN {}
                 ELSE {tasks[id].parent} \cup above[tasks[id].parent]]
  <2>1. above = [id \in D |-> above[id]]
    OBVIOUS
  <2> HIDE DEF above
  <2> QED
    BY <1>3, <1>4, <2>1
<1>6. up = [id \in DOMAIN tasks |->
                 IF tasks[id].parent = TopLevel THEN {}
                 ELSE {tasks[id].parent} \cup up[tasks[id].parent]]
  <2> HIDE DEF above
  <2> QED
    BY <1>5
<1> HIDE DEF up
<1> QED
  BY <1>1, <1>6 DEF Climbs

\* No task stands above itself.
LEMMA NotAboveItself ==
  ASSUME NEW tasks, Nested(tasks), NEW x \in DOMAIN tasks
  PROVE  x \notin AncestorsIn(tasks)[x]
<1> DEFINE up == AncestorsIn(tasks)
           below == {y \in DOMAIN tasks : x \in up[y]}
<1>1. SUFFICES ASSUME x \in up[x] PROVE FALSE
  OBVIOUS
<1>2. Climbs(tasks, up)
  BY AncestorsClimb
<1> HIDE DEF up
<1>3. PICK y \in below : tasks[y].parent \notin below
  <2>1. below \in SUBSET DOMAIN tasks /\ x \in below
    BY <1>1
  <2> HIDE DEF below
  <2> QED
    BY <2>1 DEF Nested
<1>4. tasks[y].parent \in DOMAIN tasks \cup {TopLevel} /\ x \in up[y]
  BY <1>3 DEF Nested
<1>5. tasks[y].parent # TopLevel /\ (x = tasks[y].parent \/ x \in up[tasks[y].parent])
  BY <1>2, <1>3, <1>4 DEF Climbs
<1> QED
  BY <1>1, <1>3, <1>4, <1>5

(* A part of a tree that holds with a task all tasks above it.             *)
PartOf(part, tasks) ==
    /\ DOMAIN part \subseteq DOMAIN tasks
    /\ \A id \in DOMAIN part : /\ part[id].parent = tasks[id].parent
                               /\ tasks[id].parent \in DOMAIN part \cup {TopLevel}

\* Such a part is nested like the tree.
LEMMA PartIsNested ==
  ASSUME NEW part, NEW tasks, PartOf(part, tasks), Nested(tasks)
  PROVE  Nested(part)
<1>1. ASSUME NEW ids \in SUBSET DOMAIN part, ids # {}
      PROVE  \E id \in ids : part[id].parent \notin ids
  <2>1. PICK id \in ids : tasks[id].parent \notin ids
    BY <1>1 DEF PartOf, Nested
  <2> QED
    BY <2>1 DEF PartOf
<1>2. TopLevel \notin DOMAIN part
  BY DEF PartOf, Nested
<1>3. \A id \in DOMAIN part : part[id].parent \in DOMAIN part \cup {TopLevel}
  BY DEF PartOf
<1> QED
  BY <1>1, <1>2, <1>3 DEF Nested

\* A task that two trees have in such a part has the same tasks above it.
LEMMA AncestorsKept ==
  ASSUME NEW part, NEW tasks, NEW other, Nested(tasks), Nested(other),
         PartOf(part, tasks), PartOf(part, other), NEW x \in DOMAIN part
  PROVE  AncestorsIn(tasks)[x] = AncestorsIn(other)[x]
<1> DEFINE up == AncestorsIn(tasks)
           oup == AncestorsIn(other)
           differ == {id \in DOMAIN part : up[id] # oup[id]}
<1>1. Climbs(tasks, up) /\ Climbs(other, oup)
  BY AncestorsClimb
<1> HIDE DEF up, oup
<1>2. SUFFICES ASSUME differ # {} PROVE FALSE
  BY DEF up, oup
<1>3. PICK y \in differ : tasks[y].parent \notin differ
  <2>1. differ \in SUBSET DOMAIN tasks
    BY DEF PartOf
  <2> HIDE DEF differ
  <2> QED
    BY <1>2, <2>1 DEF Nested
<1>4. /\ y \in DOMAIN tasks /\ y \in DOMAIN other
      /\ tasks[y].parent = other[y].parent
      /\ tasks[y].parent \in DOMAIN part \cup {TopLevel}
  BY <1>3 DEF PartOf
<1>5. tasks[y].parent # TopLevel => up[tasks[y].parent] = oup[tasks[y].parent]
  BY <1>3, <1>4
<1>6. /\ up[y] = IF tasks[y].parent = TopLevel THEN {} ELSE {tasks[y].parent} \cup up[tasks[y].parent]
      /\ oup[y] = IF other[y].parent = TopLevel THEN {} ELSE {other[y].parent} \cup oup[other[y].parent]
  BY <1>1, <1>4 DEF Climbs
<1>7. up[y] # oup[y]
  BY <1>3
<1> QED
  BY <1>4, <1>5, <1>6, <1>7
\* The kept tasks stay as they are, the others come beside them.
LEMMA JoinedTasks ==
  ASSUME NEW kept, NEW added, DOMAIN kept \cap DOMAIN added = {}
  PROVE  /\ DOMAIN Joined(kept, added) = DOMAIN kept \cup DOMAIN added
         /\ \A x \in DOMAIN kept : Joined(kept, added)[x] = kept[x]
         /\ \A x \in DOMAIN added : Joined(kept, added)[x] = added[x]
  BY DEF Joined

(* What goes out with a task are the tasks below it; the rest is a part    *)
(* of the tree that holds the task's parent.                               *)
LEMMA RestIsPart ==
  ASSUME NEW tasks, Nested(tasks), NEW child \in DOMAIN tasks
  PROVE  LET rest == WithoutSubtree(tasks, child) IN
         /\ PartOf(rest, tasks)
         /\ tasks[child].parent \in DOMAIN rest \cup {TopLevel}
         /\ \A id \in DOMAIN tasks \ DOMAIN rest : child \in {id} \cup AncestorsIn(tasks)[id]
<1> DEFINE rest == WithoutSubtree(tasks, child)
           up == AncestorsIn(tasks)
           parent == tasks[child].parent
<1>1. Climbs(tasks, up)
  BY AncestorsClimb
<1>2. child \notin up[child]
  BY NotAboveItself
<1>3. /\ DOMAIN rest = {t \in DOMAIN tasks : t # child /\ child \notin up[t]}
      /\ \A t \in DOMAIN rest : rest[t] = tasks[t]
  BY DEF WithoutSubtree, Restrict
<1> HIDE DEF rest, up
<1>4. \A id \in DOMAIN tasks : tasks[id].parent \in DOMAIN tasks \cup {TopLevel}
  BY DEF Nested
<1>5. ASSUME NEW id \in DOMAIN tasks, tasks[id].parent # TopLevel, child \notin up[id]
      PROVE  tasks[id].parent \in DOMAIN rest
  <2>1. up[id] = {tasks[id].parent} \cup up[tasks[id].parent]
    BY <1>1, <1>5 DEF Climbs
  <2> QED
    BY <1>3, <1>4, <1>5, <2>1
<1>6. parent \in DOMAIN rest \cup {TopLevel}
  BY <1>2, <1>5
<1>7. PartOf(rest, tasks)
  BY <1>3, <1>4, <1>5 DEF PartOf
<1> QED
  BY <1>3, <1>6, <1>7 DEF rest, up

(* A draft put under a task of the tree makes a tree of which the one      *)
(* before is a part, and what has come stands at or below the draft's top. *)
LEMMA DraftComesUnder ==
  ASSUME NEW kept, Nested(kept), NEW parent \in DOMAIN kept, NEW draft \in Drafts,
         DOMAIN kept \cap DOMAIN UnderParent(draft, parent) = {}
  PROVE  LET grown == Joined(kept, UnderParent(draft, parent)) IN
         /\ Nested(grown)
         /\ PartOf(kept, grown)
         /\ DOMAIN grown = DOMAIN kept \cup DOMAIN draft.tasks
         /\ \A id \in DOMAIN grown \ DOMAIN kept : draft.top \in {id} \cup AncestorsIn(grown)[id]
<1> DEFINE added == UnderParent(draft, parent)
           grown == Joined(kept, added)
           top == draft.top
           D == DOMAIN draft.tasks
<1>1. /\ Nested(draft.tasks)
      /\ top \in D /\ "parent" \in DOMAIN draft.tasks[top]
      /\ \A id \in D : draft.tasks[id].parent = TopLevel <=> id = top
  BY TaskAssumption
<1>2. /\ DOMAIN added = D
      /\ added[top].parent = parent
      /\ \A id \in D : id # top => added[id] = draft.tasks[id]
  BY <1>1 DEF UnderParent
<1>3. DOMAIN kept \cap D = {}
  BY <1>2
<1>4. /\ DOMAIN grown = DOMAIN kept \cup D
      /\ \A id \in DOMAIN kept : grown[id] = kept[id]
      /\ grown[top].parent = parent
      /\ \A id \in D : id # top => grown[id] = draft.tasks[id]
  <2> HIDE DEF added
  <2>1. DOMAIN kept \cap DOMAIN added = {}
    BY <1>2, <1>3
  <2>2. /\ DOMAIN grown = DOMAIN kept \cup DOMAIN added
        /\ \A x \in DOMAIN kept : grown[x] = kept[x]
        /\ \A x \in DOMAIN added : grown[x] = added[x]
    BY <2>1, JoinedTasks
  <2> HIDE DEF grown
  <2> QED
    BY <1>1, <1>2, <2>2
<1> HIDE DEF grown, added
<1>5. \A id \in D : id # top => draft.tasks[id].parent \in D
  BY <1>1 DEF Nested
<1>6. /\ TopLevel \notin DOMAIN kept /\ TopLevel \notin D
      /\ \A id \in DOMAIN kept : kept[id].parent \in DOMAIN kept \cup {TopLevel}
  BY <1>1 DEF Nested
<1>7. PartOf(kept, grown)
  BY <1>4, <1>6 DEF PartOf
<1>8. Nested(grown)
  <2>1. TopLevel \notin DOMAIN grown
    BY <1>4, <1>6
  <2>2. ASSUME NEW id \in DOMAIN grown
        PROVE  grown[id].parent \in DOMAIN grown \cup {TopLevel}
    <3>1. CASE id \in DOMAIN kept
      BY <3>1, <1>4, <1>6
    <3>2. CASE id = top
      BY <3>2, <1>4
    <3>3. CASE id \in D /\ id # top
      BY <3>3, <1>4, <1>5
    <3> QED
      BY <1>4, <2>2, <3>1, <3>2, <3>3
  <2>3. ASSUME NEW ids \in SUBSET DOMAIN grown, ids # {}
        PROVE  \E id \in ids : grown[id].parent \notin ids
    <3>1. CASE ids \cap DOMAIN kept # {}
      <4>1. PICK id \in ids \cap DOMAIN kept : kept[id].parent \notin ids \cap DOMAIN kept
        <5>1. ids \cap DOMAIN kept \in SUBSET DOMAIN kept
          OBVIOUS
        <5> QED
          BY <3>1, <5>1 DEF Nested
      <4>2. grown[id].parent \in DOMAIN kept \cup {TopLevel} /\ grown[id].parent = kept[id].parent
        BY <1>4, <1>6
      <4>3. TopLevel \notin ids
        BY <2>1
      <4> QED
        BY <4>1, <4>2, <4>3
    <3>2. CASE ids \cap DOMAIN kept = {}
      <4>1. ids \in SUBSET D
        BY <1>4, <3>2
      <4>2. PICK id \in ids : draft.tasks[id].parent \notin ids
        BY <1>1, <2>3, <4>1 DEF Nested
      <4>3. id = top => grown[id].parent \notin ids
        BY <1>4, <3>2
      <4>4. id # top => grown[id].parent = draft.tasks[id].parent
        BY <1>4, <4>1
      <4> QED
        BY <4>2, <4>3, <4>4
    <3> QED
      BY <3>1, <3>2
  <2> QED
    BY <2>1, <2>2, <2>3 DEF Nested
<1> DEFINE up == AncestorsIn(grown)
<1>9. Climbs(grown, up)
  BY <1>8, AncestorsClimb
<1> HIDE DEF up
<1>10. ASSUME {id \in D : top \notin {id} \cup up[id]} # {}
       PROVE  FALSE
  <2> DEFINE apart == {id \in D : top \notin {id} \cup up[id]}
  <2>1. PICK id \in apart : draft.tasks[id].parent \notin apart
    <3>1. apart \in SUBSET D /\ apart # {}
      BY <1>10
    <3> HIDE DEF apart
    <3> QED
      BY <1>1, <3>1 DEF Nested
  <2>2. id \in D /\ id # top /\ top \notin up[id]
    BY <2>1
  <2>3. grown[id].parent = draft.tasks[id].parent /\ grown[id].parent \in D
    BY <1>4, <1>5, <2>2
  <2>4. grown[id].parent # TopLevel /\ top \in {grown[id].parent} \cup up[grown[id].parent]
    BY <1>6, <2>1, <2>3
  <2>5. up[id] = {grown[id].parent} \cup up[grown[id].parent]
    BY <1>4, <1>9, <2>2, <2>4 DEF Climbs
  <2> QED
    BY <2>2, <2>4, <2>5
<1>11. \A id \in DOMAIN grown \ DOMAIN kept : top \in {id} \cup up[id]
  BY <1>4, <1>10
<1> QED
  BY <1>4, <1>7, <1>8, <1>11 DEF grown, added, up


(* Both trees are nested, the trail is a sequence of entries, and a task   *)
(* of the loaded tree that no line touches, itself or above it, is still   *)
(* there below the same tasks.                                             *)
LoadableIds == UNION {DOMAIN s : s \in TaskSpecs}
DraftIds == UNION {DOMAIN d.tasks : d \in Drafts}
TaskIds == LoadableIds \cup DraftIds
TrailLine == [op : {"insert_child", "replace_child", "delete_child"}, task : TaskIds, detail : TaskIds]
Comes == {"insert_child", "replace_child"}
Goes == {"delete_child", "replace_child"}
TaskInv ==
    /\ Nested(taskTree) /\ Nested(loadedSpec)
    /\ DOMAIN taskTree \subseteq TaskIds
    /\ auditTrail \in Seq(TrailLine)
    /\ \A id \in DOMAIN taskTree \ DOMAIN loadedSpec :
          Touched(auditTrail, Comes, {id} \cup AncestorsIn(taskTree)[id])
    /\ \A id \in DOMAIN loadedSpec :
          \/ Touched(auditTrail, Goes, {id} \cup AncestorsIn(loadedSpec)[id])
          \/ id \in DOMAIN taskTree /\ AncestorsIn(taskTree)[id] = AncestorsIn(loadedSpec)[id]

\* A trail that has grown by a line tells what it told, and that line.
LEMMA TrailGrows ==
  ASSUME NEW trail \in Seq(TrailLine), NEW line \in TrailLine, NEW ops, NEW ids
  PROVE  LET grown == Append(trail, line) IN
         /\ grown \in Seq(TrailLine)
         /\ Touched(trail, ops, ids) => Touched(grown, ops, ids)
         /\ line.op \in ops /\ line.detail \in ids => Touched(grown, ops, ids)
<1> DEFINE grown == Append(trail, line)
<1>1. /\ grown \in Seq(TrailLine)
      /\ DOMAIN grown = 1..Len(trail) + 1
      /\ DOMAIN trail = 1..Len(trail)
      /\ grown[Len(trail) + 1] = line
      /\ \A i \in 1..Len(trail) : grown[i] = trail[i]
  OBVIOUS
<1>2. Len(trail) \in Nat
  OBVIOUS
<1> HIDE DEF grown
<1>3. Len(trail) + 1 \in DOMAIN grown /\ DOMAIN trail \subseteq DOMAIN grown
  BY <1>1, <1>2
<1> QED
  BY <1>1, <1>3 DEF Touched, grown

(* An operation that logs its line and changes the tree only where the     *)
(* line says.                                                              *)
LEMMA LoggedStepKeeps ==
  ASSUME TaskInv, loadedSpec' = loadedSpec,
         NEW line \in TrailLine, auditTrail' = Append(auditTrail, line),
         NEW kept, PartOf(kept, taskTree), PartOf(kept, taskTree'),
         Nested(taskTree'), DOMAIN taskTree' \subseteq TaskIds,
         \A id \in DOMAIN taskTree' \ DOMAIN kept :
            line.op \in Comes /\ line.detail \in {id} \cup AncestorsIn(taskTree')[id],
         \A id \in DOMAIN taskTree \ DOMAIN kept :
            line.op \in Goes /\ line.detail \in {id} \cup AncestorsIn(taskTree)[id]
  PROVE  TaskInv'
<1>1. auditTrail \in Seq(TrailLine)
  BY DEF TaskInv
<1>2. Nested(loadedSpec') /\ auditTrail' \in Seq(TrailLine)
  BY <1>1, TrailGrows DEF TaskInv
<1>3. \A id \in DOMAIN kept : /\ id \in DOMAIN taskTree /\ id \in DOMAIN taskTree'
                              /\ AncestorsIn(taskTree)[id] = AncestorsIn(taskTree')[id]
  BY AncestorsKept DEF TaskInv, PartOf
<1>4. ASSUME NEW ops, NEW ids, Touched(auditTrail, ops, ids)
      PROVE  Touched(auditTrail', ops, ids)
  BY <1>1, <1>4, TrailGrows
<1>5. ASSUME NEW ops, NEW ids, line.op \in ops, line.detail \in ids
      PROVE  Touched(auditTrail', ops, ids)
  BY <1>1, <1>5, TrailGrows
<1>6. ASSUME NEW id \in DOMAIN taskTree' \ DOMAIN loadedSpec
      PROVE  Touched(auditTrail', Comes, {id} \cup AncestorsIn(taskTree')[id])
  <2>1. CASE id \in DOMAIN kept
    <3>1. Touched(auditTrail, Comes, {id} \cup AncestorsIn(taskTree)[id])
      BY <1>3, <1>6, <2>1 DEF TaskInv
    <3>2. Touched(auditTrail', Comes, {id} \cup AncestorsIn(taskTree)[id])
      BY <1>4, <3>1
    <3> QED
      BY <1>3, <2>1, <3>2
  <2>2. CASE id \notin DOMAIN kept
    BY <1>5, <1>6, <2>2
  <2> QED
    BY <2>1, <2>2
<1>7. ASSUME NEW id \in DOMAIN loadedSpec
      PROVE  \/ Touched(auditTrail', Goes, {id} \cup AncestorsIn(loadedSpec)[id])
             \/ id \in DOMAIN taskTree' /\ AncestorsIn(taskTree')[id] = AncestorsIn(loadedSpec)[id]
  <2>1. CASE Touched(auditTrail, Goes, {id} \cup AncestorsIn(loadedSpec)[id])
    BY <1>4, <2>1
  <2>2. CASE id \in DOMAIN taskTree /\ AncestorsIn(taskTree)[id] = AncestorsIn(loadedSpec)[id]
    <3>1. CASE id \in DOMAIN kept
      BY <1>3, <2>2, <3>1
    <3>2. CASE id \notin DOMAIN kept
      <4>1. line.op \in Goes /\ line.detail \in {id} \cup AncestorsIn(loadedSpec)[id]
        BY <2>2, <3>2
      <4> QED
        BY <1>5, <4>1
    <3> QED
      BY <3>1, <3>2
  <2> QED
    BY <2>1, <2>2 DEF TaskInv
<1> QED
  BY <1>2, <1>6, <1>7 DEF TaskInv

\* A tree is a part of itself.
LEMMA WholeIsPart ==
  ASSUME NEW tasks, Nested(tasks)
  PROVE  PartOf(tasks, tasks)
  BY DEF PartOf, Nested

\* What no step of the audit touches does not disturb the invariant.
LEMMA UntouchedKeeps ==
  ASSUME TaskInv, taskTree' = taskTree, loadedSpec' = loadedSpec, auditTrail' = auditTrail
  PROVE  TaskInv'
  BY DEF TaskInv

(* An operation is made, logged and then wrapped; where the file cannot be *)
(* written or the ids collide the caller keeps the tree it had.            *)
LEMMA CommitKeeps ==
  ASSUME TaskInv, NEW kept, NEW added, NEW line \in TrailLine, NEW writable,
         Commit(kept, added, line, writable), loadedSpec' = loadedSpec,
         PartOf(kept, taskTree),
         DOMAIN kept \cap DOMAIN added = {} =>
            LET grown == Joined(kept, added) IN
            /\ Nested(grown) /\ PartOf(kept, grown) /\ DOMAIN grown \subseteq TaskIds
            /\ \A id \in DOMAIN grown \ DOMAIN kept :
                  line.op \in Comes /\ line.detail \in {id} \cup AncestorsIn(grown)[id],
         \A id \in DOMAIN taskTree \ DOMAIN kept :
            line.op \in Goes /\ line.detail \in {id} \cup AncestorsIn(taskTree)[id]
  PROVE  TaskInv'
<1>1. CASE ~writable
  BY <1>1, UntouchedKeeps DEF Commit
<1>2. CASE writable /\ ~Wraps(kept, added)
  <2>1. taskTree' = taskTree /\ auditTrail' = Append(auditTrail, line)
    BY <1>2 DEF Commit
  <2>2. Nested(taskTree) /\ PartOf(taskTree, taskTree) /\ DOMAIN taskTree \subseteq TaskIds
    BY WholeIsPart DEF TaskInv
  <2>3. \A id \in DOMAIN taskTree' \ DOMAIN taskTree :
           line.op \in Comes /\ line.detail \in {id} \cup AncestorsIn(taskTree')[id]
    BY <2>1
  <2> QED
    BY <2>1, <2>2, <2>3, LoggedStepKeeps
<1>3. CASE writable /\ Wraps(kept, added)
  <2>1. taskTree' = Joined(kept, added) /\ auditTrail' = Append(auditTrail, line)
    BY <1>3 DEF Commit
  <2>2. DOMAIN kept \cap DOMAIN added = {}
    BY <1>3 DEF Wraps
  <2> QED
    BY <2>1, <2>2, LoggedStepKeeps
<1> QED
  BY <1>1, <1>2, <1>3

\* The ids of a draft are the caller's.
LEMMA DraftsAreIdentified == \A d \in Drafts : d.top \in DOMAIN d.tasks /\ DOMAIN d.tasks \subseteq TaskIds
<1>1. ASSUME NEW d \in Drafts
      PROVE  d.top \in DOMAIN d.tasks /\ DOMAIN d.tasks \subseteq TaskIds
  <2>1. d.top \in DOMAIN d.tasks
    BY TaskAssumption
  <2>2. DOMAIN d.tasks \subseteq TaskIds
    <3>1. DOMAIN d.tasks \in {DOMAIN e.tasks : e \in Drafts}
      OBVIOUS
    <3>2. DOMAIN d.tasks \subseteq DraftIds
      BY <3>1, Zenon DEF DraftIds
    <3> QED
      BY <3>2 DEF TaskIds
  <2> QED
    BY <2>1, <2>2
<1> QED
  BY <1>1

\* A child comes under a task of the tree.
LEMMA InsertKeeps ==
  ASSUME TaskInv, NEW parent, NEW draft \in Drafts, NEW writable,
         InsertChild(parent, draft, writable)
  PROVE  TaskInv'
<1> DEFINE added == UnderParent(draft, parent)
           line == TaskEntry("insert_child", parent, draft.top)
<1>1. /\ parent \in DOMAIN taskTree /\ loadedSpec' = loadedSpec
      /\ Commit(taskTree, added, line, writable)
  BY DEF InsertChild, Quiet
<1>2. Nested(taskTree) /\ PartOf(taskTree, taskTree) /\ DOMAIN taskTree \subseteq TaskIds
  BY WholeIsPart DEF TaskInv
<1>3. line \in TrailLine /\ line.op \in Comes /\ line.detail = draft.top
  BY <1>1, <1>2, DraftsAreIdentified DEF TaskEntry, TrailLine, Comes
<1>4. DOMAIN taskTree \cap DOMAIN added = {} =>
         LET grown == Joined(taskTree, added) IN
         /\ Nested(grown) /\ PartOf(taskTree, grown) /\ DOMAIN grown \subseteq TaskIds
         /\ \A id \in DOMAIN grown \ DOMAIN taskTree :
               line.op \in Comes /\ line.detail \in {id} \cup AncestorsIn(grown)[id]
  <2> HIDE DEF line
  <2>1. SUFFICES ASSUME DOMAIN taskTree \cap DOMAIN added = {}
        PROVE  LET grown == Joined(taskTree, added) IN
               /\ Nested(grown) /\ PartOf(taskTree, grown) /\ DOMAIN grown \subseteq TaskIds
               /\ \A id \in DOMAIN grown \ DOMAIN taskTree :
                     line.op \in Comes /\ line.detail \in {id} \cup AncestorsIn(grown)[id]
    OBVIOUS
  <2> DEFINE grown == Joined(taskTree, added)
  <2>2. /\ Nested(grown) /\ PartOf(taskTree, grown)
        /\ DOMAIN grown = DOMAIN taskTree \cup DOMAIN draft.tasks
        /\ \A id \in DOMAIN grown \ DOMAIN taskTree : draft.top \in {id} \cup AncestorsIn(grown)[id]
    BY <1>1, <1>2, <1>3, <2>1, DraftComesUnder
  <2>3. DOMAIN draft.tasks \subseteq TaskIds
    BY DraftsAreIdentified
  <2> HIDE DEF grown
  <2> QED
    BY <1>1, <1>2, <1>3, <2>2, <2>3 DEF grown
<1> HIDE DEF line, added
<1> QED
  BY <1>1, <1>2, <1>3, <1>4, CommitKeeps

(* A child and what is below it go, and a draft of its id comes in its     *)
(* place: the parent is not below the child.                               *)
LEMMA ReplaceKeeps ==
  ASSUME TaskInv, NEW parent, NEW child, NEW draft \in Drafts, NEW writable,
         ReplaceChild(parent, child, draft, writable)
  PROVE  TaskInv'
<1> DEFINE added == UnderParent(draft, parent)
           line == TaskEntry("replace_child", parent, child)
           kept == WithoutSubtree(taskTree, child)
<1>1. /\ child = draft.top /\ parent \in DOMAIN taskTree /\ loadedSpec' = loadedSpec
      /\ child \in DOMAIN taskTree /\ taskTree[child].parent = parent
      /\ Commit(kept, added, line, writable)
  BY DEF ReplaceChild, Quiet, ChildrenIn
<1>2. Nested(taskTree) /\ DOMAIN taskTree \subseteq TaskIds
  BY DEF TaskInv
<1>3. /\ line \in TrailLine /\ line.op \in Comes /\ line.op \in Goes
      /\ line.detail = child
  BY <1>1, <1>2 DEF TaskEntry, TrailLine, Comes, Goes
<1>4. /\ PartOf(kept, taskTree) /\ parent \in DOMAIN kept
      /\ \A id \in DOMAIN taskTree \ DOMAIN kept : child \in {id} \cup AncestorsIn(taskTree)[id]
  BY <1>1, <1>2, RestIsPart DEF Nested
<1>5. Nested(kept) /\ DOMAIN kept \subseteq TaskIds
  BY <1>2, <1>4, PartIsNested DEF PartOf
<1>6. DOMAIN kept \cap DOMAIN added = {} =>
         LET grown == Joined(kept, added) IN
         /\ Nested(grown) /\ PartOf(kept, grown) /\ DOMAIN grown \subseteq TaskIds
         /\ \A id \in DOMAIN grown \ DOMAIN kept :
               line.op \in Comes /\ line.detail \in {id} \cup AncestorsIn(grown)[id]
  <2> HIDE DEF line, kept
  <2>1. SUFFICES ASSUME DOMAIN kept \cap DOMAIN added = {}
        PROVE  LET grown == Joined(kept, added) IN
               /\ Nested(grown) /\ PartOf(kept, grown) /\ DOMAIN grown \subseteq TaskIds
               /\ \A id \in DOMAIN grown \ DOMAIN kept :
                     line.op \in Comes /\ line.detail \in {id} \cup AncestorsIn(grown)[id]
    OBVIOUS
  <2> DEFINE grown == Joined(kept, added)
  <2>2. /\ Nested(grown) /\ PartOf(kept, grown)
        /\ DOMAIN grown = DOMAIN kept \cup DOMAIN draft.tasks
        /\ \A id \in DOMAIN grown \ DOMAIN kept : draft.top \in {id} \cup AncestorsIn(grown)[id]
    BY <1>1, <1>3, <1>4, <1>5, <2>1, DraftComesUnder
  <2>3. DOMAIN draft.tasks \subseteq TaskIds
    BY DraftsAreIdentified
  <2> HIDE DEF grown
  <2> QED
    BY <1>1, <1>3, <1>4, <1>5, <2>2, <2>3 DEF grown
<1> HIDE DEF line, added, kept
<1> QED
  BY <1>1, <1>3, <1>4, <1>6, CommitKeeps

\* A child and what is below it go.
LEMMA DeleteKeeps ==
  ASSUME TaskInv, NEW parent, NEW child, NEW writable, DeleteChild(parent, child, writable)
  PROVE  TaskInv'
<1> DEFINE line == TaskEntry("delete_child", parent, child)
           kept == WithoutSubtree(taskTree, child)
           grown == Joined(kept, NoTask)
<1>1. /\ parent \in DOMAIN taskTree /\ loadedSpec' = loadedSpec
      /\ child \in DOMAIN taskTree /\ taskTree[child].parent = parent
      /\ Commit(kept, NoTask, line, writable)
  BY DEF DeleteChild, Quiet, ChildrenIn
<1>2. Nested(taskTree) /\ DOMAIN taskTree \subseteq TaskIds
  BY DEF TaskInv
<1>3. line \in TrailLine /\ line.op \in Goes /\ line.detail = child
  BY <1>1, <1>2 DEF TaskEntry, TrailLine, Goes
<1>4. /\ PartOf(kept, taskTree)
      /\ \A id \in DOMAIN taskTree \ DOMAIN kept : child \in {id} \cup AncestorsIn(taskTree)[id]
  BY <1>1, <1>2, RestIsPart
<1>5. Nested(kept) /\ DOMAIN kept \subseteq TaskIds /\ PartOf(kept, kept)
  <2>1. Nested(kept) /\ DOMAIN kept \subseteq TaskIds
    BY <1>2, <1>4, PartIsNested DEF PartOf
  <2> QED
    BY <2>1, WholeIsPart
<1> HIDE DEF line, kept
<1>6. DOMAIN grown = DOMAIN kept /\ \A id \in DOMAIN kept : grown[id] = kept[id]
  BY DEF Joined, NoTask
<1> HIDE DEF grown
<1>7. PartOf(kept, grown) /\ PartOf(grown, kept)
  BY <1>5, <1>6 DEF PartOf
<1>8. Nested(grown)
  BY <1>5, <1>7, PartIsNested
<1> QED
  BY <1>1, <1>3, <1>4, <1>5, <1>6, <1>7, <1>8, CommitKeeps DEF grown

(* For all task files whose children are nested and all drafts of such     *)
(* tasks, however the operations follow each other and whichever of them   *)
(* cannot be logged or wrapped: the audit file accounts for every task     *)
(* that is in the tree and was not loaded, and for every task that was     *)
(* loaded and is gone (task/audit.py).                                     *)
THEOREM TrailTellsTheTree == TaskTreeSpec => []TrailAccountsForTree
<1>1. TaskInit => TaskInv
  <2> SUFFICES ASSUME TaskInit PROVE TaskInv
    OBVIOUS
  <2>1. DOMAIN NoTask = {} /\ Nested(NoTask)
    BY DEF NoTask, Nested
  <2> QED
    BY <2>1 DEF TaskInit, TaskInv
<1>2. ASSUME TaskInv, [TaskNext]_taskVars
      PROVE  TaskInv'
  <2>1. ASSUME NEW s \in TaskSpecs, LoadTask(s)
        PROVE  TaskInv'
    <3>1. taskTree' = s /\ loadedSpec' = s /\ auditTrail' = auditTrail
      BY <2>1 DEF LoadTask
    <3>2. Nested(s) /\ DOMAIN s \subseteq TaskIds
      BY TaskAssumption DEF TaskIds, LoadableIds
    <3> QED
      BY <1>2, <3>1, <3>2 DEF TaskInv
  <2>2. ASSUME NEW s \in TaskSpecs, RefuseTask(s)
        PROVE  TaskInv'
    BY <1>2, <2>2, UntouchedKeeps DEF RefuseTask
  <2>3. ASSUME NEW p \in DOMAIN taskTree, NEW d \in Drafts, NEW w \in BOOLEAN, InsertChild(p, d, w)
        PROVE  TaskInv'
    BY <1>2, <2>3, InsertKeeps
  <2>4. ASSUME NEW p \in DOMAIN taskTree, NEW c \in DOMAIN taskTree, NEW d \in Drafts,
               NEW w \in BOOLEAN, ReplaceChild(p, c, d, w)
        PROVE  TaskInv'
    BY <1>2, <2>4, ReplaceKeeps
  <2>5. ASSUME NEW p \in DOMAIN taskTree, NEW c \in DOMAIN taskTree, NEW w \in BOOLEAN,
               DeleteChild(p, c, w)
        PROVE  TaskInv'
    BY <1>2, <2>5, DeleteKeeps
  <2>6. ASSUME NEW f \in Floors, DeclareDone(f) \/ DeclareDoneAlone(f)
        PROVE  TaskInv'
    BY <1>2, <2>6, UntouchedKeeps DEF DeclareDone, DeclareDoneAlone
  <2>7. ASSUME NEW n \in ClosableNodes, CloseNode(n)
        PROVE  TaskInv'
    BY <1>2, <2>7, UntouchedKeeps DEF CloseNode
  <2>8. ASSUME NEW a \in Artefacts, ArtefactAppears(a)
        PROVE  TaskInv'
    BY <1>2, <2>8, UntouchedKeeps DEF ArtefactAppears
  <2>9. CASE UNCHANGED taskVars
    BY <1>2, <2>9, UntouchedKeeps DEF taskVars
  <2> QED
    BY <1>2, <2>1, <2>2, <2>3, <2>4, <2>5, <2>6, <2>7, <2>8, <2>9 DEF TaskNext
<1>3. TaskInv => TrailAccountsForTree
  BY DEF TaskInv, TrailAccountsForTree, Comes, Goes
<1> QED
  BY <1>1, <1>2, <1>3, PTL DEF TaskTreeSpec

-----------------------------------------------------------------------------
(* ProfileRegistry.                                                         *)

(* A merge that is served for a base: the base's probes and gates are in   *)
(* it as declared, if the base passes the lint, and its roles are played.  *)
WholeFor(base, merged) ==
    /\ BaseLintClean(base) => /\ Latest(<<base>>, "probes") \subseteq merged.probes
                              /\ Latest(<<base>>, "gates") \subseteq merged.gates
    /\ \A role \in RolesOf(ToSet(base.gates)) :
          \E s \in merged.states : role \in Bindings(merged, s.id)

(* What the registry keeps of a file is one the user wrote for that name,  *)
(* and what it serves was merged over the base it keeps.                   *)
ServedInv ==
    /\ DOMAIN disk = ProfileNames /\ DOMAIN resolved = ProfileNames
    /\ \A n \in ProfileNames :
          /\ disk[n] \in Drafted[n] \union {NoFile}
          /\ raw[n] # NoFile =>
                /\ raw[n] \in Drafted[n] /\ raw[n].shaped
                /\ raw[n].profile = n
          /\ resolved[n] # Unresolved =>
                raw["base"] # NoFile /\ WholeFor(raw["base"], resolved[n])

\* A file that loads is of its name and inherits from a name or nothing.
LEMMA LoadedFile ==
  ASSUME ServedInv, NEW n \in ProfileNames, Loads(n)
  PROVE  /\ Parsed(n) \in Drafted[n] /\ Parsed(n).shaped /\ Parsed(n).profile = n
         /\ Parsed(n) # NoFile
         /\ Parsed(n).inherits \in ProfileNames \union {NoProfile}
<1>1. Parsed(n) \in Drafted[n] /\ Parsed(n).shaped /\ Parsed(n).profile = n
  BY DEF ServedInv, Loads, Parsed, WellFormed
<1> QED
  BY <1>1, ProfileAssumption

\* The way up is a sequence of names that begins with the one asked for.
LEMMA PathIsNames ==
  ASSUME ServedInv, NEW n \in ProfileNames
  PROVE  Path(n) \in Seq(ProfileNames) /\ Path(n) # <<>>
<1> DEFINE N == Cardinality(ProfileNames)
           V == Seq(ProfileNames) \ {<<>>}
           g == [k \in 1..N |-> [path \in V |-> Climbed(path)]]
           path == CHOOSE f : f = [k \in 0..N |-> IF k = 0 THEN <<n>> ELSE Climbed(f[k - 1])]
<1>1. Path(n) = path[N]
  BY DEF Path
<1>2. N \in Nat
  BY ProfileAssumption, FS_CardinalityType
<1>3. ASSUME NEW p \in V
      PROVE  Climbed(p) \in V
  <2>1. p \in Seq(ProfileNames) /\ Len(p) \in Nat \ {0} /\ Last(p) \in ProfileNames
    BY DEF Last
  <2>2. CASE Ends(p)
    BY <2>2 DEF Climbed
  <2>3. CASE ~Ends(p)
    <3>1. Parsed(Last(p)).inherits \in ProfileNames
      BY <2>1, <2>3, LoadedFile DEF Ends
    <3>2. Climbed(p) = Append(p, Parsed(Last(p)).inherits)
      BY <2>3 DEF Climbed
    <3> QED
      BY <2>1, <3>1, <3>2
  <2> QED
    BY <2>2, <2>3
<1>4. <<n>> \in V
  OBVIOUS
<1> HIDE DEF V, N
<1>5. \E f : Solves(f, N, V, <<n>>, g)
  <2>1. g \in [1..N -> [V -> V]]
    BY <1>3
  <2> HIDE DEF g
  <2>2. StepsWithin(N, V, <<n>>, g)
    BY <1>2, <1>4, <2>1 DEF StepsWithin
  <2> QED
    BY <2>2, RecursionUpTo
<1>6. PICK f : Solves(f, N, V, <<n>>, g)
  BY <1>5
<1>7. f = [k \in 0..N |-> IF k = 0 THEN <<n>> ELSE Climbed(f[k - 1])]
  <2>1. f \in [0..N -> V] /\ f[0] = <<n>> /\ \A k \in 1..N : f[k] = g[k][f[k - 1]]
    BY <1>6 DEF Solves
  <2>2. \A k \in 1..N : k - 1 \in 0..N /\ f[k] = Climbed(f[k - 1])
    <3>1. \A k \in 1..N : k - 1 \in 0..N
      BY <1>2
    <3> QED
      BY <2>1, <3>1
  <2>3. \A k \in 0..N : k = 0 \/ k \in 1..N
    BY <1>2
  <2> HIDE DEF g
  <2> QED
    BY <2>1, <2>2, <2>3
<1>8. path = [k \in 0..N |-> IF k = 0 THEN <<n>> ELSE Climbed(path[k - 1])]
  BY <1>7
<1> HIDE DEF path
<1> DEFINE Good == {k \in 0..N : path[k] \in V}
<1>9. 0 \in Good
  BY <1>2, <1>4, <1>8
<1>10. \A k \in 1..N : k - 1 \in Good => k \in Good
  <2>1. \A k \in 1..N : k \in 0..N /\ k # 0
    BY <1>2
  <2> QED
    BY <1>3, <1>8, <2>1
<1>11. 0..N \subseteq Good
  <2> HIDE DEF Good
  <2> QED
    BY <1>2, <1>9, <1>10, InductionUpTo
<1>12. path[N] \in V
  BY <1>2, <1>11
<1> QED
  BY <1>1, <1>12 DEF V

(* The chain of a load that is not refused: base is in it once, and every  *)
(* other file in it is of another name.                                    *)
LEMMA ChainHasBase ==
  ASSUME ServedInv, NEW n \in ProfileNames, Refused(n) = "none"
  PROVE  LET chain == Chain(n) IN
         /\ Loads("base")
         /\ Reached(Path(n)) = Bottom(Path(n)) /\ "base" \in ToSet(Bottom(Path(n)))
         /\ DOMAIN chain \subseteq Nat
         /\ \E b \in DOMAIN chain :
               /\ chain[b] = Parsed("base")
               /\ \A i \in DOMAIN chain \ {b} : chain[i].profile # "base"
<1> DEFINE path == Path(n)
           names == Bottom(path)
           chain == Chain(n)
<1>1. /\ ~Cyclic(path) /\ \A m \in ToSet(names) : Loads(m)
  BY DEF Refused
<1>2. path \in Seq(ProfileNames) /\ path # <<>>
  BY PathIsNames
<1>3. "base" \in ProfileNames
  BY ProfileAssumption
<1> HIDE DEF path
<1>4. /\ names \in Seq(ProfileNames) /\ IsInjective(names)
      /\ "base" \in ToSet(names) /\ ToSet(path) \subseteq ToSet(names)
  <2>1. CASE "base" \in ToSet(path)
    BY <1>1, <1>2, <2>1 DEF Bottom, Cyclic
  <2>2. CASE "base" \notin ToSet(path)
    <3>1. names = Append(path, "base")
      BY <2>2 DEF Bottom
    <3>2. /\ names \in Seq(ProfileNames) /\ DOMAIN names = 1..Len(path) + 1
          /\ DOMAIN path = 1..Len(path) /\ Len(path) \in Nat
          /\ names[Len(path) + 1] = "base"
          /\ \A i \in 1..Len(path) : names[i] = path[i]
      BY <1>2, <1>3, <3>1
    <3>3. \A i \in DOMAIN names : i \in 1..Len(path) \/ i = Len(path) + 1
      BY <3>2
    <3>4. \A i \in 1..Len(path) : path[i] # "base"
      BY <2>2, <3>2 DEF ToSet
    <3>5. IsInjective(path)
      BY <1>1 DEF Cyclic
    <3> HIDE DEF names
    <3>6. IsInjective(names)
      BY <3>2, <3>3, <3>4, <3>5 DEF IsInjective
    <3>7. "base" \in ToSet(names) /\ ToSet(path) \subseteq ToSet(names)
      <4>1. Len(path) + 1 \in DOMAIN names /\ \A i \in DOMAIN path : i \in DOMAIN names
        BY <3>2
      <4> QED
        BY <3>2, <4>1 DEF ToSet
    <3> QED
      BY <3>2, <3>6, <3>7
  <2> QED
    BY <2>1, <2>2
<1> HIDE DEF names
<1>5. Reached(path) = names
  BY <1>1, <1>4 DEF Reached, names
<1> DEFINE order == Reverse(names)
<1>6. /\ DOMAIN order = 1..Len(names) /\ Len(names) \in Nat /\ DOMAIN names = 1..Len(names)
      /\ \A i \in 1..Len(names) : order[i] = names[Len(names) - i + 1]
      /\ \A i \in 1..Len(names) : Len(names) - i + 1 \in 1..Len(names)
                                   /\ Len(names) - (Len(names) - i + 1) + 1 = i
  BY <1>4 DEF Reverse
<1>7. chain = [i \in DOMAIN order |-> Parsed(order[i])]
  BY DEF Chain, names, path
<1> HIDE DEF order, chain
<1>8. \A i \in DOMAIN order : order[i] \in ToSet(names) /\ order[i] \in ProfileNames
  BY <1>4, <1>6 DEF ToSet
<1>9. PICK b \in DOMAIN order : order[b] = "base"
  <2>1. PICK i \in 1..Len(names) : names[i] = "base"
    BY <1>4, <1>6 DEF ToSet
  <2>2. order[Len(names) - i + 1] = names[i]
    BY <1>6
  <2> QED
    BY <1>6, <2>1, <2>2
<1>10. \A i \in DOMAIN order : i # b => order[i] # "base"
  <2>1. ASSUME NEW i \in DOMAIN order, order[i] = "base"
        PROVE  i = b
    <3>1. Len(names) - i + 1 = Len(names) - b + 1
      BY <1>4, <1>6, <1>9, <2>1 DEF IsInjective
    <3> QED
      BY <1>6, <1>9, <3>1
  <2> QED
    BY <2>1
<1>11. \A i \in DOMAIN order : chain[i] = Parsed(order[i]) /\ chain[i].profile = order[i]
  BY <1>1, <1>7, <1>8, LoadedFile
<1>12. /\ b \in DOMAIN chain /\ chain[b] = Parsed("base")
       /\ \A i \in DOMAIN chain \ {b} : chain[i].profile # "base"
  BY <1>7, <1>9, <1>10, <1>11
<1>13. Loads("base") /\ DOMAIN chain \subseteq Nat
  BY <1>1, <1>4, <1>6, <1>7
<1> QED
  BY <1>4, <1>5, <1>12, <1>13 DEF names, path, chain

(* What base declares last of a name it locks stands in the whole chain:   *)
(* no other file of the chain declares that name.                          *)
LEMMA LockedStands ==
  ASSUME NEW chain, DOMAIN chain \subseteq Nat, NEW b \in DOMAIN chain, NEW s,
         NEW e \in Latest(<<chain[b]>>, s),
         \A i \in DOMAIN chain \ {b} : \A k \in DOMAIN chain[i][s] : chain[i][s][k].id # e.id
  PROVE  e \in Latest(chain, s)
<1> DEFINE own == <<chain[b]>>
<1>1. PICK place \in PlacesOf(own, s) : Stands(own, s, place) /\ e = Declared(own, s, place)
  BY DEF Latest
<1>2. \A at : at \in PlacesOf(own, s) <=> \E k \in DOMAIN chain[b][s] : at = <<1, k>>
  BY DEF PlacesOf
<1>3. PICK k \in DOMAIN chain[b][s] : place = <<1, k>>
  BY <1>1, <1>2
<1>4. e = chain[b][s][k]
  BY <1>1, <1>3 DEF Declared
<1>5. \A j \in DOMAIN chain[b][s] : j > k => chain[b][s][j].id # e.id
  <2>1. ASSUME NEW j \in DOMAIN chain[b][s], j > k
        PROVE  chain[b][s][j].id # e.id
    <3>1. <<1, j>> \in PlacesOf(own, s) /\ Follows(<<1, j>>, place)
      BY <1>2, <1>3, <2>1 DEF Follows
    <3>2. Declared(own, s, <<1, j>>).id # Declared(own, s, place).id
      BY <1>1, <3>1 DEF Stands
    <3> QED
      BY <1>1, <3>2 DEF Declared
  <2> QED
    BY <2>1
<1>6. <<b, k>> \in PlacesOf(chain, s)
  BY DEF PlacesOf
<1>7. ASSUME NEW at \in PlacesOf(chain, s), Follows(at, <<b, k>>)
      PROVE  Declared(chain, s, at).id # e.id
  <2>1. PICK i \in DOMAIN chain : \E j \in DOMAIN chain[i][s] : at = <<i, j>>
    BY DEF PlacesOf
  <2>2. PICK j \in DOMAIN chain[i][s] : at = <<i, j>>
    BY <2>1
  <2>3. Declared(chain, s, at) = chain[i][s][j]
    BY <2>2 DEF Declared
  <2>4. i = b => j > k
    BY <1>7, <2>2 DEF Follows
  <2> QED
    BY <1>5, <2>3, <2>4
<1>8. Declared(chain, s, <<b, k>>) = e
  BY <1>4 DEF Declared
<1> QED
  BY <1>6, <1>7, <1>8 DEF Latest, Stands

(* The merge of a chain that is not refused is whole for its base.         *)
LEMMA MergedIsWhole ==
  ASSUME ServedInv, NEW n \in ProfileNames, Refused(n) = "none"
  PROVE  WholeFor(Parsed("base"), Merged(Chain(n)))
<1> DEFINE base == Parsed("base")
           chain == Chain(n)
<1>1. /\ \A p \in Children(chain) : ~BreaksLock(p, chain)
      /\ ReferencedRoles(chain) \subseteq BoundRoles(chain)
  BY DEF Refused
<1>2. Loads("base") /\ DOMAIN chain \subseteq Nat
  BY ChainHasBase
<1>3. PICK b \in DOMAIN chain : /\ chain[b] = base
                                /\ \A i \in DOMAIN chain \ {b} : chain[i].profile # "base"
  BY ChainHasBase
<1>4. base.profile = "base"
  BY <1>2, LoadedFile, ProfileAssumption
<1> HIDE DEF base, chain
<1>5. OfBase(chain) = base
  <2>1. base \in ToSet(chain) /\ \A p \in ToSet(chain) : p.profile = "base" => p = base
    BY <1>3 DEF ToSet
  <2> QED
    BY <1>4, <2>1 DEF OfBase
<1>6. \A i \in DOMAIN chain \ {b} : chain[i] \in Children(chain)
  BY <1>3 DEF Children, ToSet
<1>7. \A i \in DOMAIN chain \ {b} : ~BreaksLock(chain[i], chain)
  BY <1>1, <1>6
<1>8. ASSUME BaseLintClean(base)
      PROVE  /\ Latest(<<base>>, "probes") \subseteq Enabled(chain, "probes")
             /\ Latest(<<base>>, "gates") \subseteq Enabled(chain, "gates")
  <2>1. ASSUME NEW s \in {"probes", "gates"}, NEW e \in Latest(<<base>>, s)
        PROVE  e \in Enabled(chain, s)
    <3>1. PICK k \in DOMAIN base[s] : e = base[s][k]
      BY DEF Latest, PlacesOf, Declared
    <3>2. e.id \in Mechanism(base[s])
      <4>1. e.mechanism
        BY <1>8, <3>1 DEF BaseLintClean
      <4> QED
        BY <3>1, <4>1 DEF Mechanism
    <3>3. \A i \in DOMAIN chain \ {b} : \A j \in DOMAIN chain[i][s] : chain[i][s][j].id # e.id
      BY <1>5, <1>7, <3>2 DEF BreaksLock, MechProbes, MechGates
    <3>4. e \in Latest(chain, s)
      BY <1>2, <1>3, <3>3, LockedStands
    <3>5. e.id \notin Disabled(chain)
      <4>1. e.id \in MechProbes(chain) \union MechGates(chain)
        BY <1>5, <3>2 DEF MechProbes, MechGates
      <4>2. \A p \in Children(chain) : e.id \notin p.disable
        BY <1>1, <4>1 DEF BreaksLock
      <4> QED
        BY <4>2 DEF Disabled
    <3> QED
      BY <3>4, <3>5 DEF Enabled
  <2> QED
    BY <2>1
<1>9. ASSUME NEW role \in RolesOf(ToSet(base.gates))
      PROVE  \E s \in Merged(chain).states : role \in Bindings(Merged(chain), s.id)
  <2>1. role \in RolesOf(Latest(chain, "states"))
    BY <1>1, <1>5 DEF ReferencedRoles, BoundRoles
  <2>2. PICK s \in Latest(chain, "states") : role \in s.roles
    BY <2>1 DEF RolesOf
  <2>3. Merged(chain).states = Latest(chain, "states")
    BY DEF Merged
  <2> QED
    BY <2>2, <2>3 DEF Bindings, RolesOf
<1>10. Merged(chain).probes = Enabled(chain, "probes") /\ Merged(chain).gates = Enabled(chain, "gates")
  BY DEF Merged
<1>11. WholeFor(base, Merged(chain))
  BY <1>8, <1>9, <1>10 DEF WholeFor
<1> QED
  BY <1>11 DEF base, chain

(* For every finite set of names, all contents of the files and every      *)
(* order of loads, edits and new registries: a profile that is served has  *)
(* the baseline its base declared, and a state for every role the base     *)
(* asks a verdict of (profile/registry.py, load_chain and _merge).         *)
THEOREM ServedProfilesAreWhole == ProfileSpec => []ServedIsWhole
<1>1. ProfileInit => ServedInv
  BY DEF ProfileInit, ServedInv
<1>2. ASSUME ServedInv, [ProfileNext]_profileVars
      PROVE  ServedInv'
  <2>1. ASSUME NEW n \in ProfileNames, LoadChain(n)
        PROVE  ServedInv'
    <3>1. /\ disk' = disk /\ DOMAIN resolved' = ProfileNames
          /\ \A m \in ProfileNames :
                raw'[m] = IF Loads(m) /\ m \in ToSet(Reached(Path(n))) THEN Parsed(m) ELSE raw[m]
      BY <1>2, <2>1 DEF LoadChain, ServedInv
    <3>2. \A m \in ProfileNames :
             raw'[m] # NoFile => raw'[m] \in Drafted[m] /\ raw'[m].shaped /\ raw'[m].profile = m
      BY <1>2, <3>1, LoadedFile DEF ServedInv
    <3>3. raw["base"] # NoFile => raw'["base"] = raw["base"]
      BY <3>1, ProfileAssumption DEF Parsed
    <3>4. ASSUME NEW m \in ProfileNames, resolved'[m] # Unresolved
          PROVE  raw'["base"] # NoFile /\ WholeFor(raw'["base"], resolved'[m])
      <4>1. CASE Refused(n) = "none" /\ m = n
        <5>1. resolved'[m] = Merged(Chain(n))
          BY <1>2, <2>1, <4>1 DEF LoadChain, ServedInv
        <5>2. raw'["base"] = Parsed("base") /\ Parsed("base") # NoFile
          BY <1>2, <3>1, <4>1, ChainHasBase, LoadedFile, ProfileAssumption
        <5> QED
          BY <1>2, <4>1, <5>1, <5>2, MergedIsWhole
      <4>2. CASE ~(Refused(n) = "none" /\ m = n)
        <5>1. resolved'[m] = resolved[m]
          BY <1>2, <2>1, <4>2 DEF LoadChain, ServedInv
        <5> QED
          BY <1>2, <3>3, <3>4, <5>1 DEF ServedInv
      <4> QED
        BY <4>1, <4>2
    <3> QED
      BY <1>2, <3>1, <3>2, <3>4 DEF ServedInv
  <2>2. ASSUME NEW n \in ProfileNames, EditProfile(n)
        PROVE  ServedInv'
    <3>1. PICK file \in Drafted[n] \union {NoFile} : disk' = [disk EXCEPT ![n] = file]
      BY <2>2 DEF EditProfile
    <3>2. UNCHANGED <<raw, resolved>>
      BY <2>2 DEF EditProfile
    <3>3. DOMAIN disk' = ProfileNames
          /\ \A m \in ProfileNames : disk'[m] \in Drafted[m] \union {NoFile}
      BY <1>2, <3>1 DEF ServedInv
    <3> QED
      BY <1>2, <3>2, <3>3 DEF ServedInv
  <2>3. CASE FreshRegistry
    BY <1>2, <2>3 DEF FreshRegistry, ServedInv
  <2>4. CASE UNCHANGED profileVars
    BY <1>2, <2>4 DEF profileVars, ServedInv
  <2> QED
    BY <1>2, <2>1, <2>2, <2>3, <2>4 DEF ProfileNext
<1>3. ServedInv => ServedIsWhole
  BY DEF ServedInv, WholeFor, ServedIsWhole, BaselineHeld, RolesAreBound
<1> QED
  BY <1>1, <1>2, <1>3, PTL DEF ProfileSpec

-----------------------------------------------------------------------------
(* PhaseFlow.                                                               *)

TracedStep == [pc : Nat, write : Nat, read : Nat, copy : BOOLEAN]

(* A stretch of the execution that begins at the first hit of its anchor.  *)
BeginsAt(first, end, anchor) ==
    /\ first \in AnchorHits(anchor) /\ first \in Nat /\ end \in Nat /\ first <= end
    /\ end <= Len(execution.steps)

(* What is captured begins where its anchor is hit, and what is loaded is  *)
(* the window of the start or was captured.                                *)
FlowInv ==
    /\ execution \in Executions
    /\ \A u \in captures : /\ {"first", "last", "anchor"} \subseteq DOMAIN u
                           /\ BeginsAt(u.first, u.last, u.anchor)
    /\ shown.anchor # NoAnchor => BeginsAt(shown.first, shown.last, shown.anchor)
    /\ CollectedOnce

\* The window loaded for an anchor: its first step is the anchor's hit.
LEMMA WindowShown ==
  ASSUME FlowInv, shown.anchor # NoAnchor
  PROVE  /\ Trace \in Seq(TracedStep) /\ Len(Trace) \in Nat \ {0}
         /\ 1 \in DOMAIN Trace /\ Trace[1] = execution.steps[shown.first]
<1> DEFINE f == shown.first
           l == shown.last
           whole == execution.steps
<1>1. /\ f \in DOMAIN whole /\ f \in Nat /\ l \in Nat /\ f <= l /\ l <= Len(whole)
  BY DEF FlowInv, BeginsAt, AnchorHits
<1>2. whole \in Seq(TracedStep)
  BY FlowAssumption DEF FlowInv, TracedStep
<1>3. 1 <= f
  BY <1>1, <1>2
<1> HIDE DEF f, l, whole
<1>4. /\ SubSeq(whole, f, l) \in Seq(TracedStep)
      /\ Len(SubSeq(whole, f, l)) = l - f + 1
      /\ SubSeq(whole, f, l)[1] = whole[f]
  <2>1. Len(whole) \in Nat /\ f \in 1..Len(whole) /\ l \in 1..Len(whole)
    BY <1>1, <1>2, <1>3
  <2> QED
    BY <1>1, <1>2, <2>1
<1>5. Trace = SubSeq(whole, f, l)
  BY DEF Trace, f, l, whole
<1>6. Len(Trace) \in Nat \ {0}
  BY <1>1, <1>4, <1>5
<1>7. 1 \in DOMAIN Trace
  BY <1>4, <1>5, <1>6
<1> QED
  BY <1>4, <1>5, <1>6, <1>7 DEF f, whole

\* A step of the window that writes an address is found as its writer.
LEMMA WriterInWindow ==
  ASSUME Trace \in Seq(TracedStep), NEW addr, NEW i \in DOMAIN Trace, Trace[i].write = addr
  PROVE  /\ LatestWriter(addr) # NoWriter
         /\ LatestWriter(addr).idx + 1 \in DOMAIN Trace
<1> DEFINE writes == {j \in DOMAIN Trace : Trace[j].write = addr}
<1>1. writes # {} /\ writes \in SUBSET Int /\ DOMAIN Trace = 1..Len(Trace) /\ writes \subseteq 1..Len(Trace)
  OBVIOUS
<1>2. IsFiniteSet(writes)
  <2>1. IsFiniteSet(1..Len(Trace))
    BY UpToIsFinite
  <2> HIDE DEF writes
  <2> QED
    BY <1>1, <2>1, SubsetIsFinite
<1>3. Max(writes) \in writes
  <2> HIDE DEF writes
  <2> QED
    BY <1>1, <1>2, MaxOfFinite
<1>4. LatestWriter(addr) = [pc |-> Trace[Max(writes)].pc, idx |-> Max(writes) - 1]
  BY <1>1 DEF LatestWriter
<1>5. Max(writes) \in 1..Len(Trace) /\ Max(writes) - 1 # -1 /\ Max(writes) - 1 + 1 = Max(writes)
  BY <1>1, <1>3
<1> HIDE DEF writes
<1>6. LatestWriter(addr).idx = Max(writes) - 1
  BY <1>4
<1> QED
  BY <1>1, <1>5, <1>6 DEF NoWriter

\* What a copy was read from is an address.
LEMMA CopyComesFrom ==
  ASSUME Trace \in Seq(TracedStep), NEW addr \in Nat, ProducerEdge(addr).kind = "copy"
  PROVE  ProducerEdge(addr).src \in Nat
<1> DEFINE writer == LatestWriter(addr)
           step == Trace[writer.idx + 1]
<1>1. CASE \E i \in DOMAIN Trace : Trace[i].write = addr
  <2>1. writer # NoWriter /\ writer.idx + 1 \in DOMAIN Trace
    BY <1>1, WriterInWindow
  <2>2. step \in TracedStep
    BY <2>1
  <2>3. step.read \in Nat
    BY <2>2 DEF TracedStep
  <2>4. ProducerEdge(addr) = IF writer.idx > 0 /\ step.copy /\ step.read # 0
           THEN [kind |-> "copy", pc |-> writer.pc, src |-> step.read, idx |-> writer.idx]
           ELSE [kind |-> "writer", pc |-> writer.pc, src |-> 0, idx |-> writer.idx]
    BY <2>1 DEF ProducerEdge
  <2> HIDE DEF writer, step
  <2> QED
    BY <2>3, <2>4
<1>2. CASE \A i \in DOMAIN Trace : Trace[i].write # addr
  <2>1. writer.idx = -1
    BY <1>2 DEF LatestWriter, NoWriter
  <2>2. ProducerEdge(addr).kind \in {"none", "writer"}
    <3> HIDE DEF writer
    <3>1. ~(writer.idx > 0)
      BY <2>1
    <3> QED
      BY <3>1 DEF ProducerEdge, writer
  <2> QED
    BY <2>2
<1> QED
  BY <1>1, <1>2

(* The walk makes MaxHops hops; the last goes from the cursor before to    *)
(* where a copy came from, or stays.                                       *)
LEMMA LastHop ==
  ASSUME Trace \in Seq(TracedStep), NEW value \in Nat
  PROVE  LET at == Cursors(value) IN
         at[MaxHops] = IF ProducerEdge(at[MaxHops - 1]).kind = "copy"
                       THEN ProducerEdge(at[MaxHops - 1]).src ELSE at[MaxHops - 1]
<1> DEFINE hop(a) == IF ProducerEdge(a).kind = "copy" THEN ProducerEdge(a).src ELSE a
           g == [k \in 1..MaxHops |-> [a \in Nat |-> hop(a)]]
           at == CHOOSE f : f = [n \in 0..MaxHops |->
                   IF n = 0 THEN value
                   ELSE IF ProducerEdge(f[n - 1]).kind = "copy" THEN ProducerEdge(f[n - 1]).src
                        ELSE f[n - 1]]
<1>1. Cursors(value) = at
  BY DEF Cursors
<1>2. MaxHops \in Nat \ {0}
  BY FlowAssumption
<1>3. \A a \in Nat : hop(a) \in Nat
  BY CopyComesFrom
<1>4. StepsWithin(MaxHops, Nat, value, g)
  <2> HIDE DEF hop
  <2> QED
    BY <1>2, <1>3 DEF StepsWithin
<1>5. PICK f : Solves(f, MaxHops, Nat, value, g)
  <2> HIDE DEF g
  <2> QED
    BY <1>4, RecursionUpTo
<1>6. f = [n \in 0..MaxHops |-> IF n = 0 THEN value ELSE hop(f[n - 1])]
  <2> HIDE DEF hop
  <2>1. f \in [0..MaxHops -> Nat] /\ f[0] = value /\ \A k \in 1..MaxHops : f[k] = g[k][f[k - 1]]
    BY <1>5 DEF Solves
  <2>2. \A k \in 1..MaxHops : f[k] = hop(f[k - 1])
    <3>1. \A k \in 1..MaxHops : k - 1 \in 0..MaxHops
      BY <1>2
    <3> QED
      BY <2>1, <3>1
  <2>3. \A k \in 0..MaxHops : k = 0 \/ k \in 1..MaxHops
    BY <1>2
  <2> HIDE DEF g
  <2> QED
    BY <2>1, <2>2, <2>3
<1>7. at = [n \in 0..MaxHops |-> IF n = 0 THEN value
              ELSE IF ProducerEdge(at[n - 1]).kind = "copy" THEN ProducerEdge(at[n - 1]).src
                   ELSE at[n - 1]]
  BY <1>6
<1>8. MaxHops \in 0..MaxHops /\ MaxHops # 0
  BY <1>2
<1> HIDE DEF at
<1>9. at[MaxHops] = IF ProducerEdge(at[MaxHops - 1]).kind = "copy"
                    THEN ProducerEdge(at[MaxHops - 1]).src ELSE at[MaxHops - 1]
  BY <1>7, <1>8
<1> QED
  BY <1>1, <1>9

(* Over the unit of an anchor nothing asks for that anchor again, but for  *)
(* the two exceptions: its hit is a writer in the window.                  *)
LEMMA AskedOnce ==
  ASSUME FlowInv, shown.anchor # NoAnchor, NEW value \in Values,
         Discover(value).anchor = shown.anchor
  PROVE  \/ Discover(value).reason = "max_chain_depth"
         \/ shown.anchor.type = "memregion" /\ Trace[1].write # shown.anchor.at
<1> DEFINE cursors == Cursors(value)
           c == cursors[MaxHops - 1]
           edge == ProducerEdge(c)
<1>1. /\ Trace \in Seq(TracedStep) /\ Len(Trace) \in Nat \ {0}
      /\ 1 \in DOMAIN Trace /\ Trace[1] = execution.steps[shown.first]
  BY WindowShown
<1>2. cursors[MaxHops] = IF edge.kind = "copy" THEN edge.src ELSE c
  BY <1>1, LastHop, FlowAssumption
<1>3. edge.kind \in {"none", "copy", "writer"}
  BY DEF ProducerEdge
<1>4. CASE edge.kind = "none"
  <2>1. Discover(value).anchor = MemAnchor(cursors[MaxHops])
    BY <1>4 DEF Discover
  <2>2. shown.anchor = MemAnchor(c)
    <3> HIDE DEF cursors, c, edge
    <3> QED
      BY <1>2, <1>4, <2>1
  <2> HIDE DEF c
  <2>3. shown.anchor.type = "memregion" /\ shown.anchor.at = c
    BY <2>2 DEF MemAnchor
  <2>4. Trace[1].write # c
    <3>1. ASSUME Trace[1].write = c
          PROVE  FALSE
      <4>1. LatestWriter(c) # NoWriter
        BY <1>1, <3>1, WriterInWindow
      <4>2. edge.kind # "none"
        BY <4>1 DEF ProducerEdge
      <4> QED
        BY <1>4, <4>2
    <3> QED
      BY <3>1
  <2> QED
    BY <2>3, <2>4
<1>5. CASE edge.kind = "copy"
  BY <1>5 DEF Discover
<1>6. CASE edge.kind = "writer" /\ ~InWindow(edge.pc)
  <2>1. shown.anchor = PcAnchor(edge.pc)
    BY <1>6 DEF Discover
  <2>2. execution.steps[shown.first].pc = edge.pc
    <3> HIDE DEF edge
    <3>1. shown.first \in AnchorHits(shown.anchor)
      BY DEF FlowInv, BeginsAt
    <3>2. shown.anchor.type = "pc" /\ shown.anchor.at = edge.pc
      BY <2>1 DEF PcAnchor
    <3> QED
      BY <3>1, <3>2 DEF AnchorHits
  <2>3. edge.pc \in WindowPcs
    <3> HIDE DEF edge
    <3> QED
      BY <1>1, <2>2 DEF WindowPcs
  <2>4. WindowPcs \in SUBSET Int /\ IsFiniteSet(WindowPcs)
    <3>1. \A i \in DOMAIN Trace : Trace[i].pc \in Int
      <4>1. \A i \in DOMAIN Trace : Trace[i] \in TracedStep
        BY <1>1
      <4> QED
        BY <4>1 DEF TracedStep
    <3>2. IsFiniteSet(DOMAIN Trace)
      <4>1. DOMAIN Trace = 1..Len(Trace)
        BY <1>1
      <4> QED
        BY <1>1, <4>1, UpToIsFinite
    <3> DEFINE pcAt == [i \in DOMAIN Trace |-> Trace[i].pc]
    <3>3. WindowPcs = {pcAt[i] : i \in DOMAIN Trace}
      BY DEF WindowPcs
    <3> HIDE DEF pcAt
    <3>4. IsFiniteSet({pcAt[i] : i \in DOMAIN Trace})
      BY <3>2, ImageIsFinite
    <3> QED
      BY <3>1, <3>3, <3>4 DEF WindowPcs
  <2>5. Min(WindowPcs) <= edge.pc /\ edge.pc <= Max(WindowPcs)
    <3> HIDE DEF edge
    <3> QED
      BY <2>3, <2>4, MinOfFinite, MaxOfFinite
  <2> QED
    BY <1>6, <2>5 DEF InWindow
<1>7. CASE edge.kind = "writer" /\ InWindow(edge.pc)
  <2>1. Discover(value).anchor = NoAnchor
    BY <1>7 DEF Discover
  <2> QED
    BY <2>1
<1> QED
  BY <1>3, <1>4, <1>5, <1>6, <1>7

\* A capture begins at the first hit of its anchor and stays in the execution.
LEMMA CaptureBegins ==
  ASSUME FlowInv, NEW anchor, AnchorHits(anchor) # {},
         NEW first, first = Min(AnchorHits(anchor)),
         NEW end, end = Min({Len(execution.steps), first + CaptureCap - 1})
  PROVE  BeginsAt(first, end, anchor)
<1>1. /\ execution.steps \in Seq(TracedStep) /\ Len(execution.steps) \in Nat
      /\ DOMAIN execution.steps = 1..Len(execution.steps)
  <2>1. execution.steps \in Seq(TracedStep)
    BY FlowAssumption DEF FlowInv, TracedStep
  <2> QED
    BY <2>1
<1> DEFINE n == Len(execution.steps)
           hits == AnchorHits(anchor)
<1>2. hits \subseteq 1..n /\ hits \in SUBSET Int
  BY <1>1 DEF AnchorHits
<1>3. IsFiniteSet(hits)
  <2>1. IsFiniteSet(1..n)
    BY <1>1, UpToIsFinite
  <2> HIDE DEF hits, n
  <2> QED
    BY <1>2, <2>1, SubsetIsFinite
<1>4. first \in hits
  <2> HIDE DEF hits
  <2> QED
    BY <1>2, <1>3, MinOfFinite DEF hits
<1> HIDE DEF n, hits
<1>5. n \in Nat /\ first \in 1..n /\ CaptureCap \in Nat \ {0}
  BY <1>1, <1>2, <1>4, FlowAssumption DEF n
<1> DEFINE stops == {n, first + CaptureCap - 1}
<1>6. stops \in SUBSET Int /\ stops # {}
  BY <1>5
<1>7. IsFiniteSet(stops)
  <2>1. IsFiniteSet(1..n + CaptureCap) /\ stops \subseteq 1..n + CaptureCap
    <3>1. n + CaptureCap \in Nat
      BY <1>5
    <3> QED
      BY <1>5, <3>1, UpToIsFinite
  <2> HIDE DEF stops
  <2> QED
    BY <2>1, SubsetIsFinite
<1>8. end \in stops /\ end <= n
  <2>1. end = Min(stops) /\ n \in stops
    BY DEF n
  <2> HIDE DEF stops
  <2> QED
    BY <1>6, <1>7, <2>1, MinOfFinite
<1>9. end \in Nat /\ first <= end
  BY <1>5, <1>8
<1> QED
  BY <1>4, <1>5, <1>8, <1>9 DEF BeginsAt, n, hits

\* What a call finds over the loaded window keeps to the property.
LEMMA FoundKeeps ==
  ASSUME FlowInv, UNCHANGED <<execution, shown, captures>>,
         \A i \in DOMAIN found' : \E v \in Values : found'[i] = Discover(v)
  PROVE  FlowInv'
<1>1. Trace' = Trace
  BY DEF Trace
<1>2. ASSUME NEW i \in DOMAIN found', found'[i].anchor # NoAnchor, found'[i].anchor = shown.anchor
      PROVE  \/ found'[i].reason = "max_chain_depth"
             \/ shown.anchor.type = "memregion" /\ Trace[1].write # shown.anchor.at
  <2>1. PICK v \in Values : found'[i] = Discover(v)
    OBVIOUS
  <2>2. shown.anchor # NoAnchor /\ Discover(v).anchor = shown.anchor
    BY <1>2, <2>1
  <2> QED
    BY <2>1, <2>2, AskedOnce
<1>3. CollectedOnce'
  BY <1>1, <1>2 DEF CollectedOnce
<1>4. \A first, end, anchor : BeginsAt(first, end, anchor)' <=> BeginsAt(first, end, anchor)
  BY DEF BeginsAt, AnchorHits
<1> QED
  BY <1>3, <1>4 DEF FlowInv

(* For all executions, values, watched widths, capture caps and depths of  *)
(* the walk: over the unit captured at an anchor no value asks for that    *)
(* anchor again, but for a walk cut off by its depth and a watched region  *)
(* that was first written at another byte (phase_discovery.py,             *)
(* discover_phase; discipline_wrapper.py).                                 *)
THEOREM UnitsAnswer == FlowSpec => []CollectedOnce
<1>1. FlowInit => FlowInv
  BY DEF FlowInit, FlowInv, CollectedOnce, NoAnchor
<1>2. ASSUME FlowInv, [FlowNext]_flowVars
      PROVE  FlowInv'
  <2>1. ASSUME NEW v \in Values, WrapCall(<<v>>)
        PROVE  FlowInv'
    <3>1. /\ UNCHANGED <<execution, shown, captures>>
          /\ found' = [i \in DOMAIN <<v>> |-> Discover(<<v>>[i])]
      BY <2>1 DEF WrapCall
    <3>2. \A i \in DOMAIN <<v>> : <<v>>[i] \in Values
      OBVIOUS
    <3> QED
      BY <1>2, <3>1, <3>2, FoundKeeps
  <2>2. ASSUME NEW v \in Values, NEW w \in Values, WrapCall(<<v, w>>)
        PROVE  FlowInv'
    <3>1. /\ UNCHANGED <<execution, shown, captures>>
          /\ found' = [i \in DOMAIN <<v, w>> |-> Discover(<<v, w>>[i])]
      BY <2>2 DEF WrapCall
    <3>2. \A i \in DOMAIN <<v, w>> : <<v, w>>[i] \in Values
      OBVIOUS
    <3> QED
      BY <1>2, <3>1, <3>2, FoundKeeps
  <2>3. ASSUME NEW v \in Values, NEW c \in NodeContexts, RouteNode(v, c)
        PROVE  FlowInv'
    <3>1. UNCHANGED <<execution, shown, captures>> /\ found' = <<Discover(v)>>
      BY <2>3 DEF RouteNode
    <3> QED
      BY <1>2, <3>1, FoundKeeps
  <2>4. ASSUME NEW a \in requests, RunCapture(a)
        PROVE  FlowInv'
    <3>1. UNCHANGED <<execution, shown, found>> /\ AnchorHits(a) # {}
      BY <2>4 DEF RunCapture
    <3> DEFINE first == Min(AnchorHits(a))
               end == Min({Len(execution.steps), first + CaptureCap - 1})
    <3>2. captures' = captures \cup {[first |-> first, last |-> end, anchor |-> a, sidecar |-> FALSE]}
      BY <2>4 DEF RunCapture
    <3>3. BeginsAt(first, end, a)
      BY <1>2, <3>1, CaptureBegins
    <3> HIDE DEF first, end
    <3>4. \A u \in captures' : /\ {"first", "last", "anchor"} \subseteq DOMAIN u
                               /\ BeginsAt(u.first, u.last, u.anchor)
      BY <1>2, <3>2, <3>3 DEF FlowInv
    <3> QED
      BY <1>2, <3>1, <3>4 DEF FlowInv, BeginsAt, AnchorHits, CollectedOnce, Trace
  <2>5. ASSUME NEW u \in captures, MakeUnit(u)
        PROVE  FlowInv'
    <3>1. /\ UNCHANGED <<execution, shown, found>>
          /\ captures' = (captures \ {u}) \cup {[u EXCEPT !.sidecar = TRUE]}
      BY <2>5 DEF MakeUnit
    <3>2. \A unit \in captures' : /\ {"first", "last", "anchor"} \subseteq DOMAIN unit
                                  /\ BeginsAt(unit.first, unit.last, unit.anchor)
      BY <1>2, <3>1 DEF FlowInv
    <3> QED
      BY <1>2, <3>1, <3>2 DEF FlowInv, BeginsAt, AnchorHits, CollectedOnce, Trace
  <2>6. ASSUME NEW u \in captures, LoadUnit(u)
        PROVE  FlowInv'
    <3>1. /\ shown' = [first |-> u.first, last |-> u.last, anchor |-> u.anchor]
          /\ found' = <<>> /\ UNCHANGED <<execution, captures>>
      BY <2>6 DEF LoadUnit
    <3>2. BeginsAt(u.first, u.last, u.anchor)
      BY <1>2 DEF FlowInv
    <3>3. CollectedOnce'
      BY <3>1 DEF CollectedOnce
    <3> QED
      BY <1>2, <3>1, <3>2, <3>3 DEF FlowInv, BeginsAt, AnchorHits
  <2>7. CASE UNCHANGED flowVars
    BY <1>2, <2>7 DEF flowVars, FlowInv, BeginsAt, AnchorHits, CollectedOnce, Trace
  <2> QED
    BY <1>2, <2>1, <2>2, <2>3, <2>4, <2>5, <2>6, <2>7 DEF FlowNext
<1>3. FlowInv => CollectedOnce
  BY DEF FlowInv
<1> QED
  BY <1>1, <1>2, <1>3, PTL DEF FlowSpec

-----------------------------------------------------------------------------
(* ValueClaims.                                                            *)

Classes == ToSet(Alphabet)

(* The gate counts, keeps the profile it was built with, and never gives   *)
(* up the block of a call that attempts nothing.                           *)
ClaimInv ==
    /\ evaluations \in Nat
    /\ profileInUse \in ClaimProfiles
    /\ "none" \notin gateDead

(* What is in an order has a place in it, and what is there is it.         *)
LEMMA HasAPlace ==
  ASSUME NEW S, NEW order \in Seq(S), NEW class \in ToSet(order)
  PROVE  /\ Position(class, order) \in 1..Len(order) /\ Position(class, order) \in Int
         /\ order[Position(class, order)] = class
<1> DEFINE places == {i \in 1..Len(order) : order[i] = class}
<1>1. places # {} /\ places \in SUBSET Int
  BY DEF ToSet
<1>2. IsFiniteSet(places)
  <2>1. IsFiniteSet(1..Len(order))
    BY UpToIsFinite
  <2> QED
    BY <2>1, SubsetIsFinite
<1> HIDE DEF places
<1>3. Max(places) \in places /\ \A j \in places : j <= Max(places)
  BY <1>1, <1>2, MaxOfFinite
<1>4. \E i \in DOMAIN order :
         order[i] = class /\ \A j \in DOMAIN order : order[j] = class => j <= i
  BY <1>3 DEF places
<1> QED
  BY <1>4 DEF Position

(* Of finitely many classes of an order, the hindmost is one of them and   *)
(* none stands behind it.                                                  *)
LEMMA HindmostIsLast ==
  ASSUME NEW S, NEW order \in Seq(S),
         NEW classes, IsFiniteSet(classes), classes # {}, classes \subseteq ToSet(order)
  PROVE  /\ Hindmost(classes, order) \in classes
         /\ \A d \in classes : Position(d, order) <= Position(Hindmost(classes, order), order)
<1>1. \A d \in classes : Position(d, order) \in Int
  BY HasAPlace
<1> DEFINE R == {p \in classes \X classes : Position(p[2], order) <= Position(p[1], order)}
<1>2. \A x, y \in classes : <<x, y>> \in R <=> Position(y, order) <= Position(x, order)
  OBVIOUS
<1>3. /\ \A x, y \in classes : <<x, y>> \in R \/ <<y, x>> \in R
      /\ \A x, y, z \in classes : <<x, y>> \in R /\ <<y, z>> \in R => <<x, z>> \in R
  BY <1>1, <1>2
<1> HIDE DEF R
<1>4. \E x \in classes : \A y \in classes : <<x, y>> \in R
  BY <1>3, FirstOfFinite
<1>5. \E x \in classes : \A y \in classes : Position(y, order) <= Position(x, order)
  BY <1>2, <1>4
<1> QED
  BY <1>5 DEF Hindmost

(* The classes the profile in use puts in order.                           *)
Ordered == ToSet(profileInUse.classes) \ {""}
Place(class) == Position(class, profileInUse.classes)

(* What most_restrictive_class_id gives of finitely many classes is one of *)
(* them, if there is any, and of those the profile orders the weakest.     *)
LEMMA WeakestIsLast ==
  ASSUME ClaimInv, NEW classes, IsFiniteSet(classes), classes \subseteq Classes \union {""}
  PROVE  /\ Weakest(classes) \in classes \union {""}
         /\ \A class \in classes \intersect Ordered :
               /\ Weakest(classes) \in classes \intersect Ordered
               /\ Place(class) <= Place(Weakest(classes))
<1> DEFINE known == (classes \ {""}) \intersect ToSet(profileInUse.classes)
           rest == classes \ {""}
<1>1. /\ profileInUse.classes \in Seq(Classes \union {""})
      /\ Alphabet \in Seq(STRING)
  BY ClaimAssumption DEF ClaimInv, Classes
<1>2. IsFiniteSet(known) /\ IsFiniteSet(rest)
  BY SubsetIsFinite
<1>3. known = classes \intersect Ordered
  BY DEF Ordered
<1>4. Weakest(classes) = IF rest = {} THEN ""
                         ELSE IF known # {} THEN Hindmost(known, profileInUse.classes)
                         ELSE Hindmost(rest, Alphabet)
  BY DEF Weakest
<1>5. CASE known # {}
  <2>1. known \subseteq ToSet(profileInUse.classes) /\ rest # {}
    BY <1>5
  <2>2. /\ Hindmost(known, profileInUse.classes) \in known
        /\ \A d \in known : Position(d, profileInUse.classes)
                              <= Position(Hindmost(known, profileInUse.classes), profileInUse.classes)
    <3> HIDE DEF known
    <3> QED
      BY <1>1, <1>2, <1>5, <2>1, HindmostIsLast
  <2> HIDE DEF known, rest
  <2>3. Weakest(classes) = Hindmost(known, profileInUse.classes)
    BY <1>4, <1>5, <2>1
  <2> QED
    BY <1>3, <2>2, <2>3 DEF Place
<1>6. CASE known = {} /\ rest # {}
  <2>1. rest \subseteq ToSet(Alphabet)
    BY DEF Classes
  <2>2. Hindmost(rest, Alphabet) \in rest
    <3> HIDE DEF rest
    <3> QED
      BY <1>1, <1>2, <1>6, <2>1, HindmostIsLast
  <2>3. Weakest(classes) \in rest
    <3> HIDE DEF known, rest
    <3> QED
      BY <1>4, <1>6, <2>2
  <2> QED
    BY <1>3, <1>6, <2>3
<1>7. CASE rest = {}
  <2>1. Weakest(classes) = ""
    <3> HIDE DEF known, rest
    <3> QED
      BY <1>4, <1>7
  <2> QED
    BY <1>7, <2>1 DEF Ordered
<1> QED
  BY <1>5, <1>6, <1>7

(* What the records of a call allow, by the probe that reads them.         *)
ByConstants(submitted) == {CategoryCeiling(Category(c)) : c \in submitted.constants}
ByValues(submitted) == {ValueCeiling(records[v]) : v \in submitted.values}

(* They are finitely many classes, and so is what its audit gives.         *)
LEMMA CeilingsAreClasses ==
  ASSUME ClaimInv, NEW submitted \in GateCalls
  PROVE  /\ IsFiniteSet(ByConstants(submitted)) /\ IsFiniteSet(ByValues(submitted))
         /\ ByConstants(submitted) \union ByValues(submitted) \subseteq Classes \union {""}
         /\ submitted.audit \in Classes \union {""}
<1>1. /\ IsFiniteSet(submitted.constants) /\ IsFiniteSet(submitted.values)
      /\ submitted.audit \in Classes \union {""}
      /\ {"A", "B", "C"} \subseteq Classes
      /\ \A c \in DOMAIN profileInUse.caps : profileInUse.caps[c] \in Classes \union {""}
  BY ClaimAssumption DEF ClaimInv, Classes
<1>2. \A category : CategoryCeiling(category) \in Classes \union {""}
  BY <1>1 DEF CategoryCeiling, BuiltInCeiling
<1>3. \A r : ValueCeiling(r) \in Classes
  <2>1. \A r : Provenance(r) \in {"hybrid", "closed_form", "observed", "unknown"}
    BY DEF Provenance
  <2> QED
    BY <1>1, <2>1 DEF ValueCeiling
<1>4. IsFiniteSet(ByConstants(submitted))
  <2> DEFINE f == [c \in submitted.constants |-> CategoryCeiling(Category(c))]
  <2>1. IsFiniteSet({f[c] : c \in submitted.constants})
    <3> HIDE DEF f
    <3> QED
      BY <1>1, ImageIsFinite
  <2>2. {f[c] : c \in submitted.constants} = ByConstants(submitted)
    BY DEF ByConstants
  <2> QED
    BY <2>1, <2>2
<1>5. IsFiniteSet(ByValues(submitted))
  <2> DEFINE f == [v \in submitted.values |-> ValueCeiling(records[v])]
  <2>1. IsFiniteSet({f[v] : v \in submitted.values})
    <3> HIDE DEF f
    <3> QED
      BY <1>1, ImageIsFinite
  <2>2. {f[v] : v \in submitted.values} = ByValues(submitted)
    BY DEF ByValues
  <2> QED
    BY <2>1, <2>2
<1> QED
  BY <1>1, <1>2, <1>3, <1>4, <1>5 DEF ByConstants, ByValues

(* The verdicts of a call carry the weakest of its constants, the weakest  *)
(* of its values, the audit's grade, or no cap.                            *)
LEMMA CapsOfVerdicts ==
  ASSUME NEW submitted
  PROVE  {v.cap : v \in Verdicts(submitted)} =
           {Weakest(ByConstants(submitted)), Weakest(ByValues(submitted)), submitted.audit, ""}
<1>1. \A p, r, c : Verdict(p, r, c).cap = c
  BY DEF Verdict
<1>2. /\ ConstantVerdict(submitted).cap = Weakest(ByConstants(submitted))
      /\ ValueVerdict(submitted).cap = Weakest(ByValues(submitted))
      /\ AuditVerdict(submitted).cap = submitted.audit
      /\ AttemptVerdict(submitted).cap = ""
  <2>1. ConstantVerdict(submitted).cap = Weakest(ByConstants(submitted))
    BY <1>1 DEF ConstantVerdict, ByConstants
  <2>2. ValueVerdict(submitted).cap = Weakest(ByValues(submitted))
    BY <1>1 DEF ValueVerdict, ByValues
  <2>3. AuditVerdict(submitted).cap = submitted.audit /\ AttemptVerdict(submitted).cap = ""
    BY <1>1 DEF AuditVerdict, AttemptVerdict
  <2> QED
    BY <2>1, <2>2, <2>3
<1> DEFINE boundary == Verdict("scope_boundary_gate", ScopeBoundary(submitted.scope), "")
           upscale == Verdict("scope_upscale_gate", ScopeUpscale(submitted.scope), "")
           watch == Verdict("watch_first_write",
                            IF Suggestions(submitted) = {} THEN "undetermined" ELSE "pass", "")
           fork == Verdict("use_case_fork", UseCaseFork(submitted.scope), "")
           always == {ConstantVerdict(submitted), AuditVerdict(submitted), AttemptVerdict(submitted),
                      ValueVerdict(submitted), boundary, upscale, watch}
<1>3. boundary.cap = "" /\ upscale.cap = "" /\ watch.cap = "" /\ fork.cap = ""
  BY <1>1
<1>4. Verdicts(submitted) = always \union (IF submitted.forked THEN {fork} ELSE {})
  BY DEF Verdicts
<1> HIDE DEF boundary, upscale, watch, fork
<1>5. Verdicts(submitted) = always \/ Verdicts(submitted) = always \union {fork}
  BY <1>4
<1>6. ConstantVerdict(submitted) \in Verdicts(submitted) /\ AuditVerdict(submitted) \in Verdicts(submitted)
      /\ ValueVerdict(submitted) \in Verdicts(submitted) /\ boundary \in Verdicts(submitted)
  BY <1>5
<1>7. \A v \in Verdicts(submitted) :
         v.cap \in {Weakest(ByConstants(submitted)), Weakest(ByValues(submitted)), submitted.audit, ""}
  BY <1>2, <1>3, <1>5
<1> QED
  BY <1>2, <1>3, <1>6, <1>7

(* The cap of the whole is as weak as the weakest of its parts.            *)
LEMMA CapOfTheCall ==
  ASSUME ClaimInv, NEW submitted \in GateCalls
  PROVE  CapIsWeakest(submitted, Weakest({v.cap : v \in Verdicts(submitted)}), records)
<1> DEFINE fromConstants == Weakest(ByConstants(submitted))
           fromValues == Weakest(ByValues(submitted))
           caps == {fromConstants, fromValues, submitted.audit, ""}
           cap == Weakest(caps)
           allowed == ByConstants(submitted) \union ByValues(submitted) \union {submitted.audit}
<1>1. /\ fromConstants \in ByConstants(submitted) \union {""}
      /\ \A class \in ByConstants(submitted) \intersect Ordered :
            fromConstants \in Ordered /\ Place(class) <= Place(fromConstants)
  BY CeilingsAreClasses, WeakestIsLast
<1>2. /\ fromValues \in ByValues(submitted) \union {""}
      /\ \A class \in ByValues(submitted) \intersect Ordered :
            fromValues \in Ordered /\ Place(class) <= Place(fromValues)
  BY CeilingsAreClasses, WeakestIsLast
<1> HIDE DEF fromConstants, fromValues
<1>3. caps \subseteq Classes \union {""} /\ IsFiniteSet(caps)
  <2>1. caps \subseteq Classes \union {""}
    BY <1>1, <1>2, CeilingsAreClasses
  <2> QED
    BY <2>1, FourAreFinite
<1>4. /\ cap \in caps \union {""}
      /\ \A class \in caps \intersect Ordered :
            cap \in caps \intersect Ordered /\ Place(class) <= Place(cap)
  BY <1>3, WeakestIsLast
<1>5. \A class \in Ordered : class # "" /\ Place(class) \in Int
  <2>1. profileInUse.classes \in Seq(Classes \union {""})
    BY ClaimAssumption DEF ClaimInv, Classes
  <2>2. ASSUME NEW class \in Ordered
        PROVE  class # "" /\ Place(class) \in Int
    <3>1. class \in ToSet(profileInUse.classes) /\ class # ""
      BY <2>2 DEF Ordered
    <3>2. Position(class, profileInUse.classes) \in Int
      BY <2>1, <3>1, HasAPlace
    <3> QED
      BY <3>1, <3>2 DEF Place
  <2> QED
    BY <2>2
<1> HIDE DEF cap
<1>6. \A class \in allowed \intersect Ordered :
         cap \in allowed \intersect Ordered /\ Place(class) <= Place(cap)
  <2> TAKE class \in allowed \intersect Ordered
  <2>1. \E given \in caps \intersect Ordered : Place(class) <= Place(given)
    <3>1. CASE class \in ByConstants(submitted)
      BY <1>1, <3>1
    <3>2. CASE class \in ByValues(submitted)
      BY <1>2, <3>2
    <3>3. CASE class = submitted.audit
      <4>1. class \in caps \intersect Ordered
        BY <3>3
      <4>2. Place(class) \in Int
        BY <1>5, <4>1
      <4>3. Place(class) <= Place(class)
        BY <4>2
      <4> QED
        BY <4>1, <4>3
    <3> QED
      BY <3>1, <3>2, <3>3
  <2>2. cap \in caps \intersect Ordered /\ Place(class) <= Place(cap)
    <3>1. PICK given \in caps \intersect Ordered : Place(class) <= Place(given)
      BY <2>1
    <3>2. cap \in caps \intersect Ordered /\ Place(given) <= Place(cap)
      BY <1>4
    <3>3. Place(class) \in Int /\ Place(given) \in Int /\ Place(cap) \in Int
      BY <1>5, <3>2
    <3>4. Place(class) <= Place(cap)
      <4> HIDE DEF allowed, caps
      <4> QED
        BY <3>1, <3>2, <3>3
    <3> QED
      BY <3>2, <3>4
  <2>3. cap \in allowed
    BY <1>1, <1>2, <1>5, <2>2
  <2> QED
    BY <2>2, <2>3
<1>7. Weakest({v.cap : v \in Verdicts(submitted)}) = cap
  BY CapsOfVerdicts DEF cap, fromConstants, fromValues
<1> QED
  BY <1>6, <1>7 DEF CapIsWeakest, ByConstants, ByValues, Ordered, Place

(* What one evaluation of the gate answers.                                *)
LEMMA EvaluationAnswers ==
  ASSUME ClaimInv, NEW submitted \in GateCalls, Evaluate(submitted)
  PROVE  /\ CapIsWeakest(judged'.call, judged'.cap, records)
         /\ ObservedIsWatched(judged'.call, judged'.suggested, records')
         /\ judged'.call.attempt.block \in gateDead => ~judged'.passed
<1>1. judged' = [call |-> submitted,
                 passed |-> \A v \in Verdicts(submitted) : v.result # "fail",
                 cap |-> Weakest({v.cap : v \in Verdicts(submitted)}),
                 suggested |-> Suggestions(submitted)]
  BY DEF Evaluate
<1>2. /\ judged'.call = submitted /\ judged'.suggested = Suggestions(submitted)
      /\ judged'.cap = Weakest({v.cap : v \in Verdicts(submitted)})
      /\ judged'.passed = \A v \in Verdicts(submitted) : v.result # "fail"
  BY <1>1, Zenon
<1>3. CapIsWeakest(judged'.call, judged'.cap, records)
  BY <1>2, CapOfTheCall
<1>4. ObservedIsWatched(judged'.call, judged'.suggested, records')
  <2>1. \A v \in submitted.values : records'[v] = Tagged(records[v])
    BY ClaimAssumption DEF Evaluate
  <2>2. ASSUME NEW v \in submitted.values,
               records'[v].provenance \in {"observed", "hybrid"},
               records'[v].landed, ~records'[v].verified
        PROVE  v \in judged'.suggested
    <3>1. Suggested(Tagged(records[v]))
      BY <2>1, <2>2 DEF Suggested
    <3> QED
      BY <1>2, <3>1 DEF Suggestions
  <2> QED
    BY <1>2, <2>2 DEF ObservedIsWatched
<1>5. ASSUME submitted.attempt.block \in gateDead
      PROVE  ~ \A v \in Verdicts(submitted) : v.result # "fail"
  <2>1. submitted.attempt # NoAttempt
    BY <1>5 DEF NoAttempt, ClaimInv
  <2>2. AttemptVerdict(submitted).result = "fail"
    BY <1>5, <2>1 DEF AttemptVerdict, Verdict
  <2>3. AttemptVerdict(submitted) \in Verdicts(submitted)
    BY DEF Verdicts
  <2> QED
    BY <2>2, <2>3
<1> QED
  BY <1>2, <1>3, <1>4, <1>5

(* An evaluation answers for all its probes together, for any profiles,    *)
(* calls and records: the cap is the weakest of what the call's records    *)
(* allow, though each probe sums its own up first; every value tagged as   *)
(* observed is offered a watch; and a block given up passes no more.       *)
THEOREM EvaluationsAnswerForAll == ClaimSpec => AnswersForEveryProbe
<1>1. ClaimInit => ClaimInv
  BY DEF ClaimInit, ClaimInv
<1>2. ClaimInv /\ [ClaimNext]_claimVars => ClaimInv'
  <2> SUFFICES ASSUME ClaimInv, [ClaimNext]_claimVars PROVE ClaimInv'
    OBVIOUS
  <2>1. ASSUME NEW submitted \in GateCalls, Evaluate(submitted)
        PROVE  ClaimInv'
    <3>1. evaluations' = evaluations + 1 /\ UNCHANGED profileInUse
      BY <2>1 DEF Evaluate
    <3>2. "none" \notin gateDead'
      <4>1. CASE submitted.attempt = NoAttempt \/ submitted.attempt.block \in gateDead
        BY <2>1, <4>1 DEF Evaluate, ClaimInv
      <4>2. CASE submitted.attempt # NoAttempt /\ submitted.attempt.block \notin gateDead
        <5>1. submitted.attempt.block # "none"
          BY <4>2, ClaimAssumption
        <5>2. gateDead' = gateDead \/ gateDead' = gateDead \union {submitted.attempt.block}
          BY <2>1, <4>2 DEF Evaluate
        <5> QED
          BY <5>1, <5>2 DEF ClaimInv
      <4> QED
        BY <4>1, <4>2
    <3> QED
      BY <3>1, <3>2 DEF ClaimInv
  <2>2. ASSUME NEW v \in ValueNames, Revise(v)
        PROVE  ClaimInv'
    BY <2>2 DEF Revise, ClaimInv
  <2>3. CASE UNCHANGED claimVars
    BY <2>3 DEF claimVars, ClaimInv
  <2> QED
    BY <2>1, <2>2, <2>3 DEF ClaimNext
<1>3. ClaimInv /\ [ClaimNext]_claimVars
      => (evaluations' > evaluations =>
            /\ CapIsWeakest(judged'.call, judged'.cap, records)
            /\ ObservedIsWatched(judged'.call, judged'.suggested, records')
            /\ judged'.call.attempt.block \in gateDead => ~judged'.passed)
  <2> SUFFICES ASSUME ClaimInv, [ClaimNext]_claimVars, evaluations' > evaluations
               PROVE  \E submitted \in GateCalls : Evaluate(submitted)
    BY EvaluationAnswers
  <2>1. evaluations' # evaluations
    BY DEF ClaimInv
  <2> QED
    BY <2>1 DEF ClaimNext, Revise, claimVars
<1> QED
  BY <1>1, <1>2, <1>3, PTL DEF ClaimSpec, AnswersForEveryProbe
=============================================================================
