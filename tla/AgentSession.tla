---------------------------- MODULE AgentSession ----------------------------
(***************************************************************************)
(* One agent-serve session of orchestrators/agent_mode.py: the agent sends *)
(* requests, the engine handles them one at a time, and a request that     *)
(* needs hypotheses asks the agent in turn (llm_request) and waits for the *)
(* answer while further lines come in.  A reader thread sorts the lines:   *)
(* answers to llmQ, everything else to rpcQ.                               *)
(***************************************************************************)
EXTENDS Naturals, Sequences

CONSTANTS
    MaxRequests,  \* requests the agent sends
    MaxPoints,    \* stuck points s6_auto_loop finds at most
    MaxAnswers    \* answers the agent sends, repeated and late ones included

ASSUME SessionAssumption ==
    MaxRequests \in Nat /\ MaxPoints \in Nat /\ MaxAnswers \in Nat

VARIABLES
    stdin,     \* "open" until the agent closes it
    sent,      \* requests sent so far; they are numbered
    answers,   \* answers sent so far
    rpcQ,      \* requests and the end-of-file sentinel, in order of arrival
    llmQ,      \* answers nobody has taken
    server,    \* where serve_mcp is
    llmSeq,    \* _QueueDelegatedBackend._req_seq
    points,    \* stuck points the current request has still to ask about
    used,      \* per delegated call: the id of the answer it was given, or 0
    replied    \* ids of the responses written, in order

sessionVars ==
    <<stdin, sent, answers, rpcQ, llmQ, server, llmSeq, points, used, replied>>

Kinds == {"plain", "s6_auto_loop", "shutdown"}
Eof == [id |-> 0, kind |-> "eof"]
Idle == [at |-> "idle", id |-> 0]

SessionInit ==
    /\ stdin = "open" /\ sent = 0 /\ answers = 0
    /\ rpcQ = <<>> /\ llmQ = <<>> /\ server = Idle
    /\ llmSeq = 0 /\ points = 0 /\ used = <<>> /\ replied = <<>>

-----------------------------------------------------------------------------
(* The agent.                                                              *)

SendRequest(kind) ==
    /\ stdin = "open" /\ sent < MaxRequests
    /\ sent' = sent + 1
    /\ rpcQ' = Append(rpcQ, [id |-> sent + 1, kind |-> kind])
    /\ UNCHANGED <<stdin, answers, llmQ, server, llmSeq, points, used, replied>>

(* It answers a question it was asked: in time, late, or once more.        *)
SendAnswer(id) ==
    /\ stdin = "open" /\ id \in 1..llmSeq /\ answers < MaxAnswers
    /\ answers' = answers + 1
    /\ llmQ' = Append(llmQ, id)
    /\ UNCHANGED <<stdin, sent, rpcQ, server, llmSeq, points, used, replied>>

(* End of file: the sentinel goes to the request queue only.               *)
Close ==
    /\ stdin = "open"
    /\ stdin' = "closed"
    /\ rpcQ' = Append(rpcQ, Eof)
    /\ UNCHANGED <<sent, answers, llmQ, server, llmSeq, points, used, replied>>

-----------------------------------------------------------------------------
(* The engine.                                                             *)

(* The main loop takes the next request.  After the sentinel, and after    *)
(* answering shutdown, it returns.                                         *)
TakeRequest ==
    /\ server.at = "idle" /\ rpcQ # <<>>
    /\ rpcQ' = Tail(rpcQ)
    /\ LET req == Head(rpcQ) IN
       CASE req.kind = "eof" ->
                server' = [Idle EXCEPT !.at = "ended"] /\ UNCHANGED <<points, replied>>
         [] req.kind = "shutdown" ->
                /\ server' = [Idle EXCEPT !.at = "ended"]
                /\ replied' = Append(replied, req.id)
                /\ UNCHANGED points
         [] req.kind = "plain" ->
                /\ server' = [at |-> "serving", id |-> req.id]
                /\ points' = 0
                /\ UNCHANGED replied
         [] req.kind = "s6_auto_loop" ->
                /\ server' = [at |-> "serving", id |-> req.id]
                /\ points' \in 0..MaxPoints
                /\ UNCHANGED replied
    /\ UNCHANGED <<stdin, sent, answers, llmQ, llmSeq, used>>

(* A delegated call: the question is written to the agent.                 *)
Ask ==
    /\ server.at = "serving" /\ points > 0
    /\ server' = [server EXCEPT !.at = "waiting"]
    /\ llmSeq' = llmSeq + 1
    /\ points' = points - 1
    /\ UNCHANGED <<stdin, sent, answers, rpcQ, llmQ, used, replied>>

Resume(answer) ==
    /\ used' = Append(used, answer)
    /\ server' = [server EXCEPT !.at = "serving"]

(* Slip: whatever answer arrives first is taken for this call's.           *)
TakeAnyAnswer ==
    /\ server.at = "waiting" /\ llmQ # <<>>
    /\ llmQ' = Tail(llmQ)
    /\ Resume(Head(llmQ))
    /\ UNCHANGED <<stdin, sent, answers, rpcQ, llmSeq, points, replied>>

(* An answer (or an llm_error, which yields no hypotheses) is taken off    *)
(* the queue; one with another id is dropped and the wait begins anew.     *)
TakeAnswer ==
    /\ server.at = "waiting" /\ llmQ # <<>>
    /\ llmQ' = Tail(llmQ)
    /\ IF Head(llmQ) = llmSeq
       THEN Resume(Head(llmQ))
       ELSE UNCHANGED <<used, server>>
    /\ UNCHANGED <<stdin, sent, answers, rpcQ, llmSeq, points, replied>>

(* Slip: the wait has no time-out, it goes on until stdin is closed.       *)
TimeOutAtEof ==
    /\ server.at = "waiting" /\ llmQ = <<>> /\ stdin = "closed"
    /\ Resume(0)
    /\ UNCHANGED <<stdin, sent, answers, rpcQ, llmQ, llmSeq, points, replied>>

(* Nothing came for 300 seconds: the call returns no hypotheses.           *)
TimeOut ==
    /\ server.at = "waiting" /\ llmQ = <<>>
    /\ Resume(0)
    /\ UNCHANGED <<stdin, sent, answers, rpcQ, llmQ, llmSeq, points, replied>>

(* The dispatch returned, raised or was intercepted: one response each.    *)
Reply ==
    /\ server.at = "serving" /\ points = 0
    /\ server' = Idle
    /\ replied' = Append(replied, server.id)
    /\ UNCHANGED <<stdin, sent, answers, rpcQ, llmQ, llmSeq, points, used>>

(* s6_auto_loop gives up on the first error: the rest is not asked.        *)
AutoLoopFails ==
    /\ server.at = "serving" /\ points > 0
    /\ points' = 0
    /\ UNCHANGED <<stdin, sent, answers, rpcQ, llmQ, server, llmSeq, used, replied>>

(* The process is gone; whatever is still queued is never looked at.       *)
Gone == server.at = "ended" /\ stdin = "closed" /\ UNCHANGED sessionVars

Engine == TakeRequest \/ Ask \/ TakeAnswer \/ TimeOut \/ Reply \/ AutoLoopFails

SessionNext ==
    \/ \E kind \in Kinds : SendRequest(kind)
    \/ \E id \in 1..llmSeq : SendAnswer(id)
    \/ Close \/ Engine \/ Gone

(* The engine's threads run; nothing is assumed of the agent.              *)
SessionSpec == SessionInit /\ [][SessionNext]_sessionVars /\ WF_sessionVars(Engine)

-----------------------------------------------------------------------------
(* A delegated call is given the answer to its own question or none: an    *)
(* answer that arrives after the time-out, or twice, is never taken for    *)
(* that of a later call.                                                   *)
OwnAnswerOrNone == \A i \in DOMAIN used : used[i] \in {0, i}

(* A request is answered or the session is over, whatever the agent does   *)
(* about the questions it is asked.                                        *)
EveryRequestReplied ==
    \A i \in 1..MaxRequests :
        sent >= i ~> Len(replied) >= i \/ server.at = "ended"
=============================================================================
