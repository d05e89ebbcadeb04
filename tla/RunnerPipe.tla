----------------------------- MODULE RunnerPipe -----------------------------
(***************************************************************************)
(* The line protocol of runner_client.SubprocessRunnerAdapter: a request   *)
(* is one line written to the runner, its reply the next line read from    *)
(* it.  Requests carry a number, replies too, but the client does not      *)
(* compare them.  The runner serves its requests one after the other; it,  *)
(* or a library inside it, may also write a line that is no reply, close   *)
(* its stdout, or end.                                                     *)
(***************************************************************************)
EXTENDS Naturals, Sequences, FiniteSets

CONSTANTS
    MaxPipeCalls,  \* bound on the calls of the client
    MaxNoise       \* bound on the lines that are no reply

ASSUME PipeAssumption == {MaxPipeCalls, MaxNoise} \subseteq Nat

VARIABLES
    asked,     \* SubprocessRunnerAdapter._next_id
    waiting,   \* a call has written its request and reads a line
    closing,   \* that call is the one of shutdown()
    serving,   \* the runner: "on", "mute" with its stdout closed, "gone"
    served,    \* requests it has replied to
    noise,     \* lines it wrote that are no reply
    pipe,      \* its stdout: the lines nobody has read
    ends       \* how the calls of the client ended, in their order

clientVars == <<asked, waiting, closing, ends>>
processVars == <<serving, served, noise>>
pipeVars == <<clientVars, processVars, pipe>>

(* A reply names the request it is for.  Noise is what _call cannot take   *)
(* for a reply: no JSON, no object, an object with neither error nor       *)
(* result, or the torn last line of a runner that died.                    *)
Line(says, id) == [says |-> says, id |-> id]
Noise == Line("noise", 0)

(* A call ends with the line it read, or without one: end of file, or a    *)
(* request that could not be written.  All but a result raise.             *)
NoLine(why) == Line(why, 0)

PipeInit ==
    /\ asked = 0 /\ waiting = FALSE /\ closing = FALSE /\ ends = <<>>
    /\ serving = "on" /\ served = 0 /\ noise = 0 /\ pipe = <<>>

-----------------------------------------------------------------------------
(* The client.                                                             *)

(* _call up to its readline; shutdown() goes through it too.               *)
Request(last) ==
    /\ ~waiting /\ asked < MaxPipeCalls
    /\ serving # "gone"
    /\ asked' = asked + 1 /\ waiting' = TRUE /\ closing' = last
    /\ UNCHANGED <<ends, processVars, pipe>>

(* The same with nobody to write to: BrokenPipeError, the number is used.  *)
RequestBreaks ==
    /\ ~waiting /\ asked < MaxPipeCalls
    /\ serving = "gone"
    /\ asked' = asked + 1
    /\ ends' = Append(ends, NoLine("broken"))
    /\ UNCHANGED <<waiting, closing, processVars, pipe>>

(* The call is over; shutdown() swallows how and terminates the runner.    *)
CallEnds(end) ==
    /\ ends' = Append(ends, end)
    /\ waiting' = FALSE /\ closing' = FALSE
    /\ serving' = IF closing THEN "gone" ELSE serving
    /\ UNCHANGED <<asked, served, noise>>

(* Slip: a line that does not parse is passed over together with the next. *)
ReadLineSkipping ==
    /\ waiting /\ pipe # <<>>
    /\ pipe' = IF Head(pipe) = Noise /\ Len(pipe) > 1 THEN Tail(Tail(pipe)) ELSE Tail(pipe)
    /\ CallEnds(Head(pipe))

(* One line is read.  It is used up whatever it says: a reply that carries *)
(* an error raises, noise raises and leaves the true reply in the pipe.    *)
ReadLine ==
    /\ waiting /\ pipe # <<>>
    /\ pipe' = Tail(pipe)
    /\ CallEnds(Head(pipe))

(* readline returns nothing: what was written before the end was read.     *)
EndOfFile ==
    /\ waiting /\ pipe = <<>> /\ serving # "on"
    /\ CallEnds(NoLine("eof"))
    /\ UNCHANGED pipe

-----------------------------------------------------------------------------
(* The runner.                                                             *)

Respond(says) ==
    /\ serving = "on" /\ served < asked
    /\ served' = served + 1
    /\ pipe' = Append(pipe, Line(says, served + 1))
    /\ UNCHANGED <<clientVars, serving, noise>>

MakeNoise ==
    /\ serving = "on" /\ noise < MaxNoise
    /\ noise' = noise + 1
    /\ pipe' = Append(pipe, Noise)
    /\ UNCHANGED <<clientVars, serving, served>>

Stop ==
    /\ \/ serving = "on" /\ serving' = "mute"
       \/ serving # "gone" /\ serving' = "gone"
    /\ UNCHANGED <<clientVars, served, noise, pipe>>

PipeNext ==
    \/ \E last \in BOOLEAN : Request(last)
    \/ RequestBreaks \/ ReadLine \/ EndOfFile
    \/ \E says \in {"result", "error"} : Respond(says)
    \/ MakeNoise \/ Stop

PipeSpec == PipeInit /\ [][PipeNext]_pipeVars

-----------------------------------------------------------------------------
Replied == {n \in DOMAIN ends : ends[n].says \in {"result", "error"}}
ReadNoise(n) == {m \in 1..n : ends[m].says = "noise"}

(* How wrong a reply can be: a call is given the reply to the call that    *)
(* many before it as calls have read noise so far.  So never the reply to  *)
(* a later call, never one reply to two calls, and a foreign one only      *)
(* after a call of this adapter has raised on noise; replies that carry an *)
(* error, a runner that stops at any point and shutdown() add nothing.     *)
ShiftedByNoise == \A n \in Replied : ends[n].id + Cardinality(ReadNoise(n)) = n

(* verify-construction promises to "compare its rerun(input) bytes against *)
(* the construction output" (cli/_query.py:447): the result a call returns *)
(* is the one for its own request.                                         *)
ResultIsOwn == \A n \in DOMAIN ends : ends[n].says = "result" => ends[n].id = n
=============================================================================
