----------------------------- MODULE RunnerGate -----------------------------
(***************************************************************************)
(* The conformance gate (conformance.py) in front of a runner.  What the   *)
(* runner is like is chosen when it is connected; the gate only sees what  *)
(* its calls return.                                                       *)
(***************************************************************************)
EXTENDS Naturals, Sequences, FiniteSets

CONSTANTS
    TraceLengths,  \* <<first, second>> lines of the two traces C5 takes
    Anchors,       \* [first, last, ret] of the trace that was read
    CodeEntry, CodeExit,   \* anchors of the runner's metadata
    PageSize

ASSUME RunnerAssumption ==
    /\ {CodeEntry, CodeExit} \subseteq Nat /\ PageSize \in Nat \ {0}
    /\ TraceLengths \subseteq Nat \X Nat
    /\ Anchors \subseteq [first : Nat, last : Nat, ret : BOOLEAN]

VARIABLES
    runner,   \* what the runner is like
    gate,     \* the next step of run_conformance, "done" at the end
    reruns,   \* calls of rerun so far
    checks,   \* verdicts so far: sets of [result, degraded] per check
    overall   \* ConformanceReport.overall

runnerVars == <<runner, gate, reruns, checks, overall>>

Capabilities == {"observe_point", "mem_capture"}
NoRunner == [mode |-> "none"]

(* leak: an observation hook that is never removed spoils every later      *)
(* trace ("always"), or only the first trace of a fresh process            *)
(* ("unprimed"); trace "raises" when get_trace fails.                      *)
Runners ==
    [mode : {"live"}, random : BOOLEAN, differing : 1..2, leak : {"no", "unprimed", "always"},
     lengths : TraceLengths, trace : {"works", "raises"},
     regs : {"none", "empty", "some"}, mem : BOOLEAN,
     caps : SUBSET Capabilities, anchors : Anchors]

FileRunners == [mode : {"file"}, anchors : Anchors]

RunnerInit ==
    /\ runner = NoRunner /\ gate = "connect" /\ reruns = 0 /\ checks = {} /\ overall = "none"

-----------------------------------------------------------------------------
(* run_conformance.                                                        *)

Check(id, result, degraded) == [id |-> id, result |-> result, degraded |-> degraded]
Skip(ids) == {Check(i, "skip", FALSE) : i \in ids}

(* detect_relocation: one shift for both anchors, page offsets unchanged.  *)
Rebased(a) ==
    /\ a.first # CodeEntry
    /\ a.first + CodeExit = a.last + CodeEntry
    /\ a.first % PageSize = CodeEntry % PageSize /\ a.last % PageSize = CodeExit % PageSize

C4(a) ==
    LET entry == IF Rebased(a) THEN a.first ELSE CodeEntry
        exit  == IF Rebased(a) THEN a.last ELSE CodeExit
    IN  Check("C4", IF a.first = entry /\ (a.last = exit \/ a.ret) THEN "pass" ELSE "fail", FALSE)

(* C5: an observed rerun, two plain ones, a trace, and the cycle again.    *)
(* "primed": other calls came before it.                                   *)
C5(r, primed) ==
    LET spoilt == r.leak = "always" \/ (r.leak = "unprimed" /\ ~primed)
        first  == IF spoilt THEN 1 ELSE r.lengths[1]
    IN  Check("C5", IF \/ r.trace = "raises"
                       \/ first < 10
                       \/ 2 * r.lengths[2] < first THEN "fail" ELSE "pass", FALSE)

C1(r) == Check("C1", IF r.random THEN "fail" ELSE "pass", FALSE)
C2(r) == Check("C2", IF r.differing >= 2 THEN "pass" ELSE "fail", FALSE)

(* The memory probe needs a register to start from, then bytes coming back. *)
MemRoundTrips(r) == r.regs = "some" /\ r.mem

(* C3: registers at the entry, then bytes at an address one of them holds. *)
(* What the runner does not declare degrades, what it declares must work.  *)
C3(r) ==
    IF r.regs = "none" /\ "observe_point" \notin r.caps THEN Check("C3", "skip", TRUE)
    ELSE IF r.regs # "some" THEN Check("C3", "fail", FALSE)
    ELSE IF ~MemRoundTrips(r) /\ "mem_capture" \in r.caps THEN Check("C3", "fail", FALSE)
    ELSE Check("C3", "pass", ~MemRoundTrips(r))

(* C7: one round trip per declared capability, the memory one always.      *)
C7(r) ==
    LET works == [c \in Capabilities |->
                    IF c = "mem_capture" THEN MemRoundTrips(r) ELSE r.regs = "some"]
        found == {Check("C7", IF works[c] THEN "pass" ELSE "fail", FALSE) :
                     c \in {d \in Capabilities : d \in r.caps \/ (d = "mem_capture" /\ works[d])}}
    IN  IF found = {} THEN {Check("C7", "skip", TRUE)} ELSE found

Connect(r) ==
    /\ gate = "connect"
    /\ runner' = r
    /\ reruns' = IF r.mode = "live" THEN 1 ELSE 0
    /\ gate' = IF r.mode = "live" THEN "C5" ELSE "C4"
    /\ checks' = IF r.mode = "live" THEN {} ELSE Skip({"C5", "C1", "C2", "C3", "C7"})
    /\ UNCHANGED overall

(* Slip: C5 is run after the checks that call rerun over and over.         *)
LiveOrderC5Late == [C5 |-> "C4", C1 |-> "C2", C2 |-> "C3", C3 |-> "C7", C7 |-> "C5"]
LiveOrder == [C5 |-> "C1", C1 |-> "C2", C2 |-> "C3", C3 |-> "C7", C7 |-> "C4"]

(* One check of the live mode; without C1 the rest but C4 is skipped.      *)
LiveCheck ==
    /\ gate \in DOMAIN LiveOrder
    /\ LET r == runner
           deterministic == Check("C1", "pass", FALSE) \in checks
       IN
       /\ checks' = checks \union
            CASE gate = "C5" -> {C5(r, reruns > 1)}
              [] gate = "C1" -> {C1(r)}
              [] gate \in {"C2", "C3", "C7"} /\ ~deterministic -> Skip({gate})
              [] gate = "C2" /\ deterministic -> {C2(r)}
              [] gate = "C3" /\ deterministic -> {C3(r)}
              [] gate = "C7" /\ deterministic -> C7(r)
       /\ reruns' = reruns + 5
       /\ gate' = LiveOrder[gate]
       /\ UNCHANGED <<runner, overall>>

(* C4, and the verdict: no failure, and in live mode nothing skipped that  *)
(* is not a declared gap.                                                  *)
Conclude ==
    /\ gate = "C4"
    /\ LET all == checks \union {C4(runner.anchors)}
           ok  == /\ \A c \in all : c.result # "fail"
                  /\ IF runner.mode = "live"
                     THEN \A c \in all : c.result = "pass" \/ c.degraded
                     ELSE \E c \in all : c.id = "C4" /\ c.result = "pass"
       IN  checks' = all /\ overall' = IF ok THEN "pass" ELSE "fail"
    /\ gate' = "done"
    /\ UNCHANGED <<runner, reruns>>

RunnerNext ==
    \/ \E r \in Runners \union FileRunners : Connect(r)
    \/ LiveCheck \/ Conclude

RunnerSpec == RunnerInit /\ [][RunnerNext]_runnerVars

-----------------------------------------------------------------------------
(* A runner the live gate lets by is deterministic, depends on its input,  *)
(* leaks nothing into later calls, and can do what it declares; whatever   *)
(* hides behind another defect or behind the order of the checks.          *)
PassMeansSound ==
    (overall = "pass" /\ runner.mode = "live") =>
        /\ ~runner.random /\ runner.differing >= 2
        /\ runner.leak = "no"
        /\ 2 * runner.lengths[2] >= runner.lengths[1]
        /\ "observe_point" \in runner.caps => runner.regs = "some"
        /\ "mem_capture" \in runner.caps => runner.mem
=============================================================================
