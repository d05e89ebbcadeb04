----------------------------- MODULE PhaseFlow -----------------------------
(***************************************************************************)
(* From a value whose producer the loaded trace may not show to a trace    *)
(* that shows it: the wrapper walks back from the addresses in a call's    *)
(* parameters, the values that leave the window are classified and routed  *)
(* to a collection request or to the backlog, the runner (external)        *)
(* captures what was asked for, and the unit is loaded as the new window.  *)
(***************************************************************************)
EXTENDS Integers, Sequences, FiniteSets, FiniteSetsExt, SequencesExt

CONSTANTS
    Executions,   \* what ran: its steps, the recorded part, the ledger and the
                  \* capabilities of the runner
    Values,       \* the addresses a call may name
    Routing,      \* the profile's routing rules: cause -> action id
    MaxHops,      \* max_chain_depth
    RegionWidth,  \* default_region_width
    CaptureCap,   \* max_steps of a capture
    MaxWraps      \* bound on the calls

ASSUME FlowAssumption ==
    /\ MaxHops \in Nat \ {0} /\ RegionWidth \in Nat \ {0}
    /\ CaptureCap \in Nat \ {0} /\ MaxWraps \in Nat
    /\ Values \subseteq Nat \ {0}
    /\ \A e \in Executions :
          e.steps \in Seq([pc : Nat, write : Nat, read : Nat, copy : BOOLEAN])

VARIABLES
    execution,  \* the execution under analysis
    shown,      \* the loaded window: its first and last step and its anchor
    found,      \* the discoveries of the last call that leave the window
    routed,     \* what the router made of the last node
    backlog,    \* the backlog file, a line per entry
    requests,   \* the collections asked for and not yet run
    captures,   \* the captured units on disk, with or without their sidecar
    wraps       \* calls so far

flowVars == <<execution, shown, found, routed, backlog, requests, captures, wraps>>

NoAnchor == [type |-> "none", at |-> 0]
NoRoute == [cause |-> "none", action |-> "none"]

-----------------------------------------------------------------------------
(* The data source: the loaded trace, then the ledger.                     *)

Trace == SubSeq(execution.steps, shown.first, shown.last)

WindowPcs == {Trace[i].pc : i \in DOMAIN Trace}

NoWriter == [pc |-> 0, idx |-> -1]

\* The last step of the window that wrote the address, else the ledger's word.
LatestWriter(addr) ==
    LET writes == {i \in DOMAIN Trace : Trace[i].write = addr} IN
    IF writes # {} THEN [pc |-> Trace[Max(writes)].pc, idx |-> Max(writes) - 1]
    ELSE IF addr \in DOMAIN execution.ledger
         THEN [pc |-> execution.ledger[addr], idx |-> -1] ELSE NoWriter

\* A load or a store that names the address it took the bytes from; the
\* first step of a trace, index 0, counts as having no index.
ProducerEdge(addr) ==
    LET writer == LatestWriter(addr)
        step == Trace[writer.idx + 1] IN
    IF writer = NoWriter THEN [kind |-> "none", pc |-> 0, src |-> 0, idx |-> -1]
    ELSE IF writer.idx > 0 /\ step.copy /\ step.read # 0
         THEN [kind |-> "copy", pc |-> writer.pc, src |-> step.read, idx |-> writer.idx]
         ELSE [kind |-> "writer", pc |-> writer.pc, src |-> 0, idx |-> writer.idx]

\* Slip: the range leaves out its first instruction.
InWindowAfterFirst(pc) == Min(WindowPcs) < pc /\ pc <= Max(WindowPcs)

InWindow(pc) == Min(WindowPcs) <= pc /\ pc <= Max(WindowPcs)

-----------------------------------------------------------------------------
(* Discovery.                                                              *)

MemAnchor(addr) == [type |-> "memregion", at |-> addr]
PcAnchor(pc) == [type |-> "pc", at |-> pc]

\* Where the walk stands after n hops; it stays where it finds no copy.
Cursors(value) ==
    LET at[n \in 0..MaxHops] ==
            IF n = 0 THEN value
            ELSE IF ProducerEdge(at[n - 1]).kind = "copy" THEN ProducerEdge(at[n - 1]).src
                 ELSE at[n - 1]
    IN at

Discover(value) ==
    LET cursors == Cursors(value)
        edge == ProducerEdge(cursors[MaxHops - 1])
        Crossing(reason, anchor) ==
            [value |-> value, crosses |-> TRUE, reason |-> reason, anchor |-> anchor, last |-> edge.idx]
    IN  CASE edge.kind = "none" -> Crossing("no_writer", MemAnchor(cursors[MaxHops]))
          [] edge.kind = "copy" -> Crossing("max_chain_depth", MemAnchor(cursors[MaxHops]))
          [] edge.kind = "writer" /\ ~InWindow(edge.pc) -> Crossing("out_of_window", PcAnchor(edge.pc))
          [] OTHER -> [value |-> value, crosses |-> FALSE, reason |-> "in_window",
                       anchor |-> NoAnchor, last |-> edge.idx]

\* The values of the parameters that leave the window, in their order.
DiscoverInParams(params) == SelectSeq([i \in DOMAIN params |-> Discover(params[i])], LAMBDA r : r.crosses)

-----------------------------------------------------------------------------
(* Classification and routing.                                             *)

\* How far the caller says the node has come.
NodeContexts == {"uncollected", "collected", "recognised", "resolved"}

ClassifyNode(crosses, context) ==
    CASE crosses \/ context = "uncollected" -> "collection_gap"
      [] ~crosses /\ context = "collected" -> "recognition_gap"
      [] ~crosses /\ context = "recognised" -> "strategy_gap"
      [] OTHER -> "true_boundary"

GapKindFor(cause) ==
    CASE cause = "collection_gap" -> "capability_gap"
      [] cause = "true_boundary" -> "boundary_limit"
      [] OTHER -> "analysis_incomplete"

KnownActions == {"auto_collect", "register_backlog", "escalate_l2", "escalate_l3", "escalate_user"}

PrimaryAction(cause) == IF cause \in DOMAIN Routing THEN Routing[cause] ELSE "none"

\* The profile's rule for the cause, then for its gap kind, then the built-in one.
ActionFor(cause, legacy) ==
    LET id == IF PrimaryAction(cause) # "none" THEN PrimaryAction(cause) ELSE PrimaryAction(GapKindFor(cause))
    IN  IF id \in KnownActions THEN id ELSE legacy

Capability(anchor) ==
    CASE anchor.type = "pc" -> "pc_first_exec_hook"
      [] anchor.type = "memregion" -> "memregion_watch"
      [] OTHER -> "unknown_capability"

\* A spec exists as soon as there is an anchor to start from.
Suggestion(anchor) == IF anchor = NoAnchor THEN {} ELSE {anchor}

Collectable(anchor) == Suggestion(anchor) # {} /\ Capability(anchor) \in execution.hooks

BacklogEntry(value, anchor) == [node |-> value, missing |-> Capability(anchor)]

\* A collection gap is asked for when the runner can do it and put on the
\* backlog otherwise, once per call that meets it.
RouteCollectionGap(results) ==
    /\ requests' = requests \cup {r.anchor : r \in {x \in ToSet(results) : Collectable(x.anchor)}}
    /\ backlog' = backlog \o [i \in DOMAIN SelectSeq(results, LAMBDA r : ~Collectable(r.anchor)) |->
                                LET r == SelectSeq(results, LAMBDA x : ~Collectable(x.anchor))[i]
                                IN  BacklogEntry(r.value, r.anchor)]

\* One call through the wrapper: every value of its parameters, no context.
WrapCall(params) ==
    LET results == DiscoverInParams(params) IN
    /\ wraps < MaxWraps
    /\ wraps' = wraps + 1
    /\ found' = [i \in DOMAIN params |-> Discover(params[i])]
    /\ RouteCollectionGap(results)
    /\ routed' = IF results = <<>> THEN routed
                 ELSE [cause |-> "collection_gap",
                       action |-> IF Collectable(Last(results).anchor) THEN "auto_collect" ELSE "register_backlog"]
    /\ UNCHANGED <<execution, shown, captures>>

\* A caller that routes one value with what it knows of the node.
RouteNode(value, context) ==
    LET result == Discover(value)
        cause == ClassifyNode(result.crosses, context) IN
    /\ wraps < MaxWraps
    /\ wraps' = wraps + 1
    /\ found' = <<result>>
    /\ IF cause = "collection_gap"
       THEN /\ RouteCollectionGap(<<result>>)
            /\ routed' = [cause |-> cause,
                          action |-> IF Collectable(result.anchor) THEN "auto_collect" ELSE "register_backlog"]
       ELSE /\ routed' = [cause |-> cause,
                          action |-> ActionFor(cause, CASE cause = "recognition_gap" -> "escalate_l2"
                                                        [] cause = "strategy_gap" -> "escalate_l3"
                                                        [] OTHER -> "escalate_user")]
            /\ UNCHANGED <<requests, backlog>>
    /\ UNCHANGED <<execution, shown, captures>>

-----------------------------------------------------------------------------
(* Collection and replay.                                                  *)

\* The steps at which the runner would start a capture.
AnchorHits(anchor) ==
    {i \in DOMAIN execution.steps :
        IF anchor.type = "pc" THEN execution.steps[i].pc = anchor.at
        ELSE execution.steps[i].write \in anchor.at .. anchor.at + RegionWidth - 1}

\* External: the runner captures from the first hit on, up to its cap.
RunCapture(anchor) ==
    /\ anchor \in requests /\ AnchorHits(anchor) # {}
    /\ requests' = requests \ {anchor}
    /\ LET first == Min(AnchorHits(anchor))
           last == Min({Len(execution.steps), first + CaptureCap - 1})
       IN  captures' = captures \cup {[first |-> first, last |-> last, anchor |-> anchor, sidecar |-> FALSE]}
    /\ UNCHANGED <<execution, shown, found, routed, backlog, wraps>>

\* The sidecar is written beside a trace that is there.
MakeUnit(unit) ==
    /\ unit \in captures /\ ~unit.sidecar
    /\ captures' = (captures \ {unit}) \cup {[unit EXCEPT !.sidecar = TRUE]}
    /\ UNCHANGED <<execution, shown, found, routed, backlog, requests, wraps>>

\* A unit without its sidecar is refused.
LoadUnit(unit) ==
    /\ unit \in captures /\ unit.sidecar
    /\ shown' = [first |-> unit.first, last |-> unit.last, anchor |-> unit.anchor]
    /\ found' = <<>>
    /\ UNCHANGED <<execution, routed, backlog, requests, captures, wraps>>

-----------------------------------------------------------------------------
FlowInit ==
    /\ execution \in Executions
    /\ shown = [first |-> execution.first, last |-> execution.last, anchor |-> NoAnchor]
    /\ found = <<>> /\ routed = NoRoute /\ backlog = <<>>
    /\ requests = {} /\ captures = {} /\ wraps = 0

FlowNext ==
    \/ \E v \in Values : WrapCall(<<v>>)
    \/ \E v, w \in Values : v # w /\ WrapCall(<<v, w>>)
    \/ \E v \in Values, c \in NodeContexts : RouteNode(v, c)
    \/ \E a \in requests : RunCapture(a)
    \/ \E u \in captures : MakeUnit(u) \/ LoadUnit(u)

FlowSpec == FlowInit /\ [][FlowNext]_flowVars

-----------------------------------------------------------------------------
\* A unit captured at an anchor answers the question it was captured for:
\* while it is loaded no value of a call asks for that anchor again, unless
\* the walk was cut off by its depth or the capture began at another byte of
\* the region that was watched (discover_phase over the unit of RerunRequest).
CollectedOnce ==
    \A i \in DOMAIN found :
        found[i].anchor # NoAnchor /\ found[i].anchor = shown.anchor =>
            \/ found[i].reason = "max_chain_depth"
            \/ shown.anchor.type = "memregion" /\ Trace[1].write # shown.anchor.at

\* What discover_phase says of a copy edge, "recursive walk on src_addr": a
\* value said to be produced inside the window does not end on a step that
\* only copied it from elsewhere.
CopiesAreFollowed ==
    \A i \in DOMAIN found :
        ~found[i].crosses /\ found[i].last >= 0 =>
            LET step == Trace[found[i].last + 1] IN ~(step.copy /\ step.read # 0)
=============================================================================
