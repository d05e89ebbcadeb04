--------------------------- MODULE CohortEvidence ---------------------------
(***************************************************************************)
(* What several recordings of one function, taken with different inputs,   *)
(* are taken to prove: trace_merge.py folds the memory sidecar of a        *)
(* recording into its instructions, cvd_recovery/_cohort.py says for every *)
(* external memory input of the window whether its value varies, and       *)
(* opaque_staging.py whether an address does.  The cohort grows while the  *)
(* recovery is run again; recordings may be unreadable, lack their sidecar *)
(* or carry one that cannot be parsed.                                     *)
(*                                                                         *)
(* An instruction is [pc, op, ea, deps, writes, mem]: op is "load",        *)
(* "store" or "other", ea the registers of its address, deps those it      *)
(* reads, writes those whose write was recorded, mem the accesses recorded *)
(* with it.  An access is [rw, addr, val], of one byte; a sidecar event    *)
(* adds the step ("idx", 0 for none) and the pc it is of.                  *)
(***************************************************************************)
EXTENDS Naturals, Sequences, FiniteSets, FiniteSetsExt

CONSTANTS
    Vectors,     \* recordings [readable, sidecar, key, items, events]
    Run,         \* the instructions of the run under analysis
    Roots,       \* its symbolic inputs
    Lo, Hi,      \* the window, by step
    LiveIn,      \* the external memory inputs of the window
    MinCohort, MinKeys,
    MaxCohort    \* bound: recordings offered in a behaviour

ASSUME CohortAssumption ==
    /\ 1 <= Lo /\ Lo <= Hi /\ Hi <= Len(Run)
    /\ MinCohort \in Nat \ {0, 1} /\ MinKeys \in Nat \ {0}

VARIABLES
    byPath,      \* the cohort is given as paths, not as traces and sidecars
    offered,     \* the recordings the caller has, in order
    cohort,      \* traces of the verifier, with the sidecars still to merge
    disposed,    \* recommend_mem_disposition, per external input
    varying,     \* cohort_staging_advisory: sites whose address varies
    diagnosed    \* diagnose_opaque_staging, with the chain derived from it

cohortVars == <<byPath, offered, cohort, disposed, varying, diagnosed>>

NoDiagnosis ==
    [verdict |-> "none", blind |-> {}, stores |-> {}, chain |-> {}, staged |-> {}]

CohortInit ==
    /\ byPath \in BOOLEAN
    /\ offered = <<>> /\ cohort = <<>>
    /\ disposed = [a \in LiveIn |-> "none"]
    /\ varying = {} /\ diagnosed = NoDiagnosis

-----------------------------------------------------------------------------
(* The instruction an event belongs to: the one of its step, else the      *)
(* first one of its pc, 0 when there is neither.                           *)
AlignedAt(items, e) ==
    LET same == {i \in DOMAIN items : items[i].pc = e.pc}
    IN  IF e.idx \in DOMAIN items THEN e.idx
        ELSE IF same = {} THEN 0 ELSE Min(same)

(* merge_trace_sources: the events of a step behind what it has recorded.  *)
WithEvents(items, events) ==
    LET at(i) == SelectSeq(events, LAMBDA e : AlignedAt(items, e) = i)
        access(e) == [rw |-> e.rw, addr |-> e.addr, val |-> e.val]
    IN  [i \in DOMAIN items |->
            [items[i] EXCEPT !.mem =
                @ \o [k \in DOMAIN at(i) |-> access(at(i)[k])]]]

(* load_cohort_traces, one vector: what cannot be read is an empty trace   *)
(* that keeps its place, one without a sidecar is loaded bare.             *)
LoadedVector(v) ==
    IF ~v.readable \/ v.sidecar = "bad" THEN <<>>
    ELSE WithEvents(v.items, IF v.sidecar = "ok" THEN v.events ELSE <<>>)

(* _merge_cohort_mem_sidecars: a sidecar that cannot be read leaves the    *)
(* trace of the caller as it is.                                           *)
MergedVector(c) ==
    IF c.late = "ok" THEN WithEvents(c.items, c.events) ELSE c.items

InWindow(items) == DOMAIN items \cap (Lo..Hi)

(* assess_trace_observability: a dimension that a twentieth of the window  *)
(* carries is observed; an empty window carries none.                      *)
Sufficient(window, seen) ==
    window # {} /\ Cardinality(seen) * 20 >= Cardinality(window)

MemObserved(items) ==
    Sufficient(InWindow(items), {i \in InWindow(items) : items[i].mem # <<>>})

(* _cohort_loaded_values: the value of the first recorded load of the      *)
(* address in the window, as a set of at most one element.                 *)
LoadedValue(items, a) ==
    LET loads(i) == {k \in DOMAIN items[i].mem :
                        items[i].mem[k].rw = "r" /\ items[i].mem[k].addr = a}
        steps == {i \in InWindow(items) : loads(i) # {}}
    IN  IF steps = {} THEN {}
        ELSE {items[Min(steps)].mem[Min(loads(Min(steps)))].val}

(* Slip: one vector that is not observable vetoes the cohort, as it did    *)
(* before the judgement on a subset was introduced.                        *)
ComparedAllOrNone(traces) ==
    IF \A k \in DOMAIN traces : MemObserved(traces[k])
    THEN DOMAIN traces ELSE {}

(* The vectors the values are compared over: all of them, or the           *)
(* observable ones.                                                        *)
ComparedVectors(traces) == {k \in DOMAIN traces : MemObserved(traces[k])}

(* recommend_mem_disposition for one input: "symbolize" (auto) when the    *)
(* value varies, "back" (recommended) when it does not, "none" when a gate *)
(* stands before the comparison.  The distinct keys are counted over all   *)
(* the vectors, the judged ones or not.                                    *)
Disposition(a) ==
    LET traces == [k \in DOMAIN cohort |-> MergedVector(cohort[k])]
        seen == {k \in ComparedVectors(traces) : LoadedValue(traces[k], a) # {}}
        values == UNION {LoadedValue(traces[k], a) : k \in seen}
    IN  IF \/ Cardinality(ComparedVectors(traces)) < MinCohort
           \/ Cardinality({cohort[k].key : k \in DOMAIN cohort}) < MinKeys
           \/ Cardinality(seen) < MinCohort
        THEN "none"
        ELSE IF Cardinality(values) > 1 THEN "symbolize" ELSE "back"

-----------------------------------------------------------------------------
(* _cohort_pc_ea_values: the first address a site touches, per trace.      *)
SiteAddress(items, pc, rw) ==
    LET at(i) == {k \in DOMAIN items[i].mem : items[i].mem[k].rw = rw}
        steps == {i \in InWindow(items) : items[i].pc = pc /\ at(i) # {}}
    IN  IF steps = {} THEN {}
        ELSE {items[Min(steps)].mem[Min(at(Min(steps)))].addr}

(* cohort_staging_advisory: the sites with more than one such address.     *)
VaryingSites ==
    LET traces == {cohort[k].items : k \in DOMAIN cohort}
        pcs == UNION {{t[i].pc : i \in InWindow(t)} : t \in traces}
        reach(s) == UNION {SiteAddress(t, s[1], s[2]) : t \in traces}
    IN  IF Len(cohort) < 2 THEN {}
        ELSE {s \in pcs \X {"r", "w"} : Cardinality(reach(s)) > 1}

(* _cohort_ea_values: the first address a load of this pc read, anywhere   *)
(* in the trace and not in the window only.                                *)
LoadAddress(items, pc) ==
    LET reads(i) == {k \in DOMAIN items[i].mem : items[i].mem[k].rw = "r"}
        steps == {i \in DOMAIN items :
                    items[i].pc = pc /\ items[i].op = "load" /\ reads(i) # {}}
    IN  IF steps = {} THEN {}
        ELSE {items[Min(steps)].mem[Min(reads(Min(steps)))].addr}

(* _ea_is_symbolic, from the roots forward: after step i these registers   *)
(* hold an input, a loaded value, or something computed from one.          *)
SymbolicAfter ==
    LET after[i \in (Lo - 1)..Hi] ==
            IF i = Lo - 1 THEN Roots
            ELSE Roots \cup (after[i - 1] \ Run[i].writes)
                 \cup (IF Run[i].op = "load" \/ Run[i].deps \cap after[i - 1] # {}
                       THEN Run[i].writes ELSE {})
    IN  after

(* audit_address_closure, likewise: after step i nothing concrete stands   *)
(* behind these; a live-in register has none, sp always has.               *)
OpenAfter ==
    LET regs == UNION {Run[i].ea \cup Run[i].deps : i \in Lo..Hi}
        from(i, open) == IF Run[i].op = "load"
                         THEN Run[i].mem = <<>> \/ Run[i].ea \cap open # {}
                         ELSE Run[i].deps \cap open # {}
        after[i \in (Lo - 1)..Hi] ==
            IF i = Lo - 1 THEN regs \ {"sp"}
            ELSE ((after[i - 1] \ Run[i].writes)
                  \cup (IF from(i, after[i - 1]) THEN Run[i].writes ELSE {})) \ {"sp"}
    IN  after

(* The loads to explain: the first load of the pc of every blind leg, and  *)
(* every load whose address is symbolic.                                   *)
BlindLoads ==
    LET loads == {i \in Lo..Hi : Run[i].op = "load"}
        legs == {i \in Lo..Hi : /\ Run[i].op \in {"load", "store"}
                                /\ Run[i].ea \cap OpenAfter[i - 1] # {}}
        ofPc(i) == {j \in loads : Run[j].pc = Run[i].pc}
    IN  {Min(ofPc(i)) : i \in {l \in legs : ofPc(l) # {}}}
        \cup {i \in loads : Run[i].ea \cap SymbolicAfter[i - 1] # {}}

AddressVaries(i) ==
    LET traces == {k \in DOMAIN cohort : LoadAddress(cohort[k].items, Run[i].pc) # {}}
    IN  Cardinality(UNION {LoadAddress(cohort[k].items, Run[i].pc) : k \in traces}) > 1

(* The verdict of diagnose_opaque_staging.                                 *)
StagingVerdict ==
    LET written == {i \in Lo..Hi : Run[i].writes # {}}
    IN  IF BlindLoads = {} THEN "inconclusive"
        ELSE IF \E i \in BlindLoads : \/ Run[i].ea \cap SymbolicAfter[i - 1] # {}
                                      \/ AddressVaries(i)
        THEN "symbolic_address"
        ELSE IF Sufficient(Lo..Hi, written) THEN "known_addr" ELSE "inconclusive"

(* The steps of the stores that fill the staging bytes: those of the first *)
(* recording of the cohort, of the run itself when that one stores nothing.*)
StagingStores ==
    LET addrs(items, i) == {items[i].mem[k].addr : k \in
                              {x \in DOMAIN items[i].mem : items[i].mem[x].rw = "w"}}
        firsts(items) == {i \in InWindow(items) : \E a \in addrs(items, i) :
                            \A j \in InWindow(items) : a \in addrs(items, j) => i <= j}
        reference == IF cohort = <<>> THEN {} ELSE firsts(cohort[1].items)
    IN  IF reference = {} THEN firsts(Run) ELSE reference

(* derive_pointer_chain: the address registers of those steps that are     *)
(* stores of the run.                                                      *)
PointerChain ==
    UNION {Run[i].ea : i \in {j \in StagingStores \cap (Lo..Hi) : Run[j].op = "store"}}

(* resolve_staging_address: what the stores that read a register of the    *)
(* chain wrote.                                                            *)
StagedAddresses ==
    LET stores == {i \in Lo..Hi : Run[i].op = "store" /\ Run[i].deps \cap PointerChain # {}}
    IN  IF PointerChain = {} THEN {}
        ELSE UNION {{Run[i].mem[k].addr : k \in
                       {x \in DOMAIN Run[i].mem : Run[i].mem[x].rw = "w"}} : i \in stores}

-----------------------------------------------------------------------------
(* The caller records another vector.                                      *)
OfferVector(v) ==
    /\ Len(offered) < MaxCohort
    /\ byPath \/ v.readable
    /\ offered' = Append(offered, v)
    /\ UNCHANGED <<byPath, cohort, disposed, varying, diagnosed>>

(* run_recovery: paths are loaded and merged once; traces are taken as     *)
(* they are and their sidecars merged where the values are compared.       *)
TakeCohort ==
    /\ Len(offered) > Len(cohort)
    /\ cohort' = [k \in DOMAIN offered |->
                    IF byPath
                    THEN [key |-> offered[k].key, items |-> LoadedVector(offered[k]),
                          late |-> "none", events |-> <<>>]
                    ELSE [key |-> offered[k].key, items |-> offered[k].items,
                          late |-> offered[k].sidecar, events |-> offered[k].events]]
    /\ UNCHANGED <<byPath, offered, disposed, varying, diagnosed>>

(* _mem_disposition_recs: without a cohort nothing is recommended.         *)
RecommendDispositions ==
    /\ cohort # <<>>
    /\ disposed' = [a \in LiveIn |-> Disposition(a)]
    /\ UNCHANGED <<byPath, offered, cohort, varying, diagnosed>>

AdviseStaging ==
    /\ varying' = VaryingSites
    /\ UNCHANGED <<byPath, offered, cohort, disposed, diagnosed>>

(* The verifier on an opaque result.                                       *)
DiagnoseStaging ==
    /\ diagnosed' = [verdict |-> StagingVerdict, blind |-> BlindLoads,
                     stores |-> StagingStores, chain |-> PointerChain,
                     staged |-> StagedAddresses]
    /\ UNCHANGED <<byPath, offered, cohort, disposed, varying>>

CohortNext ==
    \/ \E v \in Vectors : OfferVector(v)
    \/ TakeCohort \/ RecommendDispositions \/ AdviseStaging \/ DiagnoseStaging

CohortSpec == CohortInit /\ [][CohortNext]_cohortVars

-----------------------------------------------------------------------------
(* More recordings never take back what fewer have shown: an input found   *)
(* to vary is symbolized for good and an address found to be symbolic      *)
(* stays so, however many vectors without a usable recording follow        *)
(* (_cohort.py, recommend_mem_disposition: "judging on the observable      *)
(* subset").                                                               *)
VarianceIsKept ==
    [][/\ \A a \in LiveIn : disposed[a] = "symbolize" => disposed'[a] = "symbolize"
       /\ diagnosed.verdict = "symbolic_address"
              => diagnosed'.verdict = "symbolic_address"
       /\ varying \subseteq varying']_cohortVars
=============================================================================
