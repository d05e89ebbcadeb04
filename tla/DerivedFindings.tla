-------------------------- MODULE DerivedFindings --------------------------
(***************************************************************************)
(* The passes that aggregate: algorithm templates fitted to the anchors    *)
(* found so far and refitted when more arrive, the ledger of evidence for  *)
(* a mode of operation, lookup tables by their indexed loads, the timeline *)
(* of primitive families and the key-like windows of the binary's .rodata. *)
(* Anchors (fold and fingerprint findings) arrive between the passes from  *)
(* IdiomPasses, the plugins and the agent; findings are not deleted here.  *)
(***************************************************************************)
EXTENDS Integers, FiniteSets, Sequences, SequencesExt, FiniteSetsExt, BagsExt

CONSTANTS
    Anchors,     \* names of the anchors that may be found
    Template,    \* [algorithm -> [anchors, min, vectors]]
    Mode,        \* [mode -> [applies, needles]]
    Recordings,  \* [loads, families, windows, immediates]: what the trace and .rodata hold
    MinLoads,    \* MIN_LOADS
    MaxSteps     \* bound on the passes run

ASSUME DerivedAssumption ==
    /\ {MinLoads, MaxSteps} \subseteq Nat
    /\ \A a \in DOMAIN Template : Template[a].anchors \subseteq Anchors

VARIABLES
    recorded,    \* the trace and the binary of this run
    soPath,      \* "readable", "missing" or "none": the session's so_path
    anchors,     \* the anchors that have a finding
    fits,        \* [algorithm -> what its finding says, or NoFit]
    members,     \* [algorithm -> anchors linked in its finding group]
    derived,     \* a bag: the other aggregate findings
    last,        \* the pass just run
    steps

derivedVars == <<recorded, soPath, anchors, fits, members, derived, last, steps>>

Algos == DOMAIN Template
NoFit == [seen |-> {}, io |-> "none"]
Fitted == {a \in Algos : fits[a] # NoFit}

DerivedInit ==
    /\ recorded \in Recordings
    /\ soPath \in {"readable", "missing", "none"}
    /\ anchors = {}
    /\ fits = [a \in Algos |-> NoFit]
    /\ members = [a \in Algos |-> {}]
    /\ derived = EmptyBag
    /\ last = "none"
    /\ steps = 0

Step(name) == steps < MaxSteps /\ steps' = steps + 1 /\ last' = name

AnchorFound(a) ==
    /\ a \notin anchors
    /\ anchors' = anchors \union {a}
    /\ Step("anchor")
    /\ UNCHANGED <<recorded, soPath, fits, members, derived>>

-----------------------------------------------------------------------------
(* Algorithm templates.                                                    *)

Seen(a) == Template[a].anchors \intersect anchors
Enough(a) == Cardinality(Seen(a)) >= Template[a].min

\* The first canonical vector is run, if the template has one and the runner
\* can rerun at all; the two may agree, differ or the run may raise.
IoResults(a) == IF Template[a].vectors = 0 THEN {"skipped"} ELSE {"passed", "failed", "skipped", "errored"}

\* The algorithms the fit pass adds, on top of the fits it finds.
NewFits(old) == {a \in Algos : old[a] = NoFit /\ Enough(a)}

\* Slip: an existing finding is brought up to date only if it has lost
\* anchors, not when more have been found.
ShiftedOnlyDown(a) == Enough(a) /\ ~(fits[a].seen \subseteq Seen(a))
\* The finding no longer says what has been found; with too few anchors left
\* it is kept as it is.
Shifted(a) == Enough(a) /\ fits[a].seen # Seen(a)

\* Members are linked when a fit is promoted and never when it is refitted.
Refitted(update, io) ==
    /\ fits' = [a \in Algos |->
          IF a \in update \union NewFits(fits) THEN [seen |-> Seen(a), io |-> io[a]] ELSE fits[a]]
    /\ members' = [a \in Algos |-> IF a \in NewFits(fits) THEN Seen(a) ELSE members[a]]
    /\ UNCHANGED <<recorded, soPath, anchors, derived>>

FitPass(io) == Step("fit") /\ Refitted({}, io)
Refit(io) == Step("refit") /\ Refitted({a \in Fitted : Shifted(a)}, io)

\* The rescan reruns the matchers, which may find more anchors, and refits -
\* unless no fit is on record or none lacks an anchor.
Lacking == {a \in Fitted : fits[a].seen # Template[a].anchors}
Rescan(found, io) ==
    /\ Step(IF Lacking = {} THEN "idle" ELSE "rescan")
    /\ IF Lacking = {}
       THEN UNCHANGED <<recorded, soPath, anchors, fits, members, derived>>
       ELSE /\ anchors' = anchors \union found
            /\ LET seen(a) == Template[a].anchors \intersect anchors'
                   stale == {a \in Algos : Cardinality(seen(a)) >= Template[a].min
                                           /\ fits[a].seen # seen(a)}
               IN /\ fits' = [a \in Algos |-> IF a \in stale THEN [seen |-> seen(a), io |-> io[a]] ELSE fits[a]]
                  /\ members' = [a \in Algos |-> IF a \in stale \ Fitted THEN seen(a) ELSE members[a]]
            /\ UNCHANGED <<recorded, soPath, derived>>

-----------------------------------------------------------------------------
(* The other aggregates: each is promoted under its subject unless that    *)
(* subject has a finding.                                                  *)

Row(kind, subject, says) == [kind |-> kind, subject |-> subject, says |-> says]
Subjects == {<<r.kind, r.subject>> : r \in BagToSet(derived)}

Unreported(r) == <<r.kind, r.subject>> \notin Subjects

Promote(name, rows) ==
    /\ Step(name)
    /\ derived' = derived (+) SetToBag({r \in rows : Unreported(r)})
    /\ UNCHANGED <<recorded, soPath, anchors, fits, members>>

\* A needle is an anchor that was found, or an immediate the trace wrote.
Present(m) == Mode[m].needles \intersect (anchors \union recorded.immediates)
Verdict(m) ==
    LET n == Cardinality(Present(m))  total == Cardinality(Mode[m].needles) IN
    CASE n = 0 -> "MISSING"
      [] n >= total - (total \div 2) -> "PRESENT"
      [] OTHER -> "PARTIAL"
ModeRows == {Row("mode", <<m, Mode[m].applies \intersect Fitted>>, Verdict(m)) :
                m \in {k \in DOMAIN Mode : Mode[k].applies \intersect Fitted # {}}}
ModePass == Promote("mode", ModeRows)

\* Loads of one base and element size; a scaled index must fit the element.
Tables == {<<l.base, l.bytes>> : l \in {k \in Range(recorded.loads) : k.scaled}}
LoadsOf(t) == {i \in DOMAIN recorded.loads : LET l == recorded.loads[i] IN
                  l.scaled /\ <<l.base, l.bytes>> = t}
TablePass == Promote("table", {Row("table", t, "found") : t \in {u \in Tables : Cardinality(LoadsOf(u)) >= MinLoads}})

\* Families by their first hit; two that overlap are interleaved.
Overlap == \E f, g \in DOMAIN recorded.families : f # g /\
    recorded.families[f][1] <= recorded.families[g][2] /\ recorded.families[g][1] <= recorded.families[f][2]
Ordering ==
    {p \in (DOMAIN recorded.families) \X (DOMAIN recorded.families) :
        recorded.families[p[1]][1] < recorded.families[p[2]][1]}
TimelinePass ==
    Promote("timeline", IF Cardinality(DOMAIN recorded.families) < 2 THEN {}
                        ELSE {Row("timeline", Ordering, IF Overlap THEN "interleaved" ELSE "sequential")})

\* A window of n bytes, all different but for `repeats` that occur twice, has
\* log2(n) - 2 * repeats / n bits of entropy a byte: 4.5 of them leave room
\* for 8 repeats in 32 bytes, for one in 24, and are out of reach of 16.
MaxRepeats(n) == CASE n = 32 -> 8 [] n = 24 -> 1 [] n = 16 -> -1
KeyLike(w) == 5 * w.zeros <= w.size /\ w.repeats <= MaxRepeats(w.size)
\* One window an offset, the shorter size first.
Artifacts == {w \in recorded.windows : KeyLike(w) /\
                 ~\E v \in recorded.windows : KeyLike(v) /\ v.at = w.at /\ v.size < w.size}
ArtifactPass ==
    Promote("artifacts", IF soPath = "readable" THEN {Row("artifact", <<w.at, w.size>>, "candidate") : w \in Artifacts}
                         ELSE {})

-----------------------------------------------------------------------------

DerivedNext ==
    \/ \E a \in Anchors : AnchorFound(a)
    \/ \E io \in {f \in [Algos -> UNION {IoResults(a) : a \in Algos}] : \A a \in Algos : f[a] \in IoResults(a)} :
          FitPass(io) \/ Refit(io) \/ \E found \in SUBSET (Anchors \ anchors) : Rescan(found, io)
    \/ ModePass \/ TablePass \/ TimelinePass \/ ArtifactPass

DerivedSpec == DerivedInit /\ [][DerivedNext]_derivedVars

-----------------------------------------------------------------------------
(* Properties.                                                             *)

\* After a refit or an effective rescan every fit on record says what has
\* been found by then, and every algorithm with enough anchors has one
\* (_algorithm.py:199-211).
FitsAreCurrent ==
    last \in {"refit", "rescan"} =>
        \A a \in Algos : Enough(a) => fits[a].seen = Seen(a)

\* In whatever order and however often the passes run, an aggregate has one
\* finding for its subject (_algorithm.py:765-775, :937-946, :1087-1096).
AggregatedOnce ==
    \A r, s \in BagToSet(derived) :
        /\ derived[r] = 1
        /\ <<r.kind, r.subject>> = <<s.kind, s.subject>> => r = s

\* However the passes, the refit and the rescan are interleaved, what is on
\* record is current and stands there once.
DerivedIsSettled == FitsAreCurrent /\ AggregatedOnce
=============================================================================
