----------------------------- MODULE MCAnalysis -----------------------------
(***************************************************************************)
(* The analyses of the engine side by side: the passes over a trace, the   *)
(* recovery drive and its windows, the symbolic execution set-up, cohort,  *)
(* ledger and stamp.  They keep no state in common, so a behaviour runs    *)
(* one of them and a run checks them all.                                  *)
(***************************************************************************)
EXTENDS MCIdiomPasses, DerivedFindings, CvdDrive, Recapture, MCRecoveryWindows, SymexDrive,
        CvdLedger, ClosureStamp, CohortEvidence

VARIABLE active   \* the component that runs

-----------------------------------------------------------------------------
(* DerivedFindings: a hash whose anchors a later rescan moves, and keys    *)
(* that repeat, that are zero, and that are too short.                     *)
MCAnchors == {"Sigma0", "sigma1", "HMAC.ipad"}
MCTemplate ==
    [sha |-> [anchors |-> {"Sigma0", "sigma1"}, min |-> 1, vectors |-> 1],
     aes |-> [anchors |-> {"HMAC.ipad", "sigma1"}, min |-> 2, vectors |-> 0]]
MCMode == [HMAC |-> [applies |-> {"sha"}, needles |-> {"HMAC.ipad", "HMAC.opad"}]]
TableLoad(b, e, s) == [base |-> b, bytes |-> e, scaled |-> s]
KeyWindow(a, s, r, z) == [at |-> a, size |-> s, repeats |-> r, zeros |-> z]
MCRecordings ==
    {[loads |-> <<TableLoad(1, 4, TRUE), TableLoad(1, 4, TRUE), TableLoad(1, 8, FALSE)>>,
      families |-> [sha |-> <<1, 5>>, aes |-> <<4, 9>>],
      windows |-> {KeyWindow(0, 24, 0, 0), KeyWindow(0, 32, 3, 0), KeyWindow(4, 24, 2, 0)},
      immediates |-> {}],
     [loads |-> <<TableLoad(1, 4, TRUE)>>, families |-> [sha |-> <<1, 5>>],
      windows |-> {KeyWindow(0, 16, 0, 0), KeyWindow(8, 32, 0, 9)}, immediates |-> {"HMAC.opad"}]}

(* CvdDrive: a sink found at once, one a wider look finds, what they spawn.*)
MCKindOf == [s1 |-> "sink", s2 |-> "sink", p |-> "provenance", h |-> "heavy_probe"]
MCSpawnOf == [s1 |-> {"p"}, s2 |-> {"s1"}, p |-> {}, h |-> {}]
MCGeneratedAt == [i \in 0..1 |-> IF i = 0 THEN {"s1"} ELSE {"s1", "s2"}]

(* Recapture: chains through a buffer, a stream, a call, a read, an edge.  *)
Instr(r, w, d, c, o) == [reads |-> r, writes |-> w, deps |-> d, call |-> c, output |-> o]
RecaptureCase(trace, edge, known) == [trace |-> trace, edge |-> edge, sinkKnown |-> known]
MCCases ==
    {RecaptureCase(<<Instr({3}, {}, {}, FALSE, FALSE), Instr({4}, {}, {1}, FALSE, FALSE),
                     Instr({}, {1, 2}, {1, 2}, FALSE, FALSE)>>, 0, TRUE),
     RecaptureCase(<<Instr({3}, {}, {}, FALSE, FALSE), Instr({}, {1}, {1}, FALSE, FALSE)>>, 0, TRUE),
     RecaptureCase(<<Instr({3}, {1, 2}, {}, FALSE, TRUE), Instr({}, {1, 2}, {}, FALSE, FALSE)>>, 0, TRUE),
     RecaptureCase(<<Instr({}, {}, {}, TRUE, FALSE), Instr({1, 2}, {}, {}, FALSE, FALSE)>>, 0, TRUE),
     RecaptureCase(<<Instr({}, {3}, {}, FALSE, TRUE)>>, 0, TRUE),
     RecaptureCase(<<Instr({}, {3}, {}, FALSE, FALSE)>>, 3, TRUE),
     RecaptureCase(<<Instr({3}, {}, {}, FALSE, FALSE)>>, 0, FALSE)}

(* SymexDrive: windows that run, that need a callback, that stay blind.    *)
WindowItem(op, r, w, a, l, s) ==
    [op |-> op, reads |-> r, writes |-> w, addr |-> a, loads |-> l, stores |-> s]
NoBacking == [regs |-> {}, addrs |-> {}]
BaseBacking == [regs |-> {"b"}, addrs |-> {}]
SymexCase(win, rf, sr, bk, sm, sys, loc, cb, st) ==
    [window |-> win, regs |-> {"x", "y", "b"}, regFile |-> rf, symRegs |-> sr, backing |-> bk,
     symMem |-> sm, systematic |-> sys, located |-> loc, callback |-> cb, staging |-> st]
LoadMix == <<WindowItem("load", {"b"}, {"y"}, {"b"}, {1}, {}),
             WindowItem("alu", {"x", "y"}, {"x"}, {}, {}, {}),
             WindowItem("store", {"x", "b"}, {}, {"b"}, {}, {2})>>
LoadTwo == <<WindowItem("load", {"b"}, {"y"}, {"b"}, {1}, {}),
             WindowItem("load", {"y"}, {"x"}, {"y"}, {2}, {}),
             WindowItem("alu", {"x"}, {"x"}, {}, {}, {})>>
BlindLoad == <<WindowItem("load", {"b"}, {}, {"b"}, {}, {}),
               WindowItem("alu", {"x"}, {"x"}, {}, {}, {})>>
AllRegs == {"x", "y", "b"}
MCSymexCases ==
    {SymexCase(LoadMix, AllRegs, {}, BaseBacking, {}, FALSE, TRUE, FALSE, <<{}, {}>>),
     SymexCase(LoadTwo, AllRegs, {}, BaseBacking, {}, FALSE, TRUE, TRUE, <<{2}, {2, 3}>>),
     SymexCase(LoadTwo, AllRegs, {"x"}, NoBacking, {1}, FALSE, TRUE, FALSE, <<{2}, {2}>>),
     SymexCase(LoadMix, {"b"}, {}, BaseBacking, {1}, FALSE, TRUE, TRUE, <<{}, {}>>),
     SymexCase(BlindLoad, AllRegs, {}, NoBacking, {}, FALSE, TRUE, TRUE, <<{}, {}>>),
     SymexCase(LoadMix, AllRegs, {}, NoBacking, {}, TRUE, TRUE, FALSE, <<{}, {}>>),
     SymexCase(LoadMix, AllRegs, {"x", "b"}, BaseBacking, {}, FALSE, TRUE, FALSE, <<{}, {}>>),
     SymexCase(LoadMix, AllRegs, {}, NoBacking, {}, FALSE, FALSE, FALSE, <<{}, {}>>)}
VectorRun(k, o, p, e) == [key |-> k, observed |-> o, predicted |-> p, exec |-> e, usable |-> TRUE]
Unusable(r) == [r EXCEPT !.usable = FALSE]
MCCohortRuns ==
    {<<>>, <<VectorRun(1, 1, 1, 2), VectorRun(2, 2, 2, 3)>>,
     <<VectorRun(1, 1, 1, 1), VectorRun(2, 2, 2, 3)>>,
     <<VectorRun(1, 1, 1, 2), VectorRun(2, 2, 2, 2)>>,
     <<Unusable(VectorRun(1, 1, 1, 2)), VectorRun(1, 1, 1, 0), VectorRun(2, 2, 2, 0)>>,
     <<VectorRun(1, 1, 1, 2), VectorRun(2, 2, 2, 3), VectorRun(3, 3, 4, 4)>>,
     <<VectorRun(1, 1, 1, 1)>>,
     <<VectorRun(1, 1, 1, 2), VectorRun(2, 1, 1, 3)>>}

\* Vectors that suffice, one marked derived, one of the deriving run, bare ones.
StatedVector(k, o, e, d) == [key |-> k, observed |-> o, predicted |-> o, exec |-> e, derived |-> d]
MCRunnerVectors ==
    {<<>>, <<StatedVector(1, 1, 4, FALSE), StatedVector(2, 2, 5, FALSE)>>,
     <<StatedVector(4, 1, 0, TRUE), StatedVector(5, 2, 6, TRUE), StatedVector(2, 2, 5, FALSE)>>,
     <<StatedVector(4, 1, 1, FALSE), StatedVector(2, 1, 0, FALSE)>>}
MCGoldParities == {<<1, 2>>, <<2, 2>>}

(* CvdLedger: two calls recorded under one subject.                        *)
MCSubjectOf == [c1 |-> "s1", c2 |-> "s1"]

(* ClosureStamp: a closed run, a constant one, a primitive.                *)
Established(st, sk, pv, cp, pa, co, pr) ==
    [structural |-> st, sink |-> sk, provenance |-> pv, captured |-> cp, parity |-> pa,
     constant |-> co, primitive |-> pr]
MCWindows ==
    {Established(TRUE, "SINK_CONFIRMED", "STREAMING", "yes", "EXACT", FALSE, FALSE),
     Established(TRUE, "SINK_CONFIRMED", "STREAMING", "no", "EXACT", TRUE, FALSE),
     Established(TRUE, "OTHER", "OTHER", "unknown", "BLOCK", FALSE, TRUE)}
MCNames == {<<"output", "confirmed">>, <<"not", "closed">>, <<"map">>}

(* CohortEvidence: recordings with a sidecar, a bad one, none, unreadable. *)
Item(pc, op, ea, deps, w, mem) ==
    [pc |-> pc, op |-> op, ea |-> ea, deps |-> deps, writes |-> w, mem |-> mem]
Access(rw, a, v) == [rw |-> rw, addr |-> a, val |-> v]
MemEvent(i, pc, rw, a, v) == [idx |-> i, pc |-> pc, rw |-> rw, addr |-> a, val |-> v]
MCRun ==
    <<Item(1, "store", {"b"}, {"b", "x"}, {}, <<Access("w", 7, 1)>>),
      Item(2, "load", {"b"}, {"b"}, {"y"}, <<Access("r", 7, 1)>>),
      Item(3, "other", {}, {"y"}, {"y"}, <<>>)>>
BareRun == [i \in 1..3 |-> [MCRun[i] EXCEPT !.mem = <<>>]]
Recorded(r, s, k, i, e) == [readable |-> r, sidecar |-> s, key |-> k, items |-> i, events |-> e]
MCVectors ==
    {Recorded(TRUE, "ok", 1, BareRun, <<MemEvent(1, 1, "w", 7, 1), MemEvent(2, 2, "r", 7, 1)>>),
     Recorded(TRUE, "ok", 2, BareRun, <<MemEvent(1, 1, "w", 7, 2), MemEvent(0, 2, "r", 7, 2),
                                        MemEvent(9, 9, "r", 8, 2)>>),
     Recorded(TRUE, "ok", 3, MCRun, <<MemEvent(2, 2, "r", 6, 1)>>),
     Recorded(TRUE, "ok", 4, BareRun, <<MemEvent(1, 1, "w", 6, 1), MemEvent(2, 2, "r", 6, 1)>>),
     Recorded(TRUE, "none", 2, BareRun, <<>>), Recorded(TRUE, "bad", 1, BareRun, <<>>),
     Recorded(FALSE, "ok", 2, BareRun, <<>>)}

-----------------------------------------------------------------------------
(* What a component that does not run may start in is of no interest.      *)
AnalysisInit ==
    /\ active \in {"idiom", "derived", "drive", "recapture", "windows", "symex", "ledger", "stamp", "cohort"}
    /\ IdiomInit
    /\ active # "idiom" => recording = CHOOSE r \in [code : Programs, start : [Inputs -> Words]] : TRUE
    /\ DerivedInit
    /\ active # "derived" => recorded = (CHOOSE r \in Recordings : TRUE) /\ soPath = "readable"
    /\ CvdInit /\ (active # "drive" => tools = {} /\ armed)
    /\ RecaptureInit
    /\ active # "recapture" => case = (CHOOSE c \in Cases : TRUE) /\ varies /\ adapter
    /\ WindowsInit /\ (active # "windows" => scenario = CHOOSE s \in Scenarios : TRUE)
    /\ SymexInit /\ (active # "symex" => setup = CHOOSE s \in SymexCases : TRUE)
    /\ CohortInit /\ (active # "cohort" => byPath)
    /\ CvdLedgerInit /\ StampInit

(* One component moves and the others stand still.                         *)
AnalysisNext ==
    \/ /\ active = "idiom" /\ IdiomNext
       /\ UNCHANGED <<active, derivedVars, cvdVars, recaptureVars, windowsVars, symexVars,
                      cvdLedgerVars, export, cohortVars>>
    \/ /\ active = "derived" /\ DerivedNext
       /\ UNCHANGED <<active, idiomVars, cvdVars, recaptureVars, windowsVars, symexVars,
                      cvdLedgerVars, export, cohortVars>>
    \/ /\ active = "drive" /\ CvdNext
       /\ UNCHANGED <<active, idiomVars, derivedVars, recaptureVars, windowsVars, symexVars,
                      cvdLedgerVars, export, cohortVars>>
    \/ /\ active = "recapture" /\ RecaptureNext
       /\ UNCHANGED <<active, idiomVars, derivedVars, cvdVars, windowsVars, symexVars,
                      cvdLedgerVars, export, cohortVars>>
    \/ /\ active = "windows" /\ WindowsNext
       /\ UNCHANGED <<active, idiomVars, derivedVars, cvdVars, recaptureVars, symexVars,
                      cvdLedgerVars, export, cohortVars>>
    \/ /\ active = "symex" /\ SymexNext
       /\ UNCHANGED <<active, idiomVars, derivedVars, cvdVars, recaptureVars, windowsVars,
                      cvdLedgerVars, export, cohortVars>>
    \/ /\ active = "ledger" /\ CvdLedgerNext
       /\ UNCHANGED <<active, idiomVars, derivedVars, cvdVars, recaptureVars, windowsVars,
                      symexVars, export, cohortVars>>
    \/ /\ active = "stamp" /\ Export
       /\ UNCHANGED <<active, idiomVars, derivedVars, cvdVars, recaptureVars, windowsVars,
                      symexVars, cvdLedgerVars, cohortVars>>
    \/ /\ active = "cohort" /\ CohortNext
       /\ UNCHANGED <<active, idiomVars, derivedVars, cvdVars, recaptureVars, windowsVars,
                      symexVars, cvdLedgerVars, export>>

analysisVars ==
    <<active, idiomVars, derivedVars, cvdVars, recaptureVars, windowsVars,
      symexVars, cvdLedgerVars, export, cohortVars>>

AnalysisSpec == AnalysisInit /\ [][AnalysisNext]_analysisVars
=============================================================================
