------------------------------ MODULE CvdLedger ------------------------------
(***************************************************************************)
(* The stamped ledger of one work directory: every call lands as a row     *)
(* keyed by what was called on what and by the execution it was called in; *)
(* the newest row of a key counts, and a later round asks it what is       *)
(* already closed.  A markdown view is written after the commit, one file  *)
(* for all executions.                                                     *)
(***************************************************************************)
EXTENDS Naturals, Sequences, SequencesExt, FiniteSets, FiniteSetsExt, Functions

CONSTANTS
    Execs,     \* execution identities
    SubjectOf, \* call (function and inputs) -> the subject it is recorded under
    Verdicts,  \* what the calls come back with
    Stamps,    \* the times a caller may stamp a row with
    MaxRows    \* bound on the rows

ASSUME LedgerAssumption ==
    /\ Stamps \subseteq Nat /\ MaxRows \in Nat

VARIABLES
    rows,      \* the table, in insertion order
    unviewed,  \* the execution whose view is to be written, after its commit
    view,      \* the view file: an execution and its map
    skipped    \* the call a round left out last, with the row it went by

cvdLedgerVars == <<rows, unviewed, view, skipped>>

Calls == DOMAIN SubjectOf
Nobody == "nobody"
NoSkip == [call |-> Nobody, exec |-> Nobody, row |-> 0]
ASSUME ExecAssumption == Nobody \notin Execs

-----------------------------------------------------------------------------
(* Rows.                                                                   *)

KindFor(verdict) ==
    CASE verdict = "SUCCESS" -> "producer"
      [] verdict = "TERMINAL_STATIC" -> "static_terminal"
      [] verdict = "NEEDS_OBSERVATION" -> "open_hypothesis"
      [] verdict = "SINK_CONFIRMED" -> "sink"
      [] OTHER -> "verdict"
Durable == {"producer", "static_terminal", "open_hypothesis", "sink", "emit", "transform", "run_summary"}
Closing(row) == row.kind \in {"producer", "static_terminal"} \/ row.verdict = "SUCCESS"



EntryKey(call, exec) == <<call, exec>>
KeyOf(row) == EntryKey(row.call, row.exec)

\* Slip: rows of one stamp are not told apart by their insertion.
BeforeByStamp(i, j) == rows[i].ts < rows[j].ts

RowBefore(i, j) == rows[i].ts < rows[j].ts \/ (rows[i].ts = rows[j].ts /\ i < j)

\* The newest row of a key, by stamp and then by insertion; 0 if there is none.
GetLatest(call, exec) ==
    LET ofKey == {i \in DOMAIN rows : KeyOf(rows[i]) = EntryKey(call, exec)} IN
    IF ofKey = {} THEN 0 ELSE CHOOSE i \in ofKey : \A j \in ofKey : ~RowBefore(i, j)

ShouldSkip(call, exec) ==
    LET i == GetLatest(call, exec) IN i # 0 /\ Closing(rows[i])

\* The rows of an execution in ascending order, the last of a key remaining.
LatestPerKey(exec) ==
    LET own == {i \in DOMAIN rows : rows[i].exec = exec}
        before(i) == {j \in own : rows[j].ts < rows[i].ts \/ (rows[j].ts = rows[i].ts /\ j < i)}
        nth(n) == CHOOSE i \in own : Cardinality(before(i)) = n - 1
        latest[n \in 0..Cardinality(own)] ==
            IF n = 0 THEN [c \in Calls |-> 0]
            ELSE [latest[n - 1] EXCEPT ![rows[nth(n)].call] = nth(n)]
    IN latest[Cardinality(own)]

ClosedSubjects(exec) ==
    {SubjectOf[c] : c \in {c \in Calls : LatestPerKey(exec)[c] # 0 /\ Closing(rows[LatestPerKey(exec)[c]])}}

\* What the view shows of an execution.
StageMap(exec) ==
    {[kind |-> rows[i].kind, subject |-> SubjectOf[rows[i].call], verdict |-> rows[i].verdict] :
        i \in {LatestPerKey(exec)[c] : c \in Calls} \ {0}}

-----------------------------------------------------------------------------
(* Recording, viewing, asking.                                             *)

CvdLedgerInit ==
    /\ rows = <<>> /\ unviewed = Nobody /\ skipped = NoSkip
    /\ view = [exec |-> Nobody, map |-> {}]

\* A transient result is not recorded, unless it is forced.
Lands(kind, force) == kind \in Durable \/ force

Land(call, exec, verdict, kind, ts, autoView) ==
    /\ Len(rows) < MaxRows
    /\ rows' = Append(rows, [call |-> call, exec |-> exec, ts |-> ts, verdict |-> verdict, kind |-> kind])
    /\ unviewed' = IF autoView THEN exec ELSE Nobody

RecordVerdict ==
    /\ unviewed = Nobody
    /\ \E call \in Calls, exec \in Execs, verdict \in Verdicts, force \in BOOLEAN, ts \in Stamps :
          /\ Lands(KindFor(verdict), force)
          /\ Land(call, exec, verdict, KindFor(verdict), ts, TRUE)
    /\ UNCHANGED <<view, skipped>>

\* The deliverable of a drive; its round's summary writes the view.
RecordEmit ==
    /\ unviewed = Nobody
    /\ \E call \in Calls, exec \in Execs, verdict \in {"PASS", "FAIL"}, ts \in Stamps :
          Land(call, exec, verdict, "emit", ts, FALSE)
    /\ UNCHANGED <<view, skipped>>

RefreshView ==
    /\ unviewed # Nobody
    /\ view' = [exec |-> unviewed, map |-> StageMap(unviewed)]
    /\ unviewed' = Nobody
    /\ UNCHANGED <<rows, skipped>>

\* The process dies, or the file cannot be written, after the commit.
ViewLost == unviewed # Nobody /\ unviewed' = Nobody /\ UNCHANGED <<rows, view, skipped>>

\* A later round leaves out a call the ledger has closed.
SkipCall ==
    /\ unviewed = Nobody
    /\ \E call \in Calls, exec \in Execs :
          /\ ShouldSkip(call, exec)
          /\ skipped' = [call |-> call, exec |-> exec, row |-> GetLatest(call, exec)]
    /\ UNCHANGED <<rows, unviewed, view>>

-----------------------------------------------------------------------------
CvdLedgerNext ==
    RecordVerdict \/ RecordEmit \/ RefreshView \/ ViewLost \/ SkipCall

CvdLedgerSpec == CvdLedgerInit /\ [][CvdLedgerNext]_cvdLedgerVars

-----------------------------------------------------------------------------
(* Properties.                                                             *)

\* The two ways a later round reads the ledger agree, although one asks for
\* the newest row of a key and the other folds all rows of the execution: a
\* call is left out exactly when the subjects reported closed contain its own
\* by a row of that call (cvd_ledger.py:426-515).
ClosedAreSkipped ==
    \A exec \in Execs :
        ClosedSubjects(exec) = {SubjectOf[c] : c \in {c \in Calls : ShouldSkip(c, exec)}}

\* A call is left out by a row of its own that closed it in the execution it
\* is asked for, never by what another call or another execution has closed,
\* whatever rows are stamped and landed after it (cvd_ledger.py:426-470).
SkippedByOwnRow ==
    skipped # NoSkip =>
        /\ skipped.row \in DOMAIN rows
        /\ LET row == rows[skipped.row] IN
              row.exec = skipped.exec /\ row.call = skipped.call /\ Closing(row)

\* The readers of the ledger agree with each other and with its rows.
ReadersAgree == ClosedAreSkipped /\ SkippedByOwnRow
=============================================================================
