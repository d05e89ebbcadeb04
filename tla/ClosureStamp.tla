---------------------------- MODULE ClosureStamp ----------------------------
(***************************************************************************)
(* What the windows of a run have established, which level of closure that *)
(* is, and the name its results leave under: a file name may claim a       *)
(* closure, and the content has to support it or the file says so.         *)
(***************************************************************************)
EXTENDS Naturals, Sequences

CONSTANTS
    Windows,   \* what the windows of a run may have established
    Names      \* the file names a consumer may export under, as words

ASSUME StampAssumption == \A name \in Names : DOMAIN name = 1..Len(name)

VARIABLE export  \* the file written last

StampInit == export = [name |-> <<>>, claims |-> {}, flagged |-> FALSE, supported |-> FALSE, derived |-> FALSE]


ProvenanceClosed(w) == w.captured # "no" /\ w.provenance \in {"CONTINUOUS_BUFFER", "STREAMING"}
OracleClosed(w) == w.sink = "SINK_CONFIRMED" /\ ProvenanceClosed(w) /\ w.parity = "EXACT"

Classify(w) ==
    LET class(level, trap) == [level |-> level, trap |-> trap] IN
    CASE OracleClosed(w) -> class("oracle", "NONE")
      [] ~OracleClosed(w) /\ w.constant /\ ~ProvenanceClosed(w) -> class("structural", "PSEUDO_CLOSURE_TRAP")
      [] ~OracleClosed(w) /\ w.primitive /\ ~(w.constant /\ ~ProvenanceClosed(w)) -> class("structural", "LOCAL_CLOSURE_ONLY")
      [] ~OracleClosed(w) /\ ~w.primitive /\ w.structural /\ ProvenanceClosed(w) -> class("provenance", "LOCAL_CLOSURE_ONLY")
      [] ~OracleClosed(w) /\ ~w.primitive /\ ~w.constant /\ w.structural /\ ~ProvenanceClosed(w) ->
            class("structural", "LOCAL_CLOSURE_ONLY")
      [] OTHER -> class("structural", "NONE")

\* One window closed by the oracle supports a strong name for the whole file.
Supported(payload) == \E w \in payload : Classify(w).level = "oracle"

ClaimTokens == {"confirmed", "closed", "identified", "oracle", "solved"}
Negations == {"un", "not", "non", "no", "in"}
FilenameClaims(name) ==
    {name[i] : i \in {i \in DOMAIN name : name[i] \in ClaimTokens /\ (i = 1 \/ name[i - 1] \notin Negations)}}

\* Slip: any formula at all earns the strong suffix.
SafeNameStructural(payload, outcome) ==
    <<"cvd", "gap", "map">> \o (IF \E w \in payload : w.structural THEN <<"oracle", "closed">> ELSE outcome)

SafeName(payload, outcome) ==
    <<"cvd", "gap", "map">> \o (IF Supported(payload) THEN <<"oracle", "closed">> ELSE outcome)

Mismatch(name, payload) == FilenameClaims(name) # {} /\ ~Supported(payload)

Outcomes == {<<"success">>, <<"terminal">>, <<"pending", "judgment">>, <<"collected">>, <<"budget", "exhausted">>}

\* The consumer chooses the name, or takes the one derived from the content;
\* a name that claims too much is kept, and flagged in the file.
Export ==
    /\ \E payload \in SUBSET Windows, outcome \in Outcomes, derived \in BOOLEAN :
       \E name \in IF derived THEN {SafeName(payload, outcome)} ELSE Names :
          export' = [name |-> name, claims |-> FilenameClaims(name), flagged |-> Mismatch(name, payload),
                     supported |-> Supported(payload), derived |-> derived]

StampSpec == StampInit /\ [][Export]_export

-----------------------------------------------------------------------------
(* Properties.                                                             *)

\* A name derived from the content passes the check of names, so a file that
\* carries no flag and claims a closure has one (export_stamp.py:139-191).
DerivedNameIsHonest ==
    (export.derived \/ ~export.flagged) => (export.claims = {} \/ export.supported) /\ ~export.flagged
=============================================================================
