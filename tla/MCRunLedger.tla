---------------------------- MODULE MCRunLedger ----------------------------
(***************************************************************************)
(* Small runs: one or two fingerprints, one scanned handler, one guess.    *)
(***************************************************************************)
EXTENDS RunLedger

MCVerdict == [c \in Claims |-> IF c = "weak_magic" THEN "inconclusive"
                               ELSE IF c = "guess" THEN "fail" ELSE "pass"]

MCPassLists == {<<"plugin", "handler", "algorithm">>, <<"plugin", "algorithm">>}
=============================================================================
