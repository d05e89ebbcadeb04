--------------------------- MODULE VerifiedLedger ---------------------------
(***************************************************************************)
(* What the ledger promises, without passes, batches or commits: a fact    *)
(* with an origin is published only while the verdict on its origin        *)
(* stands, and facts are withdrawn only all at once, together with         *)
(* origins that have been abandoned.                                       *)
(***************************************************************************)
EXTENDS Naturals, Sequences

VARIABLES
    standing,  \* the status of each hypothesis, by id
    facts      \* the published facts, [id, origin]; origin 0: vouched by hand

Init == standing = <<>> /\ facts = {}

(* Hypotheses are raised and judged; this publishes nothing.               *)
Judge ==
    /\ Len(standing') >= Len(standing)
    /\ facts' = facts

Publish ==
    \E f \in facts' \ facts :
        /\ facts' = facts \cup {f}
        /\ \A g \in facts : g.id < f.id
        /\ f.origin # 0 => standing[f.origin] = "passed"
        /\ standing' = standing

Withdraw ==
    /\ facts' \subseteq facts
    /\ \A f \in facts \ facts' :
           f.origin # 0 /\ standing[f.origin] = "abandoned"
    /\ \A f \in facts \ facts', g \in facts' : f.origin # g.origin
    /\ standing' = standing

Next == Judge \/ Publish \/ Withdraw

Spec == Init /\ [][Next]_<<standing, facts>>
=============================================================================
