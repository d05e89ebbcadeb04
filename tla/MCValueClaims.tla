--------------------------- MODULE MCValueClaims ---------------------------
(***************************************************************************)
(* Profiles with the canonical and with other orders of classes and        *)
(* scopes, constants with and without a baseline on every axis, and calls  *)
(* that bring one of them, several, an attempt or a claim of scope.        *)
(***************************************************************************)
EXTENDS ValueClaims

CanonicalScopes == <<"task_bound", "env_bound", "single_identity_bound", "cross_env">>
MCAlphabet == <<"A", "A+", "B", "C", "S">>
MCProfiles ==
    {[classes |-> <<"A", "B", "C">>, scopes |-> CanonicalScopes,
      caps |-> [c \in {"hardcoded_fixed", "per_input_variable"} |->
                  IF c = "hardcoded_fixed" THEN "A" ELSE ""]],
     [classes |-> <<"S", "A", "B", "C">>, scopes |-> <<"task_bound", "cross_env">>,
      caps |-> [c \in {"hardcoded_fixed"} |-> "S"]],
     [classes |-> <<"B", "A", "B">>, scopes |-> CanonicalScopes, caps |-> [x \in {} |-> ""]],
     [classes |-> <<>>, scopes |-> <<>>, caps |-> [x \in {} |-> ""]]}

ValueOf(src, ver, hyb, req, land) ==
    [source |-> src, verified |-> ver, hybrid |-> hyb, requested |-> req,
     landed |-> land, provenance |-> "none"]
MCRecords ==
    {ValueOf("hook", FALSE, FALSE, "A", TRUE), ValueOf("formula", TRUE, FALSE, "A", TRUE),
     ValueOf("formula", FALSE, FALSE, "A", TRUE), ValueOf("formula", TRUE, TRUE, "none", TRUE),
     ValueOf("guess", FALSE, FALSE, "A+", TRUE), ValueOf("guess", FALSE, TRUE, "A", FALSE)}

EmptyCall ==
    [constants |-> {}, values |-> {}, attempt |-> NoAttempt, audit |-> "", forked |-> FALSE,
     scope |-> NoScope]
Evidence(runs, reads) == [runs |-> runs, reads |-> reads]
StableRuns == << <<"same_session", 1>>, <<"same_session", 1>>, <<"new_session", 1>>,
                 <<"new_appkey", 1>> >>
MCConstants ==
    {Evidence(r, f) :
       r \in {<<>>, StableRuns, << <<"same_session", 1>>, <<"same_session", 2>> >>,
              Append(StableRuns, <<"new_per_input", 2>>)},
       f \in {NoFlow, {"static"}, {"static", "appkey"}, {"time"}}}
ScopeClaim(c, o, p, k, u) ==
    [claim |-> c, observed |-> o, attested |-> FALSE, proof |-> p, category |-> k, useCase |-> u]
MCCalls ==
    {[EmptyCall EXCEPT !.constants = {c}] : c \in MCConstants}
    \union {[EmptyCall EXCEPT !.constants = {Evidence(<<>>, {"static"}), Evidence(<<>>, {"time"})},
                              !.audit = g] : g \in {"", "C"}}
    \union {[EmptyCall EXCEPT !.values = vs, !.constants = {Evidence(<<>>, {"static"})}] :
              vs \in SUBSET ValueNames}
    \union {[EmptyCall EXCEPT !.attempt = [block |-> b, posture |-> p, failed |-> f]] :
              b \in GateBlocks, p \in GatePostures, f \in BOOLEAN}
    \union {[EmptyCall EXCEPT !.scope = s, !.forked = TRUE] :
              s \in {ScopeClaim("cross_env", "env_bound", FALSE, "", ""),
                     ScopeClaim("cross_env", "cross_env", FALSE, "hardcoded_fixed", "cross_context_claim"),
                     ScopeClaim("task_bound", "", TRUE, "", "cross_context_claim"),
                     ScopeClaim("fleet", "", FALSE, "", "current_context_reproduction")}}
=============================================================================
