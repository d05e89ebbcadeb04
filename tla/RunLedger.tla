----------------------------- MODULE RunLedger -----------------------------
(***************************************************************************)
(* The ledger of one run: hypotheses.sqlite and findings.sqlite as the     *)
(* Core's methods write them.  Each method is a sequence of sqlite         *)
(* commits, and a step of this module is one commit (or one read whose     *)
(* result is used later), so that a crash, a failed statement or the       *)
(* `utov override` command of another process can come in between.  The    *)
(* Core itself is one actor: an RPC handler or the script-mode driver runs *)
(* to its end before the next one starts.                                  *)
(***************************************************************************)
EXTENDS Naturals, Sequences, FiniteSets

CONSTANTS
    Fingerprints,  \* the plugin hits s1b seeds, kind algo_signature
    Handlers,      \* the claims the layer-0 scanners read off the trace
    Guesses,       \* what the agent or the LLM may propose
    Algorithm,     \* the one algorithm template
    Verdict,       \* [Claims -> verdicts]: what the verifier says of a claim
    MinAnchors,    \* min_unique_anchors of the template
    ForcedTo,      \* the statuses an agent forces
    PassLists,     \* the pass lists preprocess_batch may get
    MaxHyps,       \* bound on the rows of hypotheses
    MaxFindings,   \* bound on the ids findings has handed out
    MaxBatches,    \* bound on the preprocess batches
    MaxFaults      \* bound on the deaths of a process

Claims == Fingerprints \cup Handlers \cup Guesses \cup {Algorithm}

PassNames == {"plugin", "handler", "algorithm", "s6", "s6_auto", "promote"}

HypStatus == {"pending", "verifying", "passed", "failed", "abandoned"}

(* created_in_stage; only s1b and s6 fill it, submit_hypothesis leaves NULL. *)
CreatedIn == {"none", "s1b", "s6"}

(* Slip: the verdict itself is stored where the table has no better word.  *)
StatusOfUnmapped ==
    [pass |-> "passed", fail |-> "failed", inconclusive |-> "inconclusive"]

(* mark_verdict's table.                                                   *)
StatusOf ==
    [pass |-> "passed", fail |-> "failed", inconclusive |-> "pending"]

ASSUME LedgerAssumption ==
    /\ Verdict \in [Claims -> DOMAIN StatusOf]
    /\ MinAnchors \in Nat /\ MaxHyps \in Nat
    /\ MaxFindings \in Nat /\ MaxBatches \in Nat /\ MaxFaults \in Nat
    /\ ForcedTo \subseteq HypStatus
    /\ PassLists \subseteq Seq(PassNames)
    /\ Verdict[Algorithm] = "pass"

VARIABLES
    hyps,        \* hypotheses: id -> [parent, depth, status, claim, stage]
    findings,    \* findings: rows [id, origin, batch]; origin 0 is NULL
    nextFinding, \* the AUTOINCREMENT id of the next finding
    groups,      \* finding_groups: <<parent finding, member finding>>
    seeded,      \* "s1b" is in stage_state.json
    pc,          \* where the Core's current method stands
    passes,      \* the passes still to run, the current one first
    claims,      \* the claims the current pass has still to submit
    queue,       \* the pending hyps the plugin pass has still to verify
    won,         \* the hyps with a fresh pass, still to be promoted
    flips,       \* the status flips of an intervention still to be made
    doomed,      \* cascade_hyp_ids of a rerun_from_stage
    cur,         \* the hyp the current step is about, 0 for none
    under,       \* the parent of what is being submitted, 0 for none
    batch,       \* _current_batch_id, 0 for None
    nextBatch,   \* the next fresh batch id
    cli,         \* the hyp `utov override` has flipped but not logged, or 0
    unlogged,    \* interventions: manual writes that have no row there yet
    faults       \* how often a process has died

tables == <<hyps, findings, nextFinding, groups, seeded>>
work   == <<passes, claims, queue, won, flips, doomed, cur, under>>
tags   == <<batch, nextBatch>>
vars   == <<tables, pc, work, tags, cli, unlogged, faults>>

HypIds == 1..Len(hyps)

LedgerInit ==
    /\ hyps = <<>> /\ findings = {} /\ nextFinding = 1 /\ groups = {}
    /\ seeded = FALSE
    /\ pc = "idle"
    /\ passes = <<>> /\ claims = {} /\ queue = {} /\ won = {} /\ flips = {}
    /\ doomed = {} /\ cur = 0 /\ under = 0
    /\ batch = 0 /\ nextBatch = 1
    /\ cli = 0
    /\ unlogged = {} /\ faults = 0

-----------------------------------------------------------------------------
(* HypTree.add: the row hangs one level below its parent, which must exist. *)
AddHyp(parent, c, stage) ==
    /\ Len(hyps) < MaxHyps
    /\ parent \in HypIds \cup {0}
    /\ hyps' = Append(hyps,
                  [parent |-> parent,
                   depth  |-> IF parent = 0 THEN 0 ELSE hyps[parent].depth + 1,
                   status |-> "pending", claim |-> c, stage |-> stage])

SetStatus(h, s) == hyps' = [hyps EXCEPT ![h].status = s]

(* Findings whose hypothesis is a plugin fingerprint: the anchors the      *)
(* algorithm template is matched against.                                  *)
Anchors ==
    {f \in findings : f.origin # 0 /\ hyps[f.origin].claim \in Fingerprints}

AlgorithmFindings ==
    {f \in findings : f.origin # 0 /\ hyps[f.origin].claim = Algorithm}

(* A method ends: nothing of it stays in memory.                           *)
ClearWork ==
    /\ passes' = <<>> /\ claims' = {} /\ queue' = {} /\ won' = {}
    /\ flips' = {} /\ doomed' = {} /\ cur' = 0 /\ under' = 0

Return == pc' = "idle" /\ ClearWork

-----------------------------------------------------------------------------
(* Submitting and seeding.                                                 *)

(* submit_hypothesis RPC: one commit, no interventions row.                *)
Submit(parent, c) ==
    /\ pc = "idle"
    /\ AddHyp(parent, c, "none")
    /\ UNCHANGED <<findings, nextFinding, groups, seeded, pc, work, tags,
                   cli, unlogged, faults>>

(* run_stage("s1b"): skipped when already done; otherwise one commit per   *)
(* fingerprint and the done mark last.                                     *)
SeedStart ==
    /\ pc = "idle"
    /\ ~seeded
    /\ Len(hyps) + Cardinality(Fingerprints) <= MaxHyps
    /\ pc' = "seed"
    /\ claims' = Fingerprints
    /\ UNCHANGED <<tables, passes, queue, won, flips, doomed, cur, under,
                   tags, cli, unlogged, faults>>

SeedOne(c) ==
    /\ pc = "seed"
    /\ c \in claims
    /\ AddHyp(0, c, "s1b")
    /\ claims' = claims \ {c}
    /\ UNCHANGED <<findings, nextFinding, groups, seeded, pc, passes, queue,
                   won, flips, doomed, cur, under, tags, cli, unlogged, faults>>

SeedDone ==
    /\ pc = "seed"
    /\ claims = {}
    /\ seeded' = TRUE
    /\ Return
    /\ UNCHANGED <<hyps, findings, nextFinding, groups, tags, cli, unlogged, faults>>

-----------------------------------------------------------------------------
(* Verify-and-promote passes.                                              *)

(* A verify_* RPC.                                                         *)
StartPass(p) ==
    /\ pc = "idle"
    /\ pc' = "pass"
    /\ passes' = <<p>>
    /\ UNCHANGED <<tables, claims, queue, won, flips, doomed, cur, under,
                   tags, cli, unlogged, faults>>

(* preprocess_batch: what its passes promote carries a fresh tag.          *)
StartBatch(list) ==
    /\ pc = "idle"
    /\ nextBatch <= MaxBatches
    /\ batch' = nextBatch
    /\ nextBatch' = nextBatch + 1
    /\ pc' = "pass"
    /\ passes' = list
    /\ UNCHANGED <<tables, claims, queue, won, flips, doomed, cur, under,
                   cli, unlogged, faults>>

(* verify_and_promote_plugin_findings reads its work list once.            *)
BeginPlugin ==
    /\ pc = "pass" /\ passes # <<>> /\ Head(passes) = "plugin"
    /\ queue' = {h \in HypIds : /\ hyps[h].status = "pending"
                                /\ hyps[h].claim \in Fingerprints}
    /\ pc' = "verify"
    /\ UNCHANGED <<tables, passes, claims, won, flips, doomed, cur, under,
                   tags, cli, unlogged, faults>>

(* Only what the verifier passes is submitted by a handler pass.           *)
BeginHandler ==
    /\ pc = "pass" /\ passes # <<>> /\ Head(passes) = "handler"
    /\ claims' = {c \in Handlers : Verdict[c] = "pass"}
    /\ pc' = "scan"
    /\ UNCHANGED <<tables, passes, queue, won, flips, doomed, cur, under,
                   tags, cli, unlogged, faults>>

(* verify_and_promote_algorithm_templates: fit once, and only on enough    *)
(* distinct anchors.                                                       *)
BeginAlgorithm ==
    /\ pc = "pass" /\ passes # <<>> /\ Head(passes) = "algorithm"
    /\ claims' =
          IF /\ AlgorithmFindings = {}
             /\ Cardinality({hyps[f.origin].claim : f \in Anchors}) >= MinAnchors
          THEN {Algorithm} ELSE {}
    /\ pc' = "scan"
    /\ UNCHANGED <<tables, passes, queue, won, flips, doomed, cur, under,
                   tags, cli, unlogged, faults>>

(* s6_propose_and_verify (no promotion) and s6_auto_loop.                  *)
StartS6(parent, cands, pass) ==
    /\ pc = "idle"
    /\ parent \in HypIds \cup {0}
    /\ pass \in {"s6", "s6_auto"}
    /\ Len(hyps) + Cardinality(cands) <= MaxHyps
    /\ pc' = "scan"
    /\ passes' = <<pass>>
    /\ claims' = cands
    /\ under' = parent
    /\ UNCHANGED <<tables, queue, won, flips, doomed, cur, tags, cli, unlogged, faults>>

(* The promote_to_finding RPC.                                             *)
StartPromote(h) ==
    /\ pc = "idle"
    /\ pc' = "promote"
    /\ passes' = <<"promote">>
    /\ won' = {h}
    /\ UNCHANGED <<tables, claims, queue, flips, doomed, cur, under, tags,
                   cli, unlogged, faults>>

(* One plugin hyp, lowest id first: the verdict is committed; promotions   *)
(* come when all are verified.                                             *)
Verify(h) ==
    /\ pc = "verify"
    /\ h \in queue /\ \A g \in queue : h <= g
    /\ SetStatus(h, StatusOf[Verdict[hyps[h].claim]])
    /\ queue' = queue \ {h}
    /\ won' = IF Verdict[hyps[h].claim] = "pass" THEN won \cup {h} ELSE won
    /\ UNCHANGED <<findings, nextFinding, groups, seeded, pc, passes, claims,
                   flips, doomed, cur, under, tags, cli, unlogged, faults>>

VerifyDone ==
    /\ pc = "verify" /\ queue = {}
    /\ pc' = "promote"
    /\ UNCHANGED <<tables, work, tags, cli, unlogged, faults>>

ScanOne(c) ==
    /\ pc = "scan"
    /\ c \in claims
    /\ AddHyp(under, c, IF Head(passes) \in {"s6", "s6_auto"} THEN "s6" ELSE "none")
    /\ claims' = claims \ {c}
    /\ cur' = Len(hyps) + 1
    /\ pc' = "mark"
    /\ UNCHANGED <<findings, nextFinding, groups, seeded, passes, queue, won,
                   flips, doomed, under, tags, cli, unlogged, faults>>

(* mark_verdict of the fresh row.  A pass promotes it at once; s6 first    *)
(* goes through its other candidates.                                      *)
Mark ==
    /\ pc = "mark"
    /\ SetStatus(cur, StatusOf[Verdict[hyps[cur].claim]])
    /\ won' = IF Verdict[hyps[cur].claim] = "pass" THEN won \cup {cur} ELSE won
    /\ pc' = IF Head(passes) \in {"s6", "s6_auto"} THEN "scan" ELSE "promote"
    /\ cur' = 0
    /\ UNCHANGED <<findings, nextFinding, groups, seeded, passes, claims,
                   queue, flips, doomed, under, tags, cli, unlogged, faults>>

(* The scan is over; s6_auto_loop promotes what passed.                    *)
ScanDone ==
    /\ pc = "scan" /\ claims = {}
    /\ pc' = IF Head(passes) = "s6_auto" THEN "promote" ELSE "pass"
    /\ passes' = IF Head(passes) = "s6_auto" THEN passes ELSE Tail(passes)
    /\ won' = IF Head(passes) = "s6_auto" THEN won ELSE {}
    /\ under' = 0
    /\ UNCHANGED <<tables, claims, queue, flips, doomed, cur, tags, cli,
                   unlogged, faults>>

(* Slip: promotion takes the caller's word for the verdict.                *)
PromoteReadUnchecked(h) ==
    /\ pc = "promote"
    /\ h \in won /\ \A g \in won : h <= g
    /\ pc' = "insert" /\ cur' = h
    /\ UNCHANGED <<tables, passes, claims, queue, won, flips, doomed, under,
                   tags, cli, unlogged, faults>>

(* promote_to_finding, first half: the status is read on a connection that *)
(* is closed again; a hyp that is not passed is skipped (ValueError).      *)
PromoteRead(h) ==
    /\ pc = "promote"
    /\ h \in won /\ \A g \in won : h <= g
    /\ IF hyps[h].status = "passed"
       THEN pc' = "insert" /\ cur' = h /\ UNCHANGED won
       ELSE won' = won \ {h} /\ UNCHANGED <<pc, cur>>
    /\ UNCHANGED <<tables, passes, claims, queue, flips, doomed, under, tags,
                   cli, unlogged, faults>>

(* Second half: the finding is inserted on another connection.             *)
Insert ==
    /\ pc = "insert"
    /\ nextFinding <= MaxFindings
    /\ findings' = findings \cup
                      {[id |-> nextFinding, origin |-> cur, batch |-> batch]}
    /\ nextFinding' = nextFinding + 1
    /\ won' = won \ {cur}
    /\ pc' = IF Head(passes) = "algorithm" THEN "link" ELSE "promote"
    /\ cur' = 0
    /\ UNCHANGED <<hyps, groups, seeded, passes, claims, queue, flips, doomed,
                   under, tags, cli, unlogged, faults>>

(* link_finding_group_members: the template's finding gets every anchor it *)
(* was fitted on as a member.                                              *)
Link ==
    /\ pc = "link"
    /\ groups' = groups \cup {<<nextFinding - 1, a.id>> : a \in Anchors}
    /\ pc' = "promote"
    /\ UNCHANGED <<hyps, findings, nextFinding, seeded, work, tags, cli,
                   unlogged, faults>>

(* Nothing left to promote: a scanning pass goes on, the others are over.  *)
PromoteDone ==
    /\ pc = "promote" /\ won = {}
    /\ IF Head(passes) \in {"handler", "algorithm"}
       THEN pc' = "scan" /\ UNCHANGED passes
       ELSE pc' = "pass" /\ passes' = Tail(passes)
    /\ UNCHANGED <<tables, claims, queue, won, flips, doomed, cur, under, tags,
                   cli, unlogged, faults>>

(* Any other exception ends the pass where it stands; preprocess_batch     *)
(* catches it and goes on with the next one.                               *)
PassRaises ==
    /\ pc \in {"pass", "verify", "scan", "mark", "promote", "insert", "link"}
    /\ passes # <<>>
    /\ pc' = "pass"
    /\ passes' = Tail(passes)
    /\ claims' = {} /\ queue' = {} /\ won' = {} /\ cur' = 0 /\ under' = 0
    /\ UNCHANGED <<tables, flips, doomed, tags, cli, unlogged, faults>>

(* Slip: the tag is not reset.                                             *)
PassesDoneKeepsTag ==
    /\ pc = "pass" /\ passes = <<>>
    /\ Return
    /\ UNCHANGED <<tables, tags, cli, unlogged, faults>>

(* preprocess_batch's finally, or the RPC's return.                        *)
PassesDone ==
    /\ pc = "pass" /\ passes = <<>>
    /\ Return
    /\ batch' = 0
    /\ UNCHANGED <<tables, nextBatch, cli, unlogged, faults>>

-----------------------------------------------------------------------------
(* Interventions: each flip is one commit, its interventions row another.  *)

StartFlips(F) ==
    /\ pc = "idle"
    /\ pc' = "flip"
    /\ flips' = F
    /\ UNCHANGED <<tables, passes, claims, queue, won, doomed, cur, under,
                   tags, cli, unlogged, faults>>

(* override_verdict and batch_override_verdict.                            *)
OverrideVerdict(H, v) ==
    StartFlips({[hyp |-> h, to |-> StatusOf[v], lazy |-> FALSE] : h \in H})

ForceStatus(h, s) ==
    StartFlips({[hyp |-> h, to |-> s, lazy |-> FALSE]})

(* discard_batch: fail the hypothesis behind every finding of the batch.   *)
DiscardBatch(b) ==
    StartFlips({[hyp |-> f.origin, to |-> "failed", lazy |-> FALSE] :
                   f \in {g \in findings : g.batch = b /\ g.origin # 0}})

Members(f) == {m \in findings : <<f.id, m.id>> \in groups}

(* invalidate_cluster: the parent's hypothesis fails, its members' go back *)
(* to pending; what is there already is not written again.                 *)
InvalidateCluster(f) ==
    StartFlips({[hyp |-> g.origin, to |-> "failed", lazy |-> TRUE] :
                   g \in {f} \ {x \in findings : x.origin = 0}}
               \cup
               {[hyp |-> m.origin, to |-> "pending", lazy |-> TRUE] :
                   m \in {x \in Members(f) : x.origin # 0}})

(* Slip: the flip is written, its row forgotten.                           *)
FlipUnrecorded(f) ==
    /\ pc = "flip"
    /\ f \in flips
    /\ flips' = flips \ {f}
    /\ SetStatus(f.hyp, f.to)
    /\ unlogged' = unlogged \cup {<<"core", "hyp", f.hyp>>}
    /\ UNCHANGED <<findings, nextFinding, groups, seeded, pc, passes, claims,
                   queue, won, doomed, cur, under, tags, cli, faults>>

(* Slip: what was flipped stays on the work list.                          *)
FlipAgain(f) ==
    /\ pc = "flip"
    /\ f \in flips
    /\ SetStatus(f.hyp, f.to)
    /\ cur' = f.hyp
    /\ pc' = "record"
    /\ unlogged' = unlogged \cup {<<"core", "hyp", f.hyp>>}
    /\ UNCHANGED <<findings, nextFinding, groups, seeded, passes, claims,
                   queue, won, flips, doomed, under, tags, cli, faults>>

Flip(f) ==
    /\ pc = "flip"
    /\ f \in flips
    /\ f.lazy /\ f.to = "pending" => \A g \in flips : g.to = "pending"
    /\ flips' = flips \ {f}
    /\ IF f.lazy /\ hyps[f.hyp].status = f.to
       THEN UNCHANGED <<hyps, cur, pc, unlogged>>
       ELSE /\ SetStatus(f.hyp, f.to)
            /\ cur' = f.hyp
            /\ pc' = "record"
            /\ unlogged' = unlogged \cup {<<"core", "hyp", f.hyp>>}
    /\ UNCHANGED <<findings, nextFinding, groups, seeded, passes, claims,
                   queue, won, doomed, under, tags, cli, faults>>

Record ==
    /\ pc = "record"
    /\ unlogged' = unlogged \ {<<"core", "hyp", cur>>}
    /\ pc' = "flip"
    /\ cur' = 0
    /\ UNCHANGED <<tables, passes, claims, queue, won, flips, doomed, under,
                   tags, cli, faults>>

FlipsDone ==
    /\ pc = "flip" /\ flips = {}
    /\ Return
    /\ UNCHANGED <<tables, tags, cli, unlogged, faults>>

(* inject_finding of a kind that anchors no template: a finding without a  *)
(* hypothesis, then its row.                                               *)
InjectFinding ==
    /\ pc = "idle"
    /\ nextFinding <= MaxFindings
    /\ findings' = findings \cup
                      {[id |-> nextFinding, origin |-> 0, batch |-> 0]}
    /\ nextFinding' = nextFinding + 1
    /\ unlogged' = unlogged \cup {<<"core", "finding", nextFinding>>}
    /\ pc' = "recordFinding"
    /\ UNCHANGED <<hyps, groups, seeded, work, tags, cli, faults>>

RecordFinding ==
    /\ pc = "recordFinding"
    /\ unlogged' = unlogged \ {<<"core", "finding", nextFinding - 1>>}
    /\ Return
    /\ UNCHANGED <<tables, tags, cli, faults>>

-----------------------------------------------------------------------------
(* rerun_from_stage.                                                       *)

(* Slip: every rerun forgets that s1b was done.                            *)
RerunResetsAll(stage) ==
    /\ pc = "idle"
    /\ seeded' = FALSE
    /\ doomed' = {h \in HypIds :
                     hyps[h].stage \in (IF stage = "s6" THEN {"s6"}
                                                       ELSE {"s1b", "s6"})}
    /\ pc' = "abandon"
    /\ UNCHANGED <<hyps, findings, nextFinding, groups, passes, claims, queue,
                   won, flips, cur, under, tags, cli, unlogged, faults>>

(* Of the cascade s1 s1b s2 .. s6 only s1b and s6 own hypotheses, so a     *)
(* rerun from s1 is one from s1b and one from s2 .. s5 is one from s6.     *)
Rerun(stage) ==
    /\ pc = "idle"
    /\ seeded' = (seeded /\ stage = "s6")
    /\ doomed' = {h \in HypIds :
                     hyps[h].stage \in (IF stage = "s6" THEN {"s6"}
                                                       ELSE {"s1b", "s6"})}
    /\ pc' = "abandon"
    /\ UNCHANGED <<hyps, findings, nextFinding, groups, passes, claims, queue,
                   won, flips, cur, under, tags, cli, unlogged, faults>>

Abandon ==
    /\ pc = "abandon"
    /\ hyps' = [h \in HypIds |->
                  IF h \in doomed THEN [hyps[h] EXCEPT !.status = "abandoned"]
                                  ELSE hyps[h]]
    /\ unlogged' = unlogged \cup {<<"core", "hyp", h>> : h \in doomed}
    /\ pc' = "delete"
    /\ UNCHANGED <<findings, nextFinding, groups, seeded, work, tags, cli, faults>>

DoomedFindings == {f \in findings : f.origin \in doomed}

(* The foreign keys of finding_groups have no ON DELETE.                   *)
Referenced(f) == \E g \in groups : f.id = g[1] \/ f.id = g[2]

(* Slip: the cascade deletes by finding id where it has hypothesis ids.    *)
DeleteFindingsById ==
    /\ pc = "delete"
    /\ findings' = {f \in findings : f.id \notin doomed}
    /\ pc' = "recordRerun"
    /\ UNCHANGED <<hyps, nextFinding, groups, seeded, work, tags, cli, unlogged,
                   faults>>

(* Slip: foreign keys are off.                                             *)
DeleteFindingsUnchecked ==
    /\ pc = "delete"
    /\ findings' = findings \ DoomedFindings
    /\ pc' = "recordRerun"
    /\ UNCHANGED <<hyps, nextFinding, groups, seeded, work, tags, cli, unlogged,
                   faults>>

DeleteFindings ==
    /\ pc = "delete"
    /\ \A f \in DoomedFindings : ~Referenced(f)
    /\ findings' = findings \ DoomedFindings
    /\ pc' = "recordRerun"
    /\ UNCHANGED <<hyps, nextFinding, groups, seeded, work, tags, cli, unlogged, faults>>

(* IntegrityError: the method raises, nothing after the DELETE happens.    *)
DeleteRefused ==
    /\ pc = "delete"
    /\ \E f \in DoomedFindings : Referenced(f)
    /\ Return
    /\ UNCHANGED <<tables, tags, cli, unlogged, faults>>

RecordRerun ==
    /\ pc = "recordRerun"
    /\ unlogged' = unlogged \ {<<"core", "hyp", h>> : h \in doomed}
    /\ Return
    /\ UNCHANGED <<tables, tags, cli, faults>>

-----------------------------------------------------------------------------
(* The process dies and a new Core opens the run directory.                *)
Crash ==
    /\ pc # "idle"
    /\ faults < MaxFaults
    /\ faults' = faults + 1
    /\ Return
    /\ batch' = 0
    /\ UNCHANGED <<tables, nextBatch, cli, unlogged>>

(* `utov override`, another process on the same database.                  *)
CliOverride(h, v) ==
    /\ cli = 0
    /\ SetStatus(h, StatusOf[v])
    /\ cli' = h
    /\ unlogged' = unlogged \cup {<<"cli", "hyp", h>>}
    /\ UNCHANGED <<findings, nextFinding, groups, seeded, pc, work, tags, faults>>

CliLog ==
    /\ cli # 0
    /\ unlogged' = unlogged \ {<<"cli", "hyp", cli>>}
    /\ cli' = 0
    /\ UNCHANGED <<tables, pc, work, tags, faults>>

CliDies ==
    /\ cli # 0
    /\ faults < MaxFaults
    /\ faults' = faults + 1
    /\ cli' = 0
    /\ UNCHANGED <<tables, pc, work, tags, unlogged>>

-----------------------------------------------------------------------------
SeedStep == (\E c \in Fingerprints : SeedOne(c)) \/ SeedDone

BeginPass ==
    \/ \E p \in {"plugin", "handler", "algorithm"} : StartPass(p)
    \/ \E list \in PassLists : StartBatch(list)

BeginS6 ==
    \/ \E parent \in HypIds \cup {0}, cands \in SUBSET Guesses,
          pass \in {"s6", "s6_auto"} : StartS6(parent, cands, pass)
    \/ \E h \in HypIds : StartPromote(h)

PassStep ==
    \/ BeginPlugin \/ BeginHandler \/ BeginAlgorithm
    \/ (\E h \in queue : Verify(h)) \/ VerifyDone
    \/ (\E c \in claims : ScanOne(c)) \/ Mark \/ ScanDone
    \/ (\E h \in won : PromoteRead(h)) \/ Insert \/ Link \/ PromoteDone
    \/ PassRaises \/ PassesDone

BeginIntervention ==
    \/ \E parent \in HypIds \cup {0}, c \in Guesses : Submit(parent, c)
    \/ \E H \in SUBSET HypIds, v \in DOMAIN StatusOf : OverrideVerdict(H, v)
    \/ \E h \in HypIds, s \in ForcedTo : ForceStatus(h, s)
    \/ \E b \in 1..(nextBatch - 1) : DiscardBatch(b)
    \/ \E f \in findings : InvalidateCluster(f)
    \/ InjectFinding

BeginRerun == \E stage \in {"s1b", "s6"} : Rerun(stage)

InterventionStep ==
    \/ (\E f \in flips : Flip(f)) \/ Record \/ FlipsDone \/ RecordFinding
    \/ Abandon \/ DeleteFindings \/ DeleteRefused \/ RecordRerun

Cli ==
    \/ \E h \in HypIds, v \in DOMAIN StatusOf : CliOverride(h, v)
    \/ CliLog \/ CliDies

(* One Core over the run directory, with crashes.                          *)
CoreNext ==
    \/ SeedStart \/ SeedStep \/ BeginPass \/ BeginS6 \/ PassStep
    \/ BeginIntervention \/ BeginRerun \/ InterventionStep
    \/ Crash

CoreSpec == LedgerInit /\ [][CoreNext]_vars

(* The Core and the override command side by side.                         *)
SharedSpec == LedgerInit /\ [][CoreNext \/ Cli]_vars

(* The deterministic pipeline with reruns, restarted after crashes.        *)
PipelineSpec ==
    LedgerInit /\ [][SeedStart \/ SeedStep \/ BeginPass \/ PassStep
                     \/ BeginRerun \/ InterventionStep \/ Crash]_vars

(* A method that was entered keeps executing.                              *)
FairSpec ==
    CoreSpec /\ WF_vars(SeedStep \/ PassStep \/ InterventionStep)

-----------------------------------------------------------------------------
HypRow ==
    [parent : Nat, depth : Nat, status : HypStatus, claim : Claims,
     stage : CreatedIn]

LedgerTypeOK ==
    /\ hyps \in Seq(HypRow)
    /\ findings \subseteq [id : Nat, origin : HypIds \cup {0}, batch : Nat]
    /\ nextFinding \in Nat
    /\ groups \subseteq Nat \X Nat
    /\ seeded \in BOOLEAN
    /\ pc \in {"idle", "seed", "pass", "verify", "scan", "mark", "promote",
              "insert", "link", "flip", "record", "recordFinding", "abandon",
              "delete", "recordRerun"}
    /\ passes \in Seq(PassNames)
    /\ claims \subseteq Claims
    /\ queue \subseteq HypIds /\ won \subseteq HypIds /\ doomed \subseteq HypIds
    /\ flips \subseteq [hyp : HypIds, to : HypStatus, lazy : BOOLEAN]
    /\ cur \in HypIds \cup {0} /\ under \in HypIds \cup {0}
    /\ batch \in Nat /\ nextBatch \in Nat
    /\ cli \in HypIds \cup {0}
    /\ unlogged \subseteq {"core", "cli"} \X {"hyp", "finding"} \X Nat

(* Findings have passed a verifier (PLAN 1.1): a finding with a hypothesis *)
(* behind it is inserted only in a state where that hypothesis is passed,  *)
(* although the status is read on one connection and the row is inserted   *)
(* on another.                                                             *)
PromotedWhilePassed ==
    [][\A f \in findings' \ findings :
          f.origin # 0 => hyps[f.origin].status = "passed"]_vars

(* Both ends of every finding_groups link are findings that exist: no      *)
(* rerun ever takes an anchor away from under a fitted algorithm.          *)
GroupsResolve ==
    \A g \in groups :
        \E p, m \in findings : p.id = g[1] /\ m.id = g[2]

(* The batch tag never outlives its batch: while no method runs, nothing   *)
(* an agent promotes by hand can be swept up in a discard_batch.           *)
BatchTagScoped == batch # 0 => pc \in {"pass", "verify", "scan", "mark",
                                       "promote", "insert", "link"}

LiveSeeds(fp) ==
    {h \in HypIds : /\ hyps[h].claim = fp
                    /\ hyps[h].stage = "s1b"
                    /\ hyps[h].status # "abandoned"}

(* stages/s1b_fingerprint.py: "for each fingerprint ... we create ONE      *)
(* hypothesis".                                                            *)
OneSeedPerFingerprint ==
    \A fp \in Fingerprints : Cardinality(LiveSeeds(fp)) <= 1

(* The same as long as no process died: however often a run is rerun from  *)
(* a stage and seeded again, and also when a rerun's DELETE is refused     *)
(* half way, no fingerprint has two hypotheses competing for its finding.  *)
SeededOnceUnlessKilled == faults = 0 => OneSeedPerFingerprint

(* Somebody is still going to write the missing interventions row.         *)
RowComing ==
    (IF pc = "record" THEN {<<"core", "hyp", cur>>} ELSE {})
    \cup (IF pc = "recordFinding" THEN {<<"core", "finding", nextFinding - 1>>}
                                  ELSE {})
    \cup (IF pc \in {"delete", "recordRerun"}
          THEN {<<"core", "hyp", h>> : h \in doomed} ELSE {})
    \cup (IF cli # 0 THEN {<<"cli", "hyp", cli>>} ELSE {})

(* Every manual write leaves an interventions row: whatever the Core and   *)
(* the override command interleave, a write is orphaned of its row only by *)
(* one of them dying in between, or by the rerun's DELETE being refused.   *)
OnlyAFaultLosesARow ==
    [][unlogged' \ RowComing' \subseteq unlogged \ RowComing
          \/ Crash \/ CliDies \/ DeleteRefused]_vars

(* Every method returns: a batch or an intervention that was started ends, *)
(* and with it its tag.                                                    *)
MethodsReturn == (pc # "idle") ~> (pc = "idle" /\ batch = 0)

Abstract == INSTANCE VerifiedLedger WITH
    standing <- [h \in HypIds |-> hyps[h].status],
    facts    <- {[id |-> f.id, origin |-> f.origin] : f \in findings}

(* One Core implements the abstract ledger.                                *)
RefinesVerifiedLedger == Abstract!Spec

=============================================================================
