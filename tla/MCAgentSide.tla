---------------------------- MODULE MCAgentSide ----------------------------
(***************************************************************************)
(* The components an agent drives, side by side: they keep no state in     *)
(* common, so a behaviour runs one of them and a run checks them all.      *)
(***************************************************************************)
EXTENDS VmpPhases, S6Loop, AgentSession, Discipline, RunnerGate, RunnerPipe,
        MCPhaseFlow, TaskTree, ProfileRegistry, MCValueClaims

VARIABLE active   \* the component that runs

MCTallies == {<<18, 20, 0>>, <<18, 20, 2>>}

MCTraceLengths == {<<12, 7>>, <<20, 9>>}
MCAnchors == {[first |-> 5, last |-> 7, ret |-> FALSE],
              [first |-> 9, last |-> 11, ret |-> FALSE],
              [first |-> 5, last |-> 8, ret |-> TRUE]}

Task(parent, criterion, contract, nodes) ==
    [parent |-> parent, criterion |-> criterion, contract |-> contract, nodes |-> nodes,
     focus |-> "nothing", runner |-> "nobody", capabilities |-> {}]
Open(n) == [x \in {n} |-> "open"]
MCTask ==
    [root |-> Task("top", {{<<"child", "a">>}, {<<"artefact", "f">>}}, FALSE, NoTask),
     a |-> Task("root", {{<<"node", "n1">>, <<"child", "c">>}}, TRUE, Open("n1")),
     c |-> Task("a", {{<<"node", "n1">>}}, TRUE, Open("n1"))]
MCSpecs == {MCTask, [MCTask EXCEPT !["c"].focus = "n2"]}
MCDrafts ==
    {[top |-> "a", tasks |-> [a |-> Task("top", {{<<"node", "n1">>}}, TRUE, Open("n1"))]],
     [top |-> "d", tasks |-> [d |-> Task("top", {{<<"child", "c">>}}, TRUE, NoTask),
                              c |-> Task("d", {{<<"node", "n1">>}}, FALSE, Open("n1"))]],
     [top |-> "d", tasks |-> [d |-> Task("top", {{<<"child", "e">>}}, TRUE, NoTask),
                              e |-> Task("d", {{<<"artefact", "f">>}}, TRUE, Open("n1"))]]}

Part(i, mechanism, roles) == [id |-> i, mechanism |-> mechanism, roles |-> roles]
File(p, parent, probes, gates, states, disabled) ==
    [profile |-> p, inherits |-> parent, shaped |-> TRUE, probes |-> probes, gates |-> gates,
     states |-> states, rules |-> <<>>, caps |-> <<>>, templates |-> <<>>, classes |-> <<>>,
     scopes |-> <<>>, disable |-> disabled]
M1 == Part("m1", TRUE, {})
M3 == Part("m3", TRUE, {})
G1 == Part("g1", TRUE, {"closed"})
Free(i, roles) == Part(i, FALSE, roles)
MCDrafted == [n \in {"base", "vmp", "leaf"} |->
    CASE n = "base" ->
           {File("base", "none", <<M1>>, <<G1>>, <<>>, {}),
            File("base", "none", <<M1, M3>>, <<>>, <<>>, {}),
            File("base", "none", <<M1, Free("d", {})>>, <<>>, <<>>, {}),
            File("base", "none", <<M1>>, <<>>, <<>>, {"m1"})}
      [] n = "vmp" ->
           {[File("vmp", "base", <<Free("d", {})>>, <<>>, <<Free("closed_form", {"closed"})>>, {})
               EXCEPT !.classes = <<"A", "B">>],
            File("vmp", "leaf", <<>>, <<Free("g2", {})>>, <<Free("stuck", {})>>, {"d"}),
            [File("vmp", "none", <<>>, <<>>, <<>>, {}) EXCEPT !.scopes = <<"x", "x">>]}
      [] n = "leaf" ->
           {File("leaf", "vmp", <<>>, <<>>, <<Free("closed_form", {})>>, {}),
            File("leaf", "vmp", <<Free("m3", {})>>, <<>>, <<Free("closed2", {"closed"})>>, {}),
            File("leaf", "none", <<>>, <<>>, <<Free("c", {"closed"})>>, {"m1"}),
            File("leaf", "vmp", <<Free("d", {"r"})>>, <<>>, <<>>, {"d", "g1"}),
            File("other", "vmp", <<>>, <<>>, <<>>, {})}]

AgentInit ==
    /\ active \in {"vmp", "s6", "session", "discipline", "runner",
                   "pipe", "flow", "task", "profile", "claims"}
    /\ VmpInit /\ S6Init /\ SessionInit /\ DisciplineInit
    /\ RunnerInit /\ PipeInit /\ TaskInit /\ ProfileInit
    /\ FlowInit /\ (active # "flow" => execution = CHOOSE e \in Executions : TRUE)
    /\ ClaimInit /\ (active # "claims" => profileInUse = CHOOSE p \in ClaimProfiles : TRUE)

(* One component moves and the others stand still.                         *)
AgentNext ==
    \/ /\ active = "vmp" /\ VmpNext
       /\ UNCHANGED <<active, s6Vars, sessionVars, disciplineVars, runnerVars, pipeVars,
                      flowVars, taskVars, profileVars, claimVars>>
    \/ /\ active = "s6" /\ S6Next
       /\ UNCHANGED <<active, vmpVars, sessionVars, disciplineVars, runnerVars, pipeVars,
                      flowVars, taskVars, profileVars, claimVars>>
    \/ /\ active = "session" /\ SessionNext
       /\ UNCHANGED <<active, vmpVars, s6Vars, disciplineVars, runnerVars, pipeVars,
                      flowVars, taskVars, profileVars, claimVars>>
    \/ /\ active = "discipline" /\ DisciplineNext
       /\ UNCHANGED <<active, vmpVars, s6Vars, sessionVars, runnerVars, pipeVars,
                      flowVars, taskVars, profileVars, claimVars>>
    \/ /\ active = "runner" /\ RunnerNext
       /\ UNCHANGED <<active, vmpVars, s6Vars, sessionVars, disciplineVars, pipeVars,
                      flowVars, taskVars, profileVars, claimVars>>
    \/ /\ active = "pipe" /\ PipeNext
       /\ UNCHANGED <<active, vmpVars, s6Vars, sessionVars, disciplineVars, runnerVars,
                      flowVars, taskVars, profileVars, claimVars>>
    \/ /\ active = "flow" /\ FlowNext
       /\ UNCHANGED <<active, vmpVars, s6Vars, sessionVars, disciplineVars,
                      runnerVars, pipeVars, taskVars, profileVars, claimVars>>
    \/ /\ active = "task" /\ TaskNext
       /\ UNCHANGED <<active, vmpVars, s6Vars, sessionVars, disciplineVars,
                      runnerVars, pipeVars, flowVars, profileVars, claimVars>>
    \/ /\ active = "profile" /\ ProfileNext
       /\ UNCHANGED <<active, vmpVars, s6Vars, sessionVars, disciplineVars,
                      runnerVars, pipeVars, flowVars, taskVars, claimVars>>
    \/ /\ active = "claims" /\ ClaimNext
       /\ UNCHANGED <<active, vmpVars, s6Vars, sessionVars, disciplineVars,
                      runnerVars, pipeVars, flowVars, taskVars, profileVars>>

agentVars ==
    <<active, vmpVars, s6Vars, sessionVars, disciplineVars,
      runnerVars, pipeVars, flowVars, taskVars, profileVars, claimVars>>

(* The fairness of the two components that have a scheduler of their own:  *)
(* the main thread and the workers of the s6 loop, and the engine's side   *)
(* of a session.  Nobody is bound to make the agent or the user act.       *)
AgentSpec ==
    /\ AgentInit /\ [][AgentNext]_agentVars
    /\ WF_s6Vars(active = "s6" /\ Main) /\ WF_s6Vars(active = "s6" /\ Worker)
    /\ WF_sessionVars(active = "session" /\ Engine)

(* Where the s6 loop runs it comes to an end, with a worker pool, retries, *)
(* errors and all (engine/llm_client.py, s6_auto_loop).                    *)
S6LoopEnds == active = "s6" => LoopEnds
=============================================================================
