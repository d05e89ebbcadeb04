------------------------ MODULE StagePipelineProofs ------------------------
(***************************************************************************)
(* For every set of stage lists a driver may ask for and any number of     *)
(* crashes: what stage_state.json calls done has its file.                 *)
(***************************************************************************)
EXTENDS StagePipeline, TLAPS

(* While a stage is between its file and the session save, it is the first *)
(* one still to do; its file is written before its mark.                   *)
Underway ==
    /\ pc \in {"mark", "save"} => todo # <<>>
    /\ pc = "mark" /\ Head(todo) \in Filed => output[Head(todo)] # NoOutput

(* A rerun takes the marks away before the files.                          *)
MarksFirst == pc = "clean" => done \cap cascade = {}

StageInv == StageTypeOK /\ DoneHasOutput /\ Underway /\ MarksFirst

\* The default order lists stages; the rerun order leaves the taint stage out.
LEMMA OrderLemma ==
    /\ \A i \in 1..7 : DefaultOrder[i] \in Stages
    /\ "s6_taint" \notin {RerunOrder[i] : i \in 1..7}
  BY DEF Stages, DefaultOrder, RerunOrder

\* What a stage is computed from is a stage that files its output.
LEMMA SourceLemma ==
    \A s \in DOMAIN Source : Source[s] \in Filed
  BY DEF Source, Filed, Stages, DefaultOrder

\* A new run directory has nothing done and no output.
LEMMA StageInitInv == PipelineInit => StageInv
<1> SUFFICES ASSUME PipelineInit PROVE StageInv
  OBVIOUS
<1>1. StageTypeOK
  <2>1. todo \in Seq(Stages)
    BY DEF PipelineInit
  <2>2. output \in [Filed -> Basis \cup {NoOutput}]
    BY DEF PipelineInit
  <2>3. crashes \in 0..MaxCrashes
    BY PipelineAssumption DEF PipelineInit
  <2>4. QED
    BY <2>1, <2>2, <2>3 DEF PipelineInit, StageTypeOK
<1>2. QED
  BY <1>1 DEF PipelineInit, StageInv, DoneHasOutput, Underway, MarksFirst

(* The file a stage writes is a file: its basis is one.                    *)
LEMMA BasisTyped ==
    ASSUME StageTypeOK, NEW s \in Stages, Readable(s)
    PROVE  BasisOf(s) \in Basis /\ BasisOf(s) # NoOutput
<1>1. s \in DOMAIN Source => output[Source[s]] \in Basis
  BY SourceLemma DEF Readable, StageTypeOK
<1>2. s = "s5" => output["s4"] \in Basis
  BY <1>1 DEF Source
<1>3. BasisOf(s) \in Basis
  BY <1>1, <1>2 DEF BasisOf, Basis, StageTypeOK
<1>4. QED
  BY <1>3, PipelineAssumption

\* Every step of a run, a rerun or a restart keeps outputs behind the marks.
LEMMA StageStepInv ==
    StageInv /\ [StraightNext \/ BeginRerun \/ RerunStep]_vars => StageInv'
<1> SUFFICES ASSUME StageInv, [StraightNext \/ BeginRerun \/ RerunStep]_vars
             PROVE  StageInv'
  OBVIOUS
<1> USE PipelineAssumption
    DEF StageInv, StageTypeOK, DoneHasOutput, Underway, MarksFirst, disk, memory
<1>1. ASSUME NEW list \in StageLists, RunPipeline(list)
      PROVE  StageInv'
  BY <1>1 DEF RunPipeline
<1>2. CASE Exit \/ Pause \/ PauseMeta \/ Resume \/ Open
  BY <1>2 DEF Exit, Pause, PauseMeta, Resume, Open
<1>3. CASE Crash
  <2>1. todo' \in Seq(Stages) /\ crashes' \in 0..MaxCrashes
    BY <1>3 DEF Crash
  <2>2. QED
    BY <1>3, <2>1 DEF Crash
<1>4. CASE Skip \/ Save \/ Finish \/ Raise
  <2>1. todo \in Seq(Stages)
    OBVIOUS
  <2>2. CASE Skip \/ Save
    <3>1. todo # <<>> /\ todo' = Tail(todo)
      BY <2>2 DEF Skip, Save
    <3>2. todo' \in Seq(Stages)
      BY <2>1, <3>1
    <3>3. QED
      BY <2>2, <3>2 DEF Skip, Save
  <2>3. CASE Finish \/ Raise
    <3>0. <<>> \in Seq(Stages)
      OBVIOUS
    <3>1. todo' = <<>> \/ todo' = todo
      BY <2>3 DEF Finish, Raise
    <3>2. todo' \in Seq(Stages)
      BY <2>1, <3>0, <3>1
    <3>3. QED
      BY <2>3, <3>2 DEF Finish, Raise
  <2>4. QED
    BY <1>4, <2>2, <2>3
<1>5. CASE Compute
  <2>1. Head(todo) \in Stages \ done /\ Readable(Head(todo)) /\ todo # <<>>
    BY <1>5 DEF Compute
  <2>2. BasisOf(Head(todo)) \in Basis /\ BasisOf(Head(todo)) # NoOutput
    BY <2>1, BasisTyped
  <2>3. output' = IF Head(todo) \in Filed
                  THEN [output EXCEPT ![Head(todo)] = BasisOf(Head(todo))]
                  ELSE output
    BY <1>5 DEF Compute
  <2>4. /\ UNCHANGED <<done, paused, savedHints, todo, cascade, crashes>>
        /\ pc' = "mark" /\ hints' \in BOOLEAN /\ normalised' \in BOOLEAN
    BY <1>5 DEF Compute
  <2>5. QED
    BY <2>1, <2>2, <2>3, <2>4
<1>6. CASE Mark
  <2>1. Head(todo) \in Stages
    BY <1>6 DEF Mark
  <2>2. QED
    BY <1>6, <2>1 DEF Mark
<1>7. ASSUME NEW i \in 1..7, Rerun(RerunOrder[i])
      PROVE  StageInv'
  <2>1. From(RerunOrder[i]) \subseteq {RerunOrder[k] : k \in 1..7}
    <3>1. (CHOOSE k \in 1..7 : RerunOrder[k] = RerunOrder[i]) \in 1..7
      OBVIOUS
    <3>2. QED
      BY <3>1 DEF From
  <2>2. QED
    BY <1>7, <2>1 DEF Rerun
<1>8. CASE Clean
  BY <1>8, OrderLemma DEF Clean
<1>9. CASE LedgerRefuses \/ Wipe
  BY <1>9 DEF LedgerRefuses, Wipe
<1>10. CASE UNCHANGED vars
  BY <1>10 DEF vars
<1>11. QED
  BY <1>1, <1>2, <1>3, <1>4, <1>5, <1>6, <1>7, <1>8, <1>9, <1>10
     DEF StraightNext, Begin, StageStep, BeginRerun, RerunStep

(* The state of a run, its files and the process is of the kinds declared, *)
(* for every set of stage lists and bound on the deaths of the process.    *)
THEOREM StageTypesHold == PipelineSpec => []StageTypeOK
<1>1. StageInv => StageTypeOK
  BY DEF StageInv
<1>2. QED
  BY <1>1, StageInitInv, StageStepInv, PTL DEF PipelineSpec

(* Nothing is skipped whose result is missing, wherever a run or a rerun   *)
(* was cut off and whatever lists of stages were asked for.                *)
THEOREM DoneHasOutputHolds == PipelineSpec => []DoneHasOutput
<1>1. StageInv => DoneHasOutput
  BY DEF StageInv
<1>2. QED
  BY <1>1, StageInitInv, StageStepInv, PTL DEF PipelineSpec

(* As long as no process has died: a file belongs to a stage that is done, *)
(* about to be marked, or about to lose it to a rerun.                     *)
FilesOfDone ==
    \A s \in Filed : output[s] # NoOutput =>
        \/ s \in done
        \/ pc = "mark" /\ s = Head(todo)
        \/ pc = "clean" /\ s \in cascade

(* A stage that is done, or computed and not marked yet, stands on a done  *)
(* source and on the file that source has now.                             *)
OnItsSource ==
    \A s \in DOMAIN Source : (s \in done \/ (pc = "mark" /\ s = Head(todo))) =>
        /\ Source[s] \in done
        /\ output[s].normalised = output[Source[s]].normalised

FreshInv == crashes = 0 => FilesOfDone /\ OnItsSource

(* A cascade that takes a source down takes down what was made from it.    *)
LEMMA CascadeLemma ==
    ASSUME NEW i \in 1..7, NEW s \in DOMAIN Source, Source[s] \in From(RerunOrder[i])
    PROVE  s \in From(RerunOrder[i])
<1> DEFINE k == CHOOSE j \in 1..7 : RerunOrder[j] = RerunOrder[i]
<1>1. k \in 1..7 /\ RerunOrder[k] = RerunOrder[i]
  OBVIOUS
<1>2. From(RerunOrder[i]) = {RerunOrder[j] : j \in k..7}
  BY DEF From
<1>3. PICK j \in k..7 : RerunOrder[j] = Source[s]
  BY <1>2
<1> HIDE DEF k
<1>4. j \in 1..7 /\ s \in {"s2", "s4", "s5"}
  BY <1>1, <1>3 DEF Source
<1>5. CASE s = "s2"
  <2>1. j = 1 /\ RerunOrder[3] = s
    BY <1>3, <1>4, <1>5 DEF Source, RerunOrder
  <2>2. QED
    BY <1>1, <1>2, <1>3, <2>1
<1>6. CASE s = "s4"
  <2>1. j = 4 /\ RerunOrder[5] = s
    BY <1>3, <1>4, <1>6 DEF Source, RerunOrder
  <2>2. QED
    BY <1>1, <1>2, <1>3, <2>1
<1>7. CASE s = "s5"
  <2>1. j = 5 /\ RerunOrder[6] = s
    BY <1>3, <1>4, <1>7 DEF Source, RerunOrder
  <2>2. QED
    BY <1>1, <1>2, <1>3, <2>1
<1>8. QED
  BY <1>4, <1>5, <1>6, <1>7

\* What a stage computes is computed from what its source holds now.
LEMMA ComputeIsFresh ==
    ASSUME StageInv, FreshInv, crashes = 0, Compute
    PROVE  FilesOfDone' /\ OnItsSource'
<1> DEFINE h == Head(todo)
<1>1. /\ pc = "stage" /\ pc' = "mark" /\ UNCHANGED <<done, todo>>
      /\ h \in Stages /\ h \notin done /\ Readable(h)
      /\ output' = IF h \in Filed THEN [output EXCEPT ![h] = BasisOf(h)] ELSE output
      /\ output \in [Filed -> Basis \cup {NoOutput}]
  BY DEF Compute, StageInv, StageTypeOK
<1> HIDE DEF h
<1>2. h \in DOMAIN Source =>
        Source[h] \in done /\ BasisOf(h).normalised = output[Source[h]].normalised
  <2> SUFFICES ASSUME h \in DOMAIN Source
               PROVE  Source[h] \in done /\ BasisOf(h).normalised = output[Source[h]].normalised
    OBVIOUS
  <2>1. Source[h] \in Filed /\ output[Source[h]] # NoOutput
    BY <1>1, SourceLemma DEF Readable
  <2>2. QED
    BY <1>1, <2>1 DEF FreshInv, FilesOfDone, BasisOf
<1>3. \A s \in Filed : s # h => output'[s] = output[s]
  BY <1>1
<1>4. \A s \in DOMAIN Source : s \in Filed /\ Source[s] \in Filed /\ Source[s] # s
  BY DEF Source, Filed, Stages, DefaultOrder
<1>5. FilesOfDone'
  BY <1>1, <1>3 DEF FreshInv, FilesOfDone, h
<1>6. ASSUME NEW s \in DOMAIN Source, s \in done \/ s = h
      PROVE  Source[s] \in done /\ output'[s].normalised = output'[Source[s]].normalised
  <2>1. CASE s \in done
    <3>1. Source[s] \in done /\ output[s].normalised = output[Source[s]].normalised
      BY <2>1 DEF FreshInv, OnItsSource
    <3>2. QED
      BY <1>1, <1>3, <1>4, <2>1, <3>1
  <2>2. CASE s = h
    <3>1. output'[s] = BasisOf(h) /\ output'[Source[s]] = output[Source[s]]
      BY <1>1, <1>3, <1>4, <2>2
    <3>2. QED
      BY <1>2, <2>2, <3>1
  <2>3. QED
    BY <1>6, <2>1, <2>2
<1>7. QED
  BY <1>1, <1>5, <1>6 DEF OnItsSource, h

\* Without a death, no step leaves a done stage behind its source.
LEMMA FreshStep ==
    StageInv /\ FreshInv /\ [StraightNext \/ BeginRerun \/ RerunStep]_vars => FreshInv'
<1> SUFFICES ASSUME StageInv, FreshInv, [StraightNext \/ BeginRerun \/ RerunStep]_vars,
                    crashes' = 0
             PROVE  FilesOfDone' /\ OnItsSource'
  BY DEF FreshInv
<1>1. CASE Crash
  BY <1>1 DEF Crash, StageInv, StageTypeOK
<1>2. CASE ~Crash
  <2>1. crashes = 0
    BY <1>2 DEF StraightNext, Begin, StageStep, BeginRerun, RerunStep, vars, RunPipeline,
       Exit, Pause, PauseMeta, Resume, Open, Skip, Compute, Raise, Mark, Save, Finish,
       Rerun, Clean, LedgerRefuses, Wipe
  <2> USE <2>1 DEF FreshInv, FilesOfDone, OnItsSource, disk, memory
  <2>2. CASE UNCHANGED <<done, output>> /\ pc # "mark" /\ pc' # "mark" /\ pc # "clean"
    BY <2>2
  <2>3. CASE Compute
    BY <2>3, ComputeIsFresh
  <2>4. CASE Mark
    <3>1. /\ pc = "mark" /\ pc' = "save" /\ UNCHANGED <<output, todo>>
          /\ done' = done \cup {Head(todo)}
      BY <2>4 DEF Mark
    <3>2. QED
      BY <3>1
  <2>5. ASSUME NEW i \in 1..7, Rerun(RerunOrder[i])
        PROVE  FilesOfDone' /\ OnItsSource'
    <3>1. /\ pc' = "clean" /\ pc = "idle" /\ output' = output
          /\ done' = done \ From(RerunOrder[i]) /\ cascade' = From(RerunOrder[i])
      BY <2>5 DEF Rerun
    <3>2. QED
      BY <3>1, CascadeLemma
  <2>6. CASE Clean
    <3>1. /\ pc = "clean" /\ pc' = "ledger" /\ UNCHANGED <<done, cascade>>
          /\ output' = [s \in Filed |-> IF s \in cascade \cup {"s6_taint"}
                                        THEN NoOutput ELSE output[s]]
          /\ done \cap cascade = {}
      BY <2>6 DEF Clean, StageInv, MarksFirst
    <3>2. \A s \in DOMAIN Source : /\ s \in Filed /\ Source[s] \in Filed
                                   /\ s # "s6_taint" /\ Source[s] # "s6_taint"
      BY DEF Source, Filed, Stages, DefaultOrder
    <3>3. QED
      BY <3>1, <3>2
  <2>7. CASE UNCHANGED vars
    BY <2>7 DEF vars
  <2>8. QED
    BY <1>2, <2>2, <2>3, <2>4, <2>5, <2>6, <2>7
       DEF StraightNext, Begin, StageStep, BeginRerun, RerunStep, RunPipeline, Exit,
           Pause, PauseMeta, Resume, Open, Skip, Raise, Save, Finish, LedgerRefuses, Wipe
<1>3. QED
  BY <1>1, <1>2

(* For every set of stage lists: whatever is run, stopped in between or    *)
(* rerun, a done stage was computed from the file its source has now, as   *)
(* long as no process died (run_stage, rerun_from_stage).                  *)
THEOREM UpToDateHolds == PipelineSpec => []UpToDateUnlessKilled
<1>1. PipelineInit => FreshInv
  BY DEF PipelineInit, FreshInv, FilesOfDone, OnItsSource
<1>2. FreshInv => UpToDateUnlessKilled
  BY DEF FreshInv, OnItsSource, UpToDateUnlessKilled
<1>3. QED
  BY <1>1, <1>2, StageInitInv, StageStepInv, FreshStep, PTL DEF PipelineSpec
=============================================================================
