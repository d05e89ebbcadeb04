--------------------------- MODULE StagePipeline ---------------------------
(***************************************************************************)
(* The deterministic stages of a run and what of them survives a process:  *)
(* stage_state.json, stage_outputs/, session.json and meta.json on disk;   *)
(* the session and the normalised trace in the memory of a Core.  A step   *)
(* is one write.  The trace carries pre-state snapshots only, the case     *)
(* s0_5 exists for.  rerun_from_stage's work on the ledger is RunLedger's  *)
(* subject; here it either goes through or raises.                         *)
(***************************************************************************)
EXTENDS Naturals, Sequences

CONSTANTS
    StageLists,  \* the lists of stages run_pipeline may be asked for
    NoOutput,    \* the stage has no output file
    MaxCrashes   \* bound on the deaths of the process

(* run_pipeline's default.                                                 *)
DefaultOrder == <<"s0_5", "s1", "s1b", "s2", "s3", "s4", "s5">>

(* _STAGES without s3's symbolic mode; s6 itself is never a stage run.     *)
Stages == {DefaultOrder[i] : i \in 1..7} \cup {"s6_taint"}

(* s0_5 rebuilds the trace in memory, all others write a file.             *)
Filed == Stages \ {"s0_5"}

(* _STAGE_ORDER: what a rerun from one of them may name.                   *)
RerunOrder == <<"s1", "s1b", "s2", "s3", "s4", "s5", "s6">>

(* What an output was computed from: a normalised trace, the fingerprint   *)
(* anchors of the session.                                                 *)
Basis == [normalised : BOOLEAN, anchored : BOOLEAN]

ASSUME PipelineAssumption ==
    /\ StageLists \subseteq Seq(Stages)
    /\ NoOutput \notin Basis
    /\ MaxCrashes \in Nat

VARIABLES
    done,        \* stage_state.json: the stages marked done
    output,      \* stage_outputs: what each file there was computed from
    paused,      \* "paused" of meta.json
    savedHints,  \* fingerprint_anchor_idxs of session.json is filled
    hints,       \* the same of Core.session
    normalised,  \* Core._items went through s0_5
    pc,          \* where the process stands, "down" for none
    todo,        \* the stages the current run_pipeline has still to do
    cascade,     \* the stages the current rerun_from_stage takes down
    crashes      \* how often the process has died

disk   == <<done, output, paused, savedHints>>
memory == <<hints, normalised>>
vars   == <<disk, memory, pc, todo, cascade, crashes>>

PipelineInit ==
    /\ done = {} /\ output = [s \in Filed |-> NoOutput]
    /\ paused = FALSE /\ savedHints = FALSE
    /\ hints = FALSE /\ normalised = FALSE
    /\ pc = "idle" /\ todo = <<>> /\ cascade = {}
    /\ crashes = 0

-----------------------------------------------------------------------------
(* Core.__init__ on the run directory: the trace is read anew, the session *)
(* loaded, and meta.json written from the configuration alone.             *)
Open ==
    /\ pc = "down"
    /\ pc' = "idle"
    /\ normalised' = FALSE
    /\ hints' = savedHints
    /\ paused' = FALSE
    /\ UNCHANGED <<done, output, savedHints, todo, cascade, crashes>>

(* The driver ends between two calls, e.g. to switch modes.                *)
Exit ==
    /\ pc = "idle"
    /\ pc' = "down"
    /\ UNCHANGED <<disk, memory, todo, cascade, crashes>>

Crash ==
    /\ pc # "down"
    /\ crashes < MaxCrashes
    /\ crashes' = crashes + 1
    /\ pc' = "down" /\ todo' = <<>> /\ cascade' = {}
    /\ UNCHANGED <<disk, memory>>

-----------------------------------------------------------------------------
(* run_pipeline and run_stage.                                             *)

RunPipeline(list) ==
    /\ pc = "idle"
    /\ pc' = "stage"
    /\ todo' = list
    /\ UNCHANGED <<disk, memory, cascade, crashes>>

Skip ==
    /\ pc = "stage" /\ todo # <<>>
    /\ Head(todo) \in done
    /\ todo' = Tail(todo)
    /\ UNCHANGED <<disk, memory, pc, cascade, crashes>>

(* The file a stage reads.                                                 *)
Source == [s2 |-> "s1", s4 |-> "s3", s5 |-> "s4"]

Readable(s) == s \in DOMAIN Source => output[Source[s]] # NoOutput

BasisOf(s) ==
    [normalised |-> IF s \in DOMAIN Source THEN output[Source[s]].normalised
                                           ELSE normalised,
     anchored   |-> CASE s = "s4" -> hints
                      [] s = "s5" -> output["s4"].anchored
                      [] OTHER    -> FALSE]

(* stage.run up to its done mark: the output file, the normalised trace or *)
(* the anchors in the session.                                             *)
Compute ==
    /\ pc = "stage" /\ todo # <<>>
    /\ LET s == Head(todo) IN
       /\ s \notin done
       /\ Readable(s)
       /\ output' = IF s \in Filed THEN [output EXCEPT ![s] = BasisOf(s)]
                                   ELSE output
       /\ normalised' = (normalised \/ s = "s0_5")
       /\ hints' = (hints \/ s = "s1b")
    /\ pc' = "mark"
    /\ UNCHANGED <<done, paused, savedHints, todo, cascade, crashes>>

(* The file it reads is not there: the stage raises, the pipeline ends.    *)
Raise ==
    /\ pc = "stage" /\ todo # <<>>
    /\ Head(todo) \notin done
    /\ ~Readable(Head(todo))
    /\ pc' = "idle" /\ todo' = <<>>
    /\ UNCHANGED <<disk, memory, cascade, crashes>>

(* Slip: the mark is not written.                                          *)
MarkNothing ==
    /\ pc = "mark"
    /\ pc' = "save"
    /\ UNCHANGED <<disk, memory, todo, cascade, crashes>>

(* mark_stage_done, the last thing a stage does.                           *)
Mark ==
    /\ pc = "mark"
    /\ done' = done \cup {Head(todo)}
    /\ pc' = "save"
    /\ UNCHANGED <<output, paused, savedHints, memory, todo, cascade, crashes>>

(* run_stage saves the session after the stage has returned.               *)
Save ==
    /\ pc = "save"
    /\ savedHints' = hints
    /\ pc' = "stage"
    /\ todo' = Tail(todo)
    /\ UNCHANGED <<done, output, paused, memory, cascade, crashes>>

Finish ==
    /\ pc = "stage" /\ todo = <<>>
    /\ pc' = "idle"
    /\ UNCHANGED <<disk, memory, todo, cascade, crashes>>

-----------------------------------------------------------------------------
(* pause (its checkpoint saves the session first), resume_run.             *)

Pause ==
    /\ pc = "idle"
    /\ savedHints' = hints
    /\ pc' = "pausing"
    /\ UNCHANGED <<done, output, paused, memory, todo, cascade, crashes>>

PauseMeta ==
    /\ pc = "pausing"
    /\ paused' = TRUE
    /\ pc' = "idle"
    /\ UNCHANGED <<done, output, savedHints, memory, todo, cascade, crashes>>

Resume ==
    /\ pc = "idle"
    /\ paused' = FALSE
    /\ UNCHANGED <<done, output, savedHints, memory, pc, todo, cascade, crashes>>

-----------------------------------------------------------------------------
(* rerun_from_stage.                                                       *)

(* Slip: only the named stage is taken down.                               *)
FromOnly(s) == {s}

(* Slip: the normalisation is taken down too.                              *)
FromNormalise(s) == {"s0_5", s}

(* The cascade: _STAGE_ORDER from the named stage on.                      *)
From(s) ==
    LET i == CHOOSE k \in 1..7 : RerunOrder[k] = s
    IN  {RerunOrder[k] : k \in i..7}

(* Slip: only the named stage leaves stage_state.json.                     *)
RerunUnmarksOne(s) ==
    /\ pc = "idle"
    /\ done' = done \ {s}
    /\ cascade' = From(s)
    /\ pc' = "clean"
    /\ UNCHANGED <<output, paused, savedHints, memory, todo, crashes>>

(* The stage and everything after it leave stage_state.json.               *)
Rerun(s) ==
    /\ pc = "idle"
    /\ done' = done \ From(s)
    /\ cascade' = From(s)
    /\ pc' = "clean"
    /\ UNCHANGED <<output, paused, savedHints, memory, todo, crashes>>

(* The files matching <stage>* go; s6* matches the taint stage's file.     *)
Clean ==
    /\ pc = "clean"
    /\ output' = [s \in Filed |-> IF s \in cascade \cup {"s6_taint"}
                                  THEN NoOutput ELSE output[s]]
    /\ pc' = "ledger"
    /\ UNCHANGED <<done, paused, savedHints, memory, todo, cascade, crashes>>

(* The DELETE on findings is refused: the method raises.                   *)
LedgerRefuses ==
    /\ pc = "ledger"
    /\ pc' = "idle" /\ cascade' = {}
    /\ UNCHANGED <<disk, memory, todo, crashes>>

(* The session loses the anchors, in memory and on disk.                   *)
Wipe ==
    /\ pc = "ledger"
    /\ hints' = FALSE /\ savedHints' = FALSE
    /\ pc' = "idle" /\ cascade' = {}
    /\ UNCHANGED <<done, output, paused, normalised, todo, crashes>>

-----------------------------------------------------------------------------
StageStep == Skip \/ Compute \/ Raise \/ Mark \/ Save \/ Finish

RerunStep == Clean \/ LedgerRefuses \/ Wipe

Begin ==
    \/ \E list \in StageLists : RunPipeline(list)
    \/ Exit \/ Pause \/ Resume

BeginRerun == \E i \in 1..7 : Rerun(RerunOrder[i])

(* A run that is driven to its end, through restarts but never rerun.      *)
StraightNext == Begin \/ StageStep \/ PauseMeta \/ Open \/ Crash

StraightSpec == PipelineInit /\ [][StraightNext]_vars

PipelineSpec ==
    PipelineInit /\ [][StraightNext \/ BeginRerun \/ RerunStep]_vars

(* A driver comes back, asks for the default pipeline again and again, and *)
(* a call that was entered keeps executing.                                *)
DrivenSpec ==
    /\ PipelineSpec
    /\ WF_vars(Open)
    /\ WF_vars(StageStep \/ PauseMeta \/ RerunStep)
    /\ SF_vars(RunPipeline(DefaultOrder))

-----------------------------------------------------------------------------
StageTypeOK ==
    /\ done \subseteq Stages
    /\ output \in [Filed -> Basis \cup {NoOutput}]
    /\ paused \in BOOLEAN /\ savedHints \in BOOLEAN
    /\ hints \in BOOLEAN /\ normalised \in BOOLEAN
    /\ pc \in {"idle", "stage", "mark", "save", "pausing", "clean", "ledger",
              "down"}
    /\ todo \in Seq(Stages)
    /\ cascade \subseteq {RerunOrder[i] : i \in 1..7}
    /\ crashes \in 0..MaxCrashes

(* A stage of the pipeline that is marked done has its file, wherever a    *)
(* run or a rerun was cut off: nothing is skipped whose result is missing. *)
DoneHasOutput ==
    \A s \in (done \cap Filed) \ {"s6_taint"} : output[s] # NoOutput

(* A done stage was computed from the file its source now has: no rerun    *)
(* and no partial list of stages leaves a slice of another graph behind,   *)
(* as long as no process died.                                             *)
UpToDateUnlessKilled ==
    crashes = 0 =>
        \A s \in done \cap DOMAIN Source :
            Source[s] \in done =>
                output[s].normalised = output[Source[s]].normalised

(* Crashes, pauses and partial runs only delay a run: unless it is rerun   *)
(* for ever, every default stage gets done.                                *)
PipelineCompletes ==
    \/ []<>(pc = "clean")
    \/ <>[](\A i \in 1..7 : DefaultOrder[i] \in done)

(* run_pipeline: "s0_5 (regs_write reconstruction) runs first so S3's      *)
(* data-flow graph sees producers even on snapshot-only traces".           *)
GraphIsNormalised ==
    ("s0_5" \in done /\ "s3" \in done) => output["s3"].normalised

(* run_stage: "Persist session after every stage so a crash mid-pipeline   *)
(* doesn't lose feedback context" (and hints "survive between stages").    *)
SliceIsAnchored ==
    ("s1b" \in done /\ "s4" \in done) => output["s4"].anchored

=============================================================================
