---------------------------- MODULE SFTCheckpoint ---------------------------
(***************************************************************************)
(* Checkpoints of supervised fine-tuning: CheckpointHandler (utils/        *)
(* checkpoint/checkpoint_handler.py) under SFTTrainer.  The ranks are      *)
(* equals: after the manager's save each goes on alone to write the state  *)
(* of its dataloader, rank 0 then renames the tracker file into place, and *)
(* a last barrier ends the save.  There is one role, and its local_path is *)
(* global_step_N itself.                                                   *)
(***************************************************************************)
EXTENDS CheckpointManager

VARIABLES
  phase,       \* "down", "training", "saving", "failed" (a load that raised), "finished"
  dataloader   \* batches each rank's dataloader has delivered

vars == <<disk, previous_saved_paths, stage, global_step, run, phase, dataloader>>

Model == CHOOSE role \in Roles : TRUE

ASSUME SFTAssumption == Roles = {Model} /\ OwnFolder

Init ==
  /\ ManagerInit
  /\ phase = "down" /\ dataloader = [r \in Ranks |-> 0]

-----------------------------------------------------------------------------
(* load_checkpoint: every rank reads the tracker, its shards, its dataloader *)

FromScratch ==
  /\ LatestCkpt = 0
  /\ phase' = "training" /\ global_step' = 0
  /\ dataloader' = [r \in Ranks |-> 0]

CanResume(n) == Loadable(n) /\ \A r \in Ranks : files[n]["data"][r] # Torn

\* a rank without a dataloader file starts its data from scratch
Resume ==
  /\ LatestCkpt # 0 /\ CanResume(LatestCkpt)
  /\ phase' = IF LatestCkpt = LastStep THEN "finished" ELSE "training"
  /\ global_step' = LatestCkpt
  /\ dataloader' = [r \in Ranks |->
                      IF files[LatestCkpt]["data"][r] = Absent THEN 0 ELSE LatestCkpt]

LoadFails ==
  /\ LatestCkpt # 0 /\ ~CanResume(LatestCkpt)
  /\ phase' = "failed" /\ UNCHANGED <<global_step, dataloader>>

LoadCheckpoint ==
  /\ phase = "down"
  /\ FromScratch \/ Resume \/ LoadFails
  /\ UNCHANGED <<disk, previous_saved_paths, stage, run>>

-----------------------------------------------------------------------------
(* fit and save_checkpoint *)

\* save_freq decides which steps are saved; the last one always is
TrainStep ==
  /\ phase = "training" /\ global_step < LastStep
  /\ global_step' = global_step + 1
  /\ dataloader' = [r \in Ranks |-> dataloader[r] + 1]
  /\ \/ phase' = "saving" /\ Enter
     \/ global_step' < LastStep /\ UNCHANGED <<phase, stage>>
  /\ UNCHANGED <<disk, previous_saved_paths, run>>

SaveModel == phase = "saving" /\ Saving(Model) /\ UNCHANGED <<phase, dataloader>>

OpenData(r) ==
  /\ phase = "saving" /\ stage[r] = "saved" /\ Goto(r, "data")
  /\ Set(global_step, "data", r, Torn)
  /\ UNCHANGED <<folders, tracker, previous_saved_paths, global_step, run, phase, dataloader>>

CloseData(r) ==
  /\ phase = "saving" /\ stage[r] = "data"
  /\ Goto(r, IF r = 0 THEN "tracker" ELSE "done")
  /\ Set(global_step, "data", r, run)
  /\ UNCHANGED <<folders, tracker, previous_saved_paths, global_step, run, phase, dataloader>>

\* mutant: the tracker names the step that is trained next
RenameTrackerToNext ==
  /\ phase = "saving" /\ stage[0] = "tracker" /\ Goto(0, "done")
  /\ tracker' = IF global_step < LastStep THEN global_step + 1 ELSE global_step
  /\ UNCHANGED <<folders, files, previous_saved_paths, global_step, run, phase, dataloader>>

\* the temporary file is written, then renamed: the tracker changes at once
RenameTracker ==
  /\ phase = "saving" /\ stage[0] = "tracker" /\ Goto(0, "done")
  /\ tracker' = global_step
  /\ UNCHANGED <<folders, files, previous_saved_paths, global_step, run, phase, dataloader>>

\* the last barrier
EndSave ==
  /\ phase = "saving" /\ All("done") /\ GotoAll("out")
  /\ phase' = IF global_step = LastStep THEN "finished" ELSE "training"
  /\ UNCHANGED <<disk, previous_saved_paths, global_step, run, dataloader>>

Crash ==
  /\ phase \in {"training", "saving", "failed"}
  /\ Died /\ phase' = "down" /\ dataloader' = [r \in Ranks |-> 0]

Next ==
  \/ LoadCheckpoint \/ TrainStep \/ SaveModel \/ RenameTracker \/ EndSave \/ Crash
  \/ \E r \in Ranks : OpenData(r) \/ CloseData(r)

Spec == Init /\ [][Next]_vars

-----------------------------------------------------------------------------
(***************************************************************************)
(* Types.                                                                  *)
(***************************************************************************)
TypeOK ==
  /\ ManagerTypeOK
  /\ phase \in {"down", "training", "saving", "failed", "finished"}
  /\ dataloader \in [Ranks -> 0 .. LastStep]

(***************************************************************************)
(* checkpoint_handler.py:98: "Update latest checkpoint tracker (atomic    *)
(* write)", and with it the whole save: whatever a crash interrupts, a run *)
(* that starts again continues from the step that was saved last or, when  *)
(* a file it needs is torn, refuses to start; it never goes back further   *)
(* and never ahead.                                                        *)
(***************************************************************************)
Atomic == INSTANCE AtomicCheckpoint
            WITH up <- phase \in {"training", "saving", "finished"},
                 step <- global_step,
                 saved <- IF tracker \in folders THEN tracker ELSE 0

SavesAreAtomic == Atomic!Spec

(***************************************************************************)
(* sft_trainer.py:229: "The dataloader will automatically resume from      *)
(* where it left off": all ranks go on with the batch after global_step.   *)
(***************************************************************************)
DataloadersResume ==
  phase = "training" => \A r \in Ranks : dataloader[r] = global_step
=============================================================================
