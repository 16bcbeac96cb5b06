---------------------------- MODULE PPOCheckpoint ---------------------------
(***************************************************************************)
(* Checkpoints of reinforcement learning: _save_checkpoint and             *)
(* _load_checkpoint of RayPPOTrainer (trainer/ppo/ray_trainer.py).  One    *)
(* driver has the ranks save the actor, then the critic, then writes the   *)
(* dataloader and the tracker file, the latter in place.  A role is saved  *)
(* to a directory of its own inside global_step_N.                         *)
(***************************************************************************)
EXTENDS CheckpointManager

VARIABLES
  driver,      \* where the driver is; a role's name while the role is saved
  dataloader   \* batches its dataloader has delivered

vars == <<disk, previous_saved_paths, stage, global_step, run, driver, dataloader>>

ASSUME PPOAssumption ==
  "actor" \in Roles /\ Roles \subseteq {"actor", "critic"} /\ ~OwnFolder

FirstRole == "actor"
AfterActor == IF "critic" \in Roles THEN "critic" ELSE "data"

Init == ManagerInit /\ driver = "down" /\ dataloader = 0

-----------------------------------------------------------------------------
(* _load_checkpoint *)

\* int("") raises on the empty tracker, torch.load on a file that is not whole
CanResume(n) == Loadable(n) /\ files[n]["data"][0] # Torn

FromScratch ==
  /\ tracker # EmptyTracker /\ LatestCkpt = 0
  /\ driver' = "training" /\ global_step' = 0 /\ dataloader' = 0

Resume ==
  /\ tracker # EmptyTracker /\ LatestCkpt # 0 /\ CanResume(LatestCkpt)
  /\ driver' = "training" /\ global_step' = LatestCkpt
  /\ dataloader' = IF files[LatestCkpt]["data"][0] = Absent THEN 0 ELSE LatestCkpt

LoadFails ==
  /\ tracker = EmptyTracker \/ (LatestCkpt # 0 /\ ~CanResume(LatestCkpt))
  /\ driver' = "failed" /\ UNCHANGED <<global_step, dataloader>>

LoadCheckpoint ==
  /\ driver = "down"
  /\ FromScratch \/ Resume \/ LoadFails
  /\ UNCHANGED <<disk, previous_saved_paths, stage, run>>

-----------------------------------------------------------------------------
(* fit and _save_checkpoint *)

TrainStep ==
  /\ driver = "training" /\ global_step < LastStep
  /\ global_step' = global_step + 1 /\ dataloader' = dataloader + 1
  /\ \/ driver' = FirstRole /\ Enter
     \/ global_step' < LastStep /\ UNCHANGED <<driver, stage>>
  /\ UNCHANGED <<disk, previous_saved_paths, run>>

SaveRole == driver \in Roles /\ Saving(driver) /\ UNCHANGED <<driver, dataloader>>

\* all ranks have returned from the role's save_checkpoint
NextRole ==
  /\ driver \in Roles /\ All("saved")
  /\ driver' = IF driver = "actor" THEN AfterActor ELSE "data"
  /\ IF driver' \in Roles THEN Enter ELSE GotoAll("out")
  /\ UNCHANGED <<disk, previous_saved_paths, global_step, run, dataloader>>

OpenData ==
  /\ driver = "data" /\ driver' = "data_open"
  /\ Set(global_step, "data", 0, Torn)
  /\ UNCHANGED <<folders, tracker, previous_saved_paths, stage, global_step, run, dataloader>>

\* mutant: nobody waits for the dataloader's file
CloseDataLate ==
  /\ driver = "data_open" /\ driver' = "tracker"
  /\ UNCHANGED <<disk, previous_saved_paths, stage, global_step, run, dataloader>>

CloseData ==
  /\ driver = "data_open" /\ driver' = "tracker"
  /\ Set(global_step, "data", 0, run)
  /\ UNCHANGED <<folders, tracker, previous_saved_paths, stage, global_step, run, dataloader>>

\* open(..., "w") truncates the tracker, its contents follow
OpenTracker ==
  /\ driver = "tracker" /\ driver' = "tracker_open" /\ tracker' = EmptyTracker
  /\ UNCHANGED <<folders, files, previous_saved_paths, stage, global_step, run, dataloader>>

CloseTracker ==
  /\ driver = "tracker_open" /\ tracker' = global_step
  /\ driver' = IF global_step = LastStep THEN "finished" ELSE "training"
  /\ UNCHANGED <<folders, files, previous_saved_paths, stage, global_step, run, dataloader>>

Crash ==
  /\ driver \notin {"down", "finished"}
  /\ Died /\ driver' = "down" /\ dataloader' = 0

Next ==
  \/ LoadCheckpoint \/ TrainStep \/ SaveRole \/ NextRole \/ OpenData \/ CloseData
  \/ OpenTracker \/ CloseTracker \/ Crash

Spec == Init /\ [][Next]_vars

-----------------------------------------------------------------------------
(***************************************************************************)
(* Types.                                                                  *)
(***************************************************************************)
TypeOK ==
  /\ ManagerTypeOK
  /\ driver \in Roles \cup {"down", "training", "data", "data_open", "tracker",
                            "tracker_open", "failed", "finished"}
  /\ dataloader \in 0 .. LastStep

(***************************************************************************)
(* A restart resumes what the tracker names, the dataloader included, and  *)
(* fails for no other reason than an empty tracker: a crash anywhere else  *)
(* in _save_checkpoint leaves the previous checkpoint in use.              *)
(***************************************************************************)
OnlyTheTrackerTears ==
  /\ driver = "failed" => tracker = EmptyTracker
  /\ driver = "training" => dataloader = global_step

(***************************************************************************)
(* ray_trainer.py:877: "latest checkpointed iteration tracker (for atomic  *)
(* usage)": the file always holds a step once it exists.                   *)
(***************************************************************************)
TrackerIsAtomic == tracker # EmptyTracker
=============================================================================
