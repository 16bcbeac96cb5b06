------------------------- MODULE CheckpointManager --------------------------
(***************************************************************************)
(* FSDPCheckpointManager.save_checkpoint (utils/checkpoint/                *)
(* fsdp_checkpoint_manager.py), executed by WorldSize ranks in step with   *)
(* two barriers, over a file system that survives a crash of all of them.  *)
(*                                                                         *)
(*     rotate (rank 0) -> mkdir -> made | write -> writing -> written      *)
(*     | -> saved                             "|" is a barrier             *)
(*                                                                         *)
(* A checkpoint is a directory global_step_N.  One file stands for what a  *)
(* rank writes of a role: its model, optimizer and extra state.  A file is *)
(* Absent, Torn (open, or left by a crash), or whole; a whole file is the  *)
(* number of the run of the program that wrote it.                         *)
(*                                                                         *)
(* The two trainers that use the manager, PPOCheckpoint and SFTCheckpoint, *)
(* extend this module.                                                     *)
(***************************************************************************)
EXTENDS Integers, Sequences, FiniteSets

CONSTANTS
  WorldSize,       \* torch.distributed.get_world_size()
  Roles,           \* models that are saved: actor and critic, or one
  OwnFolder,       \* local_path is the whole of global_step_N, not a part of it
  MaxCkptToKeep,   \* max_ckpt_to_keep of every role, 0 for null
  LastStep,        \* total_training_steps
  MaxRuns          \* bound: times the program is started

ASSUME CheckpointAssumption ==
  /\ {WorldSize, LastStep, MaxRuns} \subseteq Nat \ {0}
  /\ OwnFolder \in BOOLEAN
  /\ MaxCkptToKeep \in [Roles -> Nat]
  /\ "data" \notin Roles

Ranks  == 0 .. WorldSize - 1
Steps  == 1 .. LastStep
Kinds  == Roles \cup {"data"}    \* "data": the state of the dataloader
Absent == 0
Torn   == -1

VARIABLES
  folders,               \* the steps N whose directory global_step_N exists
  files,                 \* files[N][kind][rank]
  tracker,               \* latest_checkpointed_iteration.txt, see below
  previous_saved_paths,  \* of rank 0, for each role
  stage,                 \* where each rank is
  global_step,
  run                    \* number of this run of the program

disk == <<folders, files, tracker>>

\* the file does not exist, it is empty, or it holds a step
NoTracker    == 0
EmptyTracker == -1

ManagerInit ==
  /\ folders = {} /\ tracker = NoTracker
  /\ files = [n \in Steps |-> [k \in Kinds |-> [r \in Ranks |-> Absent]]]
  /\ previous_saved_paths = [role \in Roles |-> << >>]
  /\ stage = [r \in Ranks |-> "out"]
  /\ global_step = 0 /\ run = 1

Set(n, kind, r, value) == files' = [files EXCEPT ![n][kind][r] = value]
All(where)     == \A r \in Ranks : stage[r] = where
Goto(r, where) == stage' = [stage EXCEPT ![r] = where]
GotoAll(where) == stage' = [r \in Ranks |-> where]

\* every rank enters save_checkpoint; only rank 0 removes old checkpoints
Enter == stage' = [r \in Ranks |-> IF r = 0 THEN "rotate" ELSE "mkdir"]

-----------------------------------------------------------------------------
(* Rotation *)

Saved(role) == previous_saved_paths[role]
Below(role) == IF OwnFolder THEN Kinds ELSE {role}
IsGone(n, role) == \A k \in Below(role), r \in Ranks : files[n][k][r] = Absent

\* mutants: one checkpoint more than asked for; the newest goes first
RotatesLate(role) == MaxCkptToKeep[role] # 0 /\ Len(Saved(role)) > MaxCkptToKeep[role]
NewestSaved(role) == Saved(role)[Len(Saved(role))]

MustRotate(role) == MaxCkptToKeep[role] # 0 /\ Len(Saved(role)) >= MaxCkptToKeep[role]
OldestSaved(role) == Head(Saved(role))

\* shutil.rmtree unlinks one file after another ...
RemoveFile(role) ==
  /\ stage[0] = "rotate" /\ MustRotate(role)
  /\ \E k \in Below(role), r \in Ranks :
       /\ files[OldestSaved(role)][k][r] # Absent
       /\ Set(OldestSaved(role), k, r, Absent)
  /\ UNCHANGED <<folders, tracker, previous_saved_paths, stage, global_step, run>>

\* ... and the directory last
RemoveFolder(role) ==
  /\ stage[0] = "rotate" /\ MustRotate(role)
  /\ IsGone(OldestSaved(role), role)
  /\ folders' = IF OwnFolder THEN folders \ {OldestSaved(role)} ELSE folders
  /\ previous_saved_paths' = [previous_saved_paths EXCEPT ![role] = Tail(@)]
  /\ UNCHANGED <<files, tracker, stage, global_step, run>>

Rotated(role) ==
  /\ stage[0] = "rotate" /\ ~MustRotate(role)
  /\ Goto(0, "mkdir")
  /\ UNCHANGED <<disk, previous_saved_paths, global_step, run>>

-----------------------------------------------------------------------------
(* Writing *)

MakeFolder(r) ==
  /\ stage[r] = "mkdir" /\ Goto(r, "made")
  /\ folders' = folders \cup {global_step}
  /\ UNCHANGED <<files, tracker, previous_saved_paths, global_step, run>>

\* first torch.distributed.barrier()
AllMade ==
  /\ All("made") /\ GotoAll("write")
  /\ UNCHANGED <<disk, previous_saved_paths, global_step, run>>

OpenShard(role, r) ==
  /\ stage[r] = "write" /\ Goto(r, "writing")
  /\ Set(global_step, role, r, Torn)
  /\ UNCHANGED <<folders, tracker, previous_saved_paths, global_step, run>>

CloseShard(role, r) ==
  /\ stage[r] = "writing" /\ Goto(r, "written")
  /\ Set(global_step, role, r, run)
  /\ UNCHANGED <<folders, tracker, previous_saved_paths, global_step, run>>

\* mutant: rank 0 does not wait for the others
AllWrittenByRank0(role) ==
  /\ stage[0] = "written" /\ GotoAll("saved")
  /\ previous_saved_paths' = [previous_saved_paths EXCEPT ![role] = Append(@, global_step)]
  /\ UNCHANGED <<disk, global_step, run>>

\* second barrier; every rank then appends the path, which matters for rank 0
AllWritten(role) ==
  /\ All("written") /\ GotoAll("saved")
  /\ previous_saved_paths' = [previous_saved_paths EXCEPT ![role] = Append(@, global_step)]
  /\ UNCHANGED <<disk, global_step, run>>

Saving(role) ==
  \/ RemoveFile(role) \/ RemoveFolder(role) \/ Rotated(role)
  \/ AllMade \/ AllWritten(role)
  \/ \E r \in Ranks : MakeFolder(r) \/ OpenShard(role, r) \/ CloseShard(role, r)

-----------------------------------------------------------------------------
(* Loading *)

\* find_latest_ckpt_path with a tracker that can be read: 0 stands for None
LatestCkpt == IF tracker \in folders THEN tracker ELSE 0

\* torch.load of every shard succeeds
Loadable(n) == \A role \in Roles, r \in Ranks : files[n][role][r] \notin {Absent, Torn}

\* the shards of all ranks are there and from one save
Complete(n) ==
  n \in folders /\ \E i \in 1 .. run : \A role \in Roles, r \in Ranks : files[n][role][r] = i

\* all processes die; the disk survives, previous_saved_paths does not
Died ==
  /\ run < MaxRuns /\ run' = run + 1
  /\ previous_saved_paths' = [role \in Roles |-> << >>]
  /\ GotoAll("out") /\ global_step' = 0
  /\ UNCHANGED disk

-----------------------------------------------------------------------------
ManagerTypeOK ==
  /\ folders \subseteq Steps
  /\ files \in [Steps -> [Kinds -> [Ranks -> {Absent, Torn} \cup 1 .. run]]]
  /\ tracker \in Steps \cup {NoTracker, EmptyTracker}
  /\ previous_saved_paths \in [Roles -> Seq(Steps)]
  /\ stage \in [Ranks -> {"out", "rotate", "mkdir", "made", "write", "writing", "written",
                          "saved", "data", "tracker", "done"}]
  /\ global_step \in 0 .. LastStep
  /\ run \in 1 .. MaxRuns

(***************************************************************************)
(* The tracker names a checkpoint to restart from: at every moment, also   *)
(* while a save, a rotation or a restart is under way, the shards of all   *)
(* ranks are whole and come from one save (checkpoint_manager.py:200-202). *)
(***************************************************************************)
NamedIsComplete == tracker > 0 => Complete(tracker)

(***************************************************************************)
(* fsdp_checkpoint_manager.py:190: "Rotates old checkpoints, keeping at    *)
(* most `max_ckpt_to_keep`".  That holds of the checkpoints one run of the *)
(* program has written, the one it is writing included; previous_saved_    *)
(* paths is empty after a restart, so those of earlier runs stay.          *)
(***************************************************************************)
KeepsAtMostPerRun ==
  \A role \in Roles :
    MaxCkptToKeep[role] # 0 =>
      Cardinality({n \in Steps : \E r \in Ranks : files[n][role][r] = run})
        <= MaxCkptToKeep[role]
=============================================================================
