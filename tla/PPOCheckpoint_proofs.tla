------------------------ MODULE PPOCheckpoint_proofs ------------------------
(***************************************************************************)
(* Proofs about the checkpoints of reinforcement learning, for an actor    *)
(* with and without a critic, every number of ranks, steps and crashes,    *)
(* when max_actor_ckpt_to_keep and max_critic_ckpt_to_keep are null or at  *)
(* least 2 (with 1 the only checkpoint of a role is removed before the     *)
(* next one is written).                                                   *)
(*                                                                         *)
(* The roles are saved and rotated one after the other, each with a list   *)
(* of paths of its own, so at any moment some lists end in the step being  *)
(* saved and the others in the step the tracker names (Fresh).  Rotation   *)
(* removes the head of a list of the second kind.                          *)
(***************************************************************************)
EXTENDS PPOCheckpoint, TLAPS

Early   == {"rotate", "mkdir", "made"}
Middle  == {"write", "writing", "written"}
Closing == {"data", "data_open", "tracker", "tracker_open"}

FileStates == {Absent, Torn} \cup 1 .. run

Types ==
  /\ folders \subseteq Steps
  /\ files \in [Steps -> [Kinds -> [Ranks -> FileStates]]]
  /\ tracker \in Steps \cup {NoTracker, EmptyTracker}
  /\ previous_saved_paths \in [Roles -> Seq(Steps)]
  /\ DOMAIN stage = Ranks
  /\ global_step \in 0 .. LastStep
  /\ run \in 1 .. MaxRuns
  /\ driver \in Roles \cup Closing \cup {"down", "training", "failed", "finished"}

\* the driver waits for all ranks, and the barriers keep them in the same
\* third of a save
OneStage ==
  /\ driver \notin Roles => All("out")
  /\ driver \in Roles =>
       \/ \A r \in Ranks : stage[r] \in Early
       \/ \A r \in Ranks : stage[r] \in Middle
       \/ \A r \in Ranks : stage[r] = "saved"
  /\ driver \in Roles \cup Closing => global_step \in Steps

\* the role has been saved to global_step
Done(role) ==
  \/ driver \in Closing
  \/ driver = "critic" /\ role = "actor"
  \/ driver = role /\ stage[0] = "saved"

\* what has been written to global_step so far
Written ==
  /\ driver \in Roles => \A r \in Ranks :
       /\ stage[r] \in {"made", "saved"} \cup Middle => global_step \in folders
       /\ stage[r] \in {"written", "saved"} => files[global_step][driver][r] = run
  /\ driver \in Closing \cup {"critic"} => global_step \in folders
  /\ driver \in Roles \cup Closing =>
       \A role \in Roles : Done(role) => \A r \in Ranks : files[global_step][role][r] = run
  /\ driver \in {"tracker", "tracker_open"} => files[global_step]["data"][0] = run

Order ==
  \A role \in Roles :
    /\ \A i \in 1 .. Len(Saved(role)) : Saved(role)[i] <= global_step
    /\ \A i, j \in 1 .. Len(Saved(role)) : i < j => Saved(role)[i] < Saved(role)[j]

\* while a step is saved, a list ends in it or in the step the tracker names
Fresh ==
  /\ driver \in Roles \cup {"data", "data_open", "tracker"} =>
       tracker # EmptyTracker /\ tracker < global_step
  /\ driver \in Roles \cup Closing => \A role \in Roles :
       /\ Done(role) => Len(Saved(role)) > 0 /\ Saved(role)[Len(Saved(role))] = global_step
       /\ ~Done(role) =>
            /\ \A i \in 1 .. Len(Saved(role)) : Saved(role)[i] < global_step
            /\ Len(Saved(role)) > 0 => Saved(role)[Len(Saved(role))] = tracker

Published ==
  driver \in {"training", "finished"} =>
    /\ tracker # EmptyTracker /\ tracker <= global_step
    /\ \A role \in Roles : Len(Saved(role)) > 0 => Saved(role)[Len(Saved(role))] = tracker

Down ==
  /\ driver = "tracker_open" => tracker = EmptyTracker
  /\ driver = "failed" => tracker = EmptyTracker
  /\ driver \in {"down", "failed"} =>
       global_step = 0 /\ \A role \in Roles : Len(Saved(role)) = 0

\* the dataloader's file is whole before the tracker names its step
DataWhole == tracker > 0 => files[tracker]["data"][0] \notin {Absent, Torn}

InStep == dataloader = global_step

Inv ==
  /\ Types /\ OneStage /\ Written /\ Order /\ Fresh /\ Published /\ Down
  /\ DataWhole /\ InStep /\ NamedIsComplete
-----------------------------------------------------------------------------
KeepsTwo == \A role \in Roles : MaxCkptToKeep[role] # 1

LEMMA Constants ==
  /\ WorldSize \in Nat \ {0} /\ LastStep \in Nat \ {0} /\ MaxRuns \in Nat \ {0}
  /\ 0 \in Ranks /\ "actor" \in Roles /\ Roles \subseteq {"actor", "critic"}
  /\ Kinds = Roles \cup {"data"} /\ ~OwnFolder
  /\ \A role \in Roles : MaxCkptToKeep[role] \in Nat
BY CheckpointAssumption, PPOAssumption DEF Ranks, Kinds

LEMMA TailFacts ==
  ASSUME NEW s \in Seq(Steps), Len(s) > 0
  PROVE  /\ Tail(s) \in Seq(Steps) /\ Len(Tail(s)) = Len(s) - 1
         /\ \A i \in 1 .. Len(s) - 1 : Tail(s)[i] = s[i + 1]
         /\ Head(s) = s[1] /\ s[1] \in Steps /\ s[Len(s)] \in Steps
OBVIOUS

LEMMA AppendFacts ==
  ASSUME NEW s \in Seq(Steps), NEW n \in Steps
  PROVE  /\ Append(s, n) \in Seq(Steps) /\ Len(Append(s, n)) = Len(s) + 1
         /\ \A i \in 1 .. Len(s) : Append(s, n)[i] = s[i]
         /\ Append(s, n)[Len(s) + 1] = n
OBVIOUS

\* a list in order stays in order when its head goes or a later step is appended
LEMMA TailOrder ==
  ASSUME NEW s \in Seq(Steps), Len(s) >= 2,
         \A i, j \in 1 .. Len(s) : i < j => s[i] < s[j]
  PROVE  /\ \A i, j \in 1 .. Len(Tail(s)) : i < j => Tail(s)[i] < Tail(s)[j]
         /\ \A i \in 1 .. Len(Tail(s)) : \E j \in 1 .. Len(s) : Tail(s)[i] = s[j]
         /\ Tail(s)[Len(Tail(s))] = s[Len(s)]
<1>1. /\ Len(s) \in Nat /\ Len(Tail(s)) = Len(s) - 1
      /\ \A i \in 1 .. Len(s) - 1 : Tail(s)[i] = s[i + 1] /\ i \in Nat
  BY TailFacts
<1>2. \A i \in 1 .. Len(s) - 1 : i + 1 \in 1 .. Len(s)
  BY <1>1
<1>3. Len(s) - 1 \in 1 .. Len(s) - 1 /\ (Len(s) - 1) + 1 = Len(s)
  BY <1>1
<1>4. ASSUME NEW i \in 1 .. Len(s) - 1, NEW j \in 1 .. Len(s) - 1, i < j
      PROVE  Tail(s)[i] < Tail(s)[j]
  <2>1. i + 1 < j + 1
    BY <1>1, <1>4
  <2>2. QED
    BY <1>1, <1>2, <2>1
<1>5. QED
  BY <1>1, <1>2, <1>3, <1>4

LEMMA AppendOrder ==
  ASSUME NEW s \in Seq(Steps), NEW n \in Steps,
         \A i \in 1 .. Len(s) : s[i] < n,
         \A i, j \in 1 .. Len(s) : i < j => s[i] < s[j]
  PROVE  /\ \A i \in 1 .. Len(Append(s, n)) : Append(s, n)[i] <= n
         /\ \A i, j \in 1 .. Len(Append(s, n)) : i < j => Append(s, n)[i] < Append(s, n)[j]
<1>1. /\ Len(s) \in Nat /\ n \in Nat /\ \A i \in 1 .. Len(s) : s[i] \in Nat
      /\ Len(Append(s, n)) = Len(s) + 1 /\ Append(s, n)[Len(s) + 1] = n
      /\ \A i \in 1 .. Len(s) : Append(s, n)[i] = s[i]
  BY AppendFacts, Constants DEF Steps
<1>2. \A i \in 1 .. Len(s) + 1 : i = Len(s) + 1 \/ i \in 1 .. Len(s)
  BY <1>1
<1>3. ASSUME NEW i \in 1 .. Len(s) + 1 PROVE Append(s, n)[i] <= n
  <2>1. CASE i = Len(s) + 1
    BY <1>1, <2>1
  <2>2. CASE i \in 1 .. Len(s)
    BY <1>1, <2>2
  <2>3. QED
    BY <1>2, <2>1, <2>2
<1>4. ASSUME NEW i \in 1 .. Len(s) + 1, NEW j \in 1 .. Len(s) + 1, i < j
      PROVE  Append(s, n)[i] < Append(s, n)[j]
  <2>1. i \in 1 .. Len(s)
    BY <1>1, <1>4
  <2>2. CASE j = Len(s) + 1
    BY <1>1, <2>1, <2>2
  <2>3. CASE j \in 1 .. Len(s)
    BY <1>1, <1>4, <2>1, <2>3
  <2>4. QED
    BY <1>2, <2>2, <2>3
<1>5. QED
  BY <1>1, <1>3, <1>4

\* what opening, closing or unlinking one file does to files
LEMMA SetFacts ==
  ASSUME NEW n \in Steps, NEW k \in Kinds, NEW r \in Ranks, NEW value \in FileStates,
         files \in [Steps -> [Kinds -> [Ranks -> FileStates]]],
         Set(n, k, r, value)
  PROVE  /\ files' \in [Steps -> [Kinds -> [Ranks -> FileStates]]]
         /\ \A m \in Steps, j \in Kinds, q \in Ranks :
              files'[m][j][q] = IF m = n /\ j = k /\ q = r THEN value ELSE files[m][j][q]
<1>1. [files[n][k] EXCEPT ![r] = value] \in [Ranks -> FileStates]
  OBVIOUS
<1>2. [files[n] EXCEPT ![k] = [files[n][k] EXCEPT ![r] = value]]
        \in [Kinds -> [Ranks -> FileStates]]
  BY <1>1
<1>3. files' = [files EXCEPT ![n] = [files[n] EXCEPT ![k] = [files[n][k] EXCEPT ![r] = value]]]
  BY DEF Set
<1>4. files' \in [Steps -> [Kinds -> [Ranks -> FileStates]]]
  BY <1>2, <1>3
<1>5. \A m \in Steps, j \in Kinds, q \in Ranks :
        files'[m][j][q] = IF m = n /\ j = k /\ q = r THEN value ELSE files[m][j][q]
  BY <1>3
<1>6. QED
  BY <1>4, <1>5

LEMMA MoreFileStates ==
  ASSUME NEW F, NEW G, F \subseteq G, files \in [Steps -> [Kinds -> [Ranks -> F]]]
  PROVE  files \in [Steps -> [Kinds -> [Ranks -> G]]]
<1>1. [Ranks -> F] \subseteq [Ranks -> G]
  OBVIOUS
<1>2. [Kinds -> [Ranks -> F]] \subseteq [Kinds -> [Ranks -> G]]
  BY <1>1
<1>3. QED
  BY <1>2

\* a list that is rotated has at least two elements: the first is neither the
\* step the tracker names nor the one being saved
LEMMA OldestIsOld ==
  ASSUME Inv, KeepsTwo, NEW role \in Roles, driver = role, stage[0] = "rotate", MustRotate(role)
  PROVE  /\ Saved(role) \in Seq(Steps) /\ Len(Saved(role)) >= 2
         /\ OldestSaved(role) = Saved(role)[1] /\ Saved(role)[1] \in Steps
         /\ Saved(role)[1] < global_step /\ Saved(role)[1] # tracker
<1>1. Saved(role) \in Seq(Steps) /\ OldestSaved(role) = Head(Saved(role))
  BY DEF Inv, Types, OldestSaved, Saved
<1>2. Len(Saved(role)) \in Nat /\ Len(Saved(role)) >= 2
  BY <1>1, Constants DEF KeepsTwo, MustRotate
<1>3. /\ ~Done(role) /\ driver \in Roles \cup Closing
  BY Constants DEF Done, Closing
<1>4. /\ Head(Saved(role)) = Saved(role)[1]
      /\ \A i \in 1 .. Len(Saved(role)) : Saved(role)[i] \in Steps /\ Saved(role)[i] < global_step
  BY <1>1, <1>2, <1>3 DEF Inv, Fresh
<1>5. Saved(role)[1] < Saved(role)[Len(Saved(role))] /\ Saved(role)[Len(Saved(role))] = tracker
  BY <1>2, <1>3 DEF Inv, Order, Fresh
<1>6. QED
  BY <1>1, <1>2, <1>4, <1>5 DEF Steps

-----------------------------------------------------------------------------
(* One lemma per action. *)

\* what the tracker names can be loaded, with its dataloader
LEMMA LoadCheckpointInv ==
  ASSUME Inv, LoadCheckpoint
  PROVE  Inv'
<1>a. UNCHANGED <<files, folders, tracker, previous_saved_paths, stage, run>>
  BY DEF LoadCheckpoint, disk
<1>b. CanResume(LatestCkpt) \/ LatestCkpt = 0
  <2>1. CASE tracker \in folders
    <3>1. tracker \in Steps /\ tracker > 0 /\ LatestCkpt = tracker
      BY <2>1, Constants DEF Inv, Types, Steps, LatestCkpt
    <3>2. PICK i \in 1 .. run : \A role \in Roles, r \in Ranks : files[tracker][role][r] = i
      BY <3>1 DEF Inv, NamedIsComplete, Complete
    <3>3. i \notin {Absent, Torn}
      BY Constants DEF Inv, Types, Absent, Torn
    <3>4. QED
      BY <3>1, <3>2, <3>3 DEF CanResume, Loadable, Inv, DataWhole
  <2>2. QED
    BY <2>1 DEF LatestCkpt
<1> USE Constants DEF Inv, Types, OneStage, Done, Written, Order, Fresh, Published, Down,
            DataWhole, InStep, NamedIsComplete, Complete, Early, Middle, Closing, Steps, disk,
            Saved, All, NoTracker, EmptyTracker
<1>1. Types'
  <2>1. FileStates' = FileStates
    BY <1>a DEF FileStates
  <2>2. global_step' \in 0 .. LastStep
    BY DEF LoadCheckpoint, FromScratch, Resume, LoadFails, LatestCkpt
  <2>3. driver' \in {"training", "failed"}
    BY DEF LoadCheckpoint, FromScratch, Resume, LoadFails
  <2>4. QED
    BY <1>a, <2>1, <2>2, <2>3
<1>2. OneStage'
  BY DEF LoadCheckpoint, FromScratch, Resume, LoadFails, LatestCkpt, FileStates
<1>3. Written'
  BY DEF LoadCheckpoint, FromScratch, Resume, LoadFails, LatestCkpt, FileStates
<1>4. Order'
  BY DEF LoadCheckpoint, FromScratch, Resume, LoadFails, LatestCkpt, FileStates
<1>5. Fresh'
  BY DEF LoadCheckpoint, FromScratch, Resume, LoadFails, LatestCkpt, FileStates
<1>6. Published'
  BY DEF LoadCheckpoint, FromScratch, Resume, LoadFails, LatestCkpt, FileStates
<1>7. Down'
  BY <1>b DEF LoadCheckpoint, FromScratch, Resume, LoadFails
<1>8. DataWhole'
  BY DEF LoadCheckpoint, FromScratch, Resume, LoadFails, LatestCkpt, FileStates
<1>9. InStep'
  BY DEF LoadCheckpoint, FromScratch, Resume, LoadFails, LatestCkpt
<1>10. NamedIsComplete'
  BY DEF LoadCheckpoint, FromScratch, Resume, LoadFails, LatestCkpt, FileStates
<1>11. QED
  BY <1>1, <1>2, <1>3, <1>4, <1>5, <1>6, <1>7, <1>8, <1>9, <1>10

\* the next save is of a step the tracker does not name
LEMMA TrainStepInv ==
  ASSUME Inv, TrainStep
  PROVE  Inv'
<1>a. UNCHANGED <<files, folders, tracker, previous_saved_paths, run>>
  BY DEF TrainStep, disk
<1>b. /\ driver = "training" /\ global_step < LastStep /\ global_step' = global_step + 1
      /\ \/ driver' = "actor" /\ stage'[0] = "rotate" /\ DOMAIN stage' = Ranks
         \/ driver' = "training" /\ stage' = stage
  BY Constants DEF TrainStep, FirstRole, Enter
<1>c. \A role \in Roles : ~Done(role)'
  BY <1>b, Constants DEF Done, Closing
<1>d. Order'
  <2>1. Order /\ global_step \in Nat /\ global_step' = global_step + 1 /\ UNCHANGED previous_saved_paths
    BY <1>a, <1>b, Constants DEF Inv, Types
  <2>2. \A role \in Roles : Saved(role) \in Seq(Steps) /\ Saved(role)' = Saved(role)
    BY <2>1 DEF Inv, Types, Saved
  <2>3. ASSUME NEW role \in Roles, NEW i \in 1 .. Len(Saved(role))
        PROVE  Saved(role)[i] <= global_step'
    <3>1. Saved(role)[i] <= global_step
      BY <2>1 DEF Order
    <3>2. Saved(role)[i] \in Steps
      BY <2>2
    <3>3. Saved(role)[i] \in Int
      BY <3>2, Constants DEF Steps
    <3>4. QED
      BY <2>1, <3>1, <3>3
  <2>4. QED
    BY <2>1, <2>2, <2>3 DEF Order
<1> USE Constants DEF Inv, Types, OneStage, Done, Written, Order, Fresh, Published, Down,
            DataWhole, InStep, NamedIsComplete, Complete, Early, Middle, Closing, Steps, disk,
            Saved, All, NoTracker, EmptyTracker
<1>1. Types'
  <2>1. FileStates' = FileStates
    BY <1>a DEF FileStates
  <2>2. global_step' \in 0 .. LastStep
    BY <1>b
  <2>3. DOMAIN stage' = Ranks /\ driver' \in Roles \cup {"training"}
    BY <1>b
  <2>4. QED
    BY <1>a, <2>1, <2>2, <2>3
<1>2. OneStage'
  BY DEF TrainStep, FirstRole, Enter, FileStates
<1>3. Written'
  BY DEF TrainStep, FirstRole, Enter, FileStates
<1>4. Order'
  BY ONLY <1>d
<1>5. Fresh'
  <2>1. /\ tracker # EmptyTracker /\ tracker <= global_step /\ tracker \in Int /\ global_step \in Nat
        /\ \A role \in Roles : Len(Saved(role)) > 0 => Saved(role)[Len(Saved(role))] = tracker
    BY <1>b
  <2>2. \A role \in Roles : \A i \in 1 .. Len(Saved(role)) :
          Saved(role)[i] \in Steps /\ Saved(role)[i] <= global_step
    OBVIOUS
  <2>3. \A role \in Roles : Saved(role)' = Saved(role)
    BY <1>a
  <2>4. driver' \notin Closing
    BY <1>b
  <2>5. /\ tracker' # EmptyTracker /\ tracker' < global_step'
        /\ \A role \in Roles : \A i \in 1 .. Len(Saved(role)) : Saved(role)[i] < global_step'
    BY <1>a, <1>b, <2>1, <2>2
  <2>6. QED
    BY <1>a, <1>c, <2>1, <2>3, <2>5 DEF Fresh
<1>6. Published'
  BY DEF TrainStep, FirstRole, Enter, FileStates
<1>7. Down'
  BY DEF TrainStep, FirstRole, Enter, FileStates
<1>8. DataWhole'
  BY DEF TrainStep, FirstRole, Enter, FileStates
<1>9. InStep'
  BY DEF TrainStep, FirstRole, Enter, FileStates
<1>10. NamedIsComplete'
  BY DEF TrainStep, FirstRole, Enter, FileStates
<1>11. QED
  BY <1>1, <1>2, <1>3, <1>4, <1>5, <1>6, <1>7, <1>8, <1>9, <1>10

\* files disappear from the oldest checkpoint of the role
LEMMA RemoveFileInv ==
  ASSUME Inv, KeepsTwo, NEW role \in Roles, driver = role, UNCHANGED <<driver, dataloader>>,
         RemoveFile(role)
  PROVE  Inv'
<1>a. /\ OldestSaved(role) = Saved(role)[1] /\ Saved(role)[1] \in Steps
      /\ Saved(role)[1] < global_step /\ Saved(role)[1] # tracker
  BY OldestIsOld DEF RemoveFile
<1>b. PICK r \in Ranks : Set(Saved(role)[1], role, r, Absent)
  BY <1>a, Constants DEF RemoveFile, Below, Set
<1>c. Absent \in FileStates /\ role \in Kinds
  BY Constants DEF FileStates
<1>d. /\ files' \in [Steps -> [Kinds -> [Ranks -> FileStates]]]
      /\ \A n \in Steps \ {Saved(role)[1]}, j \in Kinds, q \in Ranks :
           files'[n][j][q] = files[n][j][q]
  BY <1>a, <1>b, <1>c, SetFacts DEF Inv, Types
<1> USE Constants DEF Inv, Types, OneStage, Done, Written, Order, Fresh, Published, Down,
            DataWhole, InStep, NamedIsComplete, Complete, Early, Middle, Closing, Steps, disk,
            Saved, All, NoTracker, EmptyTracker
<1>1. Types'
  BY <1>d DEF RemoveFile, FileStates
<1>2. OneStage'
  BY DEF RemoveFile
<1>3. Written'
  <2>1. global_step \in Steps \ {Saved(role)[1]}
    BY <1>a
  <2>2. \A j \in Kinds, q \in Ranks : files'[global_step][j][q] = files[global_step][j][q]
    BY <1>d, <2>1
  <2>3. UNCHANGED <<folders, stage, global_step, run, driver>>
    BY DEF RemoveFile
  <2>4. QED
    BY <2>2, <2>3
<1>4. Order'
  BY DEF RemoveFile
<1>5. Fresh'
  BY DEF RemoveFile
<1>6. Published'
  BY DEF RemoveFile
<1>7. Down'
  BY DEF RemoveFile
<1>8. DataWhole'
  BY <1>a, <1>d DEF RemoveFile
<1>9. InStep'
  BY DEF RemoveFile
<1>10. NamedIsComplete'
  BY <1>a, <1>d DEF RemoveFile
<1>11. QED
  BY <1>1, <1>2, <1>3, <1>4, <1>5, <1>6, <1>7, <1>8, <1>9, <1>10

\* then its entry in previous_saved_paths
LEMMA RemoveFolderInv ==
  ASSUME Inv, KeepsTwo, NEW role \in Roles, driver = role, UNCHANGED <<driver, dataloader>>,
         RemoveFolder(role)
  PROVE  Inv'
<1>a. /\ Saved(role) \in Seq(Steps) /\ Len(Saved(role)) >= 2
  BY OldestIsOld DEF RemoveFolder
<1>b. /\ previous_saved_paths' = [previous_saved_paths EXCEPT ![role] = Tail(Saved(role))]
      /\ UNCHANGED <<folders, files, tracker, stage, global_step, run>>
  BY Constants DEF RemoveFolder, Saved
<1>c. /\ Tail(Saved(role)) \in Seq(Steps) /\ Len(Tail(Saved(role))) = Len(Saved(role)) - 1
      /\ \A i \in 1 .. Len(Saved(role)) - 1 : Tail(Saved(role))[i] = Saved(role)[i + 1]
  BY <1>a, TailFacts
<1>d. /\ Saved(role)' = Tail(Saved(role))
      /\ \A other \in Roles \ {role} : Saved(other)' = Saved(other)
  BY <1>b DEF Inv, Types, Saved
<1>e. Len(Saved(role)) \in Nat /\ ~Done(role) /\ stage[0] = "rotate" /\ driver \in Roles
  BY <1>a, Constants DEF RemoveFolder, Done, Closing
<1>f. /\ \A i \in 1 .. Len(Saved(role)') : \E j \in 1 .. Len(Saved(role)) : Saved(role)'[i] = Saved(role)[j]
      /\ \A i, j \in 1 .. Len(Saved(role)') : i < j => Saved(role)'[i] < Saved(role)'[j]
      /\ Saved(role)'[Len(Saved(role)')] = Saved(role)[Len(Saved(role))]
  BY <1>a, <1>d, TailOrder DEF Inv, Order
<1>g. /\ \A i \in 1 .. Len(Saved(role)') : Saved(role)'[i] < global_step /\ Saved(role)'[i] <= global_step
      /\ Saved(role)'[Len(Saved(role)')] = tracker
  <2>1. driver \in Roles \cup Closing /\ Len(Saved(role)) > 0
    BY <1>a, <1>e
  <2>2. /\ \A i \in 1 .. Len(Saved(role)) : Saved(role)[i] < global_step
        /\ Saved(role)[Len(Saved(role))] = tracker
    BY <1>e, <2>1 DEF Inv, Fresh
  <2>3. \A i \in 1 .. Len(Saved(role)) : Saved(role)[i] <= global_step
    BY DEF Inv, Order
  <2>4. QED
    BY <1>f, <2>2, <2>3
<1>h. Fresh'
  <2>1. \A other \in Roles : Done(other)' <=> Done(other)
    BY <1>b DEF Done
  <2>2. \A other \in Roles : other = role \/ other \in Roles \ {role}
    OBVIOUS
  <2>3. UNCHANGED <<global_step, tracker, driver>> /\ Fresh /\ ~Done(role)
    BY <1>b, <1>e DEF Inv
  <2>4. QED
    BY <1>d, <1>g, <2>1, <2>2, <2>3 DEF Fresh
<1> USE Constants DEF Inv, Types, OneStage, Done, Written, Order, Fresh, Published, Down,
            DataWhole, InStep, NamedIsComplete, Complete, Early, Middle, Closing, Steps, disk,
            Saved, All, NoTracker, EmptyTracker
<1>1. Types'
  <2>1. previous_saved_paths' \in [Roles -> Seq(Steps)]
    BY <1>b, <1>c
  <2>2. QED
    BY <1>b, <2>1 DEF FileStates
<1>2. OneStage'
  BY <1>b, <1>e
<1>3. Written'
  BY <1>b, <1>e
<1>4. Order'
  <2>1. \A other \in Roles : other = role \/ other \in Roles \ {role}
    OBVIOUS
  <2>2. UNCHANGED global_step
    BY <1>b
  <2>3. QED
    BY <1>d, <1>f, <1>g, <2>1, <2>2
<1>5. Fresh'
  BY ONLY <1>h
<1>6. Published'
  BY <1>b, <1>e
<1>7. Down'
  BY <1>b, <1>e
<1>8. DataWhole'
  BY <1>b, <1>e
<1>9. InStep'
  BY <1>b, <1>e
<1>10. NamedIsComplete'
  BY <1>b, <1>e
<1>11. QED
  BY <1>1, <1>2, <1>3, <1>4, <1>5, <1>6, <1>7, <1>8, <1>9, <1>10

LEMMA RotatedInv ==
  ASSUME Inv, NEW role \in Roles, driver = role, UNCHANGED <<driver, dataloader>>, Rotated(role)
  PROVE  Inv'
<1> USE Constants DEF Inv, Types, OneStage, Done, Written, Order, Fresh, Published, Down,
            DataWhole, InStep, NamedIsComplete, Complete, Early, Middle, Closing, Steps, disk,
            Saved, All, NoTracker, EmptyTracker
<1>1. Types'
  BY DEF Rotated, Goto, FileStates
<1>2. OneStage'
  BY DEF Rotated, Goto, FileStates
<1>3. Written'
  BY DEF Rotated, Goto, FileStates
<1>4. Order'
  BY DEF Rotated, Goto, FileStates
<1>5. Fresh'
  BY DEF Rotated, Goto, FileStates
<1>6. Published'
  BY DEF Rotated, Goto, FileStates
<1>7. Down'
  BY DEF Rotated, Goto, FileStates
<1>8. DataWhole'
  BY DEF Rotated, Goto, FileStates
<1>9. InStep'
  BY DEF Rotated, Goto, FileStates
<1>10. NamedIsComplete'
  BY DEF Rotated, Goto, FileStates
<1>11. QED
  BY <1>1, <1>2, <1>3, <1>4, <1>5, <1>6, <1>7, <1>8, <1>9, <1>10

\* the first barrier
LEMMA AllMadeInv ==
  ASSUME Inv, driver \in Roles, UNCHANGED <<driver, dataloader>>, AllMade
  PROVE  Inv'
<1> USE Constants DEF Inv, Types, OneStage, Done, Written, Order, Fresh, Published, Down,
            DataWhole, InStep, NamedIsComplete, Complete, Early, Middle, Closing, Steps, disk,
            Saved, All, NoTracker, EmptyTracker
<1>1. Types'
  BY DEF AllMade, GotoAll, FileStates
<1>2. OneStage'
  BY DEF AllMade, GotoAll, FileStates
<1>3. Written'
  BY DEF AllMade, GotoAll, FileStates
<1>4. Order'
  BY DEF AllMade, GotoAll, FileStates
<1>5. Fresh'
  BY DEF AllMade, GotoAll, FileStates
<1>6. Published'
  BY DEF AllMade, GotoAll, FileStates
<1>7. Down'
  BY DEF AllMade, GotoAll, FileStates
<1>8. DataWhole'
  BY DEF AllMade, GotoAll, FileStates
<1>9. InStep'
  BY DEF AllMade, GotoAll, FileStates
<1>10. NamedIsComplete'
  BY DEF AllMade, GotoAll, FileStates
<1>11. QED
  BY <1>1, <1>2, <1>3, <1>4, <1>5, <1>6, <1>7, <1>8, <1>9, <1>10

\* the second barrier: all shards of the role are whole
LEMMA AllWrittenInv ==
  ASSUME Inv, NEW role \in Roles, driver = role, UNCHANGED <<driver, dataloader>>, AllWritten(role)
  PROVE  Inv'
<1>a. /\ Saved(role) \in Seq(Steps) /\ global_step \in Steps
  BY DEF Inv, Types, OneStage, Saved
<1>b. /\ previous_saved_paths' = [previous_saved_paths EXCEPT ![role] = Append(@, global_step)]
      /\ \A r \in Ranks : stage[r] = "written" /\ stage'[r] = "saved"
      /\ DOMAIN stage' = Ranks
      /\ UNCHANGED <<folders, files, tracker, global_step, run>>
  BY DEF AllWritten, All, GotoAll, disk
<1>c. /\ Saved(role)' = Append(Saved(role), global_step)
      /\ \A other \in Roles \ {role} : Saved(other)' = Saved(other)
      /\ previous_saved_paths' \in [Roles -> Seq(Steps)]
  BY <1>a, <1>b, AppendFacts DEF Inv, Types, Saved
<1>d. /\ Len(Saved(role)') = Len(Saved(role)) + 1 /\ Len(Saved(role)) \in Nat
      /\ \A i \in 1 .. Len(Saved(role)) : Saved(role)'[i] = Saved(role)[i]
      /\ Saved(role)'[Len(Saved(role)) + 1] = global_step
  BY <1>a, <1>c, AppendFacts
<1>e. /\ \A i \in 1 .. Len(Saved(role)') : Saved(role)'[i] <= global_step
      /\ \A i, j \in 1 .. Len(Saved(role)') : i < j => Saved(role)'[i] < Saved(role)'[j]
  <2>1. stage[0] = "written" /\ driver \in Roles \cup Closing /\ driver \notin Closing
    BY <1>b, Constants DEF Closing
  <2>2. ~Done(role)
    BY <2>1 DEF Done
  <2>3. QED
    BY <1>a, <1>c, <2>1, <2>2, AppendOrder DEF Inv, Order, Fresh
<1>f. Order'
  <2>1. \A other \in Roles : other = role \/ other \in Roles \ {role}
    OBVIOUS
  <2>2. Order /\ UNCHANGED global_step
    BY <1>b DEF Inv
  <2>3. QED
    BY <1>c, <1>e, <2>1, <2>2 DEF Order
<1> USE Constants DEF Inv, Types, OneStage, Done, Written, Order, Fresh, Published, Down,
            DataWhole, InStep, NamedIsComplete, Complete, Early, Middle, Closing, Steps, disk,
            Saved, All, NoTracker, EmptyTracker
<1>1. Types'
  BY <1>b, <1>c DEF FileStates
<1>2. OneStage'
  BY <1>b
<1>3. Written'
  BY <1>b
<1>4. Order'
  BY ONLY <1>f
<1>5. Fresh'
  BY <1>a, <1>b, <1>c, <1>d
<1>6. Published'
  BY <1>b
<1>7. Down'
  BY <1>b
<1>8. DataWhole'
  BY <1>b
<1>9. InStep'
  BY <1>b
<1>10. NamedIsComplete'
  BY <1>b
<1>11. QED
  BY <1>1, <1>2, <1>3, <1>4, <1>5, <1>6, <1>7, <1>8, <1>9, <1>10

LEMMA MakeFolderInv ==
  ASSUME Inv, NEW role \in Roles, driver = role, UNCHANGED <<driver, dataloader>>,
         NEW r \in Ranks, MakeFolder(r)
  PROVE  Inv'
<1> USE Constants DEF Inv, Types, OneStage, Done, Written, Order, Fresh, Published, Down,
            DataWhole, InStep, NamedIsComplete, Complete, Early, Middle, Closing, Steps, disk,
            Saved, All, NoTracker, EmptyTracker
<1>1. Types'
  BY DEF MakeFolder, Goto, FileStates
<1>2. OneStage'
  BY DEF MakeFolder, Goto, FileStates
<1>3. Written'
  BY DEF MakeFolder, Goto, FileStates
<1>4. Order'
  BY DEF MakeFolder, Goto, FileStates
<1>5. Fresh'
  BY DEF MakeFolder, Goto, FileStates
<1>6. Published'
  BY DEF MakeFolder, Goto, FileStates
<1>7. Down'
  BY DEF MakeFolder, Goto, FileStates
<1>8. DataWhole'
  BY DEF MakeFolder, Goto, FileStates
<1>9. InStep'
  BY DEF MakeFolder, Goto, FileStates
<1>10. NamedIsComplete'
  BY DEF MakeFolder, Goto, FileStates
<1>11. QED
  BY <1>1, <1>2, <1>3, <1>4, <1>5, <1>6, <1>7, <1>8, <1>9, <1>10

\* the tracker names an earlier step
LEMMA OpenShardInv ==
  ASSUME Inv, NEW role \in Roles, driver = role, UNCHANGED <<driver, dataloader>>,
         NEW r \in Ranks, OpenShard(role, r)
  PROVE  Inv'
<1>a. /\ global_step \in Steps /\ Torn \in FileStates /\ role \in Kinds
      /\ Set(global_step, role, r, Torn)
  BY Constants DEF OpenShard, Inv, Types, OneStage, FileStates
<1>b. /\ files' \in [Steps -> [Kinds -> [Ranks -> FileStates]]]
      /\ \A n \in Steps, j \in Kinds, q \in Ranks :
           files'[n][j][q] = IF n = global_step /\ j = role /\ q = r THEN Torn
                             ELSE files[n][j][q]
  BY <1>a, SetFacts DEF Inv, Types
<1> USE Constants DEF Inv, Types, OneStage, Done, Written, Order, Fresh, Published, Down,
            DataWhole, InStep, NamedIsComplete, Complete, Early, Middle, Closing, Steps, disk,
            Saved, All, NoTracker, EmptyTracker
<1>1. Types'
  BY <1>b DEF OpenShard, Goto, FileStates
<1>2. OneStage'
  BY DEF OpenShard, Goto
<1>3. Written'
  <2>1. /\ UNCHANGED <<folders, global_step, run, driver>>
        /\ stage[r] \in Middle /\ ~Done(role)
        /\ stage' = [stage EXCEPT ![r] = "writing"]
    BY DEF OpenShard, Goto
  <2>2. \A other \in Roles \ {role}, q \in Ranks :
          files'[global_step][other][q] = files[global_step][other][q]
    BY <1>a, <1>b
  <2>3. \A q \in Ranks \ {r} : files'[global_step][role][q] = files[global_step][role][q]
    BY <1>a, <1>b
  <2>4. files'[global_step][role][r] = Torn
    BY <1>a, <1>b
  <2>5. \A other \in Roles : Done(other)' => other # role /\ Done(other)
    BY <2>1
  <2>6. QED
    BY <2>1, <2>2, <2>3, <2>4, <2>5
<1>4. Order'
  BY DEF OpenShard, Goto
<1>5. Fresh'
  BY DEF OpenShard, Goto
<1>6. Published'
  BY DEF OpenShard, Goto
<1>7. Down'
  BY DEF OpenShard, Goto
<1>8. DataWhole'
  BY <1>a, <1>b DEF OpenShard
<1>9. InStep'
  BY DEF OpenShard, Goto
<1>10. NamedIsComplete'
  BY <1>a, <1>b DEF OpenShard
<1>11. QED
  BY <1>1, <1>2, <1>3, <1>4, <1>5, <1>6, <1>7, <1>8, <1>9, <1>10

LEMMA CloseShardInv ==
  ASSUME Inv, NEW role \in Roles, driver = role, UNCHANGED <<driver, dataloader>>,
         NEW r \in Ranks, CloseShard(role, r)
  PROVE  Inv'
<1>a. /\ global_step \in Steps /\ run \in FileStates /\ role \in Kinds
      /\ Set(global_step, role, r, run)
  BY Constants DEF CloseShard, Inv, Types, OneStage, FileStates
<1>b. /\ files' \in [Steps -> [Kinds -> [Ranks -> FileStates]]]
      /\ \A n \in Steps, j \in Kinds, q \in Ranks :
           files'[n][j][q] = IF n = global_step /\ j = role /\ q = r THEN run
                             ELSE files[n][j][q]
  BY <1>a, SetFacts DEF Inv, Types
<1> USE Constants DEF Inv, Types, OneStage, Done, Written, Order, Fresh, Published, Down,
            DataWhole, InStep, NamedIsComplete, Complete, Early, Middle, Closing, Steps, disk,
            Saved, All, NoTracker, EmptyTracker
<1>1. Types'
  BY <1>b DEF CloseShard, Goto, FileStates
<1>2. OneStage'
  BY DEF CloseShard, Goto
<1>3. Written'
  <2>1. /\ UNCHANGED <<folders, global_step, run, driver>>
        /\ stage[r] \in Middle /\ ~Done(role)
        /\ stage' = [stage EXCEPT ![r] = "written"]
    BY DEF CloseShard, Goto
  <2>2. \A other \in Roles \ {role}, q \in Ranks :
          files'[global_step][other][q] = files[global_step][other][q]
    BY <1>a, <1>b
  <2>3. \A q \in Ranks \ {r} : files'[global_step][role][q] = files[global_step][role][q]
    BY <1>a, <1>b
  <2>4. files'[global_step][role][r] = run
    BY <1>a, <1>b
  <2>5. \A other \in Roles : Done(other)' => other # role /\ Done(other)
    BY <2>1
  <2>6. QED
    BY <2>1, <2>2, <2>3, <2>4, <2>5
<1>4. Order'
  BY DEF CloseShard, Goto
<1>5. Fresh'
  BY DEF CloseShard, Goto
<1>6. Published'
  BY DEF CloseShard, Goto
<1>7. Down'
  BY DEF CloseShard, Goto
<1>8. DataWhole'
  BY <1>a, <1>b DEF CloseShard
<1>9. InStep'
  BY DEF CloseShard, Goto
<1>10. NamedIsComplete'
  BY <1>a, <1>b DEF CloseShard
<1>11. QED
  BY <1>1, <1>2, <1>3, <1>4, <1>5, <1>6, <1>7, <1>8, <1>9, <1>10

\* the critic follows the actor, the dataloader the last of them
LEMMA NextRoleInv ==
  ASSUME Inv, NextRole
  PROVE  Inv'
<1>a. /\ \/ driver = "actor" /\ driver' = "critic" /\ "critic" \in Roles /\ Enter
         \/ driver = "actor" /\ driver' = "data" /\ "critic" \notin Roles /\ GotoAll("out")
         \/ driver = "critic" /\ driver' = "data" /\ GotoAll("out")
      /\ UNCHANGED <<folders, files, tracker, previous_saved_paths, global_step, run, dataloader>>
  BY Constants DEF NextRole, AfterActor, disk
<1>b. driver \in Roles /\ All("saved")
  BY DEF NextRole
<1>c. /\ global_step \in folders
      /\ \A role \in Roles : Done(role)' => Done(role)
      /\ \A role \in Roles : Done(role) => \A r \in Ranks : files[global_step][role][r] = run
  BY <1>a, <1>b, Constants DEF Inv, Written, Done, All, Closing, Enter, GotoAll
<1>d. Fresh'
  <2>1. \A role \in Roles : Saved(role)' = Saved(role)
    BY <1>a DEF Saved
  <2>2. \A role \in Roles : Done(role) => Done(role)'
    BY <1>a, <1>b, Constants DEF Done, Closing
  <2>3. \A role \in Roles : Done(role)' <=> Done(role)
    BY <1>c, <2>2
  <2>4. Fresh /\ driver \in Roles /\ UNCHANGED <<global_step, tracker>>
    BY <1>a, <1>b DEF Inv
  <2>5. QED
    BY <2>1, <2>3, <2>4 DEF Fresh
<1> USE Constants DEF Inv, Types, OneStage, Done, Written, Order, Fresh, Published, Down,
            DataWhole, InStep, NamedIsComplete, Complete, Early, Middle, Closing, Steps, disk,
            Saved, All, NoTracker, EmptyTracker
<1>1. Types'
  BY <1>a, <1>b DEF Enter, GotoAll, FileStates
<1>2. OneStage'
  BY <1>a, <1>b DEF Enter, GotoAll, FileStates
<1>3. Written'
  <2>1. \A role \in Roles : Done(role)' => \A r \in Ranks : files'[global_step'][role][r] = run'
    BY <1>a, <1>c
  <2>2. CASE driver' = "critic"
    <3>1. \A r \in Ranks : stage'[r] \in {"rotate", "mkdir"}
      BY <1>a, <2>2 DEF Enter
    <3>2. QED
      BY <1>a, <1>c, <2>1, <2>2, <3>1 DEF Written
  <2>3. CASE driver' = "data"
    BY <1>a, <1>c, <2>1, <2>3 DEF Written
  <2>4. QED
    BY <1>a, <2>2, <2>3
<1>4. Order'
  BY <1>a, <1>b DEF Enter, GotoAll, FileStates
<1>5. Fresh'
  BY ONLY <1>d
<1>6. Published'
  BY <1>a, <1>b DEF Enter, GotoAll, FileStates
<1>7. Down'
  BY <1>a, <1>b DEF Enter, GotoAll, FileStates
<1>8. DataWhole'
  BY <1>a, <1>b DEF Enter, GotoAll, FileStates
<1>9. InStep'
  BY <1>a, <1>b DEF Enter, GotoAll, FileStates
<1>10. NamedIsComplete'
  BY <1>a, <1>b DEF Enter, GotoAll, FileStates
<1>11. QED
  BY <1>1, <1>2, <1>3, <1>4, <1>5, <1>6, <1>7, <1>8, <1>9, <1>10

LEMMA OpenDataInv ==
  ASSUME Inv, OpenData
  PROVE  Inv'
<1>a. /\ global_step \in Steps /\ Torn \in FileStates /\ "data" \in Kinds /\ "data" \notin Roles /\ 0 \in Ranks
      /\ Set(global_step, "data", 0, Torn)
  BY Constants DEF OpenData, Inv, Types, OneStage, FileStates, Closing
<1>b. /\ files' \in [Steps -> [Kinds -> [Ranks -> FileStates]]]
      /\ \A n \in Steps, j \in Kinds, q \in Ranks :
           files'[n][j][q] = IF n = global_step /\ j = "data" /\ q = 0 THEN Torn
                             ELSE files[n][j][q]
  <2>1. files \in [Steps -> [Kinds -> [Ranks -> FileStates]]]
    BY DEF Inv, Types
  <2>2. QED
    BY <1>a, <2>1, SetFacts
<1> USE Constants DEF Inv, Types, OneStage, Done, Written, Order, Fresh, Published, Down,
            DataWhole, InStep, NamedIsComplete, Complete, Early, Middle, Closing, Steps, disk,
            Saved, All, NoTracker, EmptyTracker
<1>1. Types'
  BY <1>b DEF OpenData, FileStates
<1>2. OneStage'
  BY DEF OpenData
<1>3. Written'
  <2>1. \A role \in Roles, q \in Ranks : files'[global_step][role][q] = files[global_step][role][q]
    BY <1>a, <1>b
  <2>2. files'[global_step]["data"][0] = Torn
    BY <1>a, <1>b
  <2>3. /\ driver = "data" /\ driver' = "data_open"
        /\ UNCHANGED <<folders, stage, global_step, run>>
    BY DEF OpenData
  <2>4. \A role \in Roles, q \in Ranks : files[global_step][role][q] = run
    BY <2>3
  <2>5. QED
    BY <2>1, <2>2, <2>3, <2>4
<1>4. Order'
  BY DEF OpenData
<1>5. Fresh'
  BY DEF OpenData
<1>6. Published'
  BY DEF OpenData
<1>7. Down'
  BY DEF OpenData
<1>8. DataWhole'
  BY <1>a, <1>b DEF OpenData
<1>9. InStep'
  BY DEF OpenData
<1>10. NamedIsComplete'
  BY <1>a, <1>b DEF OpenData
<1>11. QED
  BY <1>1, <1>2, <1>3, <1>4, <1>5, <1>6, <1>7, <1>8, <1>9, <1>10

LEMMA CloseDataInv ==
  ASSUME Inv, CloseData
  PROVE  Inv'
<1>a. /\ global_step \in Steps /\ run \in FileStates /\ "data" \in Kinds /\ "data" \notin Roles /\ 0 \in Ranks
      /\ Set(global_step, "data", 0, run)
  BY Constants DEF CloseData, Inv, Types, OneStage, FileStates, Closing
<1>b. /\ files' \in [Steps -> [Kinds -> [Ranks -> FileStates]]]
      /\ \A n \in Steps, j \in Kinds, q \in Ranks :
           files'[n][j][q] = IF n = global_step /\ j = "data" /\ q = 0 THEN run
                             ELSE files[n][j][q]
  <2>1. files \in [Steps -> [Kinds -> [Ranks -> FileStates]]]
    BY DEF Inv, Types
  <2>2. QED
    BY <1>a, <2>1, SetFacts
<1> USE Constants DEF Inv, Types, OneStage, Done, Written, Order, Fresh, Published, Down,
            DataWhole, InStep, NamedIsComplete, Complete, Early, Middle, Closing, Steps, disk,
            Saved, All, NoTracker, EmptyTracker
<1>1. Types'
  BY <1>b DEF CloseData, FileStates
<1>2. OneStage'
  BY DEF CloseData
<1>3. Written'
  <2>1. \A role \in Roles, q \in Ranks : files'[global_step][role][q] = files[global_step][role][q]
    BY <1>a, <1>b
  <2>2. files'[global_step]["data"][0] = run
    BY <1>a, <1>b
  <2>3. /\ driver = "data_open" /\ driver' = "tracker"
        /\ UNCHANGED <<folders, stage, global_step, run>>
    BY DEF CloseData
  <2>4. \A role \in Roles, q \in Ranks : files[global_step][role][q] = run
    BY <2>3
  <2>5. QED
    BY <2>1, <2>2, <2>3, <2>4
<1>4. Order'
  BY DEF CloseData
<1>5. Fresh'
  BY DEF CloseData
<1>6. Published'
  BY DEF CloseData
<1>7. Down'
  BY DEF CloseData
<1>8. DataWhole'
  BY <1>a, <1>b DEF CloseData
<1>9. InStep'
  BY DEF CloseData
<1>10. NamedIsComplete'
  BY <1>a, <1>b DEF CloseData
<1>11. QED
  BY <1>1, <1>2, <1>3, <1>4, <1>5, <1>6, <1>7, <1>8, <1>9, <1>10

LEMMA OpenTrackerInv ==
  ASSUME Inv, OpenTracker
  PROVE  Inv'
<1> USE Constants DEF Inv, Types, OneStage, Done, Written, Order, Fresh, Published, Down,
            DataWhole, InStep, NamedIsComplete, Complete, Early, Middle, Closing, Steps, disk,
            Saved, All, NoTracker, EmptyTracker
<1>1. Types'
  BY DEF OpenTracker, FileStates
<1>2. OneStage'
  BY DEF OpenTracker, FileStates
<1>3. Written'
  BY DEF OpenTracker, FileStates
<1>4. Order'
  BY DEF OpenTracker, FileStates
<1>5. Fresh'
  BY DEF OpenTracker, FileStates
<1>6. Published'
  BY DEF OpenTracker, FileStates
<1>7. Down'
  BY DEF OpenTracker, FileStates
<1>8. DataWhole'
  BY DEF OpenTracker, FileStates
<1>9. InStep'
  BY DEF OpenTracker, FileStates
<1>10. NamedIsComplete'
  BY DEF OpenTracker, FileStates
<1>11. QED
  BY <1>1, <1>2, <1>3, <1>4, <1>5, <1>6, <1>7, <1>8, <1>9, <1>10

\* every role and the dataloader are whole when the tracker names the step
LEMMA CloseTrackerInv ==
  ASSUME Inv, CloseTracker
  PROVE  Inv'
<1> USE Constants DEF Inv, Types, OneStage, Done, Written, Order, Fresh, Published, Down,
            DataWhole, InStep, NamedIsComplete, Complete, Early, Middle, Closing, Steps, disk,
            Saved, All, NoTracker, EmptyTracker
<1>1. Types'
  BY DEF CloseTracker, FileStates
<1>2. OneStage'
  BY DEF CloseTracker, FileStates
<1>3. Written'
  BY DEF CloseTracker, FileStates
<1>4. Order'
  BY DEF CloseTracker, FileStates
<1>5. Fresh'
  BY DEF CloseTracker, FileStates
<1>6. Published'
  BY DEF CloseTracker, FileStates
<1>7. Down'
  BY DEF CloseTracker, FileStates
<1>8. DataWhole'
  BY DEF CloseTracker, Absent, Torn
<1>9. InStep'
  BY DEF CloseTracker, FileStates
<1>10. NamedIsComplete'
  <2>1. /\ global_step \in folders
        /\ \A role \in Roles, r \in Ranks : files[global_step][role][r] = run
    BY DEF CloseTracker
  <2>2. run \in 1 .. run
    OBVIOUS
  <2>3. QED
    BY <2>1, <2>2 DEF CloseTracker
<1>11. QED
  BY <1>1, <1>2, <1>3, <1>4, <1>5, <1>6, <1>7, <1>8, <1>9, <1>10

\* only previous_saved_paths is lost
LEMMA CrashInv ==
  ASSUME Inv, Crash
  PROVE  Inv'
<1> USE Constants DEF Inv, Types, OneStage, Done, Written, Order, Fresh, Published, Down,
            DataWhole, InStep, NamedIsComplete, Complete, Early, Middle, Closing, Steps, disk,
            Saved, All, NoTracker, EmptyTracker
<1>1. Types'
  <2>1. FileStates \subseteq FileStates'
    BY DEF Crash, Died, FileStates
  <2>2. files' \in [Steps -> [Kinds -> [Ranks -> FileStates']]]
    BY <2>1, MoreFileStates DEF Crash, Died
  <2>3. previous_saved_paths' \in [Roles -> Seq(Steps)]
    BY DEF Crash, Died
  <2>4. DOMAIN stage' = Ranks /\ run' \in 1 .. MaxRuns
    BY DEF Crash, Died, GotoAll
  <2>5. global_step' = 0 /\ driver' = "down" /\ UNCHANGED <<folders, tracker>>
    BY DEF Crash, Died
  <2>6. /\ folders' \subseteq Steps /\ tracker' \in Steps \cup {NoTracker, EmptyTracker}
        /\ 0 \in 0 .. LastStep
    BY <2>5
  <2>7. QED
    BY <2>2, <2>3, <2>4, <2>5, <2>6
<1>2. OneStage'
  BY DEF Crash, Died, GotoAll
<1>3. Written'
  BY DEF Crash, Died, GotoAll
<1>4. Order'
  BY DEF Crash, Died, GotoAll
<1>5. Fresh'
  BY DEF Crash, Died, GotoAll
<1>6. Published'
  BY DEF Crash, Died, GotoAll
<1>7. Down'
  BY DEF Crash, Died, GotoAll
<1>8. DataWhole'
  BY DEF Crash, Died, GotoAll
<1>9. InStep'
  BY DEF Crash, Died, GotoAll
<1>10. NamedIsComplete'
  <2>1. 1 .. run \subseteq 1 .. run'
    BY DEF Crash, Died
  <2>2. QED
    BY <2>1 DEF Crash, Died
<1>11. QED
  BY <1>1, <1>2, <1>3, <1>4, <1>5, <1>6, <1>7, <1>8, <1>9, <1>10

-----------------------------------------------------------------------------
LEMMA InitInv == Init => Inv
BY Constants
DEF Init, ManagerInit, Inv, Types, OneStage, Done, Written, Order, Fresh, Published, Down,
    DataWhole, InStep, NamedIsComplete, NoTracker, EmptyTracker, FileStates, Absent, Saved, All,
    Steps, Closing

LEMMA NextInv ==
  ASSUME KeepsTwo, Inv, [Next]_vars
  PROVE  Inv'
<1>1. CASE SaveRole
  <2>1. PICK role \in Roles : driver = role /\ Saving(role)
    BY <1>1 DEF SaveRole
  <2>2. UNCHANGED <<driver, dataloader>>
    BY <1>1 DEF SaveRole
  <2>3. QED
    BY <2>1, <2>2, RemoveFileInv, RemoveFolderInv, RotatedInv, AllMadeInv, AllWrittenInv,
       MakeFolderInv, OpenShardInv, CloseShardInv DEF Saving
<1>2. CASE UNCHANGED vars
  BY <1>2 DEF vars, disk, Inv, Types, OneStage, Done, Written, Order, Fresh, Published, Down,
         DataWhole, InStep, NamedIsComplete, Complete, FileStates, Saved, All
<1>3. CASE Next /\ ~SaveRole
  BY <1>3, LoadCheckpointInv, TrainStepInv, NextRoleInv, OpenDataInv, CloseDataInv,
     OpenTrackerInv, CloseTrackerInv, CrashInv DEF Next
<1>4. QED
  BY <1>1, <1>2, <1>3

(***************************************************************************)
(* The tracker never names a checkpoint of which a role is incomplete,     *)
(* torn or from another save than the others, also while actor and critic  *)
(* are saved, rotated and written over one after the other.                *)
(***************************************************************************)
THEOREM NamedRolesComplete ==
  ASSUME KeepsTwo
  PROVE  Spec => []NamedIsComplete
<1>1. Inv /\ [Next]_vars => Inv'
  BY NextInv
<1>2. Inv => NamedIsComplete
  BY DEF Inv
<1>3. QED
  BY InitInv, <1>1, <1>2, PTL DEF Spec

(***************************************************************************)
(* A load raises for no other reason than an empty tracker, that is after  *)
(* a crash while the tracker was being rewritten; otherwise training goes  *)
(* on with the dataloader in step with the weights.                        *)
(***************************************************************************)
THEOREM OnlyTrackerFails ==
  ASSUME KeepsTwo
  PROVE  Spec => []OnlyTheTrackerTears
<1>1. Inv /\ [Next]_vars => Inv'
  BY NextInv
<1>2. Inv => OnlyTheTrackerTears
  BY DEF Inv, Down, InStep, OnlyTheTrackerTears
<1>3. QED
  BY InitInv, <1>1, <1>2, PTL DEF Spec
=============================================================================
