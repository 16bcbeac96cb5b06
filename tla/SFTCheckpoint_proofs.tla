------------------------ MODULE SFTCheckpoint_proofs ------------------------
(***************************************************************************)
(* Proofs about the checkpoints of supervised fine-tuning, for every       *)
(* number of ranks, steps and crashes, when max_ckpt_to_keep is null or at *)
(* least 2 (with 1 the property is false: the only checkpoint is removed   *)
(* before the next one is written).                                        *)
(*                                                                         *)
(* The invariant says why a crash at any point is harmless.  Rank 0 only   *)
(* removes the head of previous_saved_paths; the tracker names its last    *)
(* element (Order, Published), so with two elements the two differ.        *)
(* Shards are written to global_step only, which the tracker does not name *)
(* yet (Unpublished), and when it does every rank has passed the second    *)
(* barrier (OneStage, Written).                                            *)
(***************************************************************************)
EXTENDS SFTCheckpoint, FiniteSetTheorems, TLAPS

Early  == {"rotate", "mkdir", "made"}
Middle == {"write", "writing", "written"}
Late   == {"saved", "data", "tracker", "done"}

Paths == previous_saved_paths[Model]

\* the barriers keep the ranks in the same third of a save
OneStage ==
  /\ phase # "saving" => All("out")
  /\ phase = "saving" =>
       /\ global_step \in Steps
       /\ \/ \A r \in Ranks : stage[r] \in Early
          \/ \A r \in Ranks : stage[r] \in Middle
          \/ \A r \in Ranks : stage[r] \in Late

Written ==
  phase = "saving" =>
    \A r \in Ranks :
      /\ stage[r] \in {"made"} \cup Middle \cup Late => global_step \in folders
      /\ stage[r] \in {"written"} \cup Late => files[global_step][Model][r] = run

Order ==
  /\ \A i \in 1 .. Len(Paths) : Paths[i] <= global_step
  /\ \A i, j \in 1 .. Len(Paths) : i < j => Paths[i] < Paths[j]

Unpublished ==
  phase = "saving" /\ stage[0] \in Early \cup Middle =>
    /\ tracker < global_step
    /\ \A i \in 1 .. Len(Paths) : Paths[i] < global_step
    /\ Len(Paths) > 0 => Paths[Len(Paths)] = tracker

Publishing ==
  phase = "saving" /\ stage[0] \in {"saved", "data", "tracker"} =>
    Len(Paths) > 0 /\ Paths[Len(Paths)] = global_step /\ tracker < global_step

Published ==
  phase \in {"training", "finished"} \/ (phase = "saving" /\ stage[0] = "done") =>
    /\ tracker <= global_step
    /\ Len(Paths) > 0 => Paths[Len(Paths)] = tracker

Down == phase \in {"down", "failed"} => Len(Paths) = 0 /\ global_step = 0

FileStates == {Absent, Torn} \cup 1 .. run

Types ==
  /\ folders \subseteq Steps
  /\ files \in [Steps -> [Kinds -> [Ranks -> FileStates]]]
  /\ tracker \in Steps \cup {NoTracker}
  /\ previous_saved_paths \in [Roles -> Seq(Steps)]
  /\ DOMAIN stage = Ranks
  /\ global_step \in 0 .. LastStep
  /\ run \in 1 .. MaxRuns
  /\ phase \in {"down", "training", "saving", "failed", "finished"}

Inv ==
  /\ Types /\ OneStage /\ Written /\ Order /\ Unpublished /\ Publishing /\ Published
  /\ Down /\ NamedIsComplete
-----------------------------------------------------------------------------
KeepsTwo == MaxCkptToKeep[Model] # 1

LEMMA Constants ==
  /\ WorldSize \in Nat \ {0} /\ LastStep \in Nat \ {0} /\ MaxRuns \in Nat \ {0}
  /\ 0 \in Ranks /\ Roles = {Model} /\ Kinds = {Model, "data"} /\ Model # "data"
  /\ MaxCkptToKeep[Model] \in Nat /\ OwnFolder
BY CheckpointAssumption, SFTAssumption DEF Ranks, Kinds

LEMMA TailOfPaths ==
  ASSUME NEW s \in Seq(Steps), Len(s) > 0
  PROVE  /\ Tail(s) \in Seq(Steps) /\ Len(Tail(s)) = Len(s) - 1
         /\ \A i \in 1 .. Len(s) - 1 : Tail(s)[i] = s[i + 1]
         /\ Head(s) = s[1] /\ s[1] \in Steps /\ s[Len(s)] \in Steps
OBVIOUS

LEMMA AppendToPaths ==
  ASSUME NEW s \in Seq(Steps), NEW n \in Steps
  PROVE  /\ Append(s, n) \in Seq(Steps) /\ Len(Append(s, n)) = Len(s) + 1
         /\ \A i \in 1 .. Len(s) : Append(s, n)[i] = s[i]
         /\ Append(s, n)[Len(s) + 1] = n
OBVIOUS

\* what opening, closing or unlinking one file does to files
LEMMA SetFacts ==
  ASSUME NEW n \in Steps, NEW k \in Kinds, NEW r \in Ranks, NEW value \in FileStates,
         files \in [Steps -> [Kinds -> [Ranks -> FileStates]]],
         Set(n, k, r, value)
  PROVE  /\ files' \in [Steps -> [Kinds -> [Ranks -> FileStates]]]
         /\ \A m \in Steps, j \in Kinds, q \in Ranks :
              files'[m][j][q] = IF m = n /\ j = k /\ q = r THEN value ELSE files[m][j][q]
<1>1. [files[n][k] EXCEPT ![r] = value] \in [Ranks -> FileStates]
  OBVIOUS
<1>2. [files[n] EXCEPT ![k] = [files[n][k] EXCEPT ![r] = value]]
        \in [Kinds -> [Ranks -> FileStates]]
  BY <1>1
<1>3. files' = [files EXCEPT ![n] = [files[n] EXCEPT ![k] = [files[n][k] EXCEPT ![r] = value]]]
  BY DEF Set
<1>4. files' \in [Steps -> [Kinds -> [Ranks -> FileStates]]]
  BY <1>2, <1>3
<1>5. \A m \in Steps, j \in Kinds, q \in Ranks :
        files'[m][j][q] = IF m = n /\ j = k /\ q = r THEN value ELSE files[m][j][q]
  BY <1>3
<1>6. QED
  BY <1>4, <1>5

LEMMA MoreFileStates ==
  ASSUME NEW F, NEW G, F \subseteq G, files \in [Steps -> [Kinds -> [Ranks -> F]]]
  PROVE  files \in [Steps -> [Kinds -> [Ranks -> G]]]
<1>1. [Ranks -> F] \subseteq [Ranks -> G]
  OBVIOUS
<1>2. [Kinds -> [Ranks -> F]] \subseteq [Kinds -> [Ranks -> G]]
  BY <1>1
<1>3. QED
  BY <1>2
-----------------------------------------------------------------------------
(* One lemma per action *)

LEMMA LoadCheckpointInv ==
  ASSUME Inv, LoadCheckpoint
  PROVE  Inv'
<1> USE Constants DEF Inv, Types, OneStage, Written, Order, Unpublished, Publishing,
            Published, Down, NamedIsComplete, Complete, Early, Middle, Late, Steps, disk
<1>1. Types'
  <2>1. UNCHANGED <<files, folders, tracker, previous_saved_paths, stage, run>>
    BY DEF LoadCheckpoint
  <2>2. FileStates' = FileStates
    BY <2>1 DEF FileStates
  <2>3. global_step' \in 0 .. LastStep
    BY DEF LoadCheckpoint, FromScratch, Resume, LoadFails, LatestCkpt
  <2>4. phase' \in {"training", "finished", "failed"}
    BY DEF LoadCheckpoint, FromScratch, Resume, LoadFails
  <2>5. QED
    BY <2>1, <2>2, <2>3, <2>4
<1>2. OneStage'
  BY DEF LoadCheckpoint, FromScratch, Resume, LoadFails, LatestCkpt, All, Paths, NoTracker,
         FileStates
<1>3. Written'
  BY DEF LoadCheckpoint, FromScratch, Resume, LoadFails, LatestCkpt, All, Paths, NoTracker,
         FileStates
<1>4. Order'
  BY DEF LoadCheckpoint, FromScratch, Resume, LoadFails, LatestCkpt, All, Paths, NoTracker,
         FileStates
<1>5. Unpublished'
  BY DEF LoadCheckpoint, FromScratch, Resume, LoadFails, LatestCkpt, All, Paths, NoTracker,
         FileStates
<1>6. Publishing'
  BY DEF LoadCheckpoint, FromScratch, Resume, LoadFails, LatestCkpt, All, Paths, NoTracker,
         FileStates
<1>7. Published'
  BY DEF LoadCheckpoint, FromScratch, Resume, LoadFails, LatestCkpt, All, Paths, NoTracker,
         FileStates
<1>8. Down'
  BY DEF LoadCheckpoint, FromScratch, Resume, LoadFails, LatestCkpt, All, Paths, NoTracker,
         FileStates
<1>9. NamedIsComplete'
  BY DEF LoadCheckpoint, FromScratch, Resume, LoadFails, LatestCkpt, All, Paths, NoTracker,
         FileStates
<1>10. QED
  BY <1>1, <1>2, <1>3, <1>4, <1>5, <1>6, <1>7, <1>8, <1>9

\* the next save is of a step the tracker does not name
LEMMA TrainStepInv ==
  ASSUME Inv, TrainStep
  PROVE  Inv'
<1> USE Constants DEF Inv, Types, OneStage, Written, Order, Unpublished, Publishing,
            Published, Down, NamedIsComplete, Complete, Early, Middle, Late, Steps, disk
<1>1. Types'
  <2>1. UNCHANGED <<files, folders, tracker, previous_saved_paths, run>>
    BY DEF TrainStep
  <2>2. FileStates' = FileStates
    BY <2>1 DEF FileStates
  <2>3. global_step' \in 0 .. LastStep /\ DOMAIN stage' = Ranks
    BY DEF TrainStep, Enter
  <2>4. phase' \in {"training", "saving"}
    BY DEF TrainStep
  <2>5. QED
    BY <2>1, <2>2, <2>3, <2>4
<1>2. OneStage'
  BY DEF TrainStep, Enter, Paths, All, NoTracker, FileStates
<1>3. Written'
  BY DEF TrainStep, Enter, Paths, All, NoTracker, FileStates
<1>4. Order'
  BY DEF TrainStep, Enter, Paths, All, NoTracker, FileStates
<1>5. Unpublished'
  BY DEF TrainStep, Enter, Paths, All, NoTracker, FileStates
<1>6. Publishing'
  BY DEF TrainStep, Enter, Paths, All, NoTracker, FileStates
<1>7. Published'
  BY DEF TrainStep, Enter, Paths, All, NoTracker, FileStates
<1>8. Down'
  BY DEF TrainStep, Enter, Paths, All, NoTracker, FileStates
<1>9. NamedIsComplete'
  BY DEF TrainStep, Enter, Paths, All, NoTracker, FileStates
<1>10. QED
  BY <1>1, <1>2, <1>3, <1>4, <1>5, <1>6, <1>7, <1>8, <1>9

\* files disappear from the oldest checkpoint, which is neither the one the
\* tracker names nor the one being saved
LEMMA RemoveFileInv ==
  ASSUME Inv, KeepsTwo, phase = "saving", UNCHANGED phase, RemoveFile(Model)
  PROVE  Inv'
<1>a. /\ Paths \in Seq(Steps) /\ Len(Paths) >= 2 /\ OldestSaved(Model) = Paths[1]
      /\ Paths[1] \in Steps /\ Paths[1] < global_step /\ Paths[1] # tracker
  <2>1. Paths \in Seq(Steps) /\ OldestSaved(Model) = Head(Paths)
    BY Constants DEF Inv, Types, OldestSaved, Saved, Paths
  <2>2. Len(Paths) \in Nat /\ Len(Paths) >= 2
    BY <2>1, Constants DEF RemoveFile, KeepsTwo, MustRotate, Saved, Paths
  <2>3. /\ Head(Paths) = Paths[1]
        /\ \A i \in 1 .. Len(Paths) : Paths[i] \in Steps /\ Paths[i] < global_step
    BY <2>1, <2>2, Constants DEF RemoveFile, Inv, Unpublished, Early
  <2>4. Paths[1] < Paths[Len(Paths)] /\ Paths[Len(Paths)] = tracker
    BY <2>2, Constants DEF RemoveFile, Inv, Order, Unpublished, Early
  <2>5. QED
    BY <2>1, <2>2, <2>3, <2>4 DEF Steps
<1>b. PICK k \in Kinds, r \in Ranks : Set(Paths[1], k, r, Absent)
  BY <1>a, Constants DEF RemoveFile, Below, Set
<1>c. Paths[1] \in Steps /\ Absent \in FileStates
  BY <1>a DEF FileStates
<1>d. /\ files' \in [Steps -> [Kinds -> [Ranks -> FileStates]]]
      /\ \A n \in Steps \ {Paths[1]}, j \in Kinds, q \in Ranks :
           files'[n][j][q] = files[n][j][q]
  BY <1>b, <1>c, SetFacts DEF Inv, Types
<1> USE Constants DEF Inv, Types, OneStage, Written, Order, Unpublished, Publishing,
            Published, Down, NamedIsComplete, Complete, Early, Middle, Late, Steps, disk
<1>1. Types'
  BY <1>d DEF RemoveFile, FileStates
<1>2. OneStage'
  BY DEF RemoveFile, Paths, All
<1>3. Written'
  BY <1>a, <1>d DEF RemoveFile, All
<1>4. Order'
  BY DEF RemoveFile, Paths, All
<1>5. Unpublished'
  BY DEF RemoveFile, Paths, All
<1>6. Publishing'
  BY DEF RemoveFile, Paths, All
<1>7. Published'
  BY DEF RemoveFile, Paths, All
<1>8. Down'
  BY DEF RemoveFile, Paths, All
<1>9. NamedIsComplete'
  BY <1>a, <1>d DEF RemoveFile, NoTracker
<1>10. QED
  BY <1>1, <1>2, <1>3, <1>4, <1>5, <1>6, <1>7, <1>8, <1>9

\* then its directory and its entry in previous_saved_paths
LEMMA RemoveFolderInv ==
  ASSUME Inv, KeepsTwo, phase = "saving", UNCHANGED phase, RemoveFolder(Model)
  PROVE  Inv'
<1>a. /\ Paths \in Seq(Steps) /\ Len(Paths) >= 2 /\ OldestSaved(Model) = Paths[1]
      /\ Paths[1] \in Steps /\ Paths[1] < global_step /\ Paths[1] # tracker
  <2>1. Paths \in Seq(Steps) /\ OldestSaved(Model) = Head(Paths)
    BY Constants DEF Inv, Types, OldestSaved, Saved, Paths
  <2>2. Len(Paths) \in Nat /\ Len(Paths) >= 2
    BY <2>1, Constants DEF RemoveFolder, KeepsTwo, MustRotate, Saved, Paths
  <2>3. /\ Head(Paths) = Paths[1]
        /\ \A i \in 1 .. Len(Paths) : Paths[i] \in Steps /\ Paths[i] < global_step
    BY <2>1, <2>2, Constants DEF RemoveFolder, Inv, Unpublished, Early
  <2>4. Paths[1] < Paths[Len(Paths)] /\ Paths[Len(Paths)] = tracker
    BY <2>2, Constants DEF RemoveFolder, Inv, Order, Unpublished, Early
  <2>5. QED
    BY <2>1, <2>2, <2>3, <2>4 DEF Steps
<1>b. /\ Paths' = Tail(Paths) /\ previous_saved_paths' \in [Roles -> Seq(Steps)]
      /\ folders' = folders \ {Paths[1]}
      /\ UNCHANGED <<files, tracker, stage, global_step, run>>
  BY <1>a, TailOfPaths, Constants DEF RemoveFolder, Saved, Paths, Inv, Types
<1>c. /\ Len(Paths') = Len(Paths) - 1
      /\ \A i \in 1 .. Len(Paths) - 1 : Paths'[i] = Paths[i + 1]
  BY <1>a, <1>b, TailOfPaths
<1>d. Written'
  <2>1. Written /\ global_step # Paths[1]
    BY <1>a DEF Inv, Steps
  <2>2. QED
    BY <1>b, <2>1 DEF Written
<1>e. Order'
  <2>1. ASSUME NEW k \in 1 .. Len(Paths')
        PROVE  k \in Nat /\ k + 1 \in 1 .. Len(Paths) /\ Paths'[k] = Paths[k + 1]
    <3>1. k \in 1 .. Len(Paths) - 1 /\ Len(Paths) \in Nat
      BY <1>a, <1>c
    <3>2. QED
      BY <1>c, <3>1
  <2>2. Order
    BY DEF Inv
  <2>3. \A k \in 1 .. Len(Paths') : Paths'[k] <= global_step'
    BY <1>b, <2>1, <2>2 DEF Order
  <2>4. ASSUME NEW k \in 1 .. Len(Paths'), NEW l \in 1 .. Len(Paths'), k < l
        PROVE  Paths'[k] < Paths'[l]
    <3>1. k + 1 < l + 1
      BY <2>1, <2>4
    <3>2. QED
      BY <2>1, <2>2, <3>1 DEF Order
  <2>5. QED
    BY <2>3, <2>4 DEF Order
<1> USE Constants DEF Inv, Types, OneStage, Written, Order, Unpublished, Publishing,
            Published, Down, NamedIsComplete, Complete, Early, Middle, Late, Steps, disk
<1>1. Types'
  BY <1>a, <1>b, <1>c DEF All, FileStates, NoTracker
<1>2. OneStage'
  BY <1>a, <1>b, <1>c DEF All, FileStates, NoTracker
<1>3. Written'
  BY ONLY <1>d
<1>4. Order'
  BY ONLY <1>e
<1>5. Unpublished'
  BY <1>a, <1>b, <1>c DEF All, FileStates, NoTracker
<1>6. Publishing'
  BY <1>a, <1>b, <1>c DEF All, FileStates, NoTracker
<1>7. Published'
  BY <1>a, <1>b, <1>c DEF All, FileStates, NoTracker
<1>8. Down'
  BY <1>a, <1>b, <1>c DEF All, FileStates, NoTracker
<1>9. NamedIsComplete'
  BY <1>a, <1>b, <1>c DEF All, FileStates, NoTracker
<1>10. QED
  BY <1>1, <1>2, <1>3, <1>4, <1>5, <1>6, <1>7, <1>8, <1>9

LEMMA RotatedInv ==
  ASSUME Inv, phase = "saving", UNCHANGED phase, Rotated(Model)
  PROVE  Inv'
<1> USE Constants DEF Inv, Types, OneStage, Written, Order, Unpublished, Publishing,
            Published, Down, NamedIsComplete, Complete, Early, Middle, Late, Steps, disk
<1>1. Types'
  BY DEF Rotated, Goto, Paths, All, FileStates
<1>2. OneStage'
  BY DEF Rotated, Goto, Paths, All, FileStates
<1>3. Written'
  BY DEF Rotated, Goto, Paths, All, FileStates
<1>4. Order'
  BY DEF Rotated, Goto, Paths, All, FileStates
<1>5. Unpublished'
  BY DEF Rotated, Goto, Paths, All, FileStates
<1>6. Publishing'
  BY DEF Rotated, Goto, Paths, All, FileStates
<1>7. Published'
  BY DEF Rotated, Goto, Paths, All, FileStates
<1>8. Down'
  BY DEF Rotated, Goto, Paths, All, FileStates
<1>9. NamedIsComplete'
  BY DEF Rotated, Goto, Paths, All, FileStates
<1>10. QED
  BY <1>1, <1>2, <1>3, <1>4, <1>5, <1>6, <1>7, <1>8, <1>9

\* the first barrier
LEMMA AllMadeInv ==
  ASSUME Inv, phase = "saving", UNCHANGED phase, AllMade
  PROVE  Inv'
<1> USE Constants DEF Inv, Types, OneStage, Written, Order, Unpublished, Publishing,
            Published, Down, NamedIsComplete, Complete, Early, Middle, Late, Steps, disk
<1>1. Types'
  BY DEF AllMade, GotoAll, Paths, All, FileStates
<1>2. OneStage'
  BY DEF AllMade, GotoAll, Paths, All, FileStates
<1>3. Written'
  BY DEF AllMade, GotoAll, Paths, All, FileStates
<1>4. Order'
  BY DEF AllMade, GotoAll, Paths, All, FileStates
<1>5. Unpublished'
  BY DEF AllMade, GotoAll, Paths, All, FileStates
<1>6. Publishing'
  BY DEF AllMade, GotoAll, Paths, All, FileStates
<1>7. Published'
  BY DEF AllMade, GotoAll, Paths, All, FileStates
<1>8. Down'
  BY DEF AllMade, GotoAll, Paths, All, FileStates
<1>9. NamedIsComplete'
  BY DEF AllMade, GotoAll, Paths, All, FileStates
<1>10. QED
  BY <1>1, <1>2, <1>3, <1>4, <1>5, <1>6, <1>7, <1>8, <1>9

\* the second barrier: all shards of global_step are whole
LEMMA AllWrittenInv ==
  ASSUME Inv, phase = "saving", UNCHANGED phase, AllWritten(Model)
  PROVE  Inv'
<1>a. Order'
  <2>1. /\ Paths \in Seq(Steps) /\ global_step \in Steps /\ Paths' = Append(Paths, global_step)
        /\ global_step' = global_step /\ Len(Paths) \in Nat
        /\ \A i \in 1 .. Len(Paths) : Paths[i] < global_step
        /\ Order
    BY Constants DEF AllWritten, All, Paths, Inv, Types, OneStage, Unpublished, Order, Steps, Middle
  <2>2. /\ Len(Paths') = Len(Paths) + 1 /\ Paths'[Len(Paths) + 1] = global_step
        /\ \A i \in 1 .. Len(Paths) : Paths'[i] = Paths[i]
    BY <2>1, AppendToPaths
  <2>3. \A i \in 1 .. Len(Paths') : i \in Nat /\ (i \in 1 .. Len(Paths) \/ i = Len(Paths) + 1)
    BY <2>1, <2>2
  <2>4. \A i \in 1 .. Len(Paths') : Paths'[i] <= global_step'
    BY <2>1, <2>2, <2>3 DEF Order, Steps
  <2>5. ASSUME NEW i \in 1 .. Len(Paths'), NEW j \in 1 .. Len(Paths'), i < j
        PROVE  Paths'[i] < Paths'[j]
    <3>1. i \in 1 .. Len(Paths)
      BY <2>1, <2>2, <2>5
    <3>2. QED
      BY <2>1, <2>2, <2>3, <2>5, <3>1 DEF Order
  <2>6. QED
    BY <2>4, <2>5 DEF Order
<1> USE Constants DEF Inv, Types, OneStage, Written, Order, Unpublished, Publishing,
            Published, Down, NamedIsComplete, Complete, Early, Middle, Late, Steps, disk
<1>1. Types'
  BY AppendToPaths DEF AllWritten, GotoAll, Paths, All, FileStates
<1>2. OneStage'
  BY AppendToPaths DEF AllWritten, GotoAll, Paths, All, FileStates
<1>3. Written'
  BY AppendToPaths DEF AllWritten, GotoAll, Paths, All, FileStates
<1>4. Order'
  BY ONLY <1>a
<1>5. Unpublished'
  BY AppendToPaths DEF AllWritten, GotoAll, Paths, All, FileStates
<1>6. Publishing'
  BY AppendToPaths DEF AllWritten, GotoAll, Paths, All, FileStates
<1>7. Published'
  BY AppendToPaths DEF AllWritten, GotoAll, Paths, All, FileStates
<1>8. Down'
  BY AppendToPaths DEF AllWritten, GotoAll, Paths, All, FileStates
<1>9. NamedIsComplete'
  BY AppendToPaths DEF AllWritten, GotoAll, Paths, All, FileStates
<1>10. QED
  BY <1>1, <1>2, <1>3, <1>4, <1>5, <1>6, <1>7, <1>8, <1>9

LEMMA MakeFolderInv ==
  ASSUME Inv, NEW r \in Ranks, phase = "saving", UNCHANGED phase, MakeFolder(r)
  PROVE  Inv'
<1> USE Constants DEF Inv, Types, OneStage, Written, Order, Unpublished, Publishing,
            Published, Down, NamedIsComplete, Complete, Early, Middle, Late, Steps, disk
<1>1. Types'
  BY DEF MakeFolder, Goto, Paths, All, FileStates
<1>2. OneStage'
  BY DEF MakeFolder, Goto, Paths, All, FileStates
<1>3. Written'
  BY DEF MakeFolder, Goto, Paths, All, FileStates
<1>4. Order'
  BY DEF MakeFolder, Goto, Paths, All, FileStates
<1>5. Unpublished'
  BY DEF MakeFolder, Goto, Paths, All, FileStates
<1>6. Publishing'
  BY DEF MakeFolder, Goto, Paths, All, FileStates
<1>7. Published'
  BY DEF MakeFolder, Goto, Paths, All, FileStates
<1>8. Down'
  BY DEF MakeFolder, Goto, Paths, All, FileStates
<1>9. NamedIsComplete'
  BY DEF MakeFolder, Goto, Paths, All, FileStates
<1>10. QED
  BY <1>1, <1>2, <1>3, <1>4, <1>5, <1>6, <1>7, <1>8, <1>9

LEMMA OpenShardInv ==
  ASSUME Inv, NEW r \in Ranks, phase = "saving", UNCHANGED phase, OpenShard(Model, r)
  PROVE  Inv'
<1>b. /\ global_step \in Steps /\ Torn \in FileStates /\ Model \in Kinds
      /\ Set(global_step, Model, r, Torn)
  BY Constants DEF OpenShard, Inv, Types, OneStage, FileStates, Torn
<1>a. /\ files' \in [Steps -> [Kinds -> [Ranks -> FileStates]]]
      /\ \A n \in Steps, j \in Kinds, q \in Ranks :
           files'[n][j][q] = IF n = global_step /\ j = Model /\ q = r THEN Torn
                             ELSE files[n][j][q]
  BY <1>b, SetFacts DEF Inv, Types
<1>c. NamedIsComplete'
  <2>0. UNCHANGED <<tracker, folders, run>>
    BY DEF OpenShard
  <2>4. stage[0] \in Middle
    <3>1. r \in Ranks /\ 0 \in Ranks /\ stage[r] = "write"
      BY Constants DEF OpenShard
    <3>2. "write" \notin Early \cup Late
      BY DEF Early, Late
    <3>3. QED
      BY <3>1, <3>2 DEF Inv, OneStage
  <2>5. tracker < global_step
    BY <2>4 DEF Inv, Unpublished
  <2>6. tracker \in Int /\ global_step \in Int
    BY Constants, <1>b DEF Inv, Types, Steps, NoTracker
  <2>1. tracker # global_step /\ UNCHANGED <<tracker, folders, run>>
    BY <2>0, <2>5, <2>6
  <2>2. CASE tracker > 0
    <3>1. tracker \in folders /\ tracker \in Steps
      BY <2>2 DEF Inv, NamedIsComplete, Complete, Types
    <3>2. PICK i \in 1 .. run : \A role \in Roles, q \in Ranks : files[tracker][role][q] = i
      BY <2>2 DEF Inv, NamedIsComplete, Complete
    <3>3. \A role \in Roles, q \in Ranks : files'[tracker][role][q] = i
      BY <1>a, <2>1, <3>1, <3>2, Constants
    <3>4. QED
      BY <2>1, <3>1, <3>3 DEF NamedIsComplete, Complete
  <2>3. QED
    BY <2>1, <2>2 DEF NamedIsComplete
<1> USE Constants DEF Inv, Types, OneStage, Written, Order, Unpublished, Publishing,
            Published, Down, NamedIsComplete, Complete, Early, Middle, Late, Steps, disk
<1>1. Types'
  BY <1>a DEF OpenShard, Goto, FileStates
<1>2. OneStage'
  BY DEF OpenShard, Goto, Paths, All
<1>3. Written'
  BY <1>a DEF OpenShard, Goto, All
<1>4. Order'
  BY DEF OpenShard, Goto, Paths, All
<1>5. Unpublished'
  BY DEF OpenShard, Goto, Paths, All
<1>6. Publishing'
  BY DEF OpenShard, Goto, Paths, All
<1>7. Published'
  BY DEF OpenShard, Goto, Paths, All
<1>8. Down'
  BY DEF OpenShard, Goto, Paths, All
<1>9. QED
  BY <1>1, <1>2, <1>3, <1>4, <1>5, <1>6, <1>7, <1>8, <1>c

LEMMA CloseShardInv ==
  ASSUME Inv, NEW r \in Ranks, phase = "saving", UNCHANGED phase, CloseShard(Model, r)
  PROVE  Inv'
<1>b. /\ global_step \in Steps /\ run \in FileStates /\ Model \in Kinds
      /\ Set(global_step, Model, r, run)
  BY Constants DEF CloseShard, Inv, Types, OneStage, FileStates, Torn
<1>a. /\ files' \in [Steps -> [Kinds -> [Ranks -> FileStates]]]
      /\ \A n \in Steps, j \in Kinds, q \in Ranks :
           files'[n][j][q] = IF n = global_step /\ j = Model /\ q = r THEN run
                             ELSE files[n][j][q]
  BY <1>b, SetFacts DEF Inv, Types
<1> USE Constants DEF Inv, Types, OneStage, Written, Order, Unpublished, Publishing,
            Published, Down, NamedIsComplete, Complete, Early, Middle, Late, Steps, disk
<1>1. Types'
  BY <1>a DEF CloseShard, Goto, FileStates
<1>2. OneStage'
  BY DEF CloseShard, Goto, Paths, All
<1>3. Written'
  BY <1>a DEF CloseShard, Goto, All
<1>4. Order'
  BY DEF CloseShard, Goto, Paths, All
<1>5. Unpublished'
  BY DEF CloseShard, Goto, Paths, All
<1>6. Publishing'
  BY DEF CloseShard, Goto, Paths, All
<1>7. Published'
  BY DEF CloseShard, Goto, Paths, All
<1>8. Down'
  BY DEF CloseShard, Goto, Paths, All
<1>9. NamedIsComplete'
  BY <1>a DEF CloseShard, Goto, NoTracker
<1>10. QED
  BY <1>1, <1>2, <1>3, <1>4, <1>5, <1>6, <1>7, <1>8, <1>9

LEMMA OpenDataInv ==
  ASSUME Inv, NEW r \in Ranks, OpenData(r)
  PROVE  Inv'
<1>b. /\ global_step \in Steps /\ Torn \in FileStates /\ "data" \in Kinds
      /\ Set(global_step, "data", r, Torn)
  BY Constants DEF OpenData, Inv, Types, OneStage, FileStates, Torn
<1>a. /\ files' \in [Steps -> [Kinds -> [Ranks -> FileStates]]]
      /\ \A n \in Steps, j \in Kinds, q \in Ranks :
           files'[n][j][q] = IF n = global_step /\ j = "data" /\ q = r THEN Torn
                             ELSE files[n][j][q]
  BY <1>b, SetFacts DEF Inv, Types
<1> USE Constants DEF Inv, Types, OneStage, Written, Order, Unpublished, Publishing,
            Published, Down, NamedIsComplete, Complete, Early, Middle, Late, Steps, disk
<1>1. Types'
  BY <1>a DEF OpenData, Goto, FileStates
<1>2. OneStage'
  BY DEF OpenData, Goto, Paths, All
<1>3. Written'
  BY <1>a DEF OpenData, Goto, All
<1>4. Order'
  BY DEF OpenData, Goto, Paths, All
<1>5. Unpublished'
  BY DEF OpenData, Goto, Paths, All
<1>6. Publishing'
  BY DEF OpenData, Goto, Paths, All
<1>7. Published'
  BY DEF OpenData, Goto, Paths, All
<1>8. Down'
  BY DEF OpenData, Goto, Paths, All
<1>9. NamedIsComplete'
  BY <1>a DEF OpenData, Goto, NoTracker
<1>10. QED
  BY <1>1, <1>2, <1>3, <1>4, <1>5, <1>6, <1>7, <1>8, <1>9

LEMMA CloseDataInv ==
  ASSUME Inv, NEW r \in Ranks, CloseData(r)
  PROVE  Inv'
<1>b. /\ global_step \in Steps /\ run \in FileStates /\ "data" \in Kinds
      /\ Set(global_step, "data", r, run)
  BY Constants DEF CloseData, Inv, Types, OneStage, FileStates, Torn
<1>a. /\ files' \in [Steps -> [Kinds -> [Ranks -> FileStates]]]
      /\ \A n \in Steps, j \in Kinds, q \in Ranks :
           files'[n][j][q] = IF n = global_step /\ j = "data" /\ q = r THEN run
                             ELSE files[n][j][q]
  BY <1>b, SetFacts DEF Inv, Types
<1> USE Constants DEF Inv, Types, OneStage, Written, Order, Unpublished, Publishing,
            Published, Down, NamedIsComplete, Complete, Early, Middle, Late, Steps, disk
<1>1. Types'
  BY <1>a DEF CloseData, Goto, FileStates
<1>2. OneStage'
  BY DEF CloseData, Goto, Paths, All
<1>3. Written'
  BY <1>a DEF CloseData, Goto, All
<1>4. Order'
  BY DEF CloseData, Goto, Paths, All
<1>5. Unpublished'
  BY DEF CloseData, Goto, Paths, All
<1>6. Publishing'
  BY DEF CloseData, Goto, Paths, All
<1>7. Published'
  BY DEF CloseData, Goto, Paths, All
<1>8. Down'
  BY DEF CloseData, Goto, Paths, All
<1>9. NamedIsComplete'
  BY <1>a DEF CloseData, Goto, NoTracker
<1>10. QED
  BY <1>1, <1>2, <1>3, <1>4, <1>5, <1>6, <1>7, <1>8, <1>9

\* every rank is past the second barrier when the tracker names the step
LEMMA RenameTrackerInv ==
  ASSUME Inv, RenameTracker
  PROVE  Inv'
<1> USE Constants DEF Inv, Types, OneStage, Written, Order, Unpublished, Publishing,
            Published, Down, NamedIsComplete, Complete, Early, Middle, Late, Steps, disk
<1>1. Types'
  BY DEF RenameTracker, Goto, Paths, All, FileStates
<1>2. OneStage'
  BY DEF RenameTracker, Goto, Paths, All, FileStates
<1>3. Written'
  BY DEF RenameTracker, Goto, Paths, All, FileStates
<1>4. Order'
  BY DEF RenameTracker, Goto, Paths, All, FileStates
<1>5. Unpublished'
  BY DEF RenameTracker, Goto, Paths, All, FileStates
<1>6. Publishing'
  BY DEF RenameTracker, Goto, Paths, All, FileStates
<1>7. Published'
  BY DEF RenameTracker, Goto, Paths, All, FileStates
<1>8. Down'
  BY DEF RenameTracker, Goto, Paths, All, FileStates
<1>9. NamedIsComplete'
  <2>1. global_step \in folders /\ \A r \in Ranks : files[global_step][Model][r] = run
    BY DEF RenameTracker
  <2>2. run \in 1 .. run
    OBVIOUS
  <2>3. QED
    BY <2>1, <2>2 DEF RenameTracker
<1>10. QED
  BY <1>1, <1>2, <1>3, <1>4, <1>5, <1>6, <1>7, <1>8, <1>9

LEMMA EndSaveInv ==
  ASSUME Inv, EndSave
  PROVE  Inv'
<1> USE Constants DEF Inv, Types, OneStage, Written, Order, Unpublished, Publishing,
            Published, Down, NamedIsComplete, Complete, Early, Middle, Late, Steps, disk
<1>1. Types'
  BY DEF EndSave, GotoAll, Paths, All, FileStates
<1>2. OneStage'
  BY DEF EndSave, GotoAll, Paths, All, FileStates
<1>3. Written'
  BY DEF EndSave, GotoAll, Paths, All, FileStates
<1>4. Order'
  BY DEF EndSave, GotoAll, Paths, All, FileStates
<1>5. Unpublished'
  BY DEF EndSave, GotoAll, Paths, All, FileStates
<1>6. Publishing'
  BY DEF EndSave, GotoAll, Paths, All, FileStates
<1>7. Published'
  BY DEF EndSave, GotoAll, Paths, All, FileStates
<1>8. Down'
  BY DEF EndSave, GotoAll, Paths, All, FileStates
<1>9. NamedIsComplete'
  BY DEF EndSave, GotoAll, Paths, All, FileStates
<1>10. QED
  BY <1>1, <1>2, <1>3, <1>4, <1>5, <1>6, <1>7, <1>8, <1>9

\* only previous_saved_paths is lost
LEMMA CrashInv ==
  ASSUME Inv, Crash
  PROVE  Inv'
<1> USE Constants DEF Inv, Types, OneStage, Written, Order, Unpublished, Publishing,
            Published, Down, NamedIsComplete, Complete, Early, Middle, Late, Steps, disk
<1>1. Types'
  <2>1. FileStates \subseteq {Absent, Torn} \cup 1 .. run'
    BY DEF Crash, Died, FileStates
  <2>2. files' \in [Steps -> [Kinds -> [Ranks -> FileStates']]]
    BY <2>1, MoreFileStates DEF Crash, Died, FileStates
  <2>3. previous_saved_paths' \in [Roles -> Seq(Steps)]
    BY DEF Crash, Died
  <2>4. DOMAIN stage' = Ranks /\ run' \in 1 .. MaxRuns
    BY DEF Crash, Died, GotoAll
  <2>5. /\ global_step' = 0 /\ phase' = "down"
        /\ UNCHANGED <<folders, tracker>>
    BY DEF Crash, Died
  <2>6. 0 \in 0 .. LastStep
    OBVIOUS
  <2>7. QED
    BY <2>2, <2>3, <2>4, <2>5, <2>6
<1>2. OneStage'
  BY DEF Crash, Died, GotoAll, Paths, All
<1>3. Written'
  BY DEF Crash, Died, GotoAll, Paths, All
<1>4. Order'
  BY DEF Crash, Died, GotoAll, Paths, All
<1>5. Unpublished'
  BY DEF Crash, Died, GotoAll, Paths, All
<1>6. Publishing'
  BY DEF Crash, Died, GotoAll, Paths, All
<1>7. Published'
  BY DEF Crash, Died, GotoAll, Paths, All
<1>8. Down'
  BY DEF Crash, Died, GotoAll, Paths, All
<1>9. NamedIsComplete'
  <2>1. 1 .. run \subseteq 1 .. run'
    BY DEF Crash, Died
  <2>2. QED
    BY <2>1 DEF Crash, Died
<1>10. QED
  BY <1>1, <1>2, <1>3, <1>4, <1>5, <1>6, <1>7, <1>8, <1>9

-----------------------------------------------------------------------------
LEMMA InitInv == Init => Inv
BY Constants
DEF Init, ManagerInit, Inv, Types, OneStage, Written, Order, Unpublished, Publishing, Published,
    Down, NamedIsComplete, NoTracker, FileStates, Absent, Paths, All, Steps

LEMMA NextInv ==
  ASSUME KeepsTwo, Inv, [Next]_vars
  PROVE  Inv'
<1>1. CASE SaveModel
  BY <1>1, RemoveFileInv, RemoveFolderInv, RotatedInv, AllMadeInv, AllWrittenInv, MakeFolderInv,
     OpenShardInv, CloseShardInv DEF SaveModel, Saving
<1>2. CASE UNCHANGED vars
  BY <1>2 DEF vars, disk, Inv, Types, OneStage, Written, Order, Unpublished, Publishing,
         Published, Down, NamedIsComplete, Complete, FileStates, Paths, All
<1>3. CASE Next /\ ~SaveModel
  BY <1>3, LoadCheckpointInv, TrainStepInv, OpenDataInv, CloseDataInv, RenameTrackerInv,
     EndSaveInv, CrashInv DEF Next
<1>4. QED
  BY <1>1, <1>2, <1>3

(***************************************************************************)
(* The tracker never names a checkpoint that is incomplete, torn or mixed  *)
(* from two saves.                                                         *)
(***************************************************************************)
THEOREM TrackerNamesComplete ==
  ASSUME KeepsTwo
  PROVE  Spec => []NamedIsComplete
<1>1. Inv /\ [Next]_vars => Inv'
  BY NextInv
<1>2. Inv => NamedIsComplete
  BY DEF Inv
<1>3. QED
  BY InitInv, <1>1, <1>2, PTL DEF Spec

\* what the refinement maps "saved" to is the tracker
LEMMA SavedIsTracker ==
  ASSUME Inv
  PROVE  (IF tracker \in folders THEN tracker ELSE 0) = tracker
BY DEF Inv, Types, NamedIsComplete, Complete, NoTracker, Steps

(***************************************************************************)
(* Saving is atomic: a run that starts again continues from the step that  *)
(* was saved last, whatever the crash interrupted.                         *)
(***************************************************************************)
THEOREM SavingIsAtomic ==
  ASSUME KeepsTwo
  PROVE  Spec => SavesAreAtomic
<1>1. Init => Atomic!Init
  BY DEF Init, ManagerInit, Atomic!Init, NoTracker
<1>2. Inv /\ Inv' /\ [Next]_vars => [Atomic!Next]_Atomic!vars
  <2> SUFFICES ASSUME Inv, Inv', [Next]_vars PROVE [Atomic!Next]_Atomic!vars
    OBVIOUS
  <2> USE SavedIsTracker
      DEF Atomic!Next, Atomic!vars, Atomic!Start, Atomic!Train, Atomic!Save, Atomic!Crash
  <2>1. (IF tracker' \in folders' THEN tracker' ELSE 0) = tracker'
    BY DEF Inv, Types, NamedIsComplete, Complete, NoTracker, Steps
  <2>2. CASE LoadCheckpoint
    BY <2>1, <2>2 DEF LoadCheckpoint, FromScratch, Resume, LoadFails, LatestCkpt, disk
  <2>3. CASE TrainStep
    BY <2>1, <2>3 DEF TrainStep, disk
  <2>4. CASE SaveModel
    BY <2>1, <2>4 DEF SaveModel, Saving, RemoveFile, RemoveFolder, Rotated, AllMade, AllWritten,
                      MakeFolder, OpenShard, CloseShard, disk
  <2>5. CASE \E r \in Ranks : OpenData(r) \/ CloseData(r)
    BY <2>1, <2>5 DEF OpenData, CloseData
  <2>6. CASE RenameTracker
    BY <2>1, <2>6 DEF RenameTracker
  <2>7. CASE EndSave
    BY <2>1, <2>7 DEF EndSave, disk
  <2>8. CASE Crash
    BY <2>1, <2>8 DEF Crash, Died, disk
  <2>9. CASE UNCHANGED vars
    BY <2>9 DEF vars, disk
  <2>10. QED
    BY <2>2, <2>3, <2>4, <2>5, <2>6, <2>7, <2>8, <2>9 DEF Next
<1>3. Inv /\ [Next]_vars => Inv'
  BY NextInv
<1>4. QED
  BY InitInv, <1>1, <1>2, <1>3, PTL DEF Spec, SavesAreAtomic, Atomic!Spec

-----------------------------------------------------------------------------
(***************************************************************************)
(* One run of SFT training keeps at most max_ckpt_to_keep checkpoints, for *)
(* every number of ranks, steps and crashes.                               *)
(*                                                                         *)
(* What this run has written is listed in previous_saved_paths, except the *)
(* step that is being written (Listed); and while a step is being written  *)
(* or is about to be, the list has room for it (Room).                     *)
(***************************************************************************)

Listed ==
  \A n \in Steps, r \in Ranks : files[n][Model][r] = run =>
    \/ \E i \in 1 .. Len(Paths) : Paths[i] = n
    \/ phase = "saving" /\ stage[0] \in Middle /\ n = global_step

Room ==
  MaxCkptToKeep[Model] # 0 =>
    /\ Len(Paths) <= MaxCkptToKeep[Model]
    /\ phase = "saving" /\ stage[0] \in {"mkdir", "made"} \cup Middle =>
         Len(Paths) < MaxCkptToKeep[Model]

-----------------------------------------------------------------------------
(* Writing, opening or removing a file of the SFT model *)

\* no other file becomes one of this run
LEMMA SetListed ==
  ASSUME Inv, Listed, NEW n \in Steps, NEW k \in Kinds, NEW q \in Ranks,
         NEW value \in FileStates, Set(n, k, q, value)
  PROVE  \A m \in Steps, r \in Ranks :
           files'[m][Model][r] = run =>
             \/ \E i \in 1 .. Len(Paths) : Paths[i] = m
             \/ phase = "saving" /\ stage[0] \in Middle /\ m = global_step
             \/ value = run /\ m = n /\ k = Model
<1> SUFFICES ASSUME NEW m \in Steps, NEW r \in Ranks, files'[m][Model][r] = run,
                    ~(value = run /\ m = n /\ k = Model)
             PROVE  \/ \E i \in 1 .. Len(Paths) : Paths[i] = m
                    \/ phase = "saving" /\ stage[0] \in Middle /\ m = global_step
  OBVIOUS
<1>1. files'[m][Model][r] = IF m = n /\ Model = k /\ r = q THEN value ELSE files[m][Model][r]
  <2>1. files \in [Steps -> [Kinds -> [Ranks -> FileStates]]]
    BY DEF Inv, Types
  <2>2. DOMAIN files = Steps /\ DOMAIN files[n] = Kinds /\ DOMAIN files[n][k] = Ranks
    BY <2>1
  <2>3. files'[m][Model] = IF m = n /\ Model = k THEN [files[n][k] EXCEPT ![q] = value]
                                                 ELSE files[m][Model]
    BY <2>2, Constants DEF Set
  <2>4. QED
    BY <2>2, <2>3
<1>2. files[m][Model][r] = run
  BY <1>1
<1>3. QED
  BY <1>2 DEF Listed

\* a rank is in the middle of a save only together with rank 0
LEMMA MiddleOfRank0 ==
  ASSUME Inv, phase = "saving", NEW r \in Ranks, stage[r] \in Middle
  PROVE  stage[0] \in Middle
<1>1. 0 \in Ranks
  BY Constants
<1>2. Middle \cap (Early \cup Late) = {}
  BY DEF Early, Middle, Late
<1>3. QED
  BY <1>1, <1>2 DEF Inv, OneStage

-----------------------------------------------------------------------------
(* One lemma per action that writes files or paths *)

LEMMA RemoveFileListed ==
  ASSUME Inv, Listed, Room, phase = "saving", UNCHANGED phase, RemoveFile(Model)
  PROVE  Listed' /\ Room'
<1>1. UNCHANGED <<previous_saved_paths, stage, global_step, run, phase>>
  BY DEF RemoveFile
<1>2. PICK k \in Kinds, r \in Ranks : Set(OldestSaved(Model), k, r, Absent)
  BY Constants DEF RemoveFile, Below, Set
<1>3. OldestSaved(Model) \in Steps
  <2>1. Paths \in Seq(Steps) /\ OldestSaved(Model) = Head(Paths)
    BY Constants DEF Inv, Types, OldestSaved, Saved, Paths
  <2>2. Len(Paths) > 0
    BY <2>1, Constants DEF RemoveFile, MustRotate, Saved, Paths
  <2>3. QED
    BY <2>1, <2>2
<1>4. Absent \in FileStates /\ Absent # run
  BY Constants DEF FileStates, Absent, Inv, Types
<1>5. Listed'
  BY <1>1, <1>2, <1>3, <1>4, SetListed DEF Listed, Paths
<1>6. QED
  BY <1>1, <1>5 DEF Room, Paths

\* the head of the list has no file left
LEMMA RemoveFolderListed ==
  ASSUME Inv, Listed, Room, phase = "saving", UNCHANGED phase, RemoveFolder(Model)
  PROVE  Listed' /\ Room'
<1>1. UNCHANGED <<files, stage, global_step, run, phase>> /\ stage[0] = "rotate"
  BY DEF RemoveFolder
<1>2. Paths \in Seq(Steps) /\ OldestSaved(Model) = Head(Paths)
  BY Constants DEF Inv, Types, OldestSaved, Saved, Paths
<1>3. Len(Paths) \in Nat /\ Len(Paths) > 0
  BY <1>2, Constants DEF RemoveFolder, MustRotate, Saved, Paths
<1>4. /\ Paths' = Tail(Paths) /\ Len(Paths') = Len(Paths) - 1
      /\ \A i \in 1 .. Len(Paths) - 1 : Paths'[i] = Paths[i + 1]
      /\ OldestSaved(Model) = Paths[1]
  BY <1>2, <1>3, TailOfPaths, Constants DEF RemoveFolder, Saved, Paths, Inv, Types
<1>5. \A r \in Ranks : files[Paths[1]][Model][r] # run
  BY <1>4, Constants DEF RemoveFolder, IsGone, Below, Absent, Inv, Types
<1>6. Listed'
  <2> SUFFICES ASSUME NEW n \in Steps, NEW r \in Ranks, files[n][Model][r] = run
               PROVE  \E i \in 1 .. Len(Paths') : Paths'[i] = n
    BY <1>1 DEF Listed
  <2>1. PICK i \in 1 .. Len(Paths) : Paths[i] = n
    BY <1>1 DEF Listed, Middle
  <2>2. i # 1
    BY <2>1, <1>5
  <2>3. i - 1 \in 1 .. Len(Paths) - 1 /\ (i - 1) + 1 = i
    BY <1>3, <2>2
  <2>4. Paths'[i - 1] = n
    BY <1>4, <2>1, <2>3
  <2>5. QED
    BY <1>4, <2>3, <2>4
<1>7. Room'
  <2>1. stage'[0] \notin {"mkdir", "made"} \cup Middle
    BY <1>1 DEF Middle
  <2>2. QED
    BY <1>1, <1>3, <1>4, <2>1, Constants DEF Room
<1>8. QED
  BY <1>6, <1>7

LEMMA RotatedListed ==
  ASSUME Inv, Listed, Room, phase = "saving", UNCHANGED phase, Rotated(Model)
  PROVE  Listed' /\ Room'
<1>1. UNCHANGED <<files, previous_saved_paths, global_step, run, phase>> /\ stage[0] = "rotate"
  BY DEF Rotated, disk
<1>2. Listed'
  BY <1>1 DEF Listed, Middle, Paths
<1>3. Paths \in Seq(Steps)
  BY Constants DEF Inv, Types, Paths
<1>4. MaxCkptToKeep[Model] # 0 => Len(Paths) < MaxCkptToKeep[Model]
  BY <1>3, Constants DEF Rotated, MustRotate, Saved, Paths
<1>5. QED
  BY <1>1, <1>2, <1>3, <1>4, Constants DEF Room, Paths

LEMMA AllMadeListed ==
  ASSUME Inv, Listed, Room, phase = "saving", UNCHANGED phase, AllMade
  PROVE  Listed' /\ Room'
<1>1. /\ UNCHANGED <<files, previous_saved_paths, global_step, run, phase>>
      /\ stage[0] = "made" /\ stage'[0] = "write"
  BY Constants DEF AllMade, All, GotoAll, disk
<1>2. QED
  BY <1>1 DEF Listed, Room, Middle, Paths

\* the step that was being written enters the list
LEMMA AllWrittenListed ==
  ASSUME Inv, Listed, Room, phase = "saving", UNCHANGED phase, AllWritten(Model)
  PROVE  Listed' /\ Room'
<1>1. /\ UNCHANGED <<files, global_step, run, phase>>
      /\ stage[0] = "written" /\ stage'[0] = "saved"
  BY Constants DEF AllWritten, All, GotoAll, disk
<1>2. Paths \in Seq(Steps) /\ global_step \in Steps /\ Len(Paths) \in Nat
  BY Constants DEF Inv, Types, Paths, OneStage
<1>3. /\ Paths' = Append(Paths, global_step) /\ Len(Paths') = Len(Paths) + 1
      /\ \A i \in 1 .. Len(Paths) : Paths'[i] = Paths[i]
      /\ Paths'[Len(Paths) + 1] = global_step
  BY <1>2, AppendToPaths, Constants DEF AllWritten, Paths, Inv, Types
<1>4. Listed'
  <2> SUFFICES ASSUME NEW n \in Steps, NEW r \in Ranks, files[n][Model][r] = run
               PROVE  \E i \in 1 .. Len(Paths') : Paths'[i] = n
    BY <1>1 DEF Listed
  <2>1. CASE \E i \in 1 .. Len(Paths) : Paths[i] = n
    BY <1>2, <1>3, <2>1
  <2>2. CASE n = global_step
    BY <1>2, <1>3, <2>2
  <2>3. QED
    BY <2>1, <2>2 DEF Listed
<1>5. Room'
  BY <1>1, <1>2, <1>3, Constants DEF Room, Middle
<1>6. QED
  BY <1>4, <1>5

LEMMA MakeFolderListed ==
  ASSUME Inv, Listed, Room, phase = "saving", UNCHANGED phase, NEW r \in Ranks, MakeFolder(r)
  PROVE  Listed' /\ Room'
<1>1. /\ UNCHANGED <<files, previous_saved_paths, global_step, run, phase>>
      /\ stage[r] = "mkdir" /\ stage' = [stage EXCEPT ![r] = "made"]
      /\ DOMAIN stage = Ranks /\ 0 \in Ranks
  BY Constants DEF MakeFolder, Goto, Inv, Types
<1>2. IF r = 0 THEN stage[0] = "mkdir" /\ stage'[0] = "made" ELSE stage'[0] = stage[0]
  BY <1>1
<1>3. Listed'
  BY <1>1, <1>2 DEF Listed, Middle, Paths
<1>4. Room'
  BY <1>1, <1>2 DEF Room, Middle, Paths
<1>5. QED
  BY <1>3, <1>4

LEMMA ShardListed ==
  ASSUME Inv, Listed, Room, phase = "saving", UNCHANGED phase, NEW r \in Ranks,
         OpenShard(Model, r) \/ CloseShard(Model, r)
  PROVE  Listed' /\ Room'
<1>1. /\ UNCHANGED <<previous_saved_paths, global_step, run, phase>>
      /\ stage[r] \in Middle /\ DOMAIN stage = Ranks /\ 0 \in Ranks
      /\ \E to \in Middle : stage' = [stage EXCEPT ![r] = to]
  BY Constants DEF OpenShard, CloseShard, Goto, Middle, Inv, Types
<1>2. stage[0] \in Middle
  BY <1>1, MiddleOfRank0
<1>3. stage'[0] \in Middle
  BY <1>1, <1>2
<1>4. PICK value \in FileStates : Set(global_step, Model, r, value)
  BY Constants DEF OpenShard, CloseShard, FileStates, Inv, Types
<1>5. global_step \in Steps /\ Model \in Kinds
  BY Constants DEF Inv, OneStage
<1>6. \A m \in Steps, q \in Ranks :
        files'[m][Model][q] = run =>
          (\E i \in 1 .. Len(Paths) : Paths[i] = m) \/ m = global_step
  BY <1>4, <1>5, SetListed
<1>7. Listed'
  BY <1>1, <1>3, <1>6 DEF Listed, Paths
<1>8. Room'
  BY <1>1, <1>2 DEF Room, Paths
<1>9. QED
  BY <1>7, <1>8

\* the dataloader's file is not one of the model's
LEMMA DataListed ==
  ASSUME Inv, Listed, Room, NEW r \in Ranks, OpenData(r) \/ CloseData(r)
  PROVE  Listed' /\ Room'
<1>1. /\ UNCHANGED <<previous_saved_paths, global_step, run, phase>>
      /\ phase = "saving" /\ stage[r] \in Late /\ DOMAIN stage = Ranks /\ 0 \in Ranks
      /\ \E to \in Late : stage' = [stage EXCEPT ![r] = to]
  BY Constants DEF OpenData, CloseData, Goto, Late, Inv, Types
<1>2. stage[0] \in Late
  <2>1. Late \cap (Early \cup Middle) = {}
    BY DEF Early, Middle, Late
  <2>2. QED
    BY <1>1, <2>1 DEF Inv, OneStage
<1>3. stage'[0] \in Late
  BY <1>1, <1>2
<1>4. PICK value \in FileStates : Set(global_step, "data", r, value)
  BY Constants DEF OpenData, CloseData, FileStates, Inv, Types
<1>5. global_step \in Steps /\ "data" \in Kinds /\ "data" # Model
  BY <1>1, Constants DEF Inv, OneStage
<1>6. Late \cap ({"mkdir", "made"} \cup Middle) = {}
  BY DEF Middle, Late
<1>7. Listed'
  BY <1>1, <1>2, <1>4, <1>5, <1>6, SetListed DEF Listed, Paths
<1>8. Room'
  BY <1>1, <1>3, <1>6 DEF Room, Paths
<1>9. QED
  BY <1>7, <1>8

-----------------------------------------------------------------------------
(* The other actions *)

LEMMA TrainStepListed ==
  ASSUME Inv, Listed, Room, TrainStep
  PROVE  Listed' /\ Room'
<1>1. /\ UNCHANGED <<files, previous_saved_paths, run>> /\ phase = "training"
      /\ phase' = "saving" => stage'[0] = "rotate"
  BY Constants DEF TrainStep, Enter, disk
<1>2. QED
  BY <1>1 DEF Listed, Room, Middle, Paths

LEMMA EndSaveListed ==
  ASSUME Inv, Listed, Room, EndSave
  PROVE  Listed' /\ Room'
<1>1. /\ UNCHANGED <<files, previous_saved_paths, run>>
      /\ stage[0] = "done" /\ phase' # "saving"
  BY Constants DEF EndSave, All, disk
<1>2. QED
  BY <1>1 DEF Listed, Room, Middle, Paths

LEMMA RenameTrackerListed ==
  ASSUME Inv, Listed, Room, RenameTracker
  PROVE  Listed' /\ Room'
<1>1. /\ UNCHANGED <<files, previous_saved_paths, global_step, run, phase>>
      /\ stage[0] = "tracker" /\ stage'[0] = "done"
  BY Constants DEF RenameTracker, Goto, Inv, Types
<1>2. QED
  BY <1>1 DEF Listed, Room, Middle, Paths

LEMMA LoadCheckpointListed ==
  ASSUME Inv, Listed, Room, LoadCheckpoint
  PROVE  Listed' /\ Room'
<1>1. /\ UNCHANGED <<files, previous_saved_paths, run>>
      /\ phase = "down" /\ phase' # "saving"
  BY DEF LoadCheckpoint, FromScratch, Resume, LoadFails, disk
<1>2. QED
  BY <1>1 DEF Listed, Room, Paths

\* no file is of the run that has not started yet
LEMMA CrashListed ==
  ASSUME Inv, Listed, Room, Crash
  PROVE  Listed' /\ Room'
<1>1. UNCHANGED files /\ run' = run + 1 /\ phase' = "down" /\ Paths' = << >>
  BY Constants DEF Crash, Died, disk, Paths
<1>2. \A n \in Steps, r \in Ranks : files[n][Model][r] \in FileStates
  BY Constants DEF Inv, Types
<1>3. run + 1 \notin FileStates
  BY Constants DEF FileStates, Absent, Torn, Inv, Types
<1>4. Listed'
  BY <1>1, <1>2, <1>3 DEF Listed
<1>5. Room'
  BY <1>1, Constants DEF Room
<1>6. QED
  BY <1>4, <1>5

LEMMA InitListed == Init => Listed /\ Room
<1> SUFFICES ASSUME Init PROVE Listed /\ Room
  OBVIOUS
<1>1. /\ Paths = << >> /\ run = 1 /\ phase = "down"
      /\ \A n \in Steps, r \in Ranks : files[n][Model][r] = 0
  BY Constants DEF Init, ManagerInit, Paths, Absent
<1>2. QED
  BY <1>1, Constants DEF Listed, Room

LEMMA NextListed ==
  ASSUME Inv, Listed, Room, [Next]_vars
  PROVE  Listed' /\ Room'
<1>1. CASE SaveModel
  BY <1>1, RemoveFileListed, RemoveFolderListed, RotatedListed, AllMadeListed, AllWrittenListed,
     MakeFolderListed, ShardListed DEF SaveModel, Saving
<1>2. CASE UNCHANGED vars
  BY <1>2 DEF vars, disk, Listed, Room, Paths
<1>3. CASE Next /\ ~SaveModel
  BY <1>3, LoadCheckpointListed, TrainStepListed, DataListed, RenameTrackerListed,
     EndSaveListed, CrashListed DEF Next
<1>4. QED
  BY <1>1, <1>2, <1>3

-----------------------------------------------------------------------------
\* a sequence has no more elements than its length
LEMMA ElementsOfPaths ==
  ASSUME NEW s \in Seq(Steps)
  PROVE  LET S == {s[i] : i \in 1 .. Len(s)}
         IN  IsFiniteSet(S) /\ Cardinality(S) <= Len(s)
<1> DEFINE S == {s[i] : i \in 1 .. Len(s)}
           f == [i \in 1 .. Len(s) |-> s[i]]
<1>1. f \in Surjection(1 .. Len(s), S)
  BY DEF Surjection
<1>2. Len(s) \in Nat
  OBVIOUS
<1>3. IsFiniteSet(1 .. Len(s)) /\ Cardinality(1 .. Len(s)) = Len(s)
  <2>1. /\ IsFiniteSet(1 .. Len(s))
        /\ Cardinality(1 .. Len(s)) = IF 1 > Len(s) THEN 0 ELSE Len(s) - 1 + 1
    BY <1>2, FS_Interval
  <2>2. QED
    BY <1>2, <2>1
<1> HIDE DEF S, f
<1>4. IsFiniteSet(S) /\ Cardinality(S) <= Cardinality(1 .. Len(s))
  BY <1>1, <1>3, FS_Surjection
<1>5. QED
  BY <1>3, <1>4 DEF S

LEMMA ListedBounds ==
  ASSUME Inv, Listed, Room
  PROVE  KeepsAtMostPerRun
<1> DEFINE Mine == {n \in Steps : \E r \in Ranks : files[n][Model][r] = run}
           Full == IF phase = "saving" /\ stage[0] \in Middle
                   THEN Append(Paths, global_step) ELSE Paths
           Elements == {Full[i] : i \in 1 .. Len(Full)}
<1> SUFFICES ASSUME MaxCkptToKeep[Model] # 0
             PROVE  Cardinality(Mine) <= MaxCkptToKeep[Model]
  BY Constants DEF KeepsAtMostPerRun
<1>1. Paths \in Seq(Steps) /\ Len(Paths) \in Nat /\ MaxCkptToKeep[Model] \in Nat
  BY Constants DEF Inv, Types, Paths
<1>2. phase = "saving" => global_step \in Steps
  BY DEF Inv, OneStage
<1>3. Full \in Seq(Steps) /\ Len(Full) <= MaxCkptToKeep[Model]
  BY <1>1, <1>2, AppendToPaths DEF Room
<1>4. Mine \subseteq Elements
  <2> SUFFICES ASSUME NEW n \in Steps, NEW r \in Ranks, files[n][Model][r] = run
               PROVE  n \in Elements
    OBVIOUS
  <2>1. CASE \E i \in 1 .. Len(Paths) : Paths[i] = n
    BY <1>1, <1>2, <2>1, AppendToPaths
  <2>2. CASE phase = "saving" /\ stage[0] \in Middle /\ n = global_step
    BY <1>1, <1>2, <2>2, AppendToPaths
  <2>3. QED
    BY <2>1, <2>2 DEF Listed
<1>5. IsFiniteSet(Elements) /\ Cardinality(Elements) <= Len(Full)
  BY <1>3, ElementsOfPaths
<1>6. Cardinality(Mine) <= Cardinality(Elements) /\ IsFiniteSet(Mine)
  BY <1>4, <1>5, FS_Subset
<1>7. Len(Full) \in Nat
  BY <1>3
<1> HIDE DEF Mine, Elements, Full
<1>a. Cardinality(Mine) \in Nat
  BY <1>6, FS_CardinalityType
<1>b. Cardinality(Elements) \in Nat
  BY <1>5, FS_CardinalityType
<1>8. QED
  BY <1>1, <1>3, <1>5, <1>6, <1>7, <1>a, <1>b

(***************************************************************************)
(* fsdp_checkpoint_manager.py:190, "keeping at most `max_ckpt_to_keep`":   *)
(* the checkpoints one run has written, the one it is writing included.    *)
(***************************************************************************)
THEOREM RotationKeepsBound ==
  ASSUME KeepsTwo
  PROVE  Spec => []KeepsAtMostPerRun
<1>1. Inv /\ Listed /\ Room /\ [Next]_vars => Inv' /\ Listed' /\ Room'
  BY NextInv, NextListed
<1>2. Inv /\ Listed /\ Room => KeepsAtMostPerRun
  BY ListedBounds
<1>3. QED
  BY InitInv, InitListed, <1>1, <1>2, PTL DEF Spec
=============================================================================
