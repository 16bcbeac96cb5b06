-------------------------- MODULE SimpleOPD_proofs ---------------------------
(***************************************************************************)
(* Proofs about the warm-up and OPD pipeline, for all lists of steps and   *)
(* any number of kills and restarts: what is marked .lora_merged is folded *)
(* in, what is usable stays usable, the end of the warm-up script means    *)
(* usable directories, and every step is scored or reported.               *)
(***************************************************************************)
EXTENDS SimpleOPD, SequenceTheorems, TLAPS

AnyFile == [state : {"absent", "torn", "whole"}, run : Nat, folds : Nat]

TypeInv ==
  /\ hf \in [Dirs -> [FileNames -> AnyFile]]
  /\ loaded \in AnyFile
  /\ run \in Nat
  /\ todo \in Seq(Dirs)

Splitting == {"merge_adapter_config", "merge_adapter"}
Merging   == Splitting \cup {"merge_config", "merge_weights", "merge_tokenizer"}
Rewriting == {"fold_wipe", "fold_config", "fold_weights", "fold_marker"}
Folding   == Rewriting \cup {"fold_patch", "fold_load"}

\* What the adapter means for a directory: whole weights come from the same
\* run as the adapter; what is marked is folded.
DirInv(d) ==
  /\ Exists(d, "marker") => /\ IsWhole(d, "weights") /\ hf[d]["weights"].folds >= 1
                            /\ lora /\ d[1] = "sft"
  /\ Exists(d, "weights") => Exists(d, "config")
  /\ Exists(d, "adapter_config") => lora /\ d[1] = "sft"
  /\ IsWhole(d, "weights") /\ lora /\ d[1] = "sft" => hf[d]["weights"].run = hf[d]["adapter"].run

\* What a script may rely on in the directory it works on.
MergeInv ==
  at \in Merging =>
    /\ ~Exists(dir, "marker")
    /\ at \in Splitting => lora /\ dir[1] = "sft"
    /\ at \in Splitting \cup {"merge_config"} => ~Exists(dir, "weights")
    /\ at \in {"merge_weights", "merge_tokenizer"} => Exists(dir, "config")
    /\ (at \in {"merge_config", "merge_weights"} /\ lora /\ dir[1] = "sft")
         => hf[dir]["adapter"].run = run

FoldInv ==
  at \in Folding =>
    /\ lora /\ dir[1] = "sft"
    /\ at # "fold_marker" => ~Exists(dir, "marker")
    /\ at \in Rewriting => /\ loaded.state = "whole" /\ loaded.folds >= 1
                           /\ loaded.run = hf[dir]["adapter"].run
    /\ at \in {"fold_weights", "fold_marker"} => Exists(dir, "config")
    /\ at = "fold_marker" => hf[dir]["weights"] = loaded

IInv ==
  /\ TypeInv
  /\ at \in Merging \cup Folding \cup {"fold_test"} => dir \in Dirs
  /\ \A d \in Dirs : DirInv(d)
  /\ MergeInv
  /\ FoldInv

\* The invariant contains what is to be shown.
LEMMA IInvImplies == IInv => MarkedIsAdapted
  BY DEF IInv, DirInv, MarkedIsAdapted

\* A file is replaced and nothing else.
LEMMA Replaced ==
  ASSUME TypeInv, dir \in Dirs, NEW f \in FileNames, NEW file \in AnyFile,
         hf' = [hf EXCEPT ![dir][f] = file]
  PROVE  /\ hf' \in [Dirs -> [FileNames -> AnyFile]]
         /\ hf'[dir][f] = file
         /\ \A d \in Dirs, g \in FileNames : (d # dir \/ g # f) => hf'[d][g] = hf[d][g]
  BY DEF TypeInv

LEMMA FilesAreTyped ==
  ASSUME NEW r \in Nat, NEW k \in Nat
  PROVE  Whole(r, k) \in AnyFile /\ Torn \in AnyFile /\ Absent \in AnyFile
  BY DEF Whole, Torn, Absent, AnyFile

LEMMA FunctionIsSeq ==
  ASSUME NEW S, NEW n \in Nat, NEW f \in [1 .. n -> S]
  PROVE  f \in Seq(S)
  BY SeqDef

LEMMA TodoIsTyped ==
  /\ [i \in DOMAIN Kept |-> <<"sft", Kept[i]>>] \in Seq(Dirs)
  /\ OPDTodo \in Seq(Dirs)
  /\ StudentDir \in Dirs
  <1>1. \A i \in DOMAIN SFTSteps : <<"sft", SFTSteps[i]>> \in Dirs
    BY DEF Dirs, Ran
  <1>2. \A i \in DOMAIN OPDSteps : <<"opd", OPDSteps[i]>> \in Dirs
    BY DEF Dirs, Ran
  <1>3. Len(SFTSteps) \in DOMAIN SFTSteps
    BY StepsAssumption
  <1>4. StudentDir \in Dirs
    BY <1>1, <1>3 DEF StudentDir
  <1>5. OPDTodo \in Seq(Dirs)
    <2>1. OPDTodo \in [1 .. Len(OPDSteps) -> Dirs] /\ Len(OPDSteps) \in Nat
      BY <1>2, StepsAssumption DEF OPDTodo
    <2> QED BY <2>1, FunctionIsSeq
  <1>6. [i \in DOMAIN Kept |-> <<"sft", Kept[i]>>] \in Seq(Dirs)
    <2>1. CASE by_hand
      <3>0. Kept = SFTSteps /\ DOMAIN SFTSteps = 1 .. Len(SFTSteps)
        BY <2>1, StepsAssumption DEF Kept
      <3>1. [i \in DOMAIN Kept |-> <<"sft", Kept[i]>>] \in [1 .. Len(SFTSteps) -> Dirs]
        BY <1>1, <3>0
      <3>2. Len(SFTSteps) \in Nat
        BY StepsAssumption
      <3> QED BY <3>1, <3>2, FunctionIsSeq
    <2>2. CASE ~by_hand
      <3>1. [i \in DOMAIN Kept |-> <<"sft", Kept[i]>>] \in [1 .. 1 -> Dirs]
        BY <1>4, <2>2 DEF Kept, StudentDir
      <3> QED BY <3>1, FunctionIsSeq
    <2> QED BY <2>1, <2>2
  <1> QED BY <1>4, <1>5, <1>6

LEMMA InitInv == Init => IInv
  BY FilesAreTyped DEF Init, SFTInit, IInv, TypeInv, DirInv, MergeInv, FoldInv, Exists, IsWhole,
     Absent, AnyFile, FileNames, Merging, Splitting, Folding, Rewriting

-----------------------------------------------------------------------------
(* The steps that write no file. *)

\* What the invariant says of a directory depends on its files alone.
LEMMA NoFileWritten ==
  ASSUME IInv, UNCHANGED <<hf, lora>>
  PROVE  \A d \in Dirs : DirInv(d)'
  BY DEF IInv, DirInv, Exists, IsWhole

\* The head and the tail of the loop's directories.
LEMMA TodoStep ==
  ASSUME TypeInv, todo # <<>>
  PROVE  Head(todo) \in Dirs /\ Tail(todo) \in Seq(Dirs)
  BY DEF TypeInv

\* A marked directory passes the test before a merge.
LEMMA MarkedIsMerged ==
  ASSUME IInv, NEW d \in Dirs, ~HFExists(d)
  PROVE  ~Exists(d, "marker") /\ ~Exists(d, "weights")
  BY DEF IInv, DirInv, HFExists, Exists, IsWhole

LEMMA TrainInv == IInv /\ Train => IInv'
  <1> SUFFICES ASSUME IInv, Train PROVE IInv'
    OBVIOUS
  <1>1. \A d \in Dirs : DirInv(d)'
    BY NoFileWritten DEF Train
  <1>2. TypeInv'
    BY TodoIsTyped DEF Train, IInv, TypeInv
  <1> QED BY <1>1, <1>2 DEF Train, Goto, IInv, MergeInv, FoldInv, Merging, Splitting, Folding, Rewriting

LEMMA NextDirInv == IInv /\ NextDir => IInv'
  <1> SUFFICES ASSUME IInv, NextDir PROVE IInv'
    OBVIOUS
  <1>1. \A d \in Dirs : DirInv(d)'
    BY NoFileWritten DEF NextDir
  <1>2. dir' \in Dirs /\ TypeInv'
    BY TodoStep DEF NextDir, IInv, TypeInv
  <1>3. CASE HFExists(dir')
    BY <1>1, <1>2, <1>3 DEF NextDir, IInv, MergeInv, FoldInv, Merging, Splitting, Folding, Rewriting
  <1>4. CASE ~HFExists(dir')
    <2>1. ~Exists(dir', "marker") /\ ~Exists(dir', "weights")
      BY <1>2, <1>4, MarkedIsMerged
    <2>2. MergeInv' /\ FoldInv'
      BY <1>2, <1>4, <2>1 DEF NextDir, FirstMerge, MergeInv, FoldInv, Merging, Splitting, Folding,
         Rewriting, Exists
    <2> QED BY <1>1, <1>2, <2>2 DEF IInv
  <1> QED BY <1>3, <1>4

LEMMA FoldTestInv == IInv /\ FoldTest => IInv'
  <1> SUFFICES ASSUME IInv, FoldTest PROVE IInv'
    OBVIOUS
  <1>1. \A d \in Dirs : DirInv(d)'
    BY NoFileWritten DEF FoldTest
  <1>2. at = "fold_test" /\ dir \in Dirs /\ dir' = dir /\ DirInv(dir)
    BY DEF FoldTest, Goto, IInv
  <1>3. MergeInv' /\ FoldInv'
    BY <1>2 DEF FoldTest, Goto, DirInv, MergeInv, FoldInv, Merging, Splitting, Folding, Rewriting,
       Exists
  <1> QED BY <1>1, <1>2, <1>3 DEF FoldTest, Goto, IInv, TypeInv

LEMMA FoldLoadInv == IInv /\ FoldLoad => IInv'
  <1> SUFFICES ASSUME IInv, FoldLoad PROVE IInv'
    OBVIOUS
  <1>1. \A d \in Dirs : DirInv(d)'
    BY NoFileWritten DEF FoldLoad
  <1>2. at = "fold_load" /\ at' = "fold_wipe" /\ dir \in Dirs /\ dir' = dir /\ DirInv(dir)
    BY DEF FoldLoad, Goto, IInv, Folding
  <1>3. hf[dir]["weights"] \in AnyFile
    BY <1>2 DEF IInv, TypeInv, FileNames
  <1>4. hf[dir]["weights"].run \in Nat /\ hf[dir]["weights"].folds \in Nat
    BY <1>3 DEF AnyFile
  <1>5. /\ loaded' \in AnyFile /\ loaded'.state = "whole" /\ loaded'.folds >= 1
        /\ loaded'.run = hf[dir]["weights"].run
    BY <1>4 DEF FoldLoad, Whole, AnyFile
  <1>6. lora /\ dir[1] = "sft" /\ ~Exists(dir, "marker") /\ IsWhole(dir, "weights")
    BY <1>2 DEF FoldLoad, IInv, FoldInv, Folding
  <1>7. loaded'.run = hf[dir]["adapter"].run
    BY <1>2, <1>5, <1>6 DEF DirInv
  <1>8. MergeInv' /\ FoldInv'
    BY <1>2, <1>5, <1>6, <1>7 DEF FoldLoad, MergeInv, FoldInv, Merging, Splitting, Folding,
       Rewriting, Exists
  <1> QED BY <1>1, <1>2, <1>5, <1>8 DEF FoldLoad, IInv, TypeInv

\* Actions after which no directory is being merged or folded.
LEMMA RestInv ==
  ASSUME IInv, UNCHANGED <<hf, lora>>, loaded' \in AnyFile, run' \in Nat, todo' \in Seq(Dirs),
         at' \notin Merging \cup Folding \cup {"fold_test"}
  PROVE  IInv'
  <1>1. \A d \in Dirs : DirInv(d)'
    BY NoFileWritten
  <1> QED BY <1>1 DEF IInv, TypeInv, MergeInv, FoldInv

LEMMA SFTQuietInv == IInv /\ (SFTDone \/ FoldFails \/ SFTKilled \/ SFTRestart) => IInv'
  <1> SUFFICES ASSUME IInv, SFTDone \/ FoldFails \/ SFTKilled \/ SFTRestart PROVE IInv'
    OBVIOUS
  <1>1. /\ UNCHANGED <<hf, lora>> /\ at' \in {"sft_done", "failed", "train"}
        /\ loaded' \in {loaded, Absent} /\ run' \in {run, run + 1} /\ todo' \in {todo, <<>>}
    BY DEF SFTDone, FoldFails, SFTKilled, SFTRestart, Goto
  <1>2. loaded' \in AnyFile /\ run' \in Nat /\ todo' \in Seq(Dirs)
    <2>1. <<>> \in Seq(Dirs)
      BY EmptySeq
    <2>2. Absent \in AnyFile
      BY FilesAreTyped
    <2>3. loaded' \in AnyFile
      BY <1>1, <2>2 DEF IInv, TypeInv
    <2>4. run' \in Nat
      BY <1>1 DEF IInv, TypeInv
    <2>5. todo' \in Seq(Dirs)
      BY <1>1, <2>1 DEF IInv, TypeInv
    <2> QED BY <2>3, <2>4, <2>5
  <1> QED BY <1>1, <1>2, RestInv DEF Merging, Splitting, Folding, Rewriting

-----------------------------------------------------------------------------
(* The steps that write a file. *)

\* WriteFile replaces file f of the directory by x, torn or complete.
Written(c, f, x, file, stage, next) ==
  /\ c = dir /\ c = dir'
  /\ hf' = [hf EXCEPT ![c][f] = x]
  /\ \/ x = Torn /\ at' = stage
     \/ x = file /\ at' = next
  /\ at = stage
  /\ UNCHANGED <<lora, run, todo, loaded>>

LEMMA WriteFileWrites ==
  ASSUME IInv, NEW stage \in Merging \cup Folding, NEW f, NEW file, NEW next,
         WriteFile(stage, f, file, next)
  PROVE  \E c \in Dirs : \E x \in {Torn, file} : Written(c, f, x, file, stage, next)
  BY DEF WriteFile, OpenFile, CloseFile, Goto, IInv, Written

\* The other directories are as before, and of this one the files that are
\* not written.
LEMMA FileWritten ==
  ASSUME IInv, NEW c \in Dirs, NEW f \in FileNames, NEW x \in AnyFile,
         hf' = [hf EXCEPT ![c][f] = x], UNCHANGED lora
  PROVE  /\ hf' \in [Dirs -> [FileNames -> AnyFile]]
         /\ hf'[c][f] = x
         /\ \A g \in FileNames \ {f} : hf'[c][g] = hf[c][g]
         /\ \A d \in Dirs \ {c} : DirInv(d)'
  <1>1. hf \in [Dirs -> [FileNames -> AnyFile]]
    BY DEF IInv, TypeInv
  <1>2. \A d \in Dirs \ {c} : hf'[d] = hf[d]
    BY <1>1
  <1>3. \A d \in Dirs \ {c} : DirInv(d)'
    BY <1>2 DEF IInv, DirInv, Exists, IsWhole
  <1> QED BY <1>1, <1>3

\* The conclusion of every step that writes.
LEMMA WriteInv ==
  ASSUME IInv, NEW c \in Dirs, NEW f \in FileNames, NEW x \in AnyFile, NEW file, NEW stage, NEW next,
         Written(c, f, x, file, stage, next), DirInv(c)', MergeInv', FoldInv'
  PROVE  IInv'
  <1>1. hf' \in [Dirs -> [FileNames -> AnyFile]] /\ \A d \in Dirs : DirInv(d)'
    BY FileWritten DEF Written
  <1> QED BY <1>1 DEF Written, IInv, TypeInv

LEMMA WholeFile ==
  ASSUME IInv
  PROVE  /\ Torn \in AnyFile /\ Whole(run, 0) \in AnyFile
         /\ Whole(run, 0).state = "whole" /\ Whole(run, 0).run = run /\ Torn.state = "torn"
  BY FilesAreTyped DEF Whole, Torn, IInv, TypeInv

LEMMA MergeStepInv == IInv /\ Merge => IInv'
  <1> SUFFICES ASSUME IInv, Merge PROVE IInv'
    OBVIOUS
  <1>1. Torn \in AnyFile /\ Whole(run, 0) \in AnyFile /\ Whole(run, 0).state = "whole"
        /\ Whole(run, 0).run = run /\ Torn.state = "torn"
    BY WholeFile
  <1> DEFINE after == IF dir[1] = "sft" THEN "fold_test" ELSE "next_opd"
  <1>7. after \in {"fold_test", "next_opd"}
    OBVIOUS
  <1> HIDE DEF after
  <1>2. CASE WriteFile("merge_adapter_config", "adapter_config", Whole(run, 0), "merge_adapter")
    <2>1. PICK c \in Dirs, x \in {Torn, Whole(run, 0)} :
            Written(c, "adapter_config", x, Whole(run, 0), "merge_adapter_config", "merge_adapter")
      BY <1>2, WriteFileWrites DEF Merging, Splitting, Folding, Rewriting
    <2>2. x \in AnyFile /\ hf' = [hf EXCEPT ![c]["adapter_config"] = x] /\ lora' = lora
      BY <1>1, <2>1 DEF Written
    <2>3. hf'[c]["adapter_config"] = x /\ \A g \in FileNames \ {"adapter_config"} : hf'[c][g] = hf[c][g]
      BY <2>1, <2>2, FileWritten DEF FileNames
    <2>4. DirInv(c)' /\ MergeInv' /\ FoldInv'
      BY <1>1, <2>1, <2>2, <2>3 DEF Written, IInv, DirInv, MergeInv, FoldInv, Merging, Splitting,
         Folding, Rewriting, Exists, IsWhole, FileNames
    <2> QED BY <2>1, <2>2, <2>4, WriteInv DEF FileNames
  <1>3. CASE WriteFile("merge_adapter", "adapter", Whole(run, 0), "merge_config")
    <2>1. PICK c \in Dirs, x \in {Torn, Whole(run, 0)} :
            Written(c, "adapter", x, Whole(run, 0), "merge_adapter", "merge_config")
      BY <1>3, WriteFileWrites DEF Merging, Splitting, Folding, Rewriting
    <2>2. x \in AnyFile /\ hf' = [hf EXCEPT ![c]["adapter"] = x] /\ lora' = lora
      BY <1>1, <2>1 DEF Written
    <2>3. hf'[c]["adapter"] = x /\ \A g \in FileNames \ {"adapter"} : hf'[c][g] = hf[c][g]
      BY <2>1, <2>2, FileWritten DEF FileNames
    <2>4. DirInv(c)' /\ MergeInv' /\ FoldInv'
      BY <1>1, <2>1, <2>2, <2>3 DEF Written, IInv, DirInv, MergeInv, FoldInv, Merging, Splitting,
         Folding, Rewriting, Exists, IsWhole, FileNames
    <2> QED BY <2>1, <2>2, <2>4, WriteInv DEF FileNames
  <1>4. CASE WriteFile("merge_config", "config", Whole(run, 0), "merge_weights")
    <2>1. PICK c \in Dirs, x \in {Torn, Whole(run, 0)} :
            Written(c, "config", x, Whole(run, 0), "merge_config", "merge_weights")
      BY <1>4, WriteFileWrites DEF Merging, Splitting, Folding, Rewriting
    <2>2. x \in AnyFile /\ hf' = [hf EXCEPT ![c]["config"] = x] /\ lora' = lora
      BY <1>1, <2>1 DEF Written
    <2>3. hf'[c]["config"] = x /\ \A g \in FileNames \ {"config"} : hf'[c][g] = hf[c][g]
      BY <2>1, <2>2, FileWritten DEF FileNames
    <2>4. DirInv(c)' /\ MergeInv' /\ FoldInv'
      BY <1>1, <2>1, <2>2, <2>3 DEF Written, IInv, DirInv, MergeInv, FoldInv, Merging, Splitting,
         Folding, Rewriting, Exists, IsWhole, FileNames
    <2> QED BY <2>1, <2>2, <2>4, WriteInv DEF FileNames
  <1>5. CASE WriteFile("merge_weights", "weights", Whole(run, 0), "merge_tokenizer")
    <2>1. PICK c \in Dirs, x \in {Torn, Whole(run, 0)} :
            Written(c, "weights", x, Whole(run, 0), "merge_weights", "merge_tokenizer")
      BY <1>5, WriteFileWrites DEF Merging, Splitting, Folding, Rewriting
    <2>2. x \in AnyFile /\ hf' = [hf EXCEPT ![c]["weights"] = x] /\ lora' = lora
      BY <1>1, <2>1 DEF Written
    <2>3. hf'[c]["weights"] = x /\ \A g \in FileNames \ {"weights"} : hf'[c][g] = hf[c][g]
      BY <2>1, <2>2, FileWritten DEF FileNames
    <2>4. DirInv(c)' /\ MergeInv' /\ FoldInv'
      BY <1>1, <2>1, <2>2, <2>3 DEF Written, IInv, DirInv, MergeInv, FoldInv, Merging, Splitting,
         Folding, Rewriting, Exists, IsWhole, FileNames
    <2> QED BY <2>1, <2>2, <2>4, WriteInv DEF FileNames
  <1>6. CASE WriteFile("merge_tokenizer", "tokenizer", Whole(run, 0), after)
    <2>1. PICK c \in Dirs, x \in {Torn, Whole(run, 0)} :
            Written(c, "tokenizer", x, Whole(run, 0), "merge_tokenizer", after)
      BY <1>6, WriteFileWrites DEF Merging, Splitting, Folding, Rewriting
    <2>2. x \in AnyFile /\ hf' = [hf EXCEPT ![c]["tokenizer"] = x] /\ lora' = lora
      BY <1>1, <2>1 DEF Written
    <2>3. hf'[c]["tokenizer"] = x /\ \A g \in FileNames \ {"tokenizer"} : hf'[c][g] = hf[c][g]
      BY <2>1, <2>2, FileWritten DEF FileNames
    <2>4. DirInv(c)' /\ MergeInv' /\ FoldInv'
      BY <1>1, <1>7, <2>1, <2>2, <2>3 DEF Written, IInv, DirInv, MergeInv, FoldInv, Merging, Splitting,
         Folding, Rewriting, Exists, IsWhole, FileNames
    <2> QED BY <2>1, <2>2, <2>4, WriteInv DEF FileNames
  <1> QED BY <1>2, <1>3, <1>4, <1>5, <1>6 DEF Merge, after

LEMMA FoldPatchInv == IInv /\ FoldPatch => IInv'
  <1> SUFFICES ASSUME IInv, FoldPatch PROVE IInv'
    OBVIOUS
  <1>1. Torn \in AnyFile /\ Whole(run, 0) \in AnyFile /\ Whole(run, 0).state = "whole"
        /\ Whole(run, 0).run = run /\ Torn.state = "torn"
    BY WholeFile
  <1>2. CASE WriteFile("fold_patch", "adapter_config", Whole(run, 0), "fold_load")
    <2>1. PICK c \in Dirs, x \in {Torn, Whole(run, 0)} :
            Written(c, "adapter_config", x, Whole(run, 0), "fold_patch", "fold_load")
      BY <1>2, WriteFileWrites DEF Merging, Splitting, Folding, Rewriting
    <2>2. x \in AnyFile /\ hf' = [hf EXCEPT ![c]["adapter_config"] = x] /\ lora' = lora
      BY <1>1, <2>1 DEF Written
    <2>3. hf'[c]["adapter_config"] = x /\ \A g \in FileNames \ {"adapter_config"} : hf'[c][g] = hf[c][g]
      BY <2>1, <2>2, FileWritten DEF FileNames
    <2>4. DirInv(c)' /\ MergeInv' /\ FoldInv'
      BY <1>1, <2>1, <2>2, <2>3 DEF Written, IInv, DirInv, MergeInv, FoldInv, Merging, Splitting,
         Folding, Rewriting, Exists, IsWhole, FileNames
    <2> QED BY <2>1, <2>2, <2>4, WriteInv DEF FileNames
  <1> QED BY <1>2 DEF FoldPatch

LEMMA FoldWipeInv == IInv /\ FoldWipe => IInv'
  <1> SUFFICES ASSUME IInv, FoldWipe PROVE IInv'
    OBVIOUS
  <1>1. Absent \in AnyFile /\ Absent.state = "absent"
    BY FilesAreTyped DEF Absent
  <1>2. PICK c \in Dirs : Written(c, "weights", Absent, Absent, "fold_wipe", "fold_config")
    BY DEF FoldWipe, Goto, IInv, Folding, Rewriting, Written
  <1>3. hf'[c]["weights"] = Absent /\ \A g \in FileNames \ {"weights"} : hf'[c][g] = hf[c][g]
    BY <1>1, <1>2, FileWritten DEF FileNames, Written
  <1>4. at = "fold_wipe" /\ at' = "fold_config"
    BY DEF FoldWipe, Goto
  <1>5. DirInv(c)' /\ MergeInv' /\ FoldInv'
    BY <1>1, <1>2, <1>3, <1>4 DEF Written, IInv, DirInv, MergeInv, FoldInv, Merging, Splitting,
       Folding, Rewriting, Exists, IsWhole, FileNames
  <1> QED BY <1>1, <1>2, <1>5, WriteInv DEF FileNames

LEMMA FoldSaveInv == IInv /\ FoldSave => IInv'
  <1> SUFFICES ASSUME IInv, FoldSave PROVE IInv'
    OBVIOUS
  <1>1. /\ Torn \in AnyFile /\ Whole(run, 0) \in AnyFile /\ loaded \in AnyFile
        /\ Whole(run, 0).state = "whole" /\ Whole(run, 0).run = run /\ Torn.state = "torn"
    BY WholeFile DEF IInv, TypeInv
  <1>2. CASE WriteFile("fold_config", "config", Whole(run, 0), "fold_weights")
    <2>1. PICK c \in Dirs, x \in {Torn, Whole(run, 0)} :
            Written(c, "config", x, Whole(run, 0), "fold_config", "fold_weights")
      BY <1>2, WriteFileWrites DEF Merging, Splitting, Folding, Rewriting
    <2>2. x \in AnyFile /\ hf' = [hf EXCEPT ![c]["config"] = x] /\ lora' = lora
      BY <1>1, <2>1 DEF Written
    <2>3. hf'[c]["config"] = x /\ \A g \in FileNames \ {"config"} : hf'[c][g] = hf[c][g]
      BY <2>1, <2>2, FileWritten DEF FileNames
    <2>4. DirInv(c)' /\ MergeInv' /\ FoldInv'
      BY <1>1, <2>1, <2>2, <2>3 DEF Written, IInv, DirInv, MergeInv, FoldInv, Merging, Splitting,
         Folding, Rewriting, Exists, IsWhole, FileNames
    <2> QED BY <2>1, <2>2, <2>4, WriteInv DEF FileNames
  <1>3. CASE WriteFile("fold_weights", "weights", loaded, "fold_marker")
    <2>1. PICK c \in Dirs, x \in {Torn, loaded} :
            Written(c, "weights", x, loaded, "fold_weights", "fold_marker")
      BY <1>3, WriteFileWrites DEF Merging, Splitting, Folding, Rewriting
    <2>2. x \in AnyFile /\ hf' = [hf EXCEPT ![c]["weights"] = x] /\ lora' = lora
      BY <1>1, <2>1 DEF Written
    <2>3. hf'[c]["weights"] = x /\ \A g \in FileNames \ {"weights"} : hf'[c][g] = hf[c][g]
      BY <2>1, <2>2, FileWritten DEF FileNames
    <2>4. DirInv(c)' /\ MergeInv' /\ FoldInv'
      BY <1>1, <2>1, <2>2, <2>3 DEF Written, IInv, DirInv, MergeInv, FoldInv, Merging, Splitting,
         Folding, Rewriting, Exists, IsWhole, FileNames
    <2> QED BY <2>1, <2>2, <2>4, WriteInv DEF FileNames
  <1>4. CASE WriteFile("fold_marker", "marker", Whole(run, 0), "next_dir")
    <2>1. PICK c \in Dirs, x \in {Torn, Whole(run, 0)} :
            Written(c, "marker", x, Whole(run, 0), "fold_marker", "next_dir")
      BY <1>4, WriteFileWrites DEF Merging, Splitting, Folding, Rewriting
    <2>2. x \in AnyFile /\ hf' = [hf EXCEPT ![c]["marker"] = x] /\ lora' = lora
      BY <1>1, <2>1 DEF Written
    <2>3. hf'[c]["marker"] = x /\ \A g \in FileNames \ {"marker"} : hf'[c][g] = hf[c][g]
      BY <2>1, <2>2, FileWritten DEF FileNames
    <2>4. DirInv(c)' /\ MergeInv' /\ FoldInv'
      BY <1>1, <2>1, <2>2, <2>3 DEF Written, IInv, DirInv, MergeInv, FoldInv, Merging, Splitting,
         Folding, Rewriting, Exists, IsWhole, FileNames
    <2> QED BY <2>1, <2>2, <2>4, WriteInv DEF FileNames
  <1> QED BY <1>2, <1>3, <1>4 DEF FoldSave

-----------------------------------------------------------------------------
(* The steps of Simple-OPD.sh. *)

LEMMA NextOPDInv == IInv /\ NextOPD => IInv'
  <1> SUFFICES ASSUME IInv, NextOPD PROVE IInv'
    OBVIOUS
  <1>1. \A d \in Dirs : DirInv(d)'
    BY NoFileWritten DEF NextOPD
  <1>2. Head(todo) \in Dirs /\ TypeInv'
    BY TodoStep DEF NextOPD, IInv, TypeInv
  <1>3. CASE at' = at /\ dir' = dir
    BY <1>1, <1>2, <1>3 DEF NextOPD, IInv, MergeInv, FoldInv, Merging, Splitting, Folding, Rewriting
  <1>4. CASE at' = FirstMerge(Head(todo)) /\ dir' = Head(todo) /\ ~HFExists(Head(todo))
    <2>1. ~Exists(dir', "marker") /\ ~Exists(dir', "weights")
      BY <1>2, <1>4, MarkedIsMerged
    <2>2. MergeInv' /\ FoldInv'
      BY <1>2, <1>4, <2>1 DEF NextOPD, FirstMerge, MergeInv, FoldInv, Merging, Splitting, Folding,
         Rewriting, Exists
    <2> QED BY <1>1, <1>2, <1>4, <2>2 DEF IInv
  <1> QED BY <1>3, <1>4 DEF NextOPD

LEMMA OPDQuietInv ==
  IInv /\ (SFTFailed \/ CheckStudent \/ OPDTrain \/ OPDMergeFails \/ StartEval \/ Eval \/ Finish)
    => IInv'
  <1> SUFFICES ASSUME IInv, SFTFailed \/ CheckStudent \/ OPDTrain \/ OPDMergeFails \/ StartEval
                              \/ Eval \/ Finish
               PROVE  IInv'
    OBVIOUS
  <1>1. /\ UNCHANGED <<hf, lora, loaded, run>>
        /\ at' \in {"exit", "opd_train", "next_opd", "eval", "finished"}
    BY DEF SFTFailed, CheckStudent, OPDTrain, OPDMergeFails, StartEval, Eval, Finish, Goto
  <1>2. todo' \in Seq(Dirs)
    <2>1. CASE StartEval
      <3>1. <<StudentDir>> \in Seq(Dirs) /\ OPDTodo \in Seq(Dirs)
        BY TodoIsTyped
      <3> QED BY <2>1, <3>1 DEF StartEval
    <2>2. CASE Eval
      BY <2>2, TodoStep DEF Eval, IInv
    <2>3. CASE OPDTrain
      BY <2>3, TodoIsTyped DEF OPDTrain
    <2>4. CASE SFTFailed \/ CheckStudent \/ OPDMergeFails \/ Finish
      BY <2>4 DEF SFTFailed, CheckStudent, OPDMergeFails, Finish, IInv, TypeInv
    <2> QED BY <2>1, <2>2, <2>3, <2>4
  <1>3. loaded' \in AnyFile /\ run' \in Nat
    BY <1>1 DEF IInv, TypeInv
  <1> QED BY <1>1, <1>2, <1>3, RestInv DEF Merging, Splitting, Folding, Rewriting

LEMMA StepInv == IInv /\ [Next]_vars => IInv'
  <1> SUFFICES ASSUME IInv, [Next]_vars PROVE IInv'
    OBVIOUS
  <1>1. CASE SFTNext
    BY <1>1, TrainInv, NextDirInv, SFTQuietInv, MergeStepInv, FoldTestInv, FoldPatchInv, FoldLoadInv,
       FoldWipeInv, FoldSaveInv DEF SFTNext
  <1>2. CASE OPDNext
    BY <1>2, NextOPDInv, OPDQuietInv DEF OPDNext
  <1>3. CASE UNCHANGED vars
    <2>1. \A d \in Dirs : DirInv(d)'
      BY <1>3, NoFileWritten DEF vars, sftVars
    <2> QED BY <1>3, <2>1 DEF vars, sftVars, IInv, TypeInv, MergeInv, FoldInv, Exists
  <1> QED BY <1>1, <1>2, <1>3 DEF Next

\* For every list of steps and every number of kills and restarts, what is
\* marked .lora_merged has whole weights with the adapter of the same run
\* folded in (merge_lora_into_base.py writes the marker last, and neither a
\* merge nor a fold is started on a marked directory).
THEOREM MarkerIsTrue == Spec => []MarkedIsAdapted
  <1>1. Spec => []IInv
    BY InitInv, StepInv, PTL DEF Spec
  <1> QED BY <1>1, IInvImplies, PTL

-----------------------------------------------------------------------------
(* What a directory holds at every stage *)

Adapted(d) == lora /\ d[1] = "sft"

\* The directory is merged, and the adapter is folded in exactly if it is marked.
Merged(d) ==
  /\ \A f \in {"config", "weights", "tokenizer"} : IsWhole(d, f)
  /\ Adapted(d) => IsWhole(d, "adapter_config") /\ IsWhole(d, "adapter")
  /\ hf[d]["weights"].folds = IF Exists(d, "marker") THEN 1 ELSE 0

\* A script is writing in the directory.
WorkedOn(d) == at \in Merging \cup Folding /\ dir = d

\* Weights in a directory nobody works on are those of a complete merge, unless
\* an interruption has hurt the directory.
Sound(d) ==
  /\ Exists(d, "weights") /\ ~WorkedOn(d) => Merged(d) \/ d \in hurt \cup merge_fail
  /\ ~Adapted(d) /\ Exists(d, "tokenizer") => Exists(d, "weights")

SoundInv == \A d \in Dirs : Sound(d)

\* The files of a merge appear one after the other.
MergeFilesInv ==
  at \in Merging =>
    /\ Adapted(dir) =>
         /\ at # "merge_adapter_config" => IsWhole(dir, "adapter_config")
         /\ at \notin Splitting => IsWhole(dir, "adapter")
    /\ at \in {"merge_weights", "merge_tokenizer"} => IsWhole(dir, "config")
    /\ at = "merge_weights" => ~IsWhole(dir, "weights") /\ (~writing => ~Exists(dir, "weights"))
    /\ at = "merge_tokenizer" => IsWhole(dir, "weights") /\ hf[dir]["weights"].folds = 0
    /\ ~Adapted(dir) => ~IsWhole(dir, "tokenizer")
    /\ ~Adapted(dir) /\ at # "merge_tokenizer" => ~Exists(dir, "tokenizer")

\* What a fold finds, unless the directory is hurt, and what it has written.
FoldFilesInv ==
  at \in Folding /\ dir \notin hurt =>
    /\ IsWhole(dir, "adapter") /\ IsWhole(dir, "tokenizer")
    /\ ~(at = "fold_patch" /\ writing) => IsWhole(dir, "adapter_config")
    /\ at \notin {"fold_config"} => IsWhole(dir, "config")
    /\ at \in {"fold_patch", "fold_load", "fold_wipe"} =>
         IsWhole(dir, "weights") /\ hf[dir]["weights"].folds = 0
    /\ at \in Rewriting => loaded.folds = 1
    /\ at = "fold_config" \/ (at = "fold_weights" /\ ~writing) => ~Exists(dir, "weights")
    /\ at = "fold_marker" /\ writing => Exists(dir, "marker")

-----------------------------------------------------------------------------
(* Where the loops stand *)

SFTDirs == {d \in Dirs : d[1] = "sft"}

KeptDirs == {<<"sft", Kept[i]>> : i \in DOMAIN Kept}

InSFTLoop == at \in {"next_dir", "fold_test"} \cup Folding \/ (at \in Merging /\ dir[1] = "sft")
InOPDLoop == at = "next_opd" \/ (at \in Merging /\ dir[1] = "opd")

\* Every kept directory is still to come, in work, hurt or usable.
DoneInv ==
  /\ InSFTLoop => Ran(todo) \subseteq SFTDirs
  /\ at = "fold_test" => dir[1] = "sft" /\ Exists(dir, "weights")
  /\ InSFTLoop \/ at = "sft_done" =>
       \A d \in KeptDirs : \/ d \in hurt \/ Usable(d)
                           \/ at # "sft_done" /\ d \in Ran(todo)
                           \/ at \notin {"next_dir", "sft_done"} /\ d = dir

\* Likewise for the steps of OPD training.
ReportInv ==
  /\ hurt \subseteq SFTDirs /\ merge_fail \subseteq OPDDirs
  /\ InOPDLoop => Ran(todo) \subseteq OPDDirs
  /\ InOPDLoop \/ at \in {"eval", "finished"} =>
       \A d \in OPDDirs : \/ d \in merge_fail \/ Usable(d)
                          \/ InOPDLoop /\ d \in Ran(todo)
                          \/ at \in Merging /\ d = dir

ScoreInv ==
  /\ at \notin {"eval", "finished"} => scored = {} /\ math_fail = {}
  /\ scored \cap math_fail = {}
  /\ \A d \in scored : \A f \in {"config", "weights", "tokenizer"} : IsWhole(d, f)
  /\ at = "finished" => scored \cup math_fail = {StudentDir} \cup OPDDirs
  /\ at = "eval" =>
       /\ scored \cup math_fail \cup Ran(todo) = {StudentDir} \cup OPDDirs
       /\ (scored \cup math_fail) \cap Ran(todo) = {}
       /\ \A i, j \in DOMAIN todo : todo[i] = todo[j] => i = j

FullInv == IInv /\ SoundInv /\ MergeFilesInv /\ FoldFilesInv /\ DoneInv /\ ReportInv /\ ScoreInv

LEMMA FullInit == Init => FullInv
<1> SUFFICES ASSUME Init PROVE FullInv
  OBVIOUS
<1>1. IInv
  BY InitInv
<1>2. \A d \in Dirs, f \in FileNames : ~Exists(d, f)
  BY DEF Init, SFTInit, Exists, Absent
<1>3. /\ at = "train" /\ hurt = {} /\ merge_fail = {} /\ scored = {} /\ math_fail = {}
  BY DEF Init, SFTInit
<1>4. SoundInv
  BY <1>2 DEF SoundInv, Sound, FileNames
<1>5. MergeFilesInv /\ FoldFilesInv /\ DoneInv /\ ReportInv /\ ScoreInv
  BY <1>3 DEF MergeFilesInv, FoldFilesInv, DoneInv, ReportInv, ScoreInv, InSFTLoop, InOPDLoop,
     Merging, Splitting, Folding, Rewriting
<1>6. QED
  BY <1>1, <1>4, <1>5 DEF FullInv

-----------------------------------------------------------------------------
(* Writing a file *)

\* A step writes x to file f of directory c.
Write(c, f, x) ==
  /\ c \in Dirs /\ f \in FileNames /\ x \in AnyFile
  /\ c = dir /\ dir' = dir /\ at \in Merging \cup Folding
  /\ hf' = [hf EXCEPT ![c][f] = x]
  /\ UNCHANGED <<by_hand, lora, run, todo, loaded, hurt, opdVars>>

LEMMA WriteFacts ==
  ASSUME IInv, NEW c, NEW f, NEW x, Write(c, f, x)
  PROVE  /\ hf'[c][f] = x
         /\ \A g \in FileNames \ {f} : hf'[c][g] = hf[c][g]
         /\ \A d \in Dirs \ {c} : hf'[d] = hf[d]
  BY DEF Write, IInv, TypeInv

\* What the writing step has to leave in its own directory.
Leaves(c) ==
  /\ Sound(c)' /\ MergeFilesInv' /\ FoldFilesInv'
  /\ Usable(c) => Usable(c)'
  /\ at' \in {"next_dir", "next_opd"} => Usable(c)' \/ c \in hurt
  /\ at \in Merging /\ at' \notin Merging =>
        at' = IF c[1] = "sft" THEN "fold_test" ELSE "next_opd"
  /\ at' = "fold_test" => c[1] = "sft" /\ Exists(c, "weights")'
  /\ at \in Folding => at' \in Folding \cup {"next_dir"}
  /\ at \in Merging => at' \in Merging \cup {"fold_test", "next_opd"}

\* WriteFile opens the file, which tears it, or closes it.
LEMMA WriteFileCases ==
  ASSUME IInv, UNCHANGED opdVars, NEW stage \in Merging \cup Folding, NEW f \in FileNames,
         NEW file \in AnyFile, NEW next, WriteFile(stage, f, file, next)
  PROVE  \E c \in Dirs, x \in {Torn, file} :
           /\ Write(c, f, x) /\ at = stage
           /\ \/ x = Torn /\ ~writing /\ writing' /\ at' = stage
              \/ x = file /\ writing /\ ~writing' /\ at' = next
<1>1. dir \in Dirs /\ Torn \in AnyFile
  BY WholeFile DEF WriteFile, OpenFile, CloseFile, Goto, IInv
<1>2. CASE OpenFile(stage, f)
  BY <1>1, <1>2 DEF OpenFile, Write
<1>3. CASE CloseFile(stage, f, file, next)
  BY <1>1, <1>3 DEF CloseFile, Goto, Write
<1>4. QED
  BY <1>2, <1>3 DEF WriteFile

\* What is left after each file of a merge.
LEMMA MergeLeaves ==
  ASSUME FullInv, Merge, UNCHANGED opdVars
  PROVE  \E c, f, x : Write(c, f, x) /\ Leaves(c)
<1>1. /\ Torn \in AnyFile /\ Whole(run, 0) \in AnyFile /\ loaded \in AnyFile
      /\ Torn.state = "torn" /\ Whole(run, 0).state = "whole"
      /\ Whole(run, 0).folds = 0 /\ Whole(run, 0).run = run
  BY WholeFile DEF FullInv, IInv, TypeInv, Whole
<1>2. CASE WriteFile("merge_adapter_config", "adapter_config", Whole(run, 0), "merge_adapter")
  <2>1. PICK c \in Dirs, x \in {Torn, Whole(run, 0)} :
          /\ Write(c, "adapter_config", x) /\ at = "merge_adapter_config"
          /\ \/ x = Torn /\ ~writing /\ writing' /\ at' = "merge_adapter_config"
             \/ x = Whole(run, 0) /\ writing /\ ~writing' /\ at' = "merge_adapter"
    BY <1>1, <1>2, WriteFileCases DEF FullInv, FileNames, Merging, Splitting, Folding, Rewriting
  <2>2. /\ hf'[c]["adapter_config"] = x /\ \A g \in FileNames \ {"adapter_config"} : hf'[c][g] = hf[c][g]
    BY <2>1, WriteFacts DEF FullInv
  <2>3. /\ dir = c /\ dir' = c /\ lora' = lora /\ hurt' = hurt /\ loaded' = loaded
        /\ merge_fail' = merge_fail /\ run' = run
    BY <2>1 DEF Write, opdVars
  <2>4. QED
    BY <1>1, <2>1, <2>2, <2>3 DEF Leaves, FullInv, IInv, DirInv, MergeInv, FoldInv, SoundInv, Sound, MergeFilesInv, FoldFilesInv,
         DoneInv, Usable, Merged, WorkedOn, Adapted, Exists, IsWhole, FileNames, Merging, Splitting,
         Folding, Rewriting
<1>3. CASE WriteFile("merge_adapter", "adapter", Whole(run, 0), "merge_config")
  <2>1. PICK c \in Dirs, x \in {Torn, Whole(run, 0)} :
          /\ Write(c, "adapter", x) /\ at = "merge_adapter"
          /\ \/ x = Torn /\ ~writing /\ writing' /\ at' = "merge_adapter"
             \/ x = Whole(run, 0) /\ writing /\ ~writing' /\ at' = "merge_config"
    BY <1>1, <1>3, WriteFileCases DEF FullInv, FileNames, Merging, Splitting, Folding, Rewriting
  <2>2. /\ hf'[c]["adapter"] = x /\ \A g \in FileNames \ {"adapter"} : hf'[c][g] = hf[c][g]
    BY <2>1, WriteFacts DEF FullInv
  <2>3. /\ dir = c /\ dir' = c /\ lora' = lora /\ hurt' = hurt /\ loaded' = loaded
        /\ merge_fail' = merge_fail /\ run' = run
    BY <2>1 DEF Write, opdVars
  <2>4. QED
    BY <1>1, <2>1, <2>2, <2>3 DEF Leaves, FullInv, IInv, DirInv, MergeInv, FoldInv, SoundInv, Sound, MergeFilesInv, FoldFilesInv,
         DoneInv, Usable, Merged, WorkedOn, Adapted, Exists, IsWhole, FileNames, Merging, Splitting,
         Folding, Rewriting
<1>4. CASE WriteFile("merge_config", "config", Whole(run, 0), "merge_weights")
  <2>1. PICK c \in Dirs, x \in {Torn, Whole(run, 0)} :
          /\ Write(c, "config", x) /\ at = "merge_config"
          /\ \/ x = Torn /\ ~writing /\ writing' /\ at' = "merge_config"
             \/ x = Whole(run, 0) /\ writing /\ ~writing' /\ at' = "merge_weights"
    BY <1>1, <1>4, WriteFileCases DEF FullInv, FileNames, Merging, Splitting, Folding, Rewriting
  <2>2. /\ hf'[c]["config"] = x /\ \A g \in FileNames \ {"config"} : hf'[c][g] = hf[c][g]
    BY <2>1, WriteFacts DEF FullInv
  <2>3. /\ dir = c /\ dir' = c /\ lora' = lora /\ hurt' = hurt /\ loaded' = loaded
        /\ merge_fail' = merge_fail /\ run' = run
    BY <2>1 DEF Write, opdVars
  <2>4. QED
    BY <1>1, <2>1, <2>2, <2>3 DEF Leaves, FullInv, IInv, DirInv, MergeInv, FoldInv, SoundInv, Sound, MergeFilesInv, FoldFilesInv,
         DoneInv, Usable, Merged, WorkedOn, Adapted, Exists, IsWhole, FileNames, Merging, Splitting,
         Folding, Rewriting
<1>5. CASE WriteFile("merge_weights", "weights", Whole(run, 0), "merge_tokenizer")
  <2>1. PICK c \in Dirs, x \in {Torn, Whole(run, 0)} :
          /\ Write(c, "weights", x) /\ at = "merge_weights"
          /\ \/ x = Torn /\ ~writing /\ writing' /\ at' = "merge_weights"
             \/ x = Whole(run, 0) /\ writing /\ ~writing' /\ at' = "merge_tokenizer"
    BY <1>1, <1>5, WriteFileCases DEF FullInv, FileNames, Merging, Splitting, Folding, Rewriting
  <2>2. /\ hf'[c]["weights"] = x /\ \A g \in FileNames \ {"weights"} : hf'[c][g] = hf[c][g]
    BY <2>1, WriteFacts DEF FullInv
  <2>3. /\ dir = c /\ dir' = c /\ lora' = lora /\ hurt' = hurt /\ loaded' = loaded
        /\ merge_fail' = merge_fail /\ run' = run
    BY <2>1 DEF Write, opdVars
  <2>4. QED
    BY <1>1, <2>1, <2>2, <2>3 DEF Leaves, FullInv, IInv, DirInv, MergeInv, FoldInv, SoundInv, Sound, MergeFilesInv, FoldFilesInv,
         DoneInv, Usable, Merged, WorkedOn, Adapted, Exists, IsWhole, FileNames, Merging, Splitting,
         Folding, Rewriting
<1>6. CASE WriteFile("merge_tokenizer", "tokenizer", Whole(run, 0), IF dir[1] = "sft" THEN "fold_test" ELSE "next_opd")
  <2>1. PICK c \in Dirs, x \in {Torn, Whole(run, 0)} :
          /\ Write(c, "tokenizer", x) /\ at = "merge_tokenizer"
          /\ \/ x = Torn /\ ~writing /\ writing' /\ at' = "merge_tokenizer"
             \/ x = Whole(run, 0) /\ writing /\ ~writing' /\ at' = IF dir[1] = "sft" THEN "fold_test" ELSE "next_opd"
    BY <1>1, <1>6, WriteFileCases DEF FullInv, FileNames, Merging, Splitting, Folding, Rewriting
  <2>2. /\ hf'[c]["tokenizer"] = x /\ \A g \in FileNames \ {"tokenizer"} : hf'[c][g] = hf[c][g]
    BY <2>1, WriteFacts DEF FullInv
  <2>3. /\ dir = c /\ dir' = c /\ lora' = lora /\ hurt' = hurt /\ loaded' = loaded
        /\ merge_fail' = merge_fail /\ run' = run
    BY <2>1 DEF Write, opdVars
  <2>4. QED
    BY <1>1, <2>1, <2>2, <2>3 DEF Leaves, FullInv, IInv, DirInv, MergeInv, FoldInv, SoundInv, Sound, MergeFilesInv, FoldFilesInv,
         DoneInv, Usable, Merged, WorkedOn, Adapted, Exists, IsWhole, FileNames, Merging, Splitting,
         Folding, Rewriting
<1>7. QED
  BY <1>2, <1>3, <1>4, <1>5, <1>6 DEF Merge

\* The same for the files of a fold.
LEMMA FoldSaveLeaves ==
  ASSUME FullInv, FoldSave, UNCHANGED opdVars
  PROVE  \E c, f, x : Write(c, f, x) /\ Leaves(c)
<1>1. /\ Torn \in AnyFile /\ Whole(run, 0) \in AnyFile /\ loaded \in AnyFile
      /\ Torn.state = "torn" /\ Whole(run, 0).state = "whole"
      /\ Whole(run, 0).folds = 0 /\ Whole(run, 0).run = run
  BY WholeFile DEF FullInv, IInv, TypeInv, Whole
<1>2. CASE WriteFile("fold_config", "config", Whole(run, 0), "fold_weights")
  <2>1. PICK c \in Dirs, x \in {Torn, Whole(run, 0)} :
          /\ Write(c, "config", x) /\ at = "fold_config"
          /\ \/ x = Torn /\ ~writing /\ writing' /\ at' = "fold_config"
             \/ x = Whole(run, 0) /\ writing /\ ~writing' /\ at' = "fold_weights"
    BY <1>1, <1>2, WriteFileCases DEF FullInv, FileNames, Merging, Splitting, Folding, Rewriting
  <2>2. /\ hf'[c]["config"] = x /\ \A g \in FileNames \ {"config"} : hf'[c][g] = hf[c][g]
    BY <2>1, WriteFacts DEF FullInv
  <2>3. /\ dir = c /\ dir' = c /\ lora' = lora /\ hurt' = hurt /\ loaded' = loaded
        /\ merge_fail' = merge_fail /\ run' = run
    BY <2>1 DEF Write, opdVars
  <2>4. QED
    BY <1>1, <2>1, <2>2, <2>3 DEF Leaves, FullInv, IInv, DirInv, MergeInv, FoldInv, SoundInv, Sound, MergeFilesInv, FoldFilesInv,
         DoneInv, Usable, Merged, WorkedOn, Adapted, Exists, IsWhole, FileNames, Merging, Splitting,
         Folding, Rewriting
<1>3. CASE WriteFile("fold_weights", "weights", loaded, "fold_marker")
  <2>1. PICK c \in Dirs, x \in {Torn, loaded} :
          /\ Write(c, "weights", x) /\ at = "fold_weights"
          /\ \/ x = Torn /\ ~writing /\ writing' /\ at' = "fold_weights"
             \/ x = loaded /\ writing /\ ~writing' /\ at' = "fold_marker"
    BY <1>1, <1>3, WriteFileCases DEF FullInv, FileNames, Merging, Splitting, Folding, Rewriting
  <2>2. /\ hf'[c]["weights"] = x /\ \A g \in FileNames \ {"weights"} : hf'[c][g] = hf[c][g]
    BY <2>1, WriteFacts DEF FullInv
  <2>3. /\ dir = c /\ dir' = c /\ lora' = lora /\ hurt' = hurt /\ loaded' = loaded
        /\ merge_fail' = merge_fail /\ run' = run
    BY <2>1 DEF Write, opdVars
  <2>4. QED
    BY <1>1, <2>1, <2>2, <2>3 DEF Leaves, FullInv, IInv, DirInv, MergeInv, FoldInv, SoundInv, Sound, MergeFilesInv, FoldFilesInv,
         DoneInv, Usable, Merged, WorkedOn, Adapted, Exists, IsWhole, FileNames, Merging, Splitting,
         Folding, Rewriting
<1>4. CASE WriteFile("fold_marker", "marker", Whole(run, 0), "next_dir")
  <2>1. PICK c \in Dirs, x \in {Torn, Whole(run, 0)} :
          /\ Write(c, "marker", x) /\ at = "fold_marker"
          /\ \/ x = Torn /\ ~writing /\ writing' /\ at' = "fold_marker"
             \/ x = Whole(run, 0) /\ writing /\ ~writing' /\ at' = "next_dir"
    BY <1>1, <1>4, WriteFileCases DEF FullInv, FileNames, Merging, Splitting, Folding, Rewriting
  <2>2. /\ hf'[c]["marker"] = x /\ \A g \in FileNames \ {"marker"} : hf'[c][g] = hf[c][g]
    BY <2>1, WriteFacts DEF FullInv
  <2>3. /\ dir = c /\ dir' = c /\ lora' = lora /\ hurt' = hurt /\ loaded' = loaded
        /\ merge_fail' = merge_fail /\ run' = run
    BY <2>1 DEF Write, opdVars
  <2>4. QED
    BY <1>1, <2>1, <2>2, <2>3 DEF Leaves, FullInv, IInv, DirInv, MergeInv, FoldInv, SoundInv, Sound, MergeFilesInv, FoldFilesInv,
         DoneInv, Usable, Merged, WorkedOn, Adapted, Exists, IsWhole, FileNames, Merging, Splitting,
         Folding, Rewriting
<1>5. QED
  BY <1>2, <1>3, <1>4 DEF FoldSave

LEMMA FoldPatchLeaves ==
  ASSUME FullInv, FoldPatch, UNCHANGED opdVars
  PROVE  \E c, f, x : Write(c, f, x) /\ Leaves(c)
<1>1. /\ Torn \in AnyFile /\ Whole(run, 0) \in AnyFile /\ loaded \in AnyFile
      /\ Torn.state = "torn" /\ Whole(run, 0).state = "whole"
      /\ Whole(run, 0).folds = 0 /\ Whole(run, 0).run = run
  BY WholeFile DEF FullInv, IInv, TypeInv, Whole
<1>2. CASE WriteFile("fold_patch", "adapter_config", Whole(run, 0), "fold_load")
  <2>1. PICK c \in Dirs, x \in {Torn, Whole(run, 0)} :
          /\ Write(c, "adapter_config", x) /\ at = "fold_patch"
          /\ \/ x = Torn /\ ~writing /\ writing' /\ at' = "fold_patch"
             \/ x = Whole(run, 0) /\ writing /\ ~writing' /\ at' = "fold_load"
    BY <1>1, <1>2, WriteFileCases DEF FullInv, FileNames, Merging, Splitting, Folding, Rewriting
  <2>2. /\ hf'[c]["adapter_config"] = x /\ \A g \in FileNames \ {"adapter_config"} : hf'[c][g] = hf[c][g]
    BY <2>1, WriteFacts DEF FullInv
  <2>3. /\ dir = c /\ dir' = c /\ lora' = lora /\ hurt' = hurt /\ loaded' = loaded
        /\ merge_fail' = merge_fail /\ run' = run
    BY <2>1 DEF Write, opdVars
  <2>4. QED
    BY <1>1, <2>1, <2>2, <2>3 DEF Leaves, FullInv, IInv, DirInv, MergeInv, FoldInv, SoundInv, Sound, MergeFilesInv, FoldFilesInv,
         DoneInv, Usable, Merged, WorkedOn, Adapted, Exists, IsWhole, FileNames, Merging, Splitting,
         Folding, Rewriting
<1>3. QED
  BY <1>2 DEF FoldPatch

LEMMA FoldWipeLeaves ==
  ASSUME FullInv, FoldWipe, UNCHANGED opdVars
  PROVE  \E c, f, x : Write(c, f, x) /\ Leaves(c)
<1>1. Absent \in AnyFile /\ Absent.state = "absent"
  BY FilesAreTyped DEF Absent
<1>2. /\ Write(dir, "weights", Absent)
      /\ at = "fold_wipe" /\ at' = "fold_config"
  BY <1>1 DEF FullInv, IInv, FoldWipe, Goto, Write, FileNames, Folding, Rewriting
<1>3. PICK c : c = dir
  OBVIOUS
<1>4. hf'[c]["weights"] = Absent /\ \A g \in FileNames \ {"weights"} : hf'[c][g] = hf[c][g]
  BY <1>2, <1>3, WriteFacts DEF FullInv
<1>5. /\ dir = c /\ dir' = c /\ lora' = lora /\ hurt' = hurt /\ loaded' = loaded
      /\ merge_fail' = merge_fail /\ run' = run
  BY <1>2, <1>3 DEF Write, opdVars
<1>6. Leaves(c)
  BY <1>1, <1>2, <1>4, <1>5
     DEF Leaves, FullInv, IInv, DirInv, MergeInv, FoldInv, SoundInv, Sound, MergeFilesInv,
         FoldFilesInv, DoneInv, Usable, Merged, WorkedOn, Adapted, Exists, IsWhole, FileNames,
         Merging, Splitting, Folding, Rewriting
<1>7. QED
  BY <1>2, <1>3, <1>6

\* What is kept depends on the list of steps and on who runs the script.
LEMMA KeptAreDirs ==
  /\ KeptDirs \subseteq SFTDirs
  /\ by_hand' = by_hand => KeptDirs' = KeptDirs
<1>1. ASSUME NEW i \in DOMAIN Kept
      PROVE  <<"sft", Kept[i]>> \in SFTDirs
  <2>1. PICK s : s = [k \in DOMAIN Kept |-> <<"sft", Kept[k]>>]
    OBVIOUS
  <2>2. s \in Seq(Dirs) /\ i \in DOMAIN s /\ s[i] = <<"sft", Kept[i]>>
    BY <2>1, TodoIsTyped
  <2>3. s[i] \in Dirs
    BY <2>2
  <2>4. QED
    BY <2>2, <2>3 DEF SFTDirs
<1>2. by_hand' = by_hand => KeptDirs' = KeptDirs
  BY DEF KeptDirs, Kept
<1>3. QED
  BY <1>1, <1>2 DEF KeptDirs

\* A step that writes keeps the invariant and every usable directory.
LEMMA WroteFull ==
  ASSUME FullInv, NEW c, NEW f, NEW x, Write(c, f, x), Leaves(c), IInv'
  PROVE  FullInv' /\ \A d \in Dirs : Usable(d) => Usable(d)'
<1>1. /\ c \in Dirs /\ c = dir /\ dir' = dir /\ at \in Merging \cup Folding
      /\ UNCHANGED <<by_hand, lora, run, todo, loaded, hurt, merge_fail, math_fail, scored>>
  BY DEF Write, opdVars
<1>2. ASSUME NEW d \in Dirs \ {c}
      PROVE  /\ hf'[d] = hf[d] /\ Sound(d)' /\ Usable(d)' = Usable(d)
  <2>1. hf'[d] = hf[d]
    BY WriteFacts DEF FullInv
  <2>2. Sound(d)
    BY DEF FullInv, SoundInv
  <2>3. Usable(d)' = Usable(d)
    BY <1>1, <2>1 DEF Usable, Exists, IsWhole
  <2>4. Sound(d)'
    BY <1>1, <2>1, <2>2 DEF Sound, Merged, Adapted, WorkedOn, Exists, IsWhole
  <2>5. QED
    BY <2>1, <2>3, <2>4
<1>3. \A d \in Dirs : Usable(d) => Usable(d)'
  BY <1>1, <1>2 DEF Leaves
<1>4. SoundInv' /\ MergeFilesInv' /\ FoldFilesInv'
  BY <1>1, <1>2 DEF Leaves, SoundInv
<1>5. c[1] \in {"sft", "opd"}
  BY <1>1 DEF Dirs
<1>6. /\ InSFTLoop' \/ at' = "sft_done" => InSFTLoop /\ (at' \notin {"next_dir", "sft_done"} \/ at' = "next_dir")
      /\ InOPDLoop' => InOPDLoop
      /\ at' \notin {"eval", "finished", "sft_done"}
      /\ at' = "next_dir" => Usable(c)' \/ c \in hurt
      /\ at' = "next_opd" => Usable(c)' \/ c \in hurt
      /\ at' \notin {"next_dir", "next_opd"} => at' \in Merging \cup Folding \cup {"fold_test"}
  BY <1>1, <1>5 DEF Leaves, InSFTLoop, InOPDLoop, FullInv, FoldInv, IInv, Merging, Splitting, Folding,
     Rewriting
<1>7. DoneInv'
  <2>1. InSFTLoop' => Ran(todo') \subseteq SFTDirs
    BY <1>1, <1>6 DEF FullInv, DoneInv
  <2>2. at' = "fold_test" => dir'[1] = "sft" /\ Exists(dir, "weights")'
    BY <1>1 DEF Leaves, Exists
  <2>3. ASSUME InSFTLoop', NEW d \in KeptDirs
        PROVE  d \in hurt \/ Usable(d)' \/ d \in Ran(todo) \/ (at' # "next_dir" /\ d = dir)
    <3>1. d \in Dirs
      BY KeptAreDirs DEF SFTDirs
    <3>2. d \in hurt \/ Usable(d) \/ d \in Ran(todo) \/ d = dir
      BY <1>6, <2>3 DEF FullInv, DoneInv
    <3>3. QED
      BY <1>1, <1>3, <1>6, <2>3, <3>1, <3>2
  <2>4. KeptDirs' = KeptDirs
    BY <1>1, KeptAreDirs
  <2>5. QED
    BY <1>1, <1>6, <2>1, <2>2, <2>3, <2>4 DEF DoneInv
<1>8. ReportInv'
  <2>1. ASSUME InOPDLoop', NEW d \in OPDDirs
        PROVE  d \in merge_fail \/ Usable(d)' \/ d \in Ran(todo) \/ (at' \in Merging /\ d = dir)
    <3>1. d \in Dirs /\ d \notin hurt
      BY DEF OPDDirs, SFTDirs, FullInv, ReportInv
    <3>2. d \in merge_fail \/ Usable(d) \/ d \in Ran(todo) \/ d = dir
      BY <1>6, <2>1 DEF FullInv, ReportInv
    <3>3. at' = "next_opd" \/ at' \in Merging
      BY <2>1 DEF InOPDLoop
    <3>4. QED
      BY <1>1, <1>3, <1>6, <3>1, <3>2, <3>3
  <2>2. QED
    BY <1>1, <1>6, <2>1 DEF FullInv, ReportInv
<1>9. ScoreInv'
  BY <1>1, <1>6 DEF FullInv, ScoreInv, Merging, Splitting, Folding, Rewriting
<1>10. QED
  BY <1>3, <1>4, <1>7, <1>8, <1>9 DEF FullInv

-----------------------------------------------------------------------------
(* The steps that write no file *)

LEMMA FilesUntouched ==
  ASSUME UNCHANGED <<hf, lora>>, NEW d
  PROVE  /\ Usable(d)' = Usable(d) /\ Merged(d)' = Merged(d) /\ Adapted(d)' = Adapted(d)
         /\ \A f : Exists(d, f)' = Exists(d, f) /\ IsWhole(d, f)' = IsWhole(d, f)
  BY DEF Usable, Merged, Adapted, Exists, IsWhole

LEMMA RanTail ==
  ASSUME NEW S, NEW seq \in Seq(S), seq # <<>>
  PROVE  /\ Ran(seq) = {Head(seq)} \cup Ran(Tail(seq))
         /\ Len(Tail(seq)) = Len(seq) - 1 /\ Len(seq) \in Nat \ {0}
         /\ Head(seq) = seq[1]
         /\ \A i \in 1 .. Len(seq) - 1 : Tail(seq)[i] = seq[i + 1]
<1>1. /\ Len(seq) \in Nat \ {0} /\ Head(seq) = seq[1] /\ Tail(seq) \in Seq(S)
      /\ Len(Tail(seq)) = Len(seq) - 1
      /\ \A i \in 1 .. Len(seq) - 1 : Tail(seq)[i] = seq[i + 1]
  BY EmptySeq, HeadTailProperties
<1>2. DOMAIN seq = 1 .. Len(seq) /\ DOMAIN Tail(seq) = 1 .. Len(seq) - 1
  BY <1>1
<1>3. \A i \in 1 .. Len(seq) : i = 1 \/ (i - 1 \in 1 .. Len(seq) - 1 /\ Tail(seq)[i - 1] = seq[i])
  BY <1>1
<1>4. 1 \in 1 .. Len(seq) /\ \A i \in 1 .. Len(seq) - 1 : i + 1 \in 1 .. Len(seq)
  BY <1>1
<1>5. Ran(seq) = {Head(seq)} \cup Ran(Tail(seq))
  <2>1. \A i \in 1 .. Len(seq) : seq[i] = Head(seq) \/ \E j \in 1 .. Len(seq) - 1 : seq[i] = Tail(seq)[j]
    BY <1>1, <1>3
  <2>2. \A i \in 1 .. Len(seq) - 1 : \E j \in 1 .. Len(seq) : Tail(seq)[i] = seq[j]
    BY <1>1, <1>4
  <2>3. Head(seq) \in Ran(seq)
    BY <1>1, <1>2, <1>4 DEF Ran
  <2>4. Ran(Tail(seq)) \subseteq Ran(seq)
    BY <1>2, <2>2 DEF Ran
  <2>5. \A x \in Ran(seq) : x = Head(seq) \/ x \in Ran(Tail(seq))
    BY <1>2, <2>1 DEF Ran
  <2>6. QED
    BY <2>3, <2>4, <2>5
<1>6. QED
  BY <1>1, <1>5

LEMMA RanEmpty == Ran(<<>>) = {}
  BY DEF Ran

\* A step that leaves the files, the damage and the reports alone.
LEMMA SameSound ==
  ASSUME FullInv, UNCHANGED <<hf, lora>>, hurt \subseteq hurt', merge_fail \subseteq merge_fail',
         \A d \in Dirs : WorkedOn(d) /\ ~WorkedOn(d)' /\ Exists(d, "weights") =>
                            Merged(d) \/ d \in hurt' \cup merge_fail'
  PROVE  SoundInv'
<1> SUFFICES ASSUME NEW d \in Dirs PROVE Sound(d)'
  BY DEF SoundInv
<1>1. Sound(d)
  BY DEF FullInv, SoundInv
<1>2. QED
  BY <1>1, FilesUntouched DEF Sound

LEMMA TrainFull ==
  ASSUME FullInv, Train, UNCHANGED opdVars
  PROVE  FullInv'
<1>1. /\ at = "train" /\ at' = "next_dir" /\ Ran(todo') = KeptDirs
      /\ UNCHANGED <<by_hand, lora, hf, hurt, merge_fail, math_fail, scored>>
  BY DEF Train, Goto, opdVars, Ran, KeptDirs
<1>2. IInv'
  BY TrainInv DEF FullInv
<1>3. SoundInv'
  BY <1>1, SameSound DEF WorkedOn, Merging, Splitting, Folding, Rewriting
<1>4. DoneInv'
  BY <1>1, KeptAreDirs DEF DoneInv, InSFTLoop
<1>5. MergeFilesInv' /\ FoldFilesInv' /\ ReportInv' /\ ScoreInv'
  BY <1>1 DEF FullInv, MergeFilesInv, FoldFilesInv, ReportInv, ScoreInv, InOPDLoop, Merging,
     Splitting, Folding, Rewriting
<1>6. QED
  BY <1>2, <1>3, <1>4, <1>5 DEF FullInv

\* A merge starts in a directory without weights and without a tokenizer.
LEMMA MergeStarts ==
  ASSUME FullInv, UNCHANGED <<hf, lora>>, NEW d \in Dirs, dir' = d, ~HFExists(d), at' = FirstMerge(d)
  PROVE  MergeFilesInv' /\ FoldFilesInv' /\ at' \in Merging /\ ~Exists(d, "weights")
<1>1. ~Exists(d, "weights") /\ (~Adapted(d) => ~Exists(d, "tokenizer"))
  BY MarkedIsMerged DEF FullInv, SoundInv, Sound
<1>2. at' = IF Adapted(d) THEN "merge_adapter_config" ELSE "merge_config"
  BY DEF FirstMerge, Adapted
<1>3. QED
  BY <1>1, <1>2, FilesUntouched DEF MergeFilesInv, FoldFilesInv, Adapted, Exists, IsWhole, Merging, Splitting,
     Folding, Rewriting

LEMMA NextDirFull ==
  ASSUME FullInv, NextDir, UNCHANGED opdVars
  PROVE  FullInv'
<1>1. /\ at = "next_dir" /\ todo # <<>> /\ dir' = Head(todo) /\ todo' = Tail(todo)
      /\ at' = IF HFExists(dir') THEN "fold_test" ELSE FirstMerge(dir')
      /\ UNCHANGED <<by_hand, lora, hf, hurt, merge_fail, math_fail, scored>>
  BY DEF NextDir, opdVars
<1>2. IInv'
  BY NextDirInv DEF FullInv
<1>3. /\ Ran(todo) = {dir'} \cup Ran(todo') /\ Ran(todo) \subseteq SFTDirs
  BY <1>1, RanTail DEF FullInv, IInv, TypeInv, DoneInv, InSFTLoop
<1>4. dir' \in Dirs /\ dir'[1] = "sft"
  BY <1>3 DEF SFTDirs
<1>5. SoundInv'
  BY <1>1, SameSound DEF WorkedOn, Merging, Splitting, Folding, Rewriting
<1>6. /\ MergeFilesInv' /\ FoldFilesInv' /\ at' \in Merging \cup {"fold_test"}
      /\ at' = "fold_test" => Exists(dir', "weights")
  <2>1. CASE HFExists(dir')
    BY <1>1, <2>1 DEF HFExists, MergeFilesInv, FoldFilesInv, Merging, Splitting, Folding, Rewriting
  <2>2. CASE ~HFExists(dir')
    <3>1. PICK d \in Dirs : dir' = d /\ at' = FirstMerge(d) /\ ~HFExists(d)
      BY <1>1, <1>4, <2>2
    <3>2. QED
      BY <1>1, <3>1, MergeStarts DEF Merging, Splitting
  <2>3. QED
    BY <2>1, <2>2
<1>7. DoneInv'
  <2>1. ASSUME NEW d \in KeptDirs
        PROVE  d \in hurt \/ Usable(d) \/ d \in Ran(todo') \/ d = dir'
    BY <1>1, <1>3 DEF FullInv, DoneInv, InSFTLoop
  <2>2. at' = "fold_test" => Exists(dir, "weights")'
    BY <1>1, <1>6 DEF Exists
  <2>3. at' \notin {"next_dir", "sft_done"} /\ Ran(todo') \subseteq SFTDirs
    BY <1>3, <1>6 DEF Merging, Splitting
  <2>4. \A d : Usable(d)' = Usable(d)
    BY <1>1, FilesUntouched
  <2>5. QED
    BY <1>1, <1>4, <2>1, <2>2, <2>3, <2>4, KeptAreDirs DEF DoneInv
<1>8. ReportInv' /\ ScoreInv'
  BY <1>1, <1>4, <1>6 DEF FullInv, ReportInv, ScoreInv, InOPDLoop, Merging, Splitting, Folding, Rewriting
<1>9. QED
  BY <1>2, <1>5, <1>6, <1>7, <1>8 DEF FullInv

LEMMA SFTDoneFull ==
  ASSUME FullInv, SFTDone, UNCHANGED opdVars
  PROVE  FullInv'
<1>1. /\ at = "next_dir" /\ at' = "sft_done" /\ todo = <<>>
      /\ UNCHANGED <<by_hand, lora, hf, hurt, merge_fail, math_fail, scored>>
  BY DEF SFTDone, Goto, opdVars
<1>2. IInv'
  BY SFTQuietInv DEF FullInv
<1>3. SoundInv'
  BY <1>1, SameSound DEF WorkedOn, Merging, Splitting, Folding, Rewriting
<1>4. DoneInv'
  <2>1. \A d \in KeptDirs : d \in hurt \/ Usable(d)
    BY <1>1, RanEmpty DEF FullInv, DoneInv, InSFTLoop
  <2>2. \A d : Usable(d)' = Usable(d)
    BY <1>1, FilesUntouched
  <2>3. QED
    BY <1>1, <2>1, <2>2, KeptAreDirs DEF DoneInv, InSFTLoop, Merging, Splitting, Folding, Rewriting
<1>5. MergeFilesInv' /\ FoldFilesInv' /\ ReportInv' /\ ScoreInv'
  BY <1>1 DEF FullInv, MergeFilesInv, FoldFilesInv, ReportInv, ScoreInv, InOPDLoop, Merging,
     Splitting, Folding, Rewriting
<1>6. QED
  BY <1>2, <1>3, <1>4, <1>5 DEF FullInv

\* A merged directory is folded unless it is marked or has no adapter; then it
\* is usable.
LEMMA FoldTestFull ==
  ASSUME FullInv, FoldTest, UNCHANGED opdVars
  PROVE  FullInv'
<1>1. /\ at = "fold_test" /\ dir' = dir /\ todo' = todo
      /\ at' = IF Exists(dir, "adapter_config") /\ ~Exists(dir, "marker")
               THEN "fold_patch" ELSE "next_dir"
      /\ UNCHANGED <<by_hand, lora, writing, hf, hurt, merge_fail, math_fail, scored>>
  BY DEF FoldTest, Goto, opdVars
<1>2. IInv'
  BY FoldTestInv DEF FullInv
<1>3. /\ dir \in Dirs /\ dir[1] = "sft" /\ DirInv(dir) /\ Exists(dir, "weights")
  BY <1>1 DEF FullInv, IInv, DoneInv
<1>4. dir \in hurt \/ Merged(dir)
  BY <1>1, <1>3 DEF FullInv, SoundInv, Sound, WorkedOn, ReportInv, OPDDirs, Merging, Splitting, Folding, Rewriting
<1>5. SoundInv'
  BY <1>1, SameSound DEF WorkedOn, Merging, Splitting, Folding, Rewriting
<1>6. MergeFilesInv' /\ FoldFilesInv'
  BY <1>1, <1>3, <1>4 DEF MergeFilesInv, FoldFilesInv, DirInv, Merged, Adapted, Exists, IsWhole,
     FileNames, Merging, Splitting, Folding, Rewriting
<1>7. at' = "next_dir" => dir \in hurt \/ Usable(dir)
  BY <1>1, <1>3, <1>4 DEF DirInv, Merged, Usable, Adapted, Exists, IsWhole
<1>8. DoneInv'
  <2>1. ASSUME NEW d \in KeptDirs
        PROVE  d \in hurt \/ Usable(d) \/ d \in Ran(todo) \/ (at' # "next_dir" /\ d = dir)
    BY <1>1, <1>7 DEF FullInv, DoneInv, InSFTLoop
  <2>2. \A d : Usable(d)' = Usable(d)
    BY <1>1, FilesUntouched
  <2>3. Ran(todo) \subseteq SFTDirs
    BY <1>1 DEF FullInv, DoneInv, InSFTLoop
  <2>4. QED
    BY <1>1, <2>1, <2>2, <2>3, KeptAreDirs DEF DoneInv
<1>9. ReportInv' /\ ScoreInv'
  BY <1>1 DEF FullInv, ReportInv, ScoreInv, InOPDLoop, Merging, Splitting
<1>10. QED
  BY <1>2, <1>5, <1>6, <1>8, <1>9 DEF FullInv

LEMMA FoldLoadFull ==
  ASSUME FullInv, FoldLoad, UNCHANGED opdVars
  PROVE  FullInv'
<1>1. /\ at = "fold_load" /\ at' = "fold_wipe" /\ dir' = dir /\ todo' = todo
      /\ loaded'.folds = hf[dir]["weights"].folds + 1
      /\ UNCHANGED <<by_hand, lora, writing, hf, hurt, merge_fail, math_fail, scored>>
  BY DEF FoldLoad, Goto, opdVars, Whole
<1>2. IInv'
  BY FoldLoadInv DEF FullInv
<1>3. SoundInv'
  BY <1>1, SameSound DEF WorkedOn, Merging, Splitting, Folding, Rewriting
<1>4. MergeFilesInv' /\ FoldFilesInv'
  BY <1>1 DEF FullInv, MergeFilesInv, FoldFilesInv, Exists, IsWhole, Merging, Splitting, Folding, Rewriting
<1>5. DoneInv'
  <2>1. \A d : Usable(d)' = Usable(d)
    BY <1>1, FilesUntouched
  <2>2. QED
    BY <1>1, <2>1, KeptAreDirs DEF FullInv, DoneInv, InSFTLoop, Merging, Splitting, Folding, Rewriting
<1>6. ReportInv' /\ ScoreInv'
  BY <1>1 DEF FullInv, ReportInv, ScoreInv, InOPDLoop, Merging, Splitting
<1>7. QED
  BY <1>2, <1>3, <1>4, <1>5, <1>6 DEF FullInv

\* A script that fails or is killed leaves complete weights, none, or a
\* directory that is hurt.
LEMMA FailedSound ==
  ASSUME FullInv, FoldFails \/ SFTKilled, UNCHANGED opdVars
  PROVE  SoundInv'
<1>1. UNCHANGED <<hf, lora, dir, merge_fail>> /\ hurt \subseteq hurt'
  BY DEF FoldFails, SFTKilled, opdVars
<1>2. ASSUME WorkedOn(dir), Exists(dir, "weights")
      PROVE  Merged(dir) \/ dir \in hurt'
  <2>1. CASE FoldFails
    BY <1>2, <2>1 DEF FoldFails, Goto, FullInv, FoldFilesInv, Merged, Exists, IsWhole, Folding, Rewriting
  <2>2. CASE SFTKilled
    <3>1. CASE at \in Merging
      BY <1>2, <2>2, <3>1 DEF SFTKilled, Irreparable, FullInv, IInv, MergeInv, MergeFilesInv, Exists,
         IsWhole, Merging, Splitting
    <3>2. CASE at \in Folding
      <4>1. dir \in Dirs /\ DirInv(dir) /\ lora /\ dir[1] = "sft"
        BY <3>2 DEF FullInv, IInv, FoldInv
      <4>2. CASE at \in {"fold_patch", "fold_load", "fold_wipe"}
        BY <2>2, <3>2, <4>1, <4>2 DEF SFTKilled, Irreparable, FullInv, IInv, FoldInv, FoldFilesInv, Merged,
           Adapted, Exists, IsWhole, Folding, Rewriting
      <4>3. CASE at \in {"fold_config", "fold_weights"}
        BY <1>2, <2>2, <3>2, <4>3 DEF SFTKilled, Irreparable, FullInv, FoldFilesInv, Rewriting
      <4>4. CASE at = "fold_marker"
        BY <1>2, <2>2, <3>2, <4>1, <4>4 DEF SFTKilled, Irreparable, FullInv, IInv, FoldInv, FoldFilesInv, Merged,
           Adapted, Exists, IsWhole, Rewriting, Folding
      <4>5. QED
        BY <3>2, <4>2, <4>3, <4>4 DEF Folding, Rewriting
    <3>3. QED
      BY <1>2, <3>1, <3>2 DEF WorkedOn
  <2>3. QED
    BY <2>1, <2>2
<1>3. QED
  BY <1>1, <1>2, SameSound DEF WorkedOn

\* A step to a point at which no loop runs.
LEMMA OutsideFull ==
  ASSUME FullInv, IInv', SoundInv', UNCHANGED <<merge_fail, math_fail, scored, hf>>,
         hurt' \subseteq SFTDirs, at \notin {"eval", "finished"},
         at' \in {"failed", "train", "exit", "opd_train"}
  PROVE  FullInv'
<1>1. MergeFilesInv' /\ FoldFilesInv' /\ DoneInv' /\ ReportInv'
  BY DEF FullInv, MergeFilesInv, FoldFilesInv, DoneInv, ReportInv, InSFTLoop, InOPDLoop, Merging, Splitting,
     Folding, Rewriting
<1>2. ScoreInv'
  BY DEF FullInv, ScoreInv, IsWhole
<1>3. QED
  BY <1>1, <1>2 DEF FullInv

LEMMA FailedFull ==
  ASSUME FullInv, FoldFails \/ SFTKilled \/ SFTRestart, UNCHANGED opdVars
  PROVE  FullInv'
<1>1. IInv'
  BY SFTQuietInv DEF FullInv
<1>2. /\ at' \in {"failed", "train"} /\ at \notin {"eval", "finished"}
      /\ UNCHANGED <<merge_fail, math_fail, scored, hf>>
  BY DEF FoldFails, SFTKilled, SFTRestart, Goto, opdVars, SFTStages
<1>3. hurt' \subseteq SFTDirs
  <2>1. hurt \subseteq SFTDirs
    BY DEF FullInv, ReportInv
  <2>2. CASE SFTKilled /\ Irreparable
    BY <2>1, <2>2 DEF SFTKilled, Irreparable, FullInv, IInv, FoldInv, SFTDirs, Merging, Folding, Rewriting, Splitting
  <2>3. CASE FoldFails \/ SFTRestart \/ (SFTKilled /\ ~Irreparable)
    BY <2>1, <2>3 DEF FoldFails, SFTKilled, SFTRestart
  <2>4. QED
    BY <2>2, <2>3
<1>4. SoundInv'
  <2>1. CASE SFTRestart
    BY <2>1, SameSound DEF SFTRestart, opdVars, WorkedOn, Merging, Splitting, Folding, Rewriting
  <2>2. QED
    BY <2>1, FailedSound
<1>5. QED
  BY <1>1, <1>2, <1>3, <1>4, OutsideFull

LEMMA DriverFull ==
  ASSUME FullInv, SFTFailed \/ CheckStudent
  PROVE  FullInv'
<1>1. IInv'
  BY OPDQuietInv DEF FullInv
<1>2. /\ at \in {"failed", "sft_done"} /\ at' \in {"exit", "opd_train"}
      /\ UNCHANGED <<lora, hf, hurt, merge_fail, math_fail, scored>>
  BY DEF SFTFailed, CheckStudent, Goto, opdVars
<1>3. SoundInv'
  BY <1>2, SameSound DEF WorkedOn, Merging, Splitting, Folding, Rewriting
<1>4. QED
  BY <1>1, <1>2, <1>3, OutsideFull DEF FullInv, ReportInv

-----------------------------------------------------------------------------
(* The steps of OPD training and of the evaluation *)

\* The directories of the steps, each once.
LEMMA TodoOfOPD ==
  /\ OPDTodo \in Seq(Dirs) /\ Len(OPDTodo) = Len(OPDSteps) /\ Len(OPDSteps) \in Nat
  /\ Ran(OPDTodo) = OPDDirs
  /\ \A i, j \in 1 .. Len(OPDSteps) : OPDTodo[i] = OPDTodo[j] => i = j
<1>1. OPDSteps \in Seq(Nat) /\ DOMAIN OPDSteps = 1 .. Len(OPDSteps) /\ Len(OPDSteps) \in Nat
  BY StepsAssumption
<1>2. DOMAIN OPDTodo = 1 .. Len(OPDSteps) /\ \A i \in 1 .. Len(OPDSteps) : OPDTodo[i] = <<"opd", OPDSteps[i]>>
  BY <1>1 DEF OPDTodo
<1>3. OPDTodo \in Seq(Dirs)
  BY TodoIsTyped
<1>4. Len(OPDTodo) = Len(OPDSteps)
  BY <1>1, <1>2, <1>3
<1>5. Ran(OPDTodo) = OPDDirs
  <2>1. \A d \in Dirs : d[1] = "opd" => \E i \in 1 .. Len(OPDSteps) : d = <<"opd", OPDSteps[i]>>
    BY <1>1 DEF Dirs, Ran
  <2>2. \A i \in 1 .. Len(OPDSteps) : <<"opd", OPDSteps[i]>> \in OPDDirs
    BY <1>1 DEF Dirs, Ran, OPDDirs
  <2>3. Ran(OPDTodo) \subseteq OPDDirs
    BY <1>2, <2>2 DEF Ran
  <2>4. OPDDirs \subseteq Ran(OPDTodo)
    BY <1>2, <2>1 DEF Ran, OPDDirs
  <2>5. QED
    BY <2>3, <2>4
<1>6. \A i, j \in 1 .. Len(OPDSteps) : OPDTodo[i] = OPDTodo[j] => i = j
  BY <1>1, <1>2, DistinctAssumption
<1>7. QED
  BY <1>1, <1>3, <1>4, <1>5, <1>6

LEMMA OPDTrainFull ==
  ASSUME FullInv, OPDTrain
  PROVE  FullInv'
<1>1. /\ at = "opd_train" /\ at' \in {"exit", "next_opd"} /\ todo' = OPDTodo
      /\ UNCHANGED <<by_hand, lora, hf, hurt, merge_fail, math_fail, scored>>
  BY DEF OPDTrain
<1>2. IInv'
  BY OPDQuietInv DEF FullInv
<1>3. SoundInv'
  BY <1>1, SameSound DEF WorkedOn, Merging, Splitting, Folding, Rewriting
<1>4. ReportInv'
  BY <1>1, TodoOfOPD DEF FullInv, ReportInv, InOPDLoop, Merging, Splitting
<1>5. MergeFilesInv' /\ FoldFilesInv' /\ DoneInv'
  BY <1>1 DEF MergeFilesInv, FoldFilesInv, DoneInv, InSFTLoop, Merging, Splitting, Folding, Rewriting
<1>6. ScoreInv'
  BY <1>1 DEF FullInv, ScoreInv
<1>7. QED
  BY <1>2, <1>3, <1>4, <1>5, <1>6 DEF FullInv

\* A step is merged, was merged before, or is reported.
LEMMA NextOPDFull ==
  ASSUME FullInv, NextOPD
  PROVE  FullInv'
<1> DEFINE d == Head(todo)
<1>1. /\ at = "next_opd" /\ todo # <<>> /\ todo' = Tail(todo)
      /\ UNCHANGED <<by_hand, lora, hf, hurt, math_fail, scored>>
      /\ \/ /\ ~HFExists(d) /\ at' = FirstMerge(d) /\ dir' = d /\ merge_fail' = merge_fail
         \/ /\ at' = at /\ dir' = dir
            /\ \/ HFExists(d) /\ merge_fail' = merge_fail
               \/ merge_fail' = merge_fail \cup {d}
  BY DEF NextOPD, Unmerged
<1>2. IInv'
  BY NextOPDInv DEF FullInv
<1>3. Ran(todo) = {d} \cup Ran(todo') /\ Ran(todo) \subseteq OPDDirs
  BY <1>1, RanTail DEF FullInv, IInv, TypeInv, ReportInv, InOPDLoop
<1>4. d \in Dirs /\ d[1] = "opd" /\ d \in OPDDirs
  BY <1>3 DEF OPDDirs
<1>5. merge_fail \subseteq merge_fail' /\ merge_fail' \subseteq OPDDirs
  BY <1>1, <1>4 DEF FullInv, ReportInv
<1>6. SoundInv'
  BY <1>1, <1>5, SameSound DEF WorkedOn, Merging, Splitting, Folding, Rewriting
<1>7. HFExists(d) => Usable(d) \/ d \in merge_fail
  <2>1. ASSUME HFExists(d) PROVE Merged(d) \/ d \in merge_fail
    BY <1>1, <1>4, <2>1 DEF FullInv, SoundInv, Sound, ReportInv, SFTDirs, WorkedOn, HFExists, Merging, Splitting,
       Folding, Rewriting
  <2>2. ~Exists(d, "marker")
    BY <1>4 DEF FullInv, IInv, DirInv
  <2>3. QED
    BY <1>4, <2>1, <2>2 DEF Merged, Usable
<1>8. PICK e : e = d
  OBVIOUS
<1>9. MergeFilesInv' /\ FoldFilesInv' /\ (at' = "next_opd" \/ (at' \in Merging /\ dir' = d))
  <2>1. CASE at' = at
    BY <1>1, <2>1 DEF MergeFilesInv, FoldFilesInv, Merging, Splitting, Folding, Rewriting
  <2>2. CASE at' # at
    <3>1. ~HFExists(e) /\ at' = FirstMerge(e) /\ dir' = e
      BY <1>1, <1>8, <2>2
    <3> HIDE DEF d
    <3>2. QED
      BY <1>1, <1>4, <1>8, <3>1, MergeStarts
  <2>3. QED
    BY <2>1, <2>2
<1> HIDE DEF d
<1>10. ReportInv'
  <2>1. ASSUME NEW g \in OPDDirs
        PROVE  g \in merge_fail' \/ Usable(g) \/ g \in Ran(todo') \/ (at' \in Merging /\ g = dir')
    <3>1. g \in merge_fail \/ Usable(g) \/ g \in Ran(todo)
      BY <1>1 DEF FullInv, ReportInv, InOPDLoop, Merging, Splitting
    <3>2. CASE g = d
      BY <1>1, <1>7, <1>9, <3>2 DEF FirstMerge, Merging, Splitting
    <3>3. CASE g # d
      BY <1>3, <1>5, <3>1, <3>3
    <3>4. QED
      BY <3>2, <3>3
  <2>2. \A g : Usable(g)' = Usable(g)
    BY <1>1, FilesUntouched
  <2>3. InOPDLoop'
    BY <1>4, <1>9 DEF InOPDLoop
  <2>4. hurt' \subseteq SFTDirs /\ Ran(todo') \subseteq OPDDirs
    BY <1>1, <1>3 DEF FullInv, ReportInv
  <2>5. QED
    BY <1>5, <2>1, <2>2, <2>3, <2>4 DEF ReportInv
<1>11. DoneInv' /\ ScoreInv'
  BY <1>1, <1>4, <1>9 DEF FullInv, DoneInv, ScoreInv, InSFTLoop, IsWhole, Merging, Splitting, Folding, Rewriting
<1>12. QED
  BY <1>2, <1>6, <1>9, <1>10, <1>11 DEF FullInv

LEMMA OPDMergeFailsFull ==
  ASSUME FullInv, OPDMergeFails
  PROVE  FullInv'
<1>1. /\ dir[1] = "opd" /\ at \in Merging /\ at' = "next_opd" /\ merge_fail' = merge_fail \cup {dir}
      /\ UNCHANGED <<by_hand, lora, hf, hurt, todo, math_fail, scored, dir>>
  BY DEF OPDMergeFails, Merging
<1>2. IInv'
  BY OPDQuietInv DEF FullInv
<1>3. SoundInv'
  BY <1>1, SameSound DEF WorkedOn
<1>4. dir \in OPDDirs
  BY <1>1 DEF FullInv, IInv, OPDDirs
<1>5. ReportInv'
  <2>1. \A g : Usable(g)' = Usable(g)
    BY <1>1, FilesUntouched
  <2>2. QED
    BY <1>1, <1>4, <2>1 DEF FullInv, ReportInv, InOPDLoop
<1>6. MergeFilesInv' /\ FoldFilesInv' /\ DoneInv'
  BY <1>1 DEF MergeFilesInv, FoldFilesInv, DoneInv, InSFTLoop, Merging, Splitting, Folding, Rewriting
<1>7. ScoreInv'
  BY <1>1 DEF FullInv, ScoreInv, IsWhole, Merging, Splitting
<1>8. QED
  BY <1>2, <1>3, <1>5, <1>6, <1>7 DEF FullInv

LEMMA StartEvalFull ==
  ASSUME FullInv, StartEval
  PROVE  FullInv'
<1>1. /\ at = "next_opd" /\ at' = "eval" /\ todo = <<>> /\ todo' = <<StudentDir>> \o OPDTodo
      /\ UNCHANGED <<by_hand, lora, hf, hurt, merge_fail, math_fail, scored>>
  BY DEF StartEval, Goto, opdVars
<1>2. IInv'
  BY OPDQuietInv DEF FullInv
<1>3. SoundInv'
  BY <1>1, SameSound DEF WorkedOn, Merging, Splitting, Folding, Rewriting
<1>4. MergeFilesInv' /\ FoldFilesInv' /\ DoneInv'
  BY <1>1 DEF MergeFilesInv, FoldFilesInv, DoneInv, InSFTLoop, Merging, Splitting, Folding, Rewriting
<1>5. ReportInv'
  <2>1. \A g : Usable(g)' = Usable(g)
    BY <1>1, FilesUntouched
  <2>2. \A d \in OPDDirs : d \in merge_fail \/ Usable(d)
    BY <1>1, RanEmpty DEF FullInv, ReportInv, InOPDLoop, Merging, Splitting
  <2>3. QED
    BY <1>1, <2>1, <2>2 DEF FullInv, ReportInv, InOPDLoop, Merging, Splitting
<1>6. ScoreInv'
  <2> DEFINE n == Len(OPDSteps)
             seq == <<StudentDir>> \o OPDTodo
  <2>1. /\ StudentDir \in Dirs /\ StudentDir \notin OPDDirs
    BY TodoIsTyped DEF StudentDir, OPDDirs
  <2>2. /\ seq \in Seq(Dirs) /\ Len(seq) = n + 1 /\ n \in Nat
        /\ seq[1] = StudentDir /\ \A i \in 2 .. n + 1 : seq[i] = OPDTodo[i - 1]
    <3>1. <<StudentDir>> \in Seq(Dirs) /\ Len(<<StudentDir>>) = 1 /\ <<StudentDir>>[1] = StudentDir
      BY <2>1
    <3>2. QED
      BY <3>1, TodoOfOPD, ConcatProperties
  <2>3. /\ \A i \in 2 .. n + 1 : i - 1 \in 1 .. n
        /\ \A i \in 1 .. n : i + 1 \in 2 .. n + 1 /\ i + 1 - 1 = i
    BY <2>2
  <2>4. \A i \in 1 .. n : OPDTodo[i] \in OPDDirs
    BY TodoOfOPD DEF Ran
  <2> HIDE DEF seq, n
  <2>5. \A i \in 2 .. n + 1 : seq[i] \in OPDDirs
    BY <2>2, <2>3, <2>4
  <2>6. DOMAIN seq = 1 .. n + 1 /\ 1 \in 1 .. n + 1
    BY <2>2
  <2>7. \A d \in OPDDirs : \E i \in 2 .. n + 1 : d = seq[i]
    <3>1. ASSUME NEW d \in OPDDirs PROVE \E i \in 1 .. n : d = OPDTodo[i]
      BY TodoOfOPD DEF Ran, n
    <3>2. \A i \in 1 .. n : seq[i + 1] = OPDTodo[i]
      BY <2>2, <2>3
    <3>3. QED
      BY <2>3, <3>1, <3>2
  <2>8. Ran(seq) = {StudentDir} \cup OPDDirs
    <3>1. \A i \in 1 .. n + 1 : i = 1 \/ i \in 2 .. n + 1
      BY <2>2
    <3>2. \A i \in 2 .. n + 1 : i \in 1 .. n + 1
      BY <2>2
    <3>3. Ran(seq) \subseteq {StudentDir} \cup OPDDirs
      BY <2>2, <2>5, <2>6, <3>1 DEF Ran
    <3>4. {StudentDir} \cup OPDDirs \subseteq Ran(seq)
      BY <2>2, <2>6, <2>7, <3>2 DEF Ran
    <3>5. QED
      BY <3>3, <3>4
  <2>9. ASSUME NEW i \in DOMAIN seq, NEW j \in DOMAIN seq, seq[i] = seq[j]
        PROVE  i = j
    <3>1. i \in 1 .. n + 1 /\ j \in 1 .. n + 1
      BY <2>6
    <3>2. (i = 1 \/ i \in 2 .. n + 1) /\ (j = 1 \/ j \in 2 .. n + 1)
      BY <2>2, <3>1
    <3>3. CASE i = 1 \/ j = 1
      BY <2>1, <2>2, <2>5, <2>9, <3>2, <3>3
    <3>4. CASE i \in 2 .. n + 1 /\ j \in 2 .. n + 1
      <4>1. i - 1 = j - 1
        BY <2>2, <2>3, <2>9, <3>4, TodoOfOPD DEF n
      <4>2. QED
        BY <2>2, <3>4, <4>1
    <3>5. QED
      BY <3>2, <3>3, <3>4
  <2>10. scored = {} /\ math_fail = {}
    BY <1>1 DEF FullInv, ScoreInv
  <2>11. todo' = seq
    BY <1>1 DEF seq
  <2>12. QED
    BY <1>1, <2>8, <2>9, <2>10, <2>11 DEF ScoreInv
<1>7. QED
  BY <1>2, <1>3, <1>4, <1>5, <1>6 DEF FullInv

LEMMA EvalFull ==
  ASSUME FullInv, Eval
  PROVE  FullInv'
<1> DEFINE d == Head(todo)
<1>1. /\ at = "eval" /\ at' = "eval" /\ todo # <<>> /\ todo' = Tail(todo)
      /\ \/ math_fail' = math_fail \cup {d} /\ scored' = scored
         \/ /\ \A f \in {"config", "weights", "tokenizer"} : IsWhole(d, f)
            /\ scored' = scored \cup {d} /\ math_fail' = math_fail
      /\ UNCHANGED <<by_hand, lora, hf, hurt, merge_fail>>
  BY DEF Eval, EvalSkip, EvalRun
<1>2. IInv'
  BY OPDQuietInv DEF FullInv
<1>3. SoundInv'
  BY <1>1, SameSound DEF WorkedOn, Merging, Splitting, Folding, Rewriting
<1>4. MergeFilesInv' /\ FoldFilesInv' /\ DoneInv'
  BY <1>1 DEF MergeFilesInv, FoldFilesInv, DoneInv, InSFTLoop, Merging, Splitting, Folding, Rewriting
<1>5. ReportInv'
  <2>1. \A g : Usable(g)' = Usable(g)
    BY <1>1, FilesUntouched
  <2>2. QED
    BY <1>1, <2>1 DEF FullInv, ReportInv, InOPDLoop, Merging, Splitting
<1>6. ScoreInv'
  <2> DEFINE n == Len(todo)
  <2>1. /\ Ran(todo) = {d} \cup Ran(todo') /\ n \in Nat \ {0} /\ d = todo[1]
        /\ Len(todo') = n - 1 /\ \A i \in 1 .. n - 1 : todo'[i] = todo[i + 1]
    BY <1>1, RanTail DEF FullInv, IInv, TypeInv
  <2>2. DOMAIN todo = 1 .. n /\ DOMAIN todo' = 1 .. n - 1
    BY <1>2, <2>1 DEF FullInv, IInv, TypeInv
  <2> HIDE DEF n, d
  <2>3. \A i, j \in 1 .. n : todo[i] = todo[j] => i = j
    BY <1>1, <2>2 DEF FullInv, ScoreInv
  <2>4. /\ 1 \in 1 .. n
        /\ \A i \in 1 .. n - 1 : i + 1 \in 1 .. n /\ i + 1 # 1
        /\ \A i, j \in 1 .. n - 1 : i + 1 = j + 1 => i = j
    BY <2>1
  <2>5. \A i, j \in DOMAIN todo' : todo'[i] = todo'[j] => i = j
    BY <2>1, <2>2, <2>3, <2>4
  <2>6. d \notin Ran(todo')
    <3>1. \A i \in 1 .. n - 1 : todo'[i] # d
      BY <2>1, <2>3, <2>4
    <3>2. QED
      BY <2>2, <3>1 DEF Ran
  <2>7. d \notin scored \cup math_fail
    BY <1>1, <2>1 DEF FullInv, ScoreInv
  <2>8. \A g, f : IsWhole(g, f)' = IsWhole(g, f)
    BY <1>1, FilesUntouched
  <2>9. /\ scored' \cap math_fail' = {}
        /\ \A g \in scored' : \A f \in {"config", "weights", "tokenizer"} : IsWhole(g, f)
    BY <1>1, <2>7 DEF FullInv, ScoreInv
  <2>10. /\ scored' \cup math_fail' \cup Ran(todo') = {StudentDir} \cup OPDDirs
         /\ (scored' \cup math_fail') \cap Ran(todo') = {}
    BY <1>1, <2>1, <2>6 DEF FullInv, ScoreInv
  <2>11. QED
    BY <1>1, <2>5, <2>8, <2>9, <2>10 DEF ScoreInv
<1>7. QED
  BY <1>2, <1>3, <1>4, <1>5, <1>6 DEF FullInv

LEMMA FinishFull ==
  ASSUME FullInv, Finish
  PROVE  FullInv'
<1>1. /\ at = "eval" /\ at' = "finished" /\ todo = <<>>
      /\ UNCHANGED <<by_hand, lora, hf, hurt, merge_fail, math_fail, scored>>
  BY DEF Finish, Goto, opdVars
<1>2. IInv'
  BY OPDQuietInv DEF FullInv
<1>3. SoundInv'
  BY <1>1, SameSound DEF WorkedOn, Merging, Splitting, Folding, Rewriting
<1>4. MergeFilesInv' /\ FoldFilesInv' /\ DoneInv'
  BY <1>1 DEF MergeFilesInv, FoldFilesInv, DoneInv, InSFTLoop, Merging, Splitting, Folding, Rewriting
<1>5. ReportInv'
  <2>1. \A g : Usable(g)' = Usable(g)
    BY <1>1, FilesUntouched
  <2>2. QED
    BY <1>1, <2>1 DEF FullInv, ReportInv, InOPDLoop, Merging, Splitting
<1>6. ScoreInv'
  BY <1>1, RanEmpty DEF FullInv, ScoreInv, IsWhole
<1>7. QED
  BY <1>2, <1>3, <1>4, <1>5, <1>6 DEF FullInv

-----------------------------------------------------------------------------
(* The invariant and the theorems *)

\* No step spoils a usable directory.
LEMMA FullNext ==
  ASSUME FullInv, [Next]_vars
  PROVE  FullInv' /\ \A d \in Dirs : Usable(d) => Usable(d)'
<1>1. IInv'
  BY StepInv DEF FullInv
<1>2. CASE (Merge \/ FoldPatch \/ FoldWipe \/ FoldSave) /\ UNCHANGED opdVars
  BY <1>1, <1>2, MergeLeaves, FoldPatchLeaves, FoldWipeLeaves, FoldSaveLeaves, WroteFull
<1>3. CASE /\ UNCHANGED opdVars
           /\ \/ Train \/ NextDir \/ SFTDone \/ FoldTest \/ FoldLoad \/ FoldFails
              \/ SFTKilled \/ SFTRestart
  <2>1. FullInv'
    BY <1>3, TrainFull, NextDirFull, SFTDoneFull, FoldTestFull, FoldLoadFull, FailedFull
  <2>2. UNCHANGED <<hf, lora>>
    BY <1>3 DEF Train, NextDir, SFTDone, FoldTest, FoldLoad, FoldFails, SFTKilled, SFTRestart
  <2>3. QED
    BY <2>1, <2>2, FilesUntouched
<1>4. CASE OPDNext
  <2>1. FullInv'
    BY <1>4, DriverFull, OPDTrainFull, NextOPDFull, OPDMergeFailsFull, StartEvalFull, EvalFull,
       FinishFull DEF OPDNext
  <2>2. UNCHANGED <<hf, lora>>
    BY <1>4 DEF OPDNext, SFTFailed, CheckStudent, OPDTrain, NextOPD, OPDMergeFails, StartEval, Eval,
       Finish
  <2>3. QED
    BY <2>1, <2>2, FilesUntouched
<1>5. CASE UNCHANGED vars
  <2>1. UNCHANGED <<by_hand, lora, run, at, writing, dir, todo, loaded, hf, hurt, merge_fail,
                    math_fail, scored>>
    BY <1>5 DEF vars, sftVars, opdVars
  <2>2. \A d : Usable(d)' = Usable(d)
    BY <2>1, FilesUntouched
  <2>3. SoundInv'
    BY <2>1, SameSound DEF WorkedOn
  <2>4. MergeFilesInv' /\ FoldFilesInv'
    BY <2>1 DEF FullInv, MergeFilesInv, FoldFilesInv, Adapted, Exists, IsWhole
  <2>5. DoneInv'
    BY <2>1, <2>2, KeptAreDirs DEF FullInv, DoneInv, InSFTLoop, Exists
  <2>6. ReportInv' /\ ScoreInv'
    BY <2>1, <2>2 DEF FullInv, ReportInv, ScoreInv, InOPDLoop, IsWhole
  <2>7. QED
    BY <1>1, <2>2, <2>3, <2>4, <2>5, <2>6 DEF FullInv
<1>6. QED
  BY <1>2, <1>3, <1>4, <1>5 DEF Next, SFTNext

LEMMA FullAlways == Spec => []FullInv
<1>1. FullInv /\ [Next]_vars => FullInv'
  BY FullNext
<1>2. QED
  BY <1>1, FullInit, PTL DEF Spec

\* A usable directory stays usable, whatever is started, killed or started
\* again: run_warmup_sft.sh tests for complete weights before it merges and
\* for the marker before it folds.
THEOREM UsableForGood == Spec => UsableStays
<1>1. FullInv /\ [Next]_vars => [\A d \in Dirs : Usable(d) => Usable(d)']_hf
  BY FullNext
<1>2. QED
  BY <1>1, FullAlways, PTL DEF Spec, UsableStays

\* When the warm-up script ends every kept directory is usable, except those
\* an interruption hit at one of the points it does not repair.
THEOREM DoneIsUsable == Spec => []DoneMeansUsable
<1>1. FullInv => DoneMeansUsable
  BY DEF FullInv, DoneInv, DoneMeansUsable, KeptDirs
<1>2. QED
  BY <1>1, FullAlways, PTL

\* When the pipeline has finished, the student and every step are scored or
\* reported, and what was scored was complete.
THEOREM StepsAreReported == Spec => []EveryStepIsReported
<1>1. FullInv => EveryStepIsReported
  BY DEF FullInv, ReportInv, ScoreInv, EveryStepIsReported, InOPDLoop, Merging, Splitting
<1>2. QED
  BY <1>1, FullAlways, PTL
=============================================================================
