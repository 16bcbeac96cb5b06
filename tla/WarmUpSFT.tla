------------------------------ MODULE WarmUpSFT ------------------------------
(***************************************************************************)
(* run_warmup_sft.sh: train, then turn every kept SFT checkpoint into a    *)
(* Hugging Face directory (verl.model_merger) and fold the LoRA adapter    *)
(* into its weights (merge_lora_into_base.py).  The script runs one        *)
(* process after another, so `at` is the only control state.  It is either *)
(* run by Simple-OPD.sh in a new directory (module SimpleOPD), or by hand, *)
(* when it may be started again in the same RUN_DIR after it was killed,   *)
(* failed or ended.                                                        *)
(*                                                                         *)
(* A file is absent, torn while it is written, or whole; a whole file is   *)
(* stamped with the run whose shards it comes from and, for weights, the   *)
(* number of times the adapter has been added to the base.                 *)
(***************************************************************************)
EXTENDS Integers, Sequences

CONSTANTS SFTSteps,     \* the steps the SFT trainer saves, in order
          OPDSteps,     \* STEPS_LIST of the driver, in order
          MaxRuns       \* bound: times the script is started in one RUN_DIR

ASSUME StepsAssumption ==
    /\ SFTSteps \in Seq(Nat) /\ SFTSteps # <<>>
    /\ OPDSteps \in Seq(Nat) /\ OPDSteps # <<>>

\* STEPS_LIST is the output of seq: no step comes twice.
ASSUME DistinctAssumption ==
    \A i, j \in DOMAIN OPDSteps : OPDSteps[i] = OPDSteps[j] => i = j

Ran(seq) == {seq[i] : i \in DOMAIN seq}

\* hf/global_step_N of the SFT stage, opd/stepN/merged of the OPD stage.
Dirs == ({"sft"} \X Ran(SFTSteps)) \cup ({"opd"} \X Ran(OPDSteps))

FileNames == {"adapter_config", "adapter", "config", "weights", "tokenizer",
              "marker"}

Absent           == [state |-> "absent", run |-> 0, folds |-> 0]
Torn             == [state |-> "torn", run |-> 0, folds |-> 0]
Whole(run, fold) == [state |-> "whole", run |-> run, folds |-> fold]

VARIABLES
    by_hand,    \* the SFT script was started by hand, not by Simple-OPD.sh
    lora,       \* LORA_RANK is not 0
    run,        \* how often the script has been started in this RUN_DIR
    at,         \* the step of the scripts that runs
    writing,    \* the file of this step is open
    dir,        \* the directory that is merged or folded
    todo,       \* directories the loop has not come to
    loaded,     \* weights in the memory of merge_lora_into_base.py
    hf,         \* [Dirs -> [FileNames -> file]]
    hurt        \* history: directories damaged beyond what a restart repairs

sftVars == <<by_hand, lora, run, at, writing, dir, todo, loaded, hf, hurt>>

NoDir == <<"none", 0>>

SFTInit ==
    /\ by_hand \in BOOLEAN /\ lora \in BOOLEAN
    /\ run = 1 /\ at = "train" /\ writing = FALSE
    /\ dir = NoDir /\ todo = <<>> /\ loaded = Absent
    /\ hf = [d \in Dirs |-> [f \in FileNames |-> Absent]]
    /\ hurt = {}

\* KEEP_STEPS: the driver keeps the last step only, by hand all are kept.
Kept == IF by_hand THEN SFTSteps ELSE <<SFTSteps[Len(SFTSteps)]>>

Exists(d, f)  == hf[d][f].state # "absent"
IsWhole(d, f) == hf[d][f].state = "whole"

-----------------------------------------------------------------------------
(* Steps of a script.  A step that writes a file opens it, which tears it,  *)
(* and closes it later.                                                     *)

Goto(from, to) == at = from /\ at' = to

OpenFile(stage, f) ==
    /\ at = stage /\ ~writing
    /\ writing' = TRUE
    /\ hf' = [hf EXCEPT ![dir][f] = Torn]
    /\ UNCHANGED <<by_hand, lora, run, at, dir, todo, loaded, hurt>>

CloseFile(stage, f, file, next) ==
    /\ Goto(stage, next) /\ writing
    /\ writing' = FALSE
    /\ hf' = [hf EXCEPT ![dir][f] = file]
    /\ UNCHANGED <<by_hand, lora, run, dir, todo, loaded, hurt>>

WriteFile(stage, f, file, next) ==
    OpenFile(stage, f) \/ CloseFile(stage, f, file, next)

\* The trainer writes the shards of all steps anew (resume_mode=disable).  If
\* it fails the script ends, by `set -e` and pipefail.
Train ==
    /\ Goto("train", "next_dir")
    /\ todo' = [i \in DOMAIN Kept |-> <<"sft", Kept[i]>>]
    /\ UNCHANGED <<by_hand, lora, run, writing, dir, loaded, hf, hurt>>

\* Mutant: only config.json is tested.
HFExistsByConfig(d) == Exists(d, "config")

\* The test before a merge: config.json and any weight file are there.
HFExists(d) == Exists(d, "config") /\ Exists(d, "weights")

\* Where a merge starts: an OPD actor has no adapter.
FirstMerge(d) == IF lora /\ d[1] = "sft" THEN "merge_adapter_config"
                                         ELSE "merge_config"

\* Head of the loop over the saved steps.
NextDir ==
    /\ at = "next_dir" /\ todo # <<>>
    /\ dir' = Head(todo) /\ todo' = Tail(todo)
    /\ at' = IF HFExists(dir') THEN "fold_test" ELSE FirstMerge(dir')
    /\ UNCHANGED <<by_hand, lora, run, writing, loaded, hf, hurt>>

SFTDone ==
    /\ todo = <<>> /\ Goto("next_dir", "sft_done")
    /\ UNCHANGED <<by_hand, lora, run, writing, dir, todo, loaded, hf, hurt>>

\* verl.model_merger merge: the adapter is split off, then save_pretrained
\* writes config.json and the base weights, then the tokenizer is saved.
Merge ==
    \/ WriteFile("merge_adapter_config", "adapter_config", Whole(run, 0), "merge_adapter")
    \/ WriteFile("merge_adapter", "adapter", Whole(run, 0), "merge_config")
    \/ WriteFile("merge_config", "config", Whole(run, 0), "merge_weights")
    \/ WriteFile("merge_weights", "weights", Whole(run, 0), "merge_tokenizer")
    \/ WriteFile("merge_tokenizer", "tokenizer", Whole(run, 0),
                 IF dir[1] = "sft" THEN "fold_test" ELSE "next_opd")

\* Mutant: the marker is not looked at.
FoldTestUnmarked ==
    /\ Goto("fold_test", IF Exists(dir, "adapter_config") THEN "fold_patch" ELSE "next_dir")
    /\ UNCHANGED <<by_hand, lora, run, writing, dir, todo, loaded, hf, hurt>>

\* The shell test before the fold: lora_adapter/ is there and no marker is.
FoldTest ==
    /\ Goto("fold_test", IF Exists(dir, "adapter_config") /\ ~Exists(dir, "marker")
                         THEN "fold_patch" ELSE "next_dir")
    /\ UNCHANGED <<by_hand, lora, run, writing, dir, todo, loaded, hf, hurt>>

\* _patch_adapter_config reads adapter_config.json and rewrites it in place.
FoldPatch ==
    /\ at = "fold_patch" /\ (writing \/ IsWhole(dir, "adapter_config"))
    /\ WriteFile("fold_patch", "adapter_config", Whole(run, 0), "fold_load")

\* The base and the adapter are loaded and added in memory.
FoldLoad ==
    /\ Goto("fold_load", "fold_wipe")
    /\ \A f \in {"config", "weights", "adapter"} : IsWhole(dir, f)
    /\ loaded' = Whole(hf[dir]["weights"].run, hf[dir]["weights"].folds + 1)
    /\ UNCHANGED <<by_hand, lora, run, writing, dir, todo, hf, hurt>>

\* json.load or a loader raises on a torn file: the script exits.
FoldFails ==
    /\ \/ Goto("fold_patch", "failed") /\ ~writing /\ ~IsWhole(dir, "adapter_config")
       \/ Goto("fold_load", "failed")
          /\ \E f \in {"config", "weights", "adapter"} : ~IsWhole(dir, f)
    /\ UNCHANGED <<by_hand, lora, run, writing, dir, todo, loaded, hf, hurt>>

\* _wipe_old_weight_files.
FoldWipe ==
    /\ Goto("fold_wipe", "fold_config")
    /\ hf' = [hf EXCEPT ![dir]["weights"] = Absent]
    /\ UNCHANGED <<by_hand, lora, run, writing, dir, todo, loaded, hurt>>

\* Mutant: the marker is written before the weights.
FoldSaveMarkerFirst ==
    \/ WriteFile("fold_config", "config", Whole(run, 0), "fold_marker")
    \/ WriteFile("fold_marker", "marker", Whole(run, 0), "fold_weights")
    \/ WriteFile("fold_weights", "weights", loaded, "next_dir")

\* save_pretrained writes config.json and the folded weights, then comes the
\* marker .lora_merged.
FoldSave ==
    \/ WriteFile("fold_config", "config", Whole(run, 0), "fold_weights")
    \/ WriteFile("fold_weights", "weights", loaded, "fold_marker")
    \/ WriteFile("fold_marker", "marker", Whole(run, 0), "next_dir")

-----------------------------------------------------------------------------
(* Failures and restarts. *)

SFTStages == {"train", "next_dir", "merge_adapter_config", "merge_adapter",
              "merge_config", "merge_weights", "merge_tokenizer", "fold_test",
              "fold_patch", "fold_load", "fold_wipe", "fold_config",
              "fold_weights", "fold_marker"}

\* The points at which an interruption is not repaired by starting the script
\* again: a file is torn that later counts as present (weights, the adapter's
\* configuration), the tokenizer is missing from a directory that counts as
\* merged, or the folded weights are not marked as folded.
Irreparable ==
    \/ writing /\ at \in {"merge_weights", "fold_patch", "fold_weights"}
    \/ at = "merge_tokenizer"
    \/ ~writing /\ at = "fold_marker"

\* The process that runs, or the script, is killed or fails for a reason of
\* its own (memory, disk): the SFT script ends either way.
SFTKilled ==
    /\ at \in SFTStages /\ (at = "merge_config" => dir[1] = "sft")
    /\ at \in {"merge_weights", "merge_tokenizer"} => dir[1] = "sft"
    /\ at' = "failed" /\ writing' = FALSE
    /\ hurt' = IF Irreparable THEN hurt \cup {dir} ELSE hurt
    /\ UNCHANGED <<by_hand, lora, run, dir, todo, loaded, hf>>

\* The script is started again by hand with the same RUN_DIR.
SFTRestart ==
    /\ by_hand /\ at \in {"failed", "sft_done"} /\ run < MaxRuns
    /\ run' = run + 1 /\ at' = "train"
    /\ todo' = <<>> /\ dir' = NoDir /\ loaded' = Absent
    /\ UNCHANGED <<by_hand, lora, writing, hf, hurt>>

SFTNext ==
    \/ Train \/ NextDir \/ SFTDone \/ Merge
    \/ FoldTest \/ FoldPatch \/ FoldLoad \/ FoldFails \/ FoldWipe \/ FoldSave
    \/ SFTKilled \/ SFTRestart

-----------------------------------------------------------------------------
(* Properties. *)

\* What a reader of a directory expects: complete files and, where the SFT
\* stage used LoRA, the adapter of the same run folded in exactly once.
Usable(d) ==
    /\ \A f \in {"config", "weights", "tokenizer"} : IsWhole(d, f)
    /\ IF lora /\ d[1] = "sft"
          THEN /\ Exists(d, "marker")
               /\ hf[d]["weights"].folds = 1
               /\ hf[d]["weights"].run = hf[d]["adapter"].run
          ELSE hf[d]["weights"].folds = 0

\* However often the script was interrupted and started again, when it ends
\* every kept directory is usable, except those where an interruption hit one
\* of the points named in Irreparable.
DoneMeansUsable ==
    at = "sft_done" =>
        \A i \in DOMAIN Kept : LET d == <<"sft", Kept[i]>>
                               IN  d \in hurt \/ Usable(d)

\* The marker is never on weights without the adapter, whatever was killed:
\* a marked directory is never the raw base model.
MarkedIsAdapted ==
    \A d \in Dirs : Exists(d, "marker") =>
        /\ IsWhole(d, "weights") /\ hf[d]["weights"].folds >= 1
        /\ hf[d]["weights"].run = hf[d]["adapter"].run

\* A usable directory stays usable, whatever is started, killed or started
\* again later: no script merges over it or folds the adapter in once more.
UsableStays == [][\A d \in Dirs : Usable(d) => Usable(d)']_hf
=============================================================================
