------------------------------ MODULE SimpleOPD ------------------------------
(***************************************************************************)
(* Simple-OPD.sh: warm-up SFT in a new directory (module WarmUpSFT), then  *)
(* OPD training from the folded student, the merge of every saved actor,   *)
(* and the evaluation of the student and of every merged step.  A process  *)
(* that fails in the SFT stage ends the pipeline; later ones only lose     *)
(* their step.                                                             *)
(***************************************************************************)
EXTENDS WarmUpSFT

VARIABLES
    shards,       \* [OPD directories -> absent, torn or whole actor shards]
    student,      \* the weights OPD training started from
    merge_fail,   \* MERGE_FAIL, as the set of its directories
    math_fail,    \* MATH_FAIL, likewise
    scored        \* directories with a completed evaluation

opdVars == <<shards, student, merge_fail, math_fail, scored>>
vars    == <<sftVars, opdVars>>

OPDDirs == {d \in Dirs : d[1] = "opd"}

Init ==
    /\ SFTInit
    /\ shards = [d \in OPDDirs |-> "absent"]
    /\ student = Absent
    /\ merge_fail = {} /\ math_fail = {} /\ scored = {}

\* STUDENT_HF_DIR.
StudentDir == <<"sft", SFTSteps[Len(SFTSteps)]>>

\* STEPS_LIST, as the directories of the steps.
OPDTodo == [i \in DOMAIN OPDSteps |-> <<"opd", OPDSteps[i]>>]

\* The driver takes the student only if config.json and the marker exist.
CheckStudent ==
    /\ ~by_hand
    /\ Goto("sft_done", IF Exists(StudentDir, "config") /\ Exists(StudentDir, "marker")
                        THEN "opd_train" ELSE "exit")
    /\ UNCHANGED <<by_hand, lora, run, writing, dir, todo, loaded, hf, hurt, opdVars>>

\* OPD training saves some of the steps, the last of which may be torn; its
\* exit code is only reported.  No actor directory at all ends the pipeline.
OPDTrain ==
    /\ at = "opd_train"
    /\ student' = hf[StudentDir]["weights"]
    /\ \E saved \in 0 .. Len(OPDSteps), torn \in BOOLEAN :
          /\ shards' = [d \in OPDDirs |->
                 CASE \E i \in 1 .. saved : d = OPDTodo[i] -> "whole"
                   [] torn /\ saved < Len(OPDSteps) /\ d = OPDTodo[saved + 1] -> "torn"
                   [] OTHER -> "absent"]
          /\ at' = IF \A d \in OPDDirs : shards'[d] = "absent"
                   THEN "exit" ELSE "next_opd"
    /\ todo' = OPDTodo
    /\ UNCHANGED <<by_hand, lora, run, writing, dir, loaded, hf, hurt, merge_fail,
                   math_fail, scored>>

\* Mutant: a step that cannot be merged is passed over silently.
UnmergedUnreported(d) == {}

\* A step without shards, or with shards that cannot be read, is a failed merge.
Unmerged(d) == {d}

\* Head of the merge loop.  model_merger reads all shards before it writes, so
\* torn shards leave nothing behind.  (In a new RUN_DIR nothing is skipped.)
NextOPD ==
    /\ at = "next_opd" /\ todo # <<>>
    /\ todo' = Tail(todo)
    /\ LET d      == Head(todo)
           skip   == shards[d] # "absent" /\ HFExists(d)
           merges == shards[d] = "whole" /\ ~skip
       IN  /\ at' = IF merges THEN FirstMerge(d) ELSE at
           /\ dir' = IF merges THEN d ELSE dir
           /\ merge_fail' = merge_fail \cup (IF merges \/ skip THEN {} ELSE Unmerged(d))
    /\ UNCHANGED <<by_hand, lora, run, writing, loaded, hf, hurt, shards, student,
                   math_fail, scored>>

\* model_merger fails or is killed while it writes: the loop goes on.
OPDMergeFails ==
    /\ dir[1] = "opd" /\ at \in {"merge_config", "merge_weights", "merge_tokenizer"}
    /\ at' = "next_opd" /\ writing' = FALSE
    /\ merge_fail' = merge_fail \cup {dir}
    /\ UNCHANGED <<by_hand, lora, run, dir, todo, loaded, hf, hurt, shards, student,
                   math_fail, scored>>

\* The evaluations start with the student.
StartEval ==
    /\ todo = <<>> /\ Goto("next_opd", "eval")
    /\ todo' = <<StudentDir>> \o OPDTodo
    /\ UNCHANGED <<by_hand, lora, run, writing, dir, loaded, hf, hurt, opdVars>>

\* Without config.json a step is a failed evaluation.
EvalSkip(d) ==
    /\ ~Exists(d, "config")
    /\ math_fail' = math_fail \cup {d} /\ UNCHANGED scored

\* The evaluation of a directory that has config.json.  Loading fails unless
\* the files are complete; it may fail for other reasons too.
EvalRun(d) ==
    /\ Exists(d, "config")
    /\ \/ /\ \A f \in {"config", "weights", "tokenizer"} : IsWhole(d, f)
          /\ scored' = scored \cup {d} /\ UNCHANGED math_fail
       \/ /\ math_fail' = math_fail \cup {d} /\ UNCHANGED scored

Eval ==
    /\ at = "eval" /\ todo # <<>>
    /\ todo' = Tail(todo)
    /\ EvalSkip(Head(todo)) \/ EvalRun(Head(todo))
    /\ UNCHANGED <<by_hand, lora, run, at, writing, dir, loaded, hf, hurt, shards,
                   student, merge_fail>>

Finish ==
    /\ todo = <<>> /\ Goto("eval", "finished")
    /\ UNCHANGED <<by_hand, lora, run, writing, dir, todo, loaded, hf, hurt, opdVars>>

\* The driver ends with the SFT script.
SFTFailed ==
    /\ ~by_hand /\ Goto("failed", "exit")
    /\ UNCHANGED <<by_hand, lora, run, writing, dir, todo, loaded, hf, hurt, opdVars>>

OPDNext ==
    \/ SFTFailed \/ CheckStudent \/ OPDTrain \/ NextOPD \/ OPDMergeFails
    \/ StartEval \/ Eval \/ Finish

Next == (SFTNext /\ UNCHANGED opdVars) \/ OPDNext

Spec == Init /\ [][Next]_vars

-----------------------------------------------------------------------------
(* Properties. *)

Files  == [state : {"absent", "torn", "whole"}, run : 0 .. MaxRuns,
           folds : 0 .. MaxRuns]
Stages == SFTStages \cup {"sft_done", "failed", "exit", "opd_train", "next_opd",
                          "eval", "finished"}

\* The variables have their types; no weights that were cut short ever reach
\* the memory of a process.
TypeOK ==
    /\ by_hand \in BOOLEAN /\ lora \in BOOLEAN /\ writing \in BOOLEAN
    /\ run \in 1 .. MaxRuns /\ at \in Stages
    /\ dir \in Dirs \cup {NoDir} /\ todo \in Seq(Dirs)
    /\ {loaded, student} \subseteq {Absent} \cup {f \in Files : f.state = "whole" /\ f.run > 0}
    /\ hf \in [Dirs -> [FileNames -> Files]]
    /\ hurt \subseteq Dirs /\ merge_fail \subseteq OPDDirs
    /\ math_fail \subseteq Dirs /\ scored \subseteq Dirs
    /\ shards \in [OPDDirs -> {"absent", "torn", "whole"}]

\* When the pipeline has finished, every step of STEPS_LIST and the student is
\* either scored or reported in MATH_FAIL; a step that lacks a merged model is
\* reported in MERGE_FAIL too; and what was scored is a complete model.
EveryStepIsReported ==
    /\ at = "finished" =>
          /\ scored \cup math_fail = {StudentDir} \cup OPDDirs
          /\ \A d \in OPDDirs : d \in merge_fail \/ Usable(d)
    /\ scored \cap math_fail = {}
    /\ \A d \in scored : \A f \in {"config", "weights", "tokenizer"} : IsWhole(d, f)
=============================================================================
