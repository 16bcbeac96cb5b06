---------------------------- MODULE HybridEngine ----------------------------
(***************************************************************************)
(* RayPPOTrainer and the hybrid ActorRolloutRefWorker: the ranks of one    *)
(* tensor-parallel group hold both the FSDP actor and a vLLM engine on the *)
(* same GPUs.  The driver calls the ranks one method at a time and waits   *)
(* for all of them; every rank executes the steps of the method at its own *)
(* pace, and meets the others only in collective operations.               *)
(*                                                                         *)
(* Weights are represented by their version: the number of actor updates   *)
(* they contain.  A random state is the pair of what it has been used for: *)
(* <<generations, updates>>.                                               *)
(***************************************************************************)
EXTENDS Integers, Sequences

CONSTANTS
    Ranks,          \* the ranks of the group
    Configs,        \* the configurations to consider
    TotalSteps,     \* total_training_steps
    CriticWarmup    \* trainer.critic_warmup

ASSUME RanksAssumption == Ranks # {}
ASSUME StepsAssumption == TotalSteps \in Nat /\ CriticWarmup \in Nat

\* The settings that change which steps are taken.
Settings ==
    [async      : BOOLEAN,   \* rollout.mode = "async"
     free_cache : BOOLEAN,   \* rollout.free_cache_engine
     prefix     : BOOLEAN,   \* rollout.enable_prefix_caching
     offload    : BOOLEAN,   \* param_offload and optimizer_offload of the actor
     lora       : BOOLEAN,   \* model.lora_rank > 0
     dummy      : BOOLEAN,   \* "dummy" in rollout.load_format
     level2     : BOOLEAN,   \* sleep_level = 2
     resumed    : BOOLEAN,   \* _load_checkpoint finds a checkpoint
     remax      : BOOLEAN,   \* adv_estimator = REMAX
     ref_inputs : BOOLEAN,   \* the reference model has inputs of its own
     base       : BOOLEAN]   \* use_base_models

ASSUME ConfigsAssumption == Configs \subseteq Settings

VARIABLES
    cfg,        \* the configuration of this run
    global_steps,
    calls,      \* the driver's calls that are left of this iteration
    batch,      \* what the log-probabilities of the batch were computed from
    todo,       \* [Ranks -> the steps of the current call that are left]
    actor,      \* [Ranks -> the FSDP actor]
    engine,     \* [Ranks -> the vLLM engine]
    prefix,     \* [Ranks -> versions that computed the prefix cache]
    random      \* [Ranks -> the three random states]

driverVars == <<cfg, global_steps, calls, batch>>
workerVars == <<actor, engine, prefix, random>>
vars == <<driverVars, todo, workerVars>>

If(b, s) == IF b THEN <<s>> ELSE <<>>

-----------------------------------------------------------------------------
(* The methods of the worker, as the steps a rank takes. *)

\* Mutant: the actor is offloaded once the engine is awake.
RolloutModeOffloadsLate ==
    If(cfg.offload, "load_params") \o <<"gather">>
    \o If(cfg.free_cache, "resume_weights")
    \o If(cfg.lora /\ cfg.level2, "update_base")
    \o <<"update_weights">>
    \o If(cfg.free_cache, "resume_kv")
    \o If(cfg.offload, "offload_params") \o <<"to_gen_states">>

\* rollout_mode.
RolloutMode ==
    If(cfg.offload, "load_params")
    \o <<"gather">>
    \o If(cfg.offload, "offload_params")
    \o If(cfg.free_cache, "resume_weights")
    \o If(cfg.lora /\ cfg.level2, "update_base")
    \o <<"update_weights">>
    \o If(cfg.free_cache, "resume_kv")
    \o <<"to_gen_states">>

\* trainer_mode.
TrainerMode == If(cfg.free_cache, "release") \o <<"to_torch_states">>

\* Forward passes of the actor, offloaded again afterwards.
WithParams(s) ==
    If(cfg.offload, "load_params") \o <<s>> \o If(cfg.offload, "offload_params")

UpdateActor ==
    If(cfg.offload, "load_params") \o If(cfg.offload, "load_optimizer")
    \o <<"update">>
    \o If(cfg.offload, "offload_params") \o If(cfg.offload, "offload_optimizer")

\* The parameters and the optimizer are offloaded, then the engine is built.
InitModel ==
    If(cfg.offload, "offload_params") \o If(cfg.offload, "offload_optimizer")
    \o <<"build_rollout">>
    \o (IF cfg.async THEN <<>> ELSE TrainerMode)

LoadCheckpoint ==
    IF cfg.resumed
    THEN WithParams("load") \o If(cfg.offload, "offload_optimizer")
    ELSE If(cfg.offload, "offload_params") \o If(cfg.offload, "offload_optimizer")

\* The steps behind a call of the driver.  The reference and base policies are
\* modules of their own, except that a LoRA actor is its own reference.
Program(c) ==
    CASE c = "init_model"          -> InitModel
      [] c = "load_checkpoint"     -> LoadCheckpoint
      [] c = "generate_sequences"  -> RolloutMode \o <<"generate">> \o TrainerMode
      [] c = "wake_up"             -> RolloutMode
      [] c = "generate"            -> <<"generate">>
      [] c = "sleep"               -> TrainerMode
      [] c = "compute_log_prob"    -> WithParams("compute")
      [] c = "ref_log_prob"        -> IF cfg.lora THEN WithParams("compute") ELSE <<>>
      [] c = "update_actor"        -> UpdateActor
      [] c = "save_checkpoint"     -> WithParams("save")
      [] OTHER                     -> <<>>

-----------------------------------------------------------------------------
(* The calls of the driver. *)

\* AgentLoopManager.generate_sequences, or the worker's own in sync mode.
Generation ==
    IF cfg.async
    THEN If(cfg.free_cache, "wake_up") \o <<"generate">> \o If(cfg.free_cache, "sleep")
    ELSE <<"generate_sequences">>

StartUp == <<"init_model">> \o If(cfg.async /\ cfg.free_cache, "sleep") \o <<"load_checkpoint">>

\* One iteration of fit.
Iteration(n) ==
    Generation
    \o (IF cfg.remax THEN Generation ELSE <<>>)
    \o <<"new_batch", "compute_log_prob">>
    \o If(cfg.ref_inputs, "prepare_ref_inputs")
    \o <<"ref_log_prob">>
    \o If(cfg.base, "base_ref_log_prob") \o If(cfg.base, "base_log_prob")
    \o If(CriticWarmup <= n, "update_actor")

NoBatch == [ref_inputs |-> FALSE, old |-> "none", version |-> -1,
            ref |-> "none", base |-> "none", base_ref |-> "none"]

Init ==
    /\ cfg \in Configs
    /\ global_steps = 0
    /\ calls = StartUp
    /\ batch = NoBatch
    /\ todo = [r \in Ranks |-> <<>>]
    /\ actor = [r \in Ranks |-> [version |-> 0, params |-> "gpu", optimizer |-> "gpu",
                                 gathered |-> 0, base_sync_done |-> ~cfg.dummy]]
    /\ engine = [r \in Ranks |-> [weights_awake |-> FALSE, kv_awake |-> FALSE,
                                  base |-> "none", version |-> 0]]
    /\ prefix = [r \in Ranks |-> {}]
    /\ random = [r \in Ranks |-> [device |-> <<0, 0>>, torch |-> <<0, 0>>, gen |-> <<0, 0>>]]

\* ray.get has returned for every rank.
Idle == \A r \in Ranks : todo[r] = <<>>

Issue(c) ==
    /\ Idle /\ calls # <<>> /\ Head(calls) = c
    /\ calls' = Tail(calls)
    /\ todo' = [r \in Ranks |-> Program(c)]
    /\ UNCHANGED <<cfg, global_steps>>

\* Calls that only the ranks see.
CallWorkers ==
    /\ \E c \in {"init_model", "load_checkpoint", "generate_sequences", "wake_up",
                 "generate", "update_actor", "save_checkpoint"} : Issue(c)
    /\ UNCHANGED <<batch, workerVars>>

\* The server of node 0 resets the prefix cache before the ranks sleep.
CallSleep ==
    /\ Issue("sleep")
    /\ prefix' = [r \in Ranks |-> {}]
    /\ UNCHANGED <<batch, actor, engine, random>>

NewBatch == Issue("new_batch") /\ batch' = NoBatch /\ UNCHANGED workerVars

\* _forward_micro_batch prefers the inputs of the reference model, whatever
\* model it runs, when the batch has them.
Inputs == IF batch.ref_inputs THEN "ref" ELSE "actor"

CallComputeLogProb ==
    /\ Issue("compute_log_prob")
    /\ \E r \in Ranks :
          batch' = [batch EXCEPT !.old = Inputs, !.version = actor[r].version]
    /\ UNCHANGED workerVars

PrepareRefInputs ==
    /\ Issue("prepare_ref_inputs")
    /\ batch' = [batch EXCEPT !.ref_inputs = TRUE]
    /\ UNCHANGED workerVars

CallRefLogProb ==
    /\ Issue("ref_log_prob")
    /\ batch' = [batch EXCEPT !.ref = Inputs]
    /\ UNCHANGED workerVars

CallBaseRefLogProb ==
    /\ Issue("base_ref_log_prob")
    /\ batch' = [batch EXCEPT !.base_ref = Inputs]
    /\ UNCHANGED workerVars

\* Mutant: the reference inputs stay in the batch.
CallBaseLogProbKeepingInputs ==
    /\ Issue("base_log_prob")
    /\ batch' = [batch EXCEPT !.base = Inputs]
    /\ UNCHANGED workerVars

\* The reference inputs are taken out of the batch for this one call.
CallBaseLogProb ==
    /\ Issue("base_log_prob")
    /\ batch' = [batch EXCEPT !.base = "actor"]
    /\ UNCHANGED workerVars

\* What update_policy subtracts from one another for the advantages of a single
\* teacher (only_reverse_kl_advantages); corrected stands for lambda_vals # 1.
\* The reference's own base model, base_ref, is not among them.
Subtracted(corrected) ==
    IF cfg.base /\ corrected THEN {<<"old", "base">>, <<"ref", "base">>}
                             ELSE {<<"old", "ref">>}

\* The end of an iteration (of the start-up, the first time): an optional
\* validation, which generates, an optional save, and the next iteration.
NextStep ==
    /\ Idle /\ calls = <<>> /\ global_steps <= TotalSteps
    /\ global_steps' = global_steps + 1
    /\ \E validate, save \in BOOLEAN :
          calls' = (IF validate THEN Generation ELSE <<>>)
                   \o If(save /\ global_steps > 0, "save_checkpoint")
                   \o (IF global_steps < TotalSteps THEN Iteration(global_steps + 1) ELSE <<>>)
    /\ UNCHANGED <<cfg, batch, todo, workerVars>>

\* fit has returned.
Finished ==
    /\ Idle /\ calls = <<>> /\ global_steps > TotalSteps
    /\ UNCHANGED vars

-----------------------------------------------------------------------------
(* The steps of a rank. *)

Step(r, s) ==
    /\ todo[r] # <<>> /\ Head(todo[r]) = s
    /\ todo' = [todo EXCEPT ![r] = Tail(@)]
    /\ UNCHANGED driverVars

\* A collective step waits until every rank has reached it.
Collective(r, s) == Step(r, s) /\ \A q \in Ranks : Len(todo[q]) <= Len(todo[r])

LoadParams(r) ==
    /\ Step(r, "load_params")
    /\ actor' = [actor EXCEPT ![r].params = "gpu"]
    /\ UNCHANGED <<engine, prefix, random>>

OffloadParams(r) ==
    /\ Step(r, "offload_params")
    /\ actor' = [actor EXCEPT ![r].params = "cpu"]
    /\ UNCHANGED <<engine, prefix, random>>

LoadOptimizer(r) ==
    /\ Step(r, "load_optimizer")
    /\ actor' = [actor EXCEPT ![r].optimizer = "gpu"]
    /\ UNCHANGED <<engine, prefix, random>>

OffloadOptimizer(r) ==
    /\ Step(r, "offload_optimizer")
    /\ actor' = [actor EXCEPT ![r].optimizer = "cpu"]
    /\ UNCHANGED <<engine, prefix, random>>

\* _build_rollout: the engine starts awake; dummy weights are random.
BuildRollout(r) ==
    /\ Collective(r, "build_rollout")
    /\ engine' = [engine EXCEPT ![r] =
          [weights_awake |-> TRUE, kv_awake |-> TRUE,
           base |-> IF cfg.dummy THEN "junk" ELSE "good", version |-> 0]]
    /\ random' = [random EXCEPT ![r].torch = random[r].device, ![r].gen = <<0, 0>>]
    /\ UNCHANGED <<actor, prefix>>

\* state_dict, or collect_lora_params.
Gather(r) ==
    /\ Collective(r, "gather")
    /\ actor' = [actor EXCEPT ![r].gathered = actor[r].version]
    /\ UNCHANGED <<engine, prefix, random>>

ResumeWeights(r) ==
    /\ Step(r, "resume_weights")
    /\ engine' = [engine EXCEPT ![r].weights_awake = TRUE]
    /\ UNCHANGED <<actor, prefix, random>>

ResumeKV(r) ==
    /\ Step(r, "resume_kv")
    /\ engine' = [engine EXCEPT ![r].kv_awake = TRUE]
    /\ UNCHANGED <<actor, prefix, random>>

UpdateBase(r) ==
    /\ Collective(r, "update_base")
    /\ engine' = [engine EXCEPT ![r].base = "good"]
    /\ UNCHANGED <<actor, prefix, random>>

\* The adapter alone, the base alone (a LoRA actor whose base the engine has not
\* yet got), or everything.
UpdateWeights(r) ==
    /\ Collective(r, "update_weights")
    /\ LET adapter == cfg.lora /\ actor[r].base_sync_done
           base    == cfg.lora /\ ~actor[r].base_sync_done
       IN  engine' = [engine EXCEPT
              ![r].base    = IF adapter THEN @ ELSE "good",
              ![r].version = IF base THEN @ ELSE actor[r].gathered]
    /\ UNCHANGED <<actor, prefix, random>>

\* Mutant: base_sync_done is left as it was.
ToGenStatesForgetsBase(r) ==
    /\ Step(r, "to_gen_states")
    /\ random' = [random EXCEPT ![r].torch = random[r].device, ![r].device = random[r].gen]
    /\ UNCHANGED <<actor, engine, prefix>>

\* The end of rollout_mode.
ToGenStates(r) ==
    /\ Step(r, "to_gen_states")
    /\ actor' = [actor EXCEPT ![r].base_sync_done = TRUE]
    /\ random' = [random EXCEPT ![r].torch = random[r].device, ![r].device = random[r].gen]
    /\ UNCHANGED <<engine, prefix>>

\* The whole group samples in lockstep.
Generate(r) ==
    /\ Collective(r, "generate")
    /\ random' = [random EXCEPT ![r].device[1] = @ + 1]
    /\ prefix' = [prefix EXCEPT ![r] = IF cfg.prefix THEN @ \cup {engine[r].version} ELSE @]
    /\ UNCHANGED <<actor, engine>>

\* release: in sync mode it also resets the prefix cache.  Level 2 discards the
\* weights.
Release(r) ==
    /\ Step(r, "release")
    /\ engine' = [engine EXCEPT
          ![r].weights_awake = FALSE, ![r].kv_awake = FALSE,
          ![r].base = IF cfg.level2 THEN "junk" ELSE @]
    /\ prefix' = [prefix EXCEPT ![r] = IF cfg.async THEN @ ELSE {}]
    /\ UNCHANGED <<actor, random>>

\* Mutant: the trainer goes on with the generation's random state.
ToTorchStatesNot(r) ==
    /\ Step(r, "to_torch_states")
    /\ random' = [random EXCEPT ![r].gen = random[r].device]
    /\ UNCHANGED <<actor, engine, prefix>>

\* The end of trainer_mode.
ToTorchStates(r) ==
    /\ Step(r, "to_torch_states")
    /\ random' = [random EXCEPT ![r].gen = random[r].device, ![r].device = random[r].torch]
    /\ UNCHANGED <<actor, engine, prefix>>

\* Forward passes, and the save, change nothing here.
Compute(r) ==
    /\ Collective(r, "compute") \/ Collective(r, "save")
    /\ UNCHANGED workerVars

Update(r) ==
    /\ Collective(r, "update")
    /\ actor' = [actor EXCEPT ![r].version = @ + 1]
    /\ random' = [random EXCEPT ![r].device[2] = @ + 1]
    /\ UNCHANGED <<engine, prefix>>

\* The checkpoint restores the weights and the random state; here it was saved
\* after one update.
Load(r) ==
    /\ Collective(r, "load")
    /\ actor' = [actor EXCEPT ![r].version = 1]
    /\ random' = [random EXCEPT ![r].device = <<0, 1>>]
    /\ UNCHANGED <<engine, prefix>>

RankNext(r) ==
    \/ LoadParams(r) \/ OffloadParams(r) \/ LoadOptimizer(r) \/ OffloadOptimizer(r)
    \/ BuildRollout(r) \/ Gather(r) \/ ResumeWeights(r) \/ ResumeKV(r)
    \/ UpdateBase(r) \/ UpdateWeights(r) \/ ToGenStates(r) \/ Generate(r)
    \/ Release(r) \/ ToTorchStates(r) \/ Compute(r) \/ Update(r) \/ Load(r)

DriverNext ==
    \/ CallWorkers \/ CallSleep \/ NewBatch \/ CallComputeLogProb \/ PrepareRefInputs
    \/ CallRefLogProb \/ CallBaseRefLogProb \/ CallBaseLogProb \/ NextStep \/ Finished

Next == DriverNext \/ \E r \in Ranks : RankNext(r)

Spec == Init /\ [][Next]_vars
-----------------------------------------------------------------------------
(* Properties. *)

\* Type invariant.
TypeOK ==
    /\ cfg \in Configs
    /\ global_steps \in 0 .. TotalSteps + 1
    /\ actor \in [Ranks -> [version : Nat, params : {"gpu", "cpu"}, optimizer : {"gpu", "cpu"},
                            gathered : Nat, base_sync_done : BOOLEAN]]
    /\ engine \in [Ranks -> [weights_awake : BOOLEAN, kv_awake : BOOLEAN,
                             base : {"none", "junk", "good"}, version : Nat]]
    /\ \A r \in Ranks : prefix[r] \subseteq 0 .. actor[r].version
    /\ random \in [Ranks -> [device : Nat \X Nat, torch : Nat \X Nat, gen : Nat \X Nat]]

About(r, S) == todo[r] # <<>> /\ Head(todo[r]) \in S

\* The engine of a rank that is about to generate is awake and holds exactly the
\* actor's weights, with nothing cached from older ones, and the ranks of the
\* group draw the same random numbers: what wake_up and rollout_mode are for.
GenerationIsCurrent ==
    \A r, q \in Ranks :
        About(r, {"generate"}) /\ About(q, {"generate"}) =>
            /\ engine[r].weights_awake /\ engine[r].kv_awake
            /\ engine[r].base = "good"
            /\ engine[r].version = actor[q].version
            /\ prefix[r] \subseteq {actor[q].version}
            /\ random[r].device = random[q].device

\* Weights that are gathered, run, trained, saved or loaded are on the GPU, and
\* the optimizer is when it steps; with offloading they are there at no other
\* time than a call, and never together with the KV cache.
MemoryIsShared ==
    \A r \in Ranks :
        /\ About(r, {"gather", "compute", "update", "save", "load"}) => actor[r].params = "gpu"
        /\ About(r, {"update"}) => actor[r].optimizer = "gpu"
        /\ cfg.offload /\ cfg.free_cache /\ engine[r].kv_awake =>
              actor[r].params = "cpu" /\ actor[r].optimizer = "cpu"
        /\ cfg.offload /\ todo[r] = <<>> /\ engine[r].base # "none" =>
              actor[r].params = "cpu" /\ actor[r].optimizer = "cpu"

\* Between calls with the engine asleep the trainer's random state has been
\* used by every update and by nothing else, however much was generated: a run
\* that validates more often trains on the same random numbers.
TrainingRandomIsItsOwn ==
    \A r \in Ranks :
        todo[r] = <<>> /\ ~engine[r].kv_awake => random[r].device = <<0, actor[r].version>>

\* What the actor is trained on: old_log_probs of the weights being updated and
\* of the actor's own inputs, log-probabilities of the reference model and of its
\* base model on the reference's inputs where it has its own.  What is subtracted
\* from one another is on the same inputs, unless the reference, with inputs of
\* its own, is one of the two: it is then a teacher that sees another prompt, and
\* in the corrected reward it is subtracted from the actor's base model all the
\* same (CorrectionOnOwnInputs).
LogProbsMatch ==
    \A r \in Ranks : About(r, {"update"}) =>
        /\ batch.old = "actor" /\ batch.version = actor[r].version
        /\ batch.ref = IF cfg.ref_inputs THEN "ref" ELSE "actor"
        /\ cfg.base => batch.base_ref = batch.ref
        /\ \A corrected \in BOOLEAN : \A pair \in Subtracted(corrected) :
              \/ batch[pair[1]] = batch[pair[2]]
              \/ cfg.ref_inputs /\ "ref" \in {pair[1], pair[2]}

\* What dp_actor.py:488-490 says of the corrected reward: the base model that is
\* subtracted takes the bias out of the actor and of the reference, so each of
\* the two is compared with a base model on its own inputs.
CorrectionOnOwnInputs ==
    \A r \in Ranks : About(r, {"update"}) /\ cfg.base =>
        \A pair \in Subtracted(TRUE) : batch[pair[1]] = batch[pair[2]]
=============================================================================
