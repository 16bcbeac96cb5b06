----------------------------- MODULE FullyAsync -----------------------------
(***************************************************************************)
(* Fully asynchronous training: the Rollouter and the message queue, with  *)
(* the FullyAsyncTrainer that consumes samples (fully_async_trainer.py)    *)
(* and the ParameterSynchronizer that stops the Rollouter, copies the      *)
(* weights and starts it again (param_sync.py).  Trainer and synchronizer  *)
(* are Ray actors of their own and interleave freely with the Rollouter's  *)
(* event loop.                                                             *)
(***************************************************************************)
EXTENDS Rollouter

CONSTANT ValidateMetrics  \* val_reward_fn is set and test_freq is 1

ASSUME FullyAsyncAssumption == ValidateMetrics \in BOOLEAN

VARIABLES
  trainer,            \* where FullyAsyncTrainer.fit is
  batch,              \* queue_samples of _get_samples_from_queue
  local_trigger_step,
  trainer_version,    \* FullyAsyncTrainer.current_param_version
  val_data,           \* version of the validation result read last, NoOne if it
                      \* does not exist or has no metrics
  sync,               \* where sync_weights is
  sync_version,       \* ParameterSynchronizer.current_version
  validate,           \* its validate argument
  trained             \* history: samples of finished training steps

trainer_vars == <<trainer, batch, local_trigger_step, trainer_version, val_data,
                  sync, sync_version, validate, trained>>
vars == <<rollouter_vars, trainer_vars>>

Init ==
  /\ RollouterInit
  /\ trainer = "collect" /\ batch = << >> /\ local_trigger_step = 1
  /\ trainer_version = 0 /\ val_data = IF ValidateMetrics THEN 0 ELSE NoOne
  /\ sync = "idle" /\ sync_version = 0 /\ validate = FALSE /\ trained = {}

UnchangedRollouter ==
  UNCHANGED <<sched, flags, tasks, feeding, counts, locals>>

-----------------------------------------------------------------------------
(* FullyAsyncTrainer.fit *)

TrainerGet ==
  /\ trainer = "collect"
  /\ MQ!GetSample("trainer") \/ MQ!Wake("trainer")
  /\ UnchangedRollouter /\ UNCHANGED trainer_vars

\* a None sample ends training; an incomplete batch is thrown away with it
TrainerReceive ==
  /\ trainer = "collect"
  /\ MQ!Receive("trainer")
  /\ IF reply["trainer"] = Sentinel
       THEN trainer' = "final" /\ UNCHANGED batch
       ELSE /\ batch' = Append(batch, reply["trainer"])
            /\ trainer' = IF Len(batch) + 1 < RequiredSamples THEN "collect" ELSE "train"
  /\ UnchangedRollouter
  /\ UNCHANGED <<local_trigger_step, trainer_version, val_data, sync, sync_version, validate, trained>>

\* a training step and _trigger_parameter_sync_after_step up to the first wait
TrainerStep ==
  /\ trainer = "train"
  /\ trained' = trained \cup {batch[i] : i \in DOMAIN batch}
  /\ batch' = << >>
  /\ IF local_trigger_step < TriggerSteps
       THEN /\ local_trigger_step' = local_trigger_step + 1
            /\ trainer' = "validation" /\ UNCHANGED trainer_version
       ELSE /\ trainer_version' = trainer_version + 1 /\ local_trigger_step' = 1
            /\ trainer' = "wait_last"
  /\ UnchangedRollouter /\ UNCHANGED <<val_data, sync, sync_version, validate, mqvars>>

GetValidationResult ==
  /\ val_data' = IF val_queue = << >> \/ ~ValidateMetrics THEN NoOne ELSE Head(val_queue)
  /\ MQ!GetValidate

\* get_validate_sync after the step: usually the result of an earlier version
TrainerValidation ==
  /\ trainer = "validation"
  /\ GetValidationResult
  /\ trainer' = "collect"
  /\ UnchangedRollouter
  /\ UNCHANGED <<batch, local_trigger_step, trainer_version, sync, sync_version, validate, trained>>

\* final parameter sync and validate, unless a validation result is at hand
TrainerFinal ==
  /\ trainer = "final"
  /\ IF val_data = NoOne
       THEN /\ trainer_version' = trainer_version + 1 /\ local_trigger_step' = 1
            /\ validate' = TRUE /\ trainer' = "wait_last"
       ELSE trainer' = "returned" /\ UNCHANGED <<trainer_version, local_trigger_step, validate>>
  /\ UnchangedRollouter /\ UNCHANGED <<batch, val_data, sync, sync_version, trained, mqvars>>

\* mutant: the previous update and resume are not waited for
TrainerDoesNotWait ==
  /\ trainer = "wait_last"
  /\ trainer' = "sync" /\ sync' = "pause" /\ sync_version' = trainer_version
  /\ UnchangedRollouter
  /\ UNCHANGED <<batch, local_trigger_step, trainer_version, val_data, validate, trained, mqvars>>

\* wait_last_valid: the previous update_param_version and resume have returned
TrainerWaitLast ==
  /\ trainer = "wait_last" /\ pc.rpc = "idle"
  /\ trainer' = "sync" /\ sync' = "pause" /\ sync_version' = trainer_version
  /\ UnchangedRollouter
  /\ UNCHANGED <<batch, local_trigger_step, trainer_version, val_data, validate, trained, mqvars>>

TrainerFinalWait ==
  /\ trainer = "final_wait" /\ pc.rpc = "idle"
  /\ GetValidationResult
  /\ trainer' = "returned"
  /\ UnchangedRollouter
  /\ UNCHANGED <<batch, local_trigger_step, trainer_version, sync, sync_version, validate, trained>>

-----------------------------------------------------------------------------
(* ParameterSynchronizer.sync_weights *)

\* ray.get(self.rollouter.pause.remote())
SyncPause ==
  /\ sync = "pause" /\ pc.rpc = "idle"
  /\ sync' = "pausing" /\ Goto("rpc", "pause")
  /\ UNCHANGED <<turn, lock, waiters, flags, tasks, feeding, counts, locals, mqvars,
                 trainer, batch, local_trigger_step, trainer_version, val_data, sync_version, validate, trained>>

SyncVersion ==
  /\ sync = "pausing" /\ pc.rpc = "pause_returned"
  /\ MQ!UpdateParamVersion(sync_version)
  /\ sync' = "weights"
  /\ UnchangedRollouter
  /\ UNCHANGED <<trainer, batch, local_trigger_step, trainer_version, val_data, sync_version, validate, trained>>

\* both sync_rollout_weights have returned: update and resume are started and
\* sync_weights returns without waiting for them
SyncWeights ==
  /\ sync = "weights"
  /\ sync' = "idle" /\ Goto("rpc", "update")
  /\ trainer' = IF validate THEN "final_wait" ELSE "validation"
  /\ UNCHANGED <<turn, lock, waiters, flags, tasks, feeding, counts, locals, mqvars,
                 batch, local_trigger_step, trainer_version, val_data, sync_version, validate, trained>>

Trainer == \/ TrainerGet \/ TrainerReceive \/ TrainerStep \/ TrainerValidation
           \/ TrainerFinal \/ TrainerWaitLast \/ TrainerFinalWait
Sync    == SyncPause \/ SyncVersion \/ SyncWeights

Next ==
  \/ Feeding /\ UNCHANGED trainer_vars
  \/ Processing /\ UNCHANGED trainer_vars
  \/ Generating /\ UNCHANGED trainer_vars
  \/ Consuming /\ UNCHANGED trainer_vars
  \/ Finishing /\ UNCHANGED trainer_vars
  \/ Monitoring /\ UNCHANGED trainer_vars
  \/ Serving(sync_version) /\ UNCHANGED trainer_vars
  \/ Trainer
  \/ Sync

Spec == Init /\ [][Next]_vars

-----------------------------------------------------------------------------
(***************************************************************************)
(* Fairness.  asyncio takes callbacks from a FIFO ready queue and grants   *)
(* self.lock in FIFO order, so a coroutine that can run again and again    *)
(* (whenever nobody else has the turn) does run: strong fairness.  The     *)
(* Trainer and the synchronizer are processes of their own: weak fairness. *)
(* A generation ends, or returns cancelled, in the end.                    *)
(***************************************************************************)
Fairness ==
  /\ SF_vars(Feeding /\ UNCHANGED trainer_vars)
  /\ SF_vars(Processing /\ UNCHANGED trainer_vars)
  /\ SF_vars(Generating /\ UNCHANGED trainer_vars)
  /\ SF_vars(Consuming /\ UNCHANGED trainer_vars)
  /\ SF_vars(Finishing /\ UNCHANGED trainer_vars)
  /\ SF_vars(Monitoring /\ UNCHANGED trainer_vars)
  /\ SF_vars(Serving(sync_version) /\ UNCHANGED trainer_vars)
  /\ WF_vars(Trainer)
  /\ WF_vars(Sync)

FairSpec == Spec /\ Fairness

-----------------------------------------------------------------------------
(* Where a sample is *)

Positions(s, seq) == {i \in DOMAIN seq : seq[i] = s}
Generations(s) == {i \in DOMAIN active_tasks :
                     active_tasks[i].sample = s /\ Unended(active_tasks[i])}
Holders(s) == {c \in {"proc", "cons"} : hand[c] = s}
Replies(s) == {c \in {"trainer"} : reply[c] = s}

Occurrences(s) ==
  Cardinality(Positions(s, pending_queue)) + Cardinality(Holders(s))
  + Cardinality(Generations(s)) + Cardinality(Positions(s, cancel_queue))
  + Cardinality(Positions(s, result_queue)) + Cardinality(Positions(s, queue))
  + Cardinality(Replies(s)) + Cardinality(Positions(s, batch))
  + Cardinality({s} \cap trained)

Fed == {s \in Samples : s < global_steps \/ pc.feed \in {"end", "returned"}}

\* generated, or being generated, and not yet fetched by the Trainer
Outstanding ==
  {s \in Samples : /\ start_version[s] # -1 /\ s \notin trained
                   /\ Replies(s) = {} /\ Positions(s, batch) = {}
                   /\ Occurrences(s) > 0}

-----------------------------------------------------------------------------
(***************************************************************************)
(* Types and capacities: the queues stay within their sizes and at most    *)
(* max_concurrent_samples tasks are in active_tasks.                       *)
(***************************************************************************)
TypeOK ==
  /\ {turn, lock} \subseteq Coroutines \cup {NoOne}
  /\ waiters \in Seq(Coroutines)
  /\ {paused, monitor_loop_trigger, running, servers_paused, done_bound,
      mq_running, validate} \subseteq BOOLEAN
  /\ pending_queue \in Seq(Samples \cup {Done}) /\ Len(pending_queue) <= PendingCap
  /\ active_tasks \in Seq([sample : Samples,
                           status : {"new", "generating", "refused", "done", "failed"}])
  /\ Len(active_tasks) <= MaxConcurrentSamples
  /\ {result_queue, cancel_queue, batch} \subseteq Seq(Samples)
  /\ queue \in Seq(Samples \cup {Sentinel}) /\ Len(queue) <= MaxRequiredSamples
  /\ {unfinished, staleness_samples, sum, failures, current_param_version, mq_version,
      trainer_version, sync_version} \subseteq Nat
  /\ global_steps \in Samples /\ trained \subseteq Samples
  /\ hand.proc \in Samples \cup {NoOne, Done} /\ hand.cons \in Samples \cup {NoOne}
  /\ local_trigger_step \in 1 .. TriggerSteps

(***************************************************************************)
(* A sample is in one place at a time: no interleaving of pause, cancel,   *)
(* resume, submission and delivery generates, delivers or trains on a      *)
(* sample twice (cancel_queue and result_queue, _process_single_sample_    *)
(* streaming; the queues it passes through until _get_samples_from_queue). *)
(***************************************************************************)
NoSampleTwice == \A s \in Samples : Occurrences(s) <= 1

(***************************************************************************)
(* A sample that is nowhere any more was pushed out of a full message      *)
(* queue, which counted it in dropped_samples, or its generation raised:   *)
(* pausing, cancelling and resuming lose none.                             *)
(***************************************************************************)
LossesAreCounted ==
  Cardinality({s \in Fed : Occurrences(s) = 0}) <= dropped_samples + failures

(***************************************************************************)
(* The four copies of the parameter version agree up to the one update     *)
(* that is under way: sync_weights is never entered before the previous    *)
(* update_param_version has finished (wait_last_valid), so the Rollouter   *)
(* follows the synchronizer by one version at most.                        *)
(***************************************************************************)
VersionsInStep ==
  /\ current_param_version <= mq_version
  /\ mq_version <= sync_version
  /\ sync_version <= trainer_version
  /\ sync_version <= current_param_version + 1

(***************************************************************************)
(* When pause() is about to return (the prefix cache is being reset) no    *)
(* task is left, in either mode, whatever the processor and the monitor    *)
(* did while pause() waited for the tasks.  (Responses of a task that has  *)
(* raised may go on at the servers: QuietDuringCopy of PartialServer.)     *)
(***************************************************************************)
PauseLeavesNoTask == pc.rpc = "pause_reset" => active_tasks = << >>

(***************************************************************************)
(* README.md:134 of the recipe: "Rollouter will generate at most the       *)
(* following number of samples between two parameter updates", (1 +        *)
(* staleness_threshold) * (trigger_parameter_sync_step * require_batches * *)
(* ppo_mini_batch_size) - num_staleness_sample.  Samples generated and not *)
(* yet fetched never exceed that number before the subtraction.            *)
(***************************************************************************)
AtMostRolloutNum == Cardinality(Outstanding) <= MaxRequiredSamples

(***************************************************************************)
(* What the code does keep: staleness_samples counts all the samples       *)
(* outstanding but two, and so they exceed max_required_samples by two at  *)
(* most.  The two are those update_param_version overlooks when it counts  *)
(* again: the sample the processor has taken and not submitted, and the    *)
(* one the consumer has sent and the queue has not received.               *)
(***************************************************************************)
StalenessBound ==
  LET outstanding == Cardinality(Outstanding)
  IN  outstanding <= staleness_samples + 2 /\ outstanding <= MaxRequiredSamples + 2

(***************************************************************************)
(* staleness_threshold=0 is synchronous training (README.md:127 of the     *)
(* recipe): every sample is trained by the version that generated it, also *)
(* if its generation was cancelled and resumed on the way.                 *)
(***************************************************************************)
OnPolicy ==
  trainer = "train" => \A i \in DOMAIN batch : start_version[batch[i]] = trainer_version

(***************************************************************************)
(* The None sample that ends training is the last thing in the message     *)
(* queue, so that the Trainer, which stops at it, has seen every sample    *)
(* that was put: result_queue.join() has waited for the acknowledgement of *)
(* each, for the queue executes the puts in any order.  Only when the      *)
(* processor has raised may one sample follow: the put that was in flight  *)
(* when the consumer was cancelled, which nobody waits for.                *)
(***************************************************************************)
SentinelIsLast ==
  \A i \in DOMAIN queue : queue[i] = Sentinel =>
      \/ i = Len(queue)
      \/ pc.proc = "raised" /\ i = Len(queue) - 1

(***************************************************************************)
(* Training ends: fit of the Trainer returns.                              *)
(***************************************************************************)
Termination == <>(trainer = "returned")

(***************************************************************************)
(* With staleness_threshold=0 every sample fed is trained, unless a        *)
(* generation fails.                                                       *)
(***************************************************************************)
AllTrained == <>(trained = Samples \/ failures > 0)

(***************************************************************************)
(* The abstract specification that Rollouter, queue, Trainer and           *)
(* synchronizer together implement: VersionedTraining.  A step that        *)
(* _get_samples_from_queue starts trains on required_samples samples never *)
(* trained on, whose generation has begun (with staleness_threshold=0, by  *)
(* the version that is trained); a version is made of trigger_parameter_   *)
(* sync_step steps, the last one excepted; the Rollouter takes the         *)
(* versions one by one and is at most two behind; nothing is trained after *)
(* the None sample.                                                        *)
(***************************************************************************)
Phase == IF validate THEN "updated"
         ELSE IF trainer \in {"final", "returned"} THEN "ended" ELSE "training"

Training == INSTANCE VersionedTraining
              WITH BatchSize <- RequiredSamples, StepsPerVersion <- TriggerSteps,
                   Strict <- StaleNum = 0,
                   version <- trainer_version, policy <- current_param_version,
                   made <- start_version, step <- local_trigger_step,
                   phase <- Phase

TrainingSpec == Training!Spec

-----------------------------------------------------------------------------
(* What the documentation says and the code does not do *)

(***************************************************************************)
(* README.md:203 of the recipe: "When triggering parameter                 *)
(* synchronization, if Rollouter has ongoing tasks, it will wait for the   *)
(* tasks to complete and not add new tasks".                               *)
(***************************************************************************)
NoGenerationDuringSync ==
  sync = "weights" => \A i \in DOMAIN active_tasks : Ended(active_tasks[i])

(***************************************************************************)
(* fully_async_rollouter.py:346: "After acquiring the lock, the number of  *)
(* active_tasks may change, need to be verified again" - the processor     *)
(* copes with an active_tasks that is empty by then.  MaxFailures is 0 in  *)
(* the run, so it has no other reason to raise.                            *)
(***************************************************************************)
ProcessorNeverRaises == pc.proc # "raised"

(***************************************************************************)
(* README.md:212 of the recipe: "The interrupted samples will continue to  *)
(* be generated after synchronization": none is left when the Rollouter    *)
(* has finished.                                                           *)
(***************************************************************************)
InterruptedSamplesContinue == pc.main = "returned" => cancel_queue = << >>
=============================================================================
