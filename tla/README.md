# Simple-OPD: specifications, model checking and proofs

Simple-OPD trains language models with on-policy distillation. The repository
is a pipeline of shell and Python scripts (`src/verl/examples/warm_up`,
`src/math_eval`) around a vendored copy of the verl training framework
(`src/verl`). Most of it is tensor arithmetic, but its schedulers are concurrent
programs: a Rollouter, a Trainer and a synchronizer that run as separate Ray
actors and hand samples and weights to each other; a hybrid engine in which training and
generation take turns on one GPU; trainers that save checkpoints from many ranks
that may all die at any moment; scripts that are started again over what an
interrupted run left behind; and a batch whose columns are cut, permuted and
joined between many ranks. That is what these modules are about. Paths below are relative to `src/verl/recipe/fully_async_policy`
unless they start with `src/`; "the recipe" is that directory.

## 1. Inventory

| component | state | operations | what makes it correct |
|---|---|---|---|
| MessageQueue (`message_queue.py`) | deque, counters, `running`, version, validation queue, one condition | put, get (waits), update version, clear, shutdown, put/get validation | newest samples in order; all samples accounted for; no lost wakeup |
| FullyAsyncRollouter (`fully_async_rollouter.py`) | three asyncio queues, `active_tasks`, `paused`, `monitor_loop_trigger`, `staleness_samples`, a lock and its condition | coroutines feed, processor, consumer, main, monitor; RPCs pause, update_param_version, resume | no sample lost or doubled; bounded staleness; nothing generated during a synchronization; termination |
| FullyAsyncTrainer (`fully_async_trainer.py`) | batch, `local_trigger_step`, `current_param_version` | collect, train, trigger, final synchronization | trains on samples of bounded age; stops after the last sample |
| ParameterSynchronizer (`param_sync.py`) | `current_version`, two futures | sync_weights, wait_last_valid | one synchronization at a time, versions in step |
| FullyAsyncTaskRunner (`fully_async_main.py`) | futures | set-up, run loop | version 0 everywhere before fit; a dead component stops the other |
| partial rollout servers, agent loop (`vllm_rollout/`, `agent_loop/`) | `paused`, per-request events and outputs; partial outputs per sample | generate, cancel, resume, reset | a response is the concatenation of its rounds; pausing always ends; no token that is used is generated while weights are copied |
| PPO iteration (`src/verl/verl/trainer/ppo/ray_trainer.py`) | the batch, `global_steps` | repeat, generate, balance, reward, log-probabilities, advantages, update, save, validate | columns speak of the same rows; log-probabilities are of the weights being updated, and subtracted from ones on the same inputs |
| hybrid engine (`src/verl/verl/workers/fsdp_workers.py`, the async server, the agent loop manager) | where parameters, optimizer, engine weights and KV cache are; `base_sync_done`; three random states | rollout_mode, trainer_mode, wake_up, sleep | generation with the actor's weights; memory shared; training's random numbers its own |
| PPO checkpointing (`src/verl/verl/trainer/ppo/ray_trainer.py`, `utils/checkpoint/`) | directories `global_step_N`, tracker file, `previous_saved_paths` | save with rotation, load | after any crash a complete checkpoint can be loaded |
| SFT checkpoint handler (`checkpoint_handler.py`) | the same, several ranks | save, load | the same, with the ranks in any order |
| warm-up pipeline (`src/verl/examples/warm_up`) | files and markers | train, merge, fold LoRA, distil | restartable: every step takes effect once |
| batch balancing (`src/verl/verl/utils/seqlen_balancing.py`) | none | Karmarkar-Karp partition, micro-batches, restored order | every row in one part; ranks agree on their number; loads are similar |
| data protocol, controllers (`src/verl/verl/protocol.py`, `single_controller/`) | columns of a batch | chunk, split, concat, repeat, union, reorder, pad; dispatch and collect over a mesh | rows stay together and come back in order |
| algorithms (`core_algos.py`, `dp_actor.py`) | none | group baselines, loss aggregation | advantages are relative to the group; tokens weigh as documented |
| tool agent loop (`src/verl/verl/experimental/agent_loop`) | `AgentData` | PENDING / GENERATING / PROCESSING_TOOLS / INTERACTING | mask, log-probabilities and tokens stay aligned; turn limits |
| one-step-off-policy (`src/verl/recipe/one_step_off_policy`) | a future of the next batch | generate next, train | lag of exactly one step |

How they interact. The Rollouter puts samples into the MessageQueue and the
Trainer gets them, both through Ray calls; the Trainer calls the synchronizer,
which calls `pause`, `update_param_version` and `resume` of the Rollouter;
validation results travel back through the MessageQueue. Inside the Rollouter
everything shares one event loop, `self.lock` and plain attributes. `pause` and
`resume` call every LLM server. In the synchronous trainer one driver calls the
workers of all ranks, one call after another; the ranks run each call at their own pace and meet in collective
operations. The scripts of the pipeline interact through files only.

The hard behaviours are: attributes read before an `await` and used after it;
the lock changing hands between a test and the action it guards; a sample
cancelled again and again; the end of the data overtaking a cancelled sample;
a task that raises; a full queue; a crash between the steps of a save, of a
rotation or of a restart, with ranks that are not in step; a generation that
ends just as it is cancelled; a file name that says finished of a file that is
not; one of many combinations of settings in which weights are not sent; a
permutation applied to one column and not to another. The list, with lines, is `hazards` in
PROJECT.json.

## 2. The modules

    LatestWindow            what the sample queue promises (abstract)
      ^ implemented by
    MessageQueue            message_queue.py, and the queue as a closed system
      ^ INSTANCE                        ^ EXTENDS: MessageQueue_proofs (TLAPS)
    Rollouter               the Rollouter
      ^ EXTENDS
    VersionedTraining       what the three actors promise together (abstract)
      ^ implemented by
    FullyAsync              + Trainer + ParameterSynchronizer, all properties
      ^ EXTENDS                         ^ EXTENDS: FullyAsync_proofs (TLAPS)
    MCFullyAsync            model checking (one module, several .cfg)

    AtomicCheckpoint        what checkpointing promises (abstract)
      ^ implemented by
    SFTCheckpoint           the SFT trainer's CheckpointHandler
      ^ EXTENDS: MCSFTCheckpoint        ^ EXTENDS: SFTCheckpoint_proofs (TLAPS)
    PPOCheckpoint           _save_checkpoint and _load_checkpoint of RayPPOTrainer
      ^ EXTENDS: MCPPOCheckpoint        ^ EXTENDS: PPOCheckpoint_proofs (TLAPS)
    CheckpointManager       FSDPCheckpointManager, which both trainers EXTEND

    PartialServer           servers and agent loops below the Rollouter
      ^ EXTENDS: MCPartialServer        ^ EXTENDS: PartialServer_proofs (TLAPS)

    WarmUpSFT               run_warmup_sft.sh and merge_lora_into_base.py
      ^ EXTENDS
    SimpleOPD               + Simple-OPD.sh
      ^ EXTENDS: MCSimpleOPD            ^ EXTENDS: SimpleOPD_proofs (TLAPS)

    HybridEngine            actor and vLLM engine on one GPU, driven by fit
      ^ EXTENDS: MCHybridEngine         ^ EXTENDS: HybridEngine_proofs (TLAPS)

    SeqlenBalancing         Karmarkar-Karp and micro-batches, as functions
      ^ EXTENDS
    BatchPipeline           one batch through fit or _validate
      ^ EXTENDS: MCBatchPipeline        ^ EXTENDS: BatchPipeline_proofs (TLAPS)

**MessageQueue.** Every method runs under one asyncio lock and awaits nothing
while it holds it, so a method is one action. `get_sample` may wait on the
condition, so each concurrent call is a small process (idle, blocked, notified,
done): after a `notify_all` a call must test the queue again and may find it
empty. The operations have no bound of their own; the last part of the module
closes the system with a producer that numbers its samples (`MaxProduced`,
`MaxVal` and `ParamVersions` bound it). `cleared_samples` is a history variable.

**LatestWindow.** Samples are numbered; the obtainable ones are the window
low+1 .. high. The refinement maps `low` to `total_produced - Len(queue)`, so
it says that the queue never reorders, repeats or resurrects a sample.

**Rollouter.** `turn` names the coroutine that runs. An action is a stretch of
code up to the next test, lock acquisition or await that can suspend; only an
await that does suspend gives the turn back. `lock` and `waiters` are
`asyncio.Lock` with its FIFO queue, including its fast path: `acquire` succeeds
at once only when the lock is free and nobody waits. `pc` holds the program
counters of the six coroutines; `Locked(c)` is an `async with self.lock` whose
body does not suspend, `Locks(c)` one whose body does. Calls of other actors
(`put_sample`, `get_queue_size`) take effect without the turn, between the await
and its return. MessageQueue is an async actor (`message_queue.py:26`), for which
Ray promises no order of execution: the `get_queue_size` of `update_param_version`, the
statistics the processor and the monitor ask for, and the None sample may all overtake
a `put_sample` that is still on its way. A consumer that is cancelled leaves its put in
flight (`PutInFlight`, pc "orphan"), and the queue executes it whenever it likes.
`asyncio.wait` returns its pending tasks in any order (`Bijection`). `get_statistics_sync` blocks the event loop, so
`ShouldPauseGeneration` is evaluated inside its caller's action. The three
loops that wait for tasks differ in their condition only; `site` says which one
is running, and `done_bound` whether the local `done_tasks` has been assigned.
A sample is its number; a task is its sample and a status. The servers are one
flag: a generation that reaches paused servers is refused, one that is running
may return cancelled or finished while they are paused.

**FullyAsync** adds the Trainer and the synchronizer as processes of their own.
A training step is one action. Ray starts `resume` when `update_param_version`
has returned because the latter's future is its argument. `start_version`,
`failures` and `trained` are history variables.

**VersionedTraining.** The promise of the whole recipe without queues, tasks, locks and
calls: samples are begun by a policy, a training step takes a batch of samples that have been
begun and never been trained on, a number of steps makes a version, the policy follows the
versions one by one and is at most two behind, and after the end of the data there is at
most one more version. Two is reached: the Trainer may finish the steps of the next
version while `update_param_version`, for which nobody waits, has not begun. The
refinement (`Training` in FullyAsync) maps the policy to the Rollouter's
`current_param_version`, the version a sample was begun with to `start_version`, and the end of the
data to the places of `fit` after the None sample (`Phase`); with staleness 0 it demands
that the versions be the same (`Strict`). `fully_async_partial` checks the refinement, and the lag of two
is reached there; the theorem `ImplementsTraining` covers every threshold and interval.

Abstractions. Samples carry no content. `active_tasks` is a set in the code and
a sequence here, in the order of creation; nothing depends on that order. The
version a sample was generated with is kept for its first start only (the code
keeps start and end versions). Statistics, timing and logging are left out.
The monitor's ten-second sleep ends at any time. Validation results carry their
version; `ValidateMetrics` says that they have metrics (`val_reward_fn` set and
`test_freq` 1).

**CheckpointManager.** `save_checkpoint` is executed by all ranks, so it is a
program counter per rank (`stage`) and two barriers. Rank 0 rotates: `rmtree`
unlinks file after file (`RemoveFile`, in any order) before the directory
disappears (`RemoveFolder`). A file is absent, torn while it is open, or whole,
and a whole file is the number of the run that wrote it: that is what tells a
checkpoint from a mixture of two. `previous_saved_paths` is memory and is lost
in a crash; `disk` is not. A crash (`Died`) kills all ranks at once; the number
of runs is bounded by `MaxRuns`.

**SFTCheckpoint** and **PPOCheckpoint** are its two users. In SFT the ranks are
equals: each writes `data_N.pt` on its own, and rank 0 renames the tracker
without waiting for the others. In PPO one driver saves the actor, then the
critic, then `data.pt`, then the tracker, which it truncates and rewrites
(`OpenTracker`, `CloseTracker`). A role of PPO is a subdirectory of
`global_step_N`, so rotation leaves `global_step_N` and `data.pt` behind, whereas
SFT removes the whole directory (`OwnFolder`). Both decide at each step whether
to save (`save_freq`, or the end of a leased server) and always save the last
step.

**AtomicCheckpoint** has three variables: the processes run or not, the steps in
memory, the steps on disk. The refinement maps the steps on disk to the tracker,
or to 0 when it names a directory that is gone.

Abstractions of the checkpoints. The model, optimizer and extra state of one
rank and role are one file. `resume_mode` is auto; the HDFS copy, `hf_model` and
LoRA exports, `resume_path` and errors that `rmtree` ignores are left out. A
crash is one of the processes, not of the machine: what was written before it
is on disk, and a rename is atomic. In PPO `save_freq` is positive and a run
that has finished is not started again. An SFT run that loads the last step has
nothing left to do (`total_training_steps` is the default, all epochs).

**PartialServer** refines what Rollouter keeps as one flag: every server has its
own `paused` and its own table of requests (`cancel_event`, `req_output`), every
response its own agent loop (`pc`, `output`). A call is refused by a paused
server (`GenerateRefused`) or enters the table (`GenerateRegister`); then its two
asyncio tasks race: the generation (`GenerateStep`, one token at a time, ended by
the engine or by `max_tokens`) and the wait for the cancel event, and
`GenerateReturn` is the code behind `asyncio.wait`, with its early return.
`AgentOutput` joins the round to those before it. The responses of a sample are tasks under
one `asyncio.gather` (`agent_loop.py:126` of the recipe), which raises with the first of them:
`TaskRaises` ends the Rollouter's task at once and loses the sample, while its other
responses go on, register, generate and return although nobody waits for them any more. The synchronization is pause
(`PauseBegin`, one `Cancel` per server, `PauseEnd` when the tasks are drained),
`SyncWeights`, `UpdateParamVersion`, `Resume`. A token is the position it was
generated for, the version of the weights and whether it ended the generation;
its log-probability is named by it. The prefix cache has no state here. A failed sample
has the status lost; the module Rollouter has the same event as `TaskFail`. A
cancelled sample may be started again as soon as the Rollouter's lock is free
(`LockHeld`: from `PauseBegin` to `PauseEnd`, and while servers are resumed); the
queues it waits in are those of the module Rollouter.

**WarmUpSFT** is a single thread of control, `at`, over a file system: `hf[d][f]`
is the state of file f of the Hugging Face directory d. Opening a file tears it
and closing it makes it whole, so a process can be killed in between
(`SFTKilled`, at any point) and the script started again over what is there
(`SFTRestart`). A whole file is stamped with the run its shards come from and
weights with the number of times the adapter was folded in: that is how a second
fold or a mixture of two runs shows. `hurt` is a history variable, the
directories that an interruption hit at one of the points `Irreparable` names.
**SimpleOPD** adds the driver, which always works in a new directory and is not
restarted: the check of the student, OPD training that may save some of the
steps only, merges that may fail, evaluations that may fail.

**HybridEngine.** `Program(c)` is the sequence of steps a rank takes for a call c
of the driver, by the settings (`cfg`, eleven of them); `todo[r]` is what is left
of it on rank r. Steps that are collective operations wait for all ranks. Weights are
represented by the number of updates they contain; `engine[r].version` is what
was last sent, `base` whether the base of a LoRA model or the loaded weights are
real or dummy; a random state is what it has been used for, whatever it was seeded with, so
two states that nothing has used yet look alike although their seeds differ
(`fsdp_workers.py:614`). The driver's side is
`Iteration(n)`, the calls of one pass of `fit`, with an optional validation and
save at its end. Left out: the critic, log-probabilities of bypass mode, and
everything inside a tensor. `Subtracted` names what `update_policy` subtracts from one another
for the advantages of a single teacher; distillation from several teachers is left out.

**SeqlenBalancing** has the functions of that file, on rows numbered from 1; the
heap is a set from which the first state by `State.__lt__` is taken. Sorting (`InOrder`) puts an
element where the number of elements before it says, and the loop that merges is a
recursive function of the number of merges (`MergeAll`), so that proofs can be made about
both. **BatchPipeline** sends one batch through them. A
`DataProto` is a function from keys to columns, a response is
<<prompt, worker, row>> and a log-probability is the response it was computed
from, so that a misplaced row shows. `cfg` fixes the shape (prompts, `n`,
workers, ranks, sequence parallelism, mini-batch, `use_dynamic_bsz`, estimator);
lengths and scores are chosen by the actions. `Accepted` says which shapes the code runs
with: what `validate_config`, the constructor of the actor and `DataProto.chunk` assert. Advantages are integers: GRPO
without the division by the standard deviation, a positive factor that is the
same for a group, RLOO times n - 1, OPO. The ranks' forward passes are one
step per micro-batch, because FSDP gathers parameters in each. `ppo_epochs` is 1, its
default: the loop of `dp_actor.py:433` runs once, and "trained once" means once in each epoch.

Names of operators that end in words such as Late, Silently, Forgets, Not are
mutants, as are those whose comment says so: versions of the operation that
follows with a plausible slip, used to show that each property can fail. No
specification uses them.

## 3. The runs

| run | instance | distinct states | what it shows |
|---|---|---|---|
| message_queue | capacity 2, two get calls, 5 samples | 36 thousand | order, accounting, no lost wakeup, shutdown releases every waiter, LatestWindow |
| fully_async_partial | 3 samples, staleness 1, partial rollout, 2 server slots, pending_queue 2, at most one generation raises | 580 thousand | no sample doubled, none lost uncounted, versions in step, pause leaves no task, nothing but a put in flight after the None sample; the system implements VersionedTraining |
| fully_async_whole | 3 samples, staleness 2, no partial rollout, 1 slot, pending_queue 1, no failure | 2.1 million | at most two samples outstanding that staleness_samples does not count; active tasks within the limit |
| fully_async_sync | 4 samples, staleness 0, 2 steps per synchronization, partial rollout, pending_queue 3, at most one generation raises | 84 thousand | on-policy training, training ends, every sample trained unless one failed |
| sft_checkpoint | 2 ranks, keep 2, 4 steps, 3 runs | 1.2 million | the tracker names a complete checkpoint; one run keeps at most 2; saving refines AtomicCheckpoint |
| ppo_checkpoint | actor and critic, 2 ranks, keep 2 and 3, 4 steps, 3 runs | 1.9 million | actor and critic of the checkpoint named are of one save, the dataloader is in step with them; a restart fails for an empty tracker only |
| partial_server | one sample with two responses, two servers, prompt of one token and responses of two, two synchronizations, at most one generation raises | 473 thousand | responses are contiguous, end once and carry the right versions; pausing ends; nothing that may be delivered is generated during a copy; what leaks from the tables |
| simple_opd | SFT steps 1, 2; OPD steps 1, 2, 3; up to three starts by hand | 15 thousand | a finished directory is usable and stays so, except after a kill at a named point; every step is scored or reported |
| hybrid_engine | 2 ranks, 2 iterations, 1 of them critic warm-up, 320 configurations | 321 thousand | generation is current, memory shared, random states apart, log-probabilities of the right weights and inputs |
| batch_pipeline | 14 shapes: up to 8 rows, 4 ranks, groups of 2 ranks, 3 lengths, 2 scores | 632 thousand | rows stay together, ranks agree, groups survive balancing, every row is trained on once |
| stale_rollout, corrected_reward | see section 4 | | one documented claim each, violated |

Bounds. Capacity 2 and five samples fill the queue, overflow it and wrap the
window several times; two callers are the least that can compete for one
sample. Three samples with staleness 1 give two full synchronizations while
samples are queued, active, cancelled and in a coroutine's hands at once. In the
run about staleness the three samples are enough for both of those that
`staleness_samples` overlooks: one the processor has taken and one the consumer has
sent (TLC finds `staleness_samples` exceeded by two, and by no more). That also
`max_required_samples` is exceeded by two takes six samples, which is out of an
exhaustive run's reach; the theorem `StalenessBounded` covers it. With `PendingCap` 2
and 1 the feeder blocks and is woken. One failing generation is enough, because the
processor does not survive the first. For checkpoints, four steps are what
the first rotation with keep 3 needs, two ranks the least that can be out of step,
and three runs let a run resume over the torn remains of another and be
interrupted itself; keeping different numbers of actors and critics makes their
rotations remove different steps. For the servers, two responses on two servers
are what it takes for one to be cancelled while the other is refused, and two
synchronizations interrupt one response twice; when one of them raises the other is
left behind, running, refused or about to return. A prompt shorter than
`prompt_length` would make a response longer than `response_length`, which is cut: that
is left to the proofs, which are for all lengths. One sample
is enough because samples meet only in `pause()`, which waits for all their
requests alike. Two SFT steps let one directory be finished and the other torn, three
starts let a restart be interrupted itself; the third OPD step stands between
one that is saved and one that is torn. Two iterations are the least in which
weights sent in the first can be old; with critic warm-up 1 the first of them does
not update the actor. The 320 configurations are all in which the code works as documented
(`Supported` in MCHybridEngine, with the reasons for the others in section 4). The
14 shapes contain padding by less and by more than the batch, ranks with more
micro-batches than others, sequence-parallel groups, and batches that are not
balanced equally by any order.

`CHECK_DEADLOCK FALSE` is set because the system stops: after the sentinel the
Rollouter and the Trainer return, and after `MaxProduced` samples and a
shutdown the queue on its own has nothing left to do. The checkpoint modules
stop when the last step is saved, when a load raises, and when `MaxRuns` is
spent. They state no liveness: nothing restarts a run that has died.
PartialServer stops when its samples are done and its synchronizations spent, SimpleOPD
when a script has ended. HybridEngine and BatchPipeline check deadlock: a rank that waits in a
collective operation which the others never reach would be one.

Fairness (`FairSpec`). asyncio runs callbacks from a FIFO ready queue and its
lock is FIFO, so a coroutine that becomes runnable again and again is run:
strong fairness for each coroutine, because `turn` disables it in between. The
Trainer and the synchronizer are processes: weak fairness. That a generation
ends, and that the sleep of the monitor ends, is assumed. For the queue alone:
weak fairness of a woken call and of the receipt of a reply. For PartialServer: a
call is delivered, an event loop runs a task that is ready, the Rollouter's task
ends when its responses have or one of them has raised, and the synchronizer goes on with what it has
begun. Nothing is assumed of the engine, which may never produce another token:
`PauseEnds` is about that. The other modules state safety only.

## 4. What the code does not do

Two runs check a sentence of the documentation and find a behaviour of the code
that contradicts it; PROJECT.json quotes the sentences.

* **A rollout that never wakes up** (`stale_rollout`, MCHybridEngine_stale.cfg).
  `docs/advance/agent_loop.rst:86` says that `wake_up` syncs the weights. It is
  called only when `free_cache_engine` is set (`agent_loop.py:759`); without it an
  async rollout generates for ever with the weights it was built with.
* **The corrected reward on other inputs** (`corrected_reward`, MCHybridEngine_corrected.cfg).
  `dp_actor.py:489` gives the formula (log_prob_actor - log_prob_ref) - (log_prob_actor_base -
  log_prob_ref_base), which "removes the base model bias from both actor and ref models", and the
  docstrings at `fsdp_workers.py:1101` and 1140 the same. The code for a single teacher
  (`dp_actor.py:522`-528) subtracts `base_log_prob`, the actor's base model on the actor's
  inputs, from both; `base_ref_log_prob` is computed on the reference's inputs and not
  used. When the reference has inputs of its own (`use_ref_retokenization` and the like), the
  difference of `ref_log_prob` and `base_log_prob` is one of different inputs.
  `LogProbsMatch` says what does hold.

Seven more configurations show documented claims that do not hold; they are not part
of the regular runs, and each is reproduced by naming it, e.g.
`tlc -config MCFullyAsync_raise.cfg MCFullyAsync`.

* **Token-mean by micro-batch** (MCBatchPipeline_token_mean.cfg, `TokensWeighEqually`).
  `docs/algo/dapo.md:120` says that the mean is over all tokens of a mini-batch. Each
  micro-batch takes the mean of its own tokens and is weighted by its rows
  (`dp_actor.py:458`), so a token of a micro-batch with fewer tokens weighs more.
* **Generation during a synchronization**
  (MCFullyAsync_quiet.cfg, `NoGenerationDuringSync`). The monitor
  decides to resume, waits for the lock that `pause()` holds, and clears
  `paused` when `pause()` has returned; the processor then submits a sample
  while the weights are being copied.
* **UnboundLocalError in the processor**
  (MCFullyAsync_raise.cfg, `ProcessorNeverRaises`). The processor
  waits for the lock with tasks to wait for; `pause()` empties `active_tasks`;
  the code skips the wait but still iterates over `done_tasks`.
* **Interrupted samples lost at the end**
  (MCFullyAsync_interrupted.cfg, `InterruptedSamplesContinue`). A synchronization
  after the processor has taken "DONE" moves active samples to `cancel_queue`,
  which nobody reads any more.
* **Samples beyond rollout_num**
  (MCFullyAsync_rollout_num.cfg, `AtMostRolloutNum`). `update_param_version` does
  not count the sample the processor holds, nor one whose put is in flight while
  `get_queue_size` overtakes it. `StalenessBound` shows that the excess is two at most.
* **Dataloaders of SFT**
  (MCSFTCheckpoint_dataloader.cfg, `DataloadersResume`). There is no barrier between the
  `data_N.pt` files and the tracker's rename. After a crash in between a rank
  without its file starts its data from scratch while the others continue; with
  a torn file its load raises.
* **The tracker of PPO**
  (MCPPOCheckpoint_tracker.cfg, `TrackerIsAtomic`) is rewritten in place; a crash inside the
  write leaves an empty file, and the next run raises in `int("")` although
  complete checkpoints are there. `OnlyTheTrackerTears` shows that this is the
  only crash a restart does not survive.

Further observations, without a run of their own:

* The feeder blocks for ever if the processor dies while more samples than
  `pending_queue` holds are to be fed; `fully_async_sync` uses a `pending_queue` large
  enough (with `PendingCap` 1 TLC finds the behaviour that never ends).
* `StalenessBound` bounds the number of samples that are outstanding, not the age of one.
  With partial rollout an unlucky sample may be interrupted by every synchronization.
  Without it a slow generation may be passed by any number of others: with six
  samples, staleness 1 and one slot TLC finds a sample trained three versions after
  its start. So no bound on the lag is stated, except 0 in the synchronous mode
  (`OnPolicy`).
* The None sample can overtake a put. `result_queue.join()` waits for the acknowledgement of
  every put, but it is skipped when the processor has raised
  (`fully_async_rollouter.py:487`), and the consumer is then cancelled in the middle of
  its put. That sample may come to the queue after the None sample, and the
  Trainer, which stops there, never sees it (`SentinelIsLast` says that it is one at most).
* A response that raises ends its sample at once, but its siblings keep the servers
  busy: `pause()` does not wait for them, and they may be generating, already
  cancelled, while the weights are copied. Their tokens are never used (`QuietDuringCopy`,
  and `VersionsBracketTokens` excepts them).
* On a full queue `put_sample` returns False although it has put the sample and
  dropped another; the consumer counts the delivered one as dropped.
* The oldest checkpoint is removed before the new one is written. With
  `max_ckpt_to_keep` 1 that is the one the tracker names, and a crash during the
  save leaves nothing to restart from (set `Keep` to 1 in MCSFTCheckpoint.cfg and
  TLC finds it). The runs keep two or more.
* `previous_saved_paths` starts empty, so checkpoints of earlier runs are never
  rotated out: `KeepsAtMostPerRun` counts those of one run.
* *Servers.* The early return of `generate_for_partial` (`vllm_async_server.py:107`) leaves
  its request in the tables; so does a generation that raises (`OnlyEmptyRequestsLeak`
  says that nothing else does). The agent loop does not cut `log_probs` to
  `response_length`; the consumer cuts them by the mask (`detach_utils.py:217`). A task
  started between `pause()` and `update_param_version()` may carry a version one too
  old, and so may `param_version_start` of a response that was first refused.
* *Warm-up.* A kill between the folded weights and the marker
  (`merge_lora_into_base.py:259`) makes the next start fold the adapter twice; a kill
  while the weights or `adapter_config.json` are open leaves a directory that every later
  start fails on, or, without LoRA, accepts; a kill between weights and tokenizer leaves
  a directory without a tokenizer. A second start in the same RUN_DIR trains again
  but keeps the directories merged from the first. Simple-OPD.sh asks for the marker
  also when the SFT stage has no LoRA, where nothing writes it.
* *Hybrid engine.* A sync rollout without `free_cache_engine` skips `release` in
  `trainer_mode`, so its prefix cache outlives a weight update. A LoRA actor resumed onto dummy
  weights generates first without its adapter. The random state seeded with
  `1000 + dp_rank` is overwritten by the first `trainer_mode` (`fsdp_workers.py:749`)
  before anything used it. Base models with a LoRA actor raise a ValueError.
* *Batches.* A micro-batch may hold more than `max_token_len` tokens, because only
  their number is bounded (`seqlen_balancing.py:275` says otherwise). With sequence
  parallelism `_balance_batch` still makes one partition per rank of the world, so the largest
  partitions can meet on one group. `ppo_mini_batch_size` is floored when it does not
  divide. A single response keeps its raw score in RLOO and gets 0 in its
  vectorized form.

## 5. What is proved

`MessageQueue_proofs`, for every capacity (`MaxQueueSizeAssumption`: at least
one), every set of callers, and every value of the bounds:

* `QueueSafety`: the type invariant, `HoldsTheNewest`, `SamplesAreAccountedFor`
  and `NoLostWakeup` hold in every reachable state (`SamplesAccounted` and
  `WakeupsReachCallers` state two of them on their own). `IInv` is their
  conjunction, which is inductive: `HoldsTheNewest` gives the element a get or a
  drop removes, the capacity in `TypeOK` needs that a put on a full queue first
  removes one, and `NoLostWakeup` needs the loop condition tested again by a
  woken call. `StepInv` treats one operation at a time; `AppendFacts` and
  `TailFacts` are the two facts about sequences it rests on.
* `QueueImplementsWindow`: `Spec => WindowSpec`. Under `IInv` every operation is
  a step of LatestWindow or a stutter; the case that matters is a put on a full
  queue, which moves both ends of the window.

`FullyAsync_proofs`, for every data set, batch size, synchronization interval,
staleness threshold and number of servers, with and without partial rollout
(`RollouterAssumption`, `FullyAsyncAssumption`, and `ValuesAssumption`: None, "DONE" and the
reply of a closed queue are not samples):

* `PausedMeansIdle`: `Spec => []PauseLeavesNoTask`. The property alone is not
  inductive: between the drain and the return of `pause()` another coroutine
  could submit. `LockInv` says who is inside a critical section that
  suspends; with it every action that adds a task needs a lock that is free,
  and no action inside the drain's wait adds one.
* `VersionAgreement`: `Spec => []VersionsInStep`. `PhaseInv` ties where the Trainer,
  the synchronizer and the Rollouter's RPC are to how far each of the four
  copies of the version is behind; the step that matters is `sync_weights`, which
  is entered only when the previous update and resume have returned.
* `Types`: `Spec => []TypeOK`. That no more tasks are active than there are slots is part
  of it; it needs the processor's local `site` and what it holds tied to the lock (`TypeInv`).
* `NeverTwice`: `Spec => []NoSampleTwice`, and `LossesCounted`: `Spec => []LossesAreCounted`.
  `PlaceInv` lists every place a sample can be in (not fed yet, the three queues,
  what a coroutine holds, the active tasks, the cancel queue, the MessageQueue, the
  batch, trained, dropped) and says that no two of them hold the same one; `LossInv` says
  that no more have gone from all of them than `dropped_samples` counts and tasks failed.
  An action moves one sample from one place to the next, which is what each step of
  `SafeInv` shows.
* `SentinelLast`: `Spec => []SentinelIsLast`, whatever the order in which the queue executes the
  calls. `ConsInv` ties what the consumer holds to `join()`: a put is still in flight when the
  consumer is cancelled only if the processor has raised, and a processor that has raised
  stays so (`RaisedForGood`). `SentinelInv` counts what may still follow the None sample: one such put
  as long as it is in flight, nothing afterwards.
* `StalenessBounded`: `Spec => []StalenessBound`, the bounds `staleness_samples + 2` and
  `max_required_samples + 2` on the samples that are outstanding. `staleness_samples` is a count
  that several coroutines keep without a common lock, from sizes that another actor reports
  in any order. `LoadInv` relates it to the samples that are really outstanding: what the
  count misses is at most the sample the processor holds and the one whose put is in flight;
  while `update_param_version` is between its reads it covers what has been read so far.
* `OnPolicyTraining`: `StaleNum = 0 /\ Spec => []OnPolicy`: with `staleness_threshold` 0 every
  sample is trained with the version it was generated with. A sample that waits has
  no version yet (`FreshInv`) and one that has left its task has one (`StampInv`). `EpochInv`
  counts the samples fetched since the last synchronization: when the Trainer synchronizes,
  every one of them has been trained on, and until the Rollouter has counted anew the
  processor fetches none. `ClosingInv` sets the final synchronization apart, and
  `PolicyInv` says that what is loaded is of the version being trained.
* `ImplementsTraining`: `Spec => TrainingSpec`, for every threshold: every step of the Rollouter,
  the queue, the Trainer and the synchronizer is a step of VersionedTraining or a stutter. The
  invariants above say what a training step needs: a full batch is a set of
  `required_samples` samples, none trained on before (`PlaceInv` and `BatchIsASet`), each begun
  (`StampInv`), with staleness 0 by the version that is trained (`OnPolicyTraining`); the
  Trainer is one version ahead of the Rollouter at most when it makes the next
  (`PhaseInv`). `FinalInv` says that only the final synchronization is waited for at the end.

`SFTCheckpoint_proofs`, for every number of ranks, steps and runs, with
`max_ckpt_to_keep` null or at least 2 (`KeepsTwo`; for 1 it is false, see section 4):

* `TrackerNamesComplete`: `Spec => []NamedIsComplete`. The invariant has three
  ideas. The barriers keep the ranks in the same third of a save (`OneStage`), so
  that the shards are whole when rank 0 renames the tracker (`Written`). Shards
  are written to a step the tracker does not name yet (`Unpublished`,
  `Publishing`), also when a torn checkpoint of an earlier run is written over.
  Rotation removes the head of `previous_saved_paths`, which is sorted (`Order`) and
  ends in the step the tracker names (`Published`): with two elements the two
  differ. `Down` says that a run starts with an empty list.
* `SavingIsAtomic`: `Spec => SavesAreAtomic`. Under the same invariant `RenameTracker`
  is the abstract save, and no other step changes what the tracker is mapped to.
* `RotationKeepsBound`: `Spec => []KeepsAtMostPerRun`. On top of the invariant above,
  `Listed` says that every file of this run belongs to a step in
  `previous_saved_paths` or to the one being written, and `Room` that the list has
  room for that one; the bound is then a count of the list.

`PPOCheckpoint_proofs`, for every set of roles, number of ranks, steps and runs, with
`max_ckpt_to_keep` of each role null or at least 2 (`KeepsTwo`):

* `NamedRolesComplete`: `Spec => []NamedIsComplete`: actor and critic of the checkpoint the
  tracker names are whole and of one save. The roles are saved and rotated one
  after the other, each with a list of its own, so in the middle of a save some
  lists end in the step being saved and the others in the one the tracker names
  (`Fresh`, `Order`, `Published`): no rotation removes the latter before the tracker
  names the former.
* `OnlyTrackerFails`: `Spec => []OnlyTheTrackerTears`: a restart fails only because the
  tracker is empty. `DataWhole` and `InStep` say that `data.pt` was whole before the tracker
  could name its step.

`PartialServer_proofs`, for every set of samples, responses per sample and
servers, all lengths and bounds (`SizesAssumption`; `NoneAssumption`: "no server" is not a
server):

* `QuietServers`: `Spec => []QuietDuringCopy`. The property needs three more facts to be
  inductive (`Quiet`): a response in generation belongs to an active task or to a lost sample
  (`BusyIsHeld`), so `pause()` cannot return while one of the former runs; a server that has
  answered `cancel()` stays paused until `resume()` (`AnsweredIsPaused`), so a
  task that starts during the copy is refused; and the types of the control
  variables.
* `ContiguousTokens`, `LastTokenIsLast`, `BracketedVersions`: `TokensAreContiguous`,
  `NothingAfterTheLastToken` and `VersionsBracketTokens` hold in every reachable state. `RoundInv`
  describes a response at every point of a round: what it has collected (`OutputInv`), what
  its server holds for it in the tables (`FlightInv`, `TableInv`), and which versions can have
  been in the servers meanwhile (`VersionInv`, `TaskInv`); a response of a lost sample may
  outlive any number of synchronizations. The joints are the early return, which hands
  back nothing, and `AgentOutput`, which must continue where the last round stopped.
* `EmptyRequestsLeak`: `Spec => []OnlyEmptyRequestsLeak`, from the same invariant.

`SimpleOPD_proofs`, for every list of SFT and OPD steps and any number of starts (`DistinctAssumption`: no step is named twice in STEPS_LIST):

* `MarkerIsTrue`: `Spec => []MarkedIsAdapted`. `DirInv` ties the files of a directory to
  each other: a marker only with whole folded weights, weights only with a
  `config.json`, whole weights from the run the adapter is from. `MergeInv` and `FoldInv` say
  what a script has established in the directory it works on; what matters is that
  nothing is merged over a marker, and that the weights are whole before it is
  written.

* `UsableForGood`: `Spec => [][UsableStays]_vars`: no step makes a usable directory
  unusable, a restart and a kill included, except at the points `Irreparable` names. And
  `DoneIsUsable`: `Spec => []DoneMeansUsable`. `SoundInv` says of every directory that was
  not `hurt` how far it can have come, `MergeFilesInv` and `FoldFilesInv` which of its files
  are whole at each point of the scripts that write them.
* `StepsAreReported`: `Spec => []EveryStepIsReported`: when Simple-OPD.sh ends, every step
  that was saved has a score or is reported as failed (`ReportInv`, `ScoreInv`).

`HybridEngine_proofs`, for every group of ranks, number of steps, warm-up and set of
configurations (`RanksAssumption`, `StepsAssumption`, `ConfigsAssumption`):

* `SharedMemory`, `OwnRandomState`, `MatchingLogProbs`: `MemoryIsShared`,
  `TrainingRandomIsItsOwn` and `LogProbsMatch` hold with every setting, also with those
  outside `Supported`. A program is a sequence of up to twelve steps, each of which may be
  missing; the proofs do not follow it through its suffixes. Every program takes its steps in one
  order (`Place`; `ProgramBlock` derives it from the concatenations the programs are written
  as), so the set of steps that are left (`Left`) tells what has been done. `LeftOf` says which of
  them occur together; `MemoryOf`, `EngineOf` and `RandomOf` say, for each thing a later
  step relies on, that it is there already or that the step which provides it is still
  left. The calls of an iteration are ordered in the same way (`CallPlace`, `Chained`,
  `PlanInv`): `EngineOf` hands the engine awake or asleep from one call to the next,
  `BatchOf` does the same for the columns of the batch, and `VersionInv` says that the ranks,
  each at its own pace, end a call with the same weights.
* `CurrentGeneration`: `Spec => []GenerationIsCurrent` under the assumption
  `WorksAsDocumented`, the first two conjuncts of `Supported`: without them the property is
  false (section 4). `SentOf` follows the actor's version through `gather` and
  `update_weights` into the engine, `BaseOf` the weights that are random at first or
  discarded by sleep level 2, `PrefixOf` the prefix cache, `AwakeOf` the two parts of the
  engine's memory; `GenInv` says that the ranks will have drawn the same random numbers when
  they reach the end of the call. A LoRA actor's first synchronization sends the base
  and leaves the version in the engine as it was; the last conjunct of `SentOf` says that nothing
  has been trained by then, because an iteration generates before it updates.

`BatchPipeline_proofs`, for every set of configurations the code accepts: any number of
prompts, responses, workers, ranks, sequence-parallel groups and mini-batches, any set of
lengths and scores (`ConfigsAssumption`, whose `Accepted` is listed in section 2). All five invariants
of the run hold, and one theorem is about the algorithm alone:

* `PartitionsAreBalanced`: for every list of positive workloads, what
  `get_seqlen_balanced_partitions` returns has every row once and no empty part, has parts of
  one size where it must, and loads that differ by at most two neighbours in the order of size
  (equal sizes) or by one row. The heap of the differencing method has every row in one state
  (`Heap`); the sets of a state are sorted, so when the largest meets the smallest, the differences within the
  merged state are bounded by those of one of the two (`MergedFacts`), and the last state
  has the bound of one of the first. That no set stays empty needs a fact of its own: a
  state has an empty set only while none of its sets has two rows (`Filled`).
* `RowsStay`, `RanksAgree`, `AdvantagesRelative`, `LoadsBalanced`, `RowsTrainOnce`:
  `Spec => []` of `RowsStayTogether`, `MicroBatchesAgree`, `AdvantagesAreGroupRelative`,
  `LoadsAreBalanced` and `EveryRowTrainsOnce`. One lemma for each operation of DataProto says which rows of
  its argument its result has (`Part` of consecutive rows, `Takes` by an index, `Repeats`, `Pads`,
  `JoinsInto`, `Unites`), and balancing and micro-batches are permutations (`Permutes`,
  `Partitioned`). `IInv` names the phases of the driver and what has to be known in each: the batch is
  `Coherent`, the ranks have the rows of their group (`SharesOut`), their plans divide
  these rows into equally many parts (`PlanOf`), and during the update a rank has trained on the
  rows of the mini-batches and micro-batches behind it, each once (`During`, `TrainedOn`, `Seen`).
  `Relative` is carried from the computation of the advantages to the end, because the
  property must hold at every later step too. Each action leads from a phase to a phase
  (the lemmas named ...Step).

These proofs reason about recursive functions (sums over sets, `FlattenSeq`, the merge loop). The
induction theorems of the library take an operator, which the provers cannot instantiate, so
the module proves its own over sets: `NatSetInduction` and `RemovalInduction`, from the well-foundedness of
the naturals. TLC has checked this `IInv` as an invariant of the run `batch_pipeline`, with its existential
quantifiers bounded.

Only model-checked: all liveness (`ShutdownReleasesEveryone`, `Termination`,
`AllTrained`, `PauseEnds`), because liveness under fairness is outside what the
prover handles, and the two violations of section 4. Every other property of a passing run
is stated by a theorem.

## 6. What is left

Not modelled, and why:

* the tool agent loop: one sequential state machine per request; its hard part is
  chat templates, tokenization and the parsing of tool calls, that is text;
* the one-step-off-policy trainer: one driver and one future, whose lag of one
  holds by program order;
* workers and batch assembly of the fully async recipe beyond `weights` and
  versions: tensor transport;
* advantages and losses other than the group baselines and the token weights
  (PASSK, GAE, REINFORCE++, REMAX, KL in reward, rollout correction), model
  workers, models, kernels, format converters: floating-point code and bindings;
* answer parsing in `src/math_eval`: string processing;
* SGLang and Megatron back ends, other recipes, transfer queue, docker, docs, examples.

Most of the repository's lines are of these kinds, copied per model and per recipe. The
modules cover the control of the schedulers, checkpoints, scripts and batch
plumbing, which is a small share of the lines.
