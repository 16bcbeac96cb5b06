------------------------------ MODULE Rollouter ------------------------------
(***************************************************************************)
(* FullyAsyncRollouter (recipe/fully_async_policy/                         *)
(* fully_async_rollouter.py): the Ray actor that generates samples while   *)
(* the Trainer trains.  It is an asyncio actor, so its coroutines          *)
(*                                                                         *)
(*   feed   _feed_samples              cons   _consumer_worker             *)
(*   proc   _processor_worker          mon    _async_monitor_loop          *)
(*   main   _streaming_generation_main rpc    pause, update_param_version, *)
(*                                            resume                       *)
(*                                                                         *)
(* and one task per sample share one event loop: a coroutine runs until it *)
(* awaits something that is not ready.  "turn" is the coroutine that is    *)
(* running, NoOne between two callbacks; an action that ends in an await   *)
(* that suspends gives the turn back, every other action keeps it.         *)
(* self.lock is an asyncio.Lock, granted in FIFO order.                    *)
(*                                                                         *)
(* The LLM servers are one flag, servers_paused (vLLMHttpServerForPartial. *)
(* paused): a generation runs until it finishes, and may return cancelled  *)
(* while they are paused.                                                  *)
(***************************************************************************)
EXTENDS Integers, Sequences, FiniteSets, Functions

CONSTANTS
  TotalRolloutSteps,    \* total_rollout_steps: samples to feed
  RequiredSamples,      \* required_samples: samples per training step
  TriggerSteps,         \* trigger_parameter_sync_step
  StaleNum, StaleDen,   \* staleness_threshold = StaleNum / StaleDen
  ServerSlots,          \* len(server_handles) * 16
  PendingCap,           \* maxsize of pending_queue (128)
  PartialRollout,       \* async_training.partial_rollout
  MaxFailures,          \* bound: generations that raise
  NoOne, Done, Closed   \* nobody or nothing, "DONE", the reply of a closed queue

ASSUME RollouterAssumption ==
  /\ {TotalRolloutSteps, RequiredSamples, TriggerSteps, StaleDen,
      ServerSlots, PendingCap} \subseteq Nat \ {0}
  /\ {StaleNum, MaxFailures} \subseteq Nat
  /\ PartialRollout \in BOOLEAN
  /\ NoOne \notin {"feed", "proc", "cons", "main", "mon", "rpc"}

Samples == 1 .. TotalRolloutSteps
Sentinel == 0            \* the None sample that ends the stream

\* None, "DONE" and the reply of a closed queue are no RolloutSample
ASSUME ValuesAssumption == {NoOne, Done, Closed} \cap (Samples \cup {Sentinel}) = {}

Coroutines == {"feed", "proc", "cons", "main", "mon", "rpc"}

\* int(required_samples * (staleness_threshold + 1) * trigger_parameter_sync_step)
MaxRequiredSamples ==
  (RequiredSamples * (StaleNum + StaleDen) * TriggerSteps) \div StaleDen
MaxConcurrentSamples ==
  IF ServerSlots < MaxRequiredSamples THEN ServerSlots ELSE MaxRequiredSamples

VARIABLES
  \* asyncio: the running coroutine, self.lock and its waiters, program counters
  turn, lock, waiters, pc,
  \* flags: self.paused, self.monitor_loop_trigger, self.running
  paused, monitor_loop_trigger, running,
  \* self.pending_queue, active_tasks, result_queue (and its unfinished count),
  \* cancel_queue; an active task is a record of its sample and its status
  pending_queue, active_tasks, result_queue, unfinished, cancel_queue,
  global_steps, staleness_samples, current_param_version,
  \* locals: the sample proc and cons hold, why proc waits for tasks and whether
  \* its done_tasks is bound, the partial sum of update_param_version
  hand, site, done_bound, sum,
  \* the LLM servers
  servers_paused,
  \* history: version a sample's generation started with, generations that raised
  start_version, failures,
  \* the message queue actor
  queue, mq_running, mq_version, val_queue, total_produced, total_consumed,
  dropped_samples, cleared_samples, getter, reply

MQ == INSTANCE MessageQueue WITH
        Callers <- {"trainer"}, MaxQueueSize <- MaxRequiredSamples,
        running <- mq_running, current_param_version <- mq_version,
        MaxProduced <- TotalRolloutSteps + 1, MaxVal <- TotalRolloutSteps,
        ParamVersions <- 0 .. TotalRolloutSteps

sched == <<turn, lock, waiters, pc>>
flags == <<paused, monitor_loop_trigger, running>>
tasks == <<active_tasks, result_queue, unfinished, cancel_queue, servers_paused,
           start_version, failures>>
feeding == <<pending_queue, global_steps>>
counts  == <<staleness_samples, current_param_version, sum>>
locals  == <<hand, site, done_bound>>
mqvars  == <<queue, mq_running, mq_version, val_queue, total_produced, total_consumed,
             dropped_samples, cleared_samples, getter, reply>>
rollouter_vars == <<sched, flags, tasks, feeding, counts, locals, mqvars>>

(***************************************************************************)
(* The state after FullyAsyncTaskRunner has made the first sync_weights    *)
(* (version 0) and fit has created the coroutines.                         *)
(***************************************************************************)
RollouterInit ==
  /\ turn = NoOne /\ lock = NoOne /\ waiters = << >>
  /\ pc = [feed |-> "put", proc |-> "loop", cons |-> "get", main |-> "feed",
           mon |-> "top", rpc |-> "idle"]
  /\ paused = FALSE /\ monitor_loop_trigger = TRUE /\ running = TRUE
  /\ pending_queue = << >> /\ active_tasks = << >> /\ cancel_queue = << >>
  /\ result_queue = << >> /\ unfinished = 0
  /\ global_steps = 1 /\ staleness_samples = 0 /\ current_param_version = 0
  /\ hand = [proc |-> NoOne, cons |-> NoOne]
  /\ site = "none" /\ done_bound = FALSE /\ sum = 0
  /\ servers_paused = FALSE
  /\ start_version = [s \in Samples |-> -1] /\ failures = 0
  /\ MQ!Init

-----------------------------------------------------------------------------
(* The event loop and self.lock *)

Runs(c)  == turn \in {NoOne, c}
Keeps(c) == turn' = c
Yields   == turn' = NoOne
Goto(c, label) == pc' = [pc EXCEPT ![c] = label]

Queued(c)  == \E i \in DOMAIN waiters : waiters[i] = c
CanLock(c) == lock = NoOne /\ IF Queued(c) THEN Head(waiters) = c ELSE waiters = << >>
Dequeued(c) == IF Queued(c) THEN Tail(waiters) ELSE waiters

\* async with self.lock around code that does not suspend
Locked(c) == Runs(c) /\ CanLock(c) /\ waiters' = Dequeued(c) /\ lock' = NoOne
\* ... around code that suspends: the lock is kept until Unlocked
Locks(c)  == Runs(c) /\ CanLock(c) /\ waiters' = Dequeued(c) /\ lock' = c
Unlocked  == lock' = NoOne /\ UNCHANGED waiters
NoLocking == UNCHANGED <<lock, waiters>>

LockLabels == [feed |-> {}, cons |-> {}, main |-> {"stop"}, mon |-> {"top", "unpause"},
               proc |-> {"set_paused", "drain_lock", "idle", "submit"},
               rpc  |-> {"pause", "update", "resume"}]

\* the lock is not available: queue up for it
AwaitLock(c) ==
  /\ Runs(c) /\ pc[c] \in LockLabels[c] /\ ~Queued(c) /\ ~CanLock(c)
  /\ waiters' = Append(waiters, c) /\ Yields
  /\ UNCHANGED <<lock, pc, flags, tasks, feeding, counts, locals, mqvars>>

\* self.condition.notify_all(): only the processor ever waits on the condition
Awake(p) == [p EXCEPT !.proc = CASE @ = "idle_asleep" -> "idle"
                                 [] @ = "submit_asleep" -> "submit"
                                 [] OTHER -> @]

-----------------------------------------------------------------------------
(* _feed_samples *)

FeedSample ==
  /\ Runs("feed") /\ pc.feed = "put" /\ Len(pending_queue) < PendingCap
  /\ pending_queue' = Append(pending_queue, global_steps)
  /\ IF global_steps >= TotalRolloutSteps
       THEN Goto("feed", "end") /\ UNCHANGED global_steps
       ELSE global_steps' = global_steps + 1 /\ UNCHANGED pc
  /\ turn' = IF Len(pending_queue) + 1 < PendingCap THEN "feed" ELSE NoOne
  /\ NoLocking /\ UNCHANGED <<flags, tasks, counts, locals, mqvars>>

FeedDone ==
  /\ Runs("feed") /\ pc.feed = "end" /\ Len(pending_queue) < PendingCap
  /\ pending_queue' = Append(pending_queue, Done)
  /\ Goto("feed", "returned") /\ Yields
  /\ NoLocking /\ UNCHANGED <<global_steps, flags, tasks, counts, locals, mqvars>>

-----------------------------------------------------------------------------
(* _processor_worker *)

\* mutant: the staleness test is one too late
ShouldPauseLate ==
  \/ Len(queue) >= MaxRequiredSamples
  \/ staleness_samples > MaxRequiredSamples

\* _should_pause_generation; get_statistics_sync blocks the event loop, and need
\* not see a put that has been sent before it
ShouldPauseGeneration ==
  \/ Len(queue) >= MaxRequiredSamples
  \/ staleness_samples >= MaxRequiredSamples

ProcLoop ==
  /\ Runs("proc") /\ pc.proc = "loop" /\ Keeps("proc")
  /\ IF paused \/ ShouldPauseGeneration
       THEN Goto("proc", "set_paused") /\ UNCHANGED <<hand, site, cancel_queue>>
       ELSE IF cancel_queue # << >>
              THEN /\ hand' = [hand EXCEPT !.proc = Head(cancel_queue)]
                   /\ cancel_queue' = Tail(cancel_queue)
                   /\ site' = "limit" /\ Goto("proc", "drain")
              ELSE Goto("proc", "get") /\ UNCHANGED <<hand, site, cancel_queue>>
  /\ NoLocking
  /\ UNCHANGED <<flags, active_tasks, result_queue, unfinished, servers_paused, start_version,
                 failures, feeding, counts, done_bound, mqvars>>

ProcSetPaused ==
  /\ pc.proc = "set_paused" /\ Locked("proc")
  /\ paused' = TRUE /\ site' = "pause"
  /\ Goto("proc", "drain") /\ Keeps("proc")
  /\ UNCHANGED <<monitor_loop_trigger, running, tasks, feeding, counts, hand, done_bound, mqvars>>

\* mutant: the new sample is not counted
ProcGetUncounted ==
  /\ Runs("proc") /\ pc.proc = "get" /\ pending_queue # << >>
  /\ hand' = [hand EXCEPT !.proc = Head(pending_queue)]
  /\ pending_queue' = Tail(pending_queue)
  /\ site' = IF Head(pending_queue) = Done THEN "done" ELSE "limit"
  /\ Goto("proc", "drain") /\ Keeps("proc")
  /\ NoLocking /\ UNCHANGED <<flags, tasks, global_steps, counts, done_bound, mqvars>>

\* rollout_sample = await self.pending_queue.get(); self.staleness_samples += 1
ProcGet ==
  /\ Runs("proc") /\ pc.proc = "get" /\ pending_queue # << >>
  /\ hand' = [hand EXCEPT !.proc = Head(pending_queue)]
  /\ pending_queue' = Tail(pending_queue)
  /\ staleness_samples' = staleness_samples + 1
  /\ site' = IF Head(pending_queue) = Done THEN "done" ELSE "limit"
  /\ Goto("proc", "drain") /\ Keeps("proc")
  /\ NoLocking /\ UNCHANGED <<flags, tasks, global_steps, current_param_version, sum,
                              done_bound, mqvars>>

ProcGetWaits ==
  /\ turn = "proc" /\ pc.proc = "get" /\ pending_queue = << >> /\ Yields
  /\ NoLocking /\ UNCHANGED <<pc, flags, tasks, feeding, counts, locals, mqvars>>

\* mutant: the limit is one task too late
MustDrainLate ==
  IF site = "limit" THEN Len(active_tasks) > MaxConcurrentSamples ELSE active_tasks # << >>

\* the three "while ...: async with self.lock: await asyncio.wait(...)" loops
MustDrain ==
  IF site = "limit" THEN Len(active_tasks) >= MaxConcurrentSamples ELSE active_tasks # << >>

AfterDrain == CASE site = "pause" -> "idle" [] site = "limit" -> "submit" [] OTHER -> "returned"

ProcDrain ==
  /\ Runs("proc") /\ pc.proc = "drain"
  /\ IF MustDrain
       THEN Goto("proc", "drain_lock") /\ Keeps("proc") /\ UNCHANGED site
       ELSE /\ Goto("proc", AfterDrain) /\ site' = "none"
            /\ turn' = IF site = "done" THEN NoOne ELSE "proc"
  /\ NoLocking /\ UNCHANGED <<flags, tasks, feeding, counts, hand, done_bound, mqvars>>

\* an empty active_tasks skips the wait; "for task in done_tasks" then needs a
\* done_tasks left from an earlier wait, and raises UnboundLocalError without one
ProcDrainLock ==
  /\ pc.proc = "drain_lock"
  /\ IF active_tasks = << >>
       THEN /\ Locked("proc")
            /\ Goto("proc", IF done_bound THEN "drain" ELSE "raised")
            /\ turn' = IF done_bound THEN "proc" ELSE NoOne
       ELSE Locks("proc") /\ Goto("proc", "drain_wait") /\ Yields
  /\ UNCHANGED <<flags, tasks, feeding, counts, locals, mqvars>>

Ended(task) == task.status \in {"done", "failed"}
Failed(task) == task.status = "failed"
Unended(task) == ~Ended(task)

\* positions of the tasks that asyncio.wait returns as pending
Pending == {i \in DOMAIN active_tasks : Unended(active_tasks[i])}

\* the tasks that have ended leave active_tasks, the others stay (asyncio.wait
\* returns sets: in any order); a failed one raises here
ProcDrainWait ==
  /\ Runs("proc") /\ pc.proc = "drain_wait"
  /\ Pending # DOMAIN active_tasks
  /\ \E order \in Bijection(1 .. Cardinality(Pending), Pending) :
       active_tasks' = [n \in 1 .. Cardinality(Pending) |-> active_tasks[order[n]]]
  /\ done_bound' = TRUE
  /\ Unlocked
  /\ IF \E i \in DOMAIN active_tasks : Failed(active_tasks[i])
       THEN Goto("proc", "raised") /\ Yields
       ELSE Goto("proc", "drain") /\ Keeps("proc")
  /\ UNCHANGED <<flags, result_queue, unfinished, cancel_queue, servers_paused, start_version,
                 failures, feeding, counts, hand, site, mqvars>>

\* while self.paused: await self.condition.wait()
ProcIdle ==
  /\ pc.proc = "idle" /\ Locked("proc")
  /\ IF paused THEN Goto("proc", "idle_asleep") /\ Yields
               ELSE Goto("proc", "loop") /\ Keeps("proc")
  /\ UNCHANGED <<flags, tasks, feeding, counts, locals, mqvars>>

\* mutant: a pause found at this point gives the sample up instead of waiting
ProcSubmitGivesUp ==
  /\ pc.proc = "submit" /\ Locked("proc")
  /\ IF paused
       THEN UNCHANGED active_tasks
       ELSE active_tasks' = Append(active_tasks, [sample |-> hand.proc, status |-> "new"])
  /\ hand' = [hand EXCEPT !.proc = NoOne]
  /\ Goto("proc", "loop") /\ Keeps("proc")
  /\ UNCHANGED <<flags, result_queue, unfinished, cancel_queue, servers_paused, start_version,
                 failures, feeding, counts, site, done_bound, mqvars>>

\* with the lock, look at paused once more, then create the task
ProcSubmit ==
  /\ pc.proc = "submit" /\ Locked("proc")
  /\ IF paused
       THEN Goto("proc", "submit_asleep") /\ Yields /\ UNCHANGED <<active_tasks, hand>>
       ELSE /\ active_tasks' = Append(active_tasks, [sample |-> hand.proc, status |-> "new"])
            /\ hand' = [hand EXCEPT !.proc = NoOne]
            /\ Goto("proc", "loop") /\ Keeps("proc")
  /\ UNCHANGED <<flags, result_queue, unfinished, cancel_queue, servers_paused, start_version,
                 failures, feeding, counts, site, done_bound, mqvars>>

-----------------------------------------------------------------------------
(* _process_single_sample_streaming: one task per submitted sample *)

SetStatus(i, s) == active_tasks' = [active_tasks EXCEPT ![i].status = s]

\* the version is stamped, and the request reaches the servers
TaskStart(i) ==
  /\ turn = NoOne /\ active_tasks[i].status = "new"
  /\ SetStatus(i, IF servers_paused THEN "refused" ELSE "generating")
  /\ start_version' = [start_version EXCEPT ![active_tasks[i].sample] =
                         IF @ = -1 THEN current_param_version ELSE @]
  /\ UNCHANGED <<sched, flags, result_queue, unfinished, cancel_queue, servers_paused,
                 failures, feeding, counts, locals, mqvars>>

TaskFinish(i) ==
  /\ turn = NoOne /\ active_tasks[i].status = "generating"
  /\ SetStatus(i, "done")
  /\ result_queue' = Append(result_queue, active_tasks[i].sample)
  /\ unfinished' = unfinished + 1
  /\ UNCHANGED <<sched, flags, cancel_queue, servers_paused, start_version, failures,
                 feeding, counts, locals, mqvars>>

\* mutant: the cancelled sample is delivered as well (the "else" is missing)
TaskCancelDelivers(i) ==
  /\ turn = NoOne
  /\ \/ active_tasks[i].status = "refused"
     \/ active_tasks[i].status = "generating" /\ servers_paused
  /\ SetStatus(i, "done")
  /\ cancel_queue' = Append(cancel_queue, active_tasks[i].sample)
  /\ result_queue' = Append(result_queue, active_tasks[i].sample)
  /\ unfinished' = unfinished + 1
  /\ UNCHANGED <<sched, flags, servers_paused, start_version, failures, feeding, counts,
                 locals, mqvars>>

\* an agent loop came back with is_cancel: the sample waits to be resumed
TaskCancel(i) ==
  /\ turn = NoOne
  /\ \/ active_tasks[i].status = "refused"
     \/ active_tasks[i].status = "generating" /\ servers_paused
  /\ SetStatus(i, "done")
  /\ cancel_queue' = Append(cancel_queue, active_tasks[i].sample)
  /\ UNCHANGED <<sched, flags, result_queue, unfinished, servers_paused, start_version,
                 failures, feeding, counts, locals, mqvars>>

\* the generation raises; the sample is gone
TaskFail(i) ==
  /\ turn = NoOne /\ active_tasks[i].status = "generating" /\ failures < MaxFailures
  /\ SetStatus(i, "failed")
  /\ failures' = failures + 1
  /\ UNCHANGED <<sched, flags, result_queue, unfinished, cancel_queue, servers_paused,
                 start_version, feeding, counts, locals, mqvars>>

-----------------------------------------------------------------------------
(* _consumer_worker *)

ConsGet ==
  /\ Runs("cons") /\ pc.cons = "get" /\ result_queue # << >>
  /\ hand' = [hand EXCEPT !.cons = Head(result_queue)]
  /\ result_queue' = Tail(result_queue)
  /\ Goto("cons", "put") /\ Yields
  /\ NoLocking /\ UNCHANGED <<flags, active_tasks, unfinished, cancel_queue, servers_paused,
                              start_version, failures, feeding, counts, site, done_bound, mqvars>>

\* a put_sample of the consumer that has been sent and not executed
PutInFlight == pc.cons \in {"put", "orphan"}

\* put_sample runs in the queue actor, whoever has the turn here: an async actor
\* (max_concurrency 20), which executes the calls it has been sent in any order
ConsPut ==
  /\ PutInFlight
  /\ MQ!PutSample(hand.cons)
  /\ hand' = [hand EXCEPT !.cons = NoOne]
  /\ pc' = [pc EXCEPT !.cons = IF @ = "put" THEN "ack" ELSE "cancelled"]
  /\ UNCHANGED <<turn, lock, waiters, flags, tasks, feeding, counts, site, done_bound>>

ConsAck ==
  /\ Runs("cons") /\ pc.cons = "ack"
  /\ unfinished' = unfinished - 1
  /\ Goto("cons", "get")
  /\ turn' = IF result_queue # << >> THEN "cons" ELSE NoOne
  /\ NoLocking /\ UNCHANGED <<flags, active_tasks, result_queue, cancel_queue, servers_paused,
                              start_version, failures, feeding, counts, locals, mqvars>>

-----------------------------------------------------------------------------
(* _streaming_generation_main *)

MainFed ==
  /\ Runs("main") /\ pc.main = "feed" /\ pc.feed = "returned"
  /\ Goto("main", "proc") /\ Yields
  /\ NoLocking /\ UNCHANGED <<flags, tasks, feeding, counts, locals, mqvars>>

MainProcessed ==
  /\ Runs("main") /\ pc.main = "proc" /\ pc.proc = "returned"
  /\ Goto("main", "join") /\ Yields
  /\ NoLocking /\ UNCHANGED <<flags, tasks, feeding, counts, locals, mqvars>>

\* mutant: an exception of the processor is not caught
MainCancelUncaught ==
  /\ Runs("main") /\ pc.main = "join" /\ unfinished = 0
  /\ pc' = [pc EXCEPT !.main = "sentinel",
                      !.cons = IF @ = "put" THEN "orphan" ELSE "cancelled"]
  /\ Yields
  /\ NoLocking /\ UNCHANGED <<flags, tasks, feeding, counts, locals, mqvars>>

\* mutant: the consumer is cancelled as soon as result_queue is empty
MainCancelWhenEmpty ==
  /\ Runs("main")
  /\ \/ pc.main = "join" /\ result_queue = << >>
     \/ pc.main = "proc" /\ pc.proc = "raised"
  /\ pc' = [pc EXCEPT !.main = "sentinel",
                      !.cons = IF @ = "put" THEN "orphan" ELSE "cancelled"]
  /\ Yields
  /\ NoLocking /\ UNCHANGED <<flags, tasks, feeding, counts, locals, mqvars>>

\* result_queue.join() returned, or the processor's exception was caught: the
\* consumer is cancelled; a put it has already sent still reaches the queue
MainCancel ==
  /\ Runs("main")
  /\ \/ pc.main = "join" /\ unfinished = 0
     \/ pc.main = "proc" /\ pc.proc = "raised"
  /\ pc' = [pc EXCEPT !.main = "sentinel",
                      !.cons = IF @ = "put" THEN "orphan" ELSE "cancelled"]
  /\ Yields
  /\ NoLocking /\ UNCHANGED <<flags, tasks, feeding, counts, locals, mqvars>>

\* the put of the None sample; a put of the consumer that is still in flight
\* reaches the queue before or after it
MainSentinel ==
  /\ pc.main = "sentinel"
  /\ MQ!PutSample(Sentinel)
  /\ Goto("main", "stop")
  /\ UNCHANGED <<turn, lock, waiters, flags, tasks, feeding, counts, locals>>

MainStop ==
  /\ pc.main = "stop" /\ Locked("main")
  /\ running' = FALSE
  /\ Goto("main", "returned") /\ Yields
  /\ UNCHANGED <<paused, monitor_loop_trigger, tasks, feeding, counts, locals, mqvars>>

-----------------------------------------------------------------------------
(* _async_monitor_loop *)

MonTop ==
  /\ pc.mon = "top" /\ Locked("mon")
  /\ Goto("mon", IF running THEN "asleep" ELSE "returned") /\ Yields
  /\ UNCHANGED <<flags, tasks, feeding, counts, locals, mqvars>>

\* the timer fires: monitor_loop_trigger and the counters are read here ...
MonCheck ==
  /\ Runs("mon") /\ pc.mon = "asleep"
  /\ Goto("mon", IF monitor_loop_trigger /\ ~ShouldPauseGeneration THEN "unpause" ELSE "top")
  /\ Keeps("mon")
  /\ NoLocking /\ UNCHANGED <<flags, tasks, feeding, counts, locals, mqvars>>

\* ... and acted on here, when the lock has been granted
MonUnpause ==
  /\ pc.mon = "unpause" /\ Locked("mon")
  /\ paused' = FALSE
  /\ pc' = [Awake(pc) EXCEPT !.mon = "top"] /\ Keeps("mon")
  /\ UNCHANGED <<monitor_loop_trigger, running, tasks, feeding, counts, locals, mqvars>>

-----------------------------------------------------------------------------
(* pause(), update_param_version() and resume(), called by the synchronizer *)

\* mutant: pause() does not wait for the tasks it has cancelled
AfterCancelAtOnce == "pause_reset"

AfterCancel == IF active_tasks # << >> THEN "pause_gather" ELSE "pause_reset"

PauseBegin ==
  /\ pc.rpc = "pause" /\ Locks("rpc")
  /\ paused' = TRUE
  /\ Goto("rpc", IF PartialRollout THEN "pause_cancel" ELSE AfterCancel) /\ Yields
  /\ UNCHANGED <<monitor_loop_trigger, running, tasks, feeding, counts, locals, mqvars>>

PauseCancel ==
  /\ Runs("rpc") /\ pc.rpc = "pause_cancel"
  /\ servers_paused' = TRUE
  /\ Goto("rpc", AfterCancel) /\ Yields
  /\ NoLocking /\ UNCHANGED <<flags, active_tasks, result_queue, unfinished, cancel_queue,
                              start_version, failures, feeding, counts, locals, mqvars>>

PauseGather ==
  /\ Runs("rpc") /\ pc.rpc = "pause_gather"
  /\ \A i \in DOMAIN active_tasks : Ended(active_tasks[i])
  /\ active_tasks' = << >>
  /\ Goto("rpc", "pause_reset") /\ Yields
  /\ NoLocking /\ UNCHANGED <<flags, result_queue, unfinished, cancel_queue, servers_paused,
                              start_version, failures, feeding, counts, locals, mqvars>>

PauseEnd ==
  /\ Runs("rpc") /\ pc.rpc = "pause_reset"
  /\ monitor_loop_trigger' = FALSE
  /\ Unlocked /\ Goto("rpc", "pause_returned") /\ Yields
  /\ UNCHANGED <<paused, running, tasks, feeding, counts, locals, mqvars>>

\* staleness_samples = len(active) + results + cancelled + await get_queue_size():
\* the first three terms are read before the await, and the queue's size before
\* or after a put that is in flight
UpdateBegin(version) ==
  /\ pc.rpc = "update" /\ Locks("rpc")
  /\ current_param_version' = version
  /\ sum' = Len(active_tasks) + Len(result_queue) + Len(cancel_queue)
  /\ Goto("rpc", "update_size") /\ Yields
  /\ UNCHANGED <<flags, tasks, feeding, staleness_samples, locals, mqvars>>

UpdateQueueSize ==
  /\ pc.rpc = "update_size"
  /\ sum' = sum + Len(queue)
  /\ Goto("rpc", "update_set")
  /\ UNCHANGED <<turn, lock, waiters, flags, tasks, feeding, staleness_samples,
                 current_param_version, locals, mqvars>>

UpdateSet ==
  /\ Runs("rpc") /\ pc.rpc = "update_set"
  /\ staleness_samples' = sum /\ sum' = 0
  /\ Goto("rpc", "update_validate") /\ Yields
  /\ NoLocking /\ UNCHANGED <<flags, tasks, feeding, current_param_version, locals, mqvars>>

\* put_validate is awaited under the lock; then Ray starts resume(), which
\* takes the finished update as its argument
UpdateEnd ==
  /\ Runs("rpc") /\ pc.rpc = "update_validate"
  /\ MQ!PutValidate(current_param_version)
  /\ Unlocked /\ Goto("rpc", "resume") /\ Yields
  /\ UNCHANGED <<flags, tasks, feeding, counts, locals>>

ResumeBegin ==
  /\ pc.rpc = "resume" /\ Runs("rpc") /\ CanLock("rpc")
  /\ waiters' = Dequeued("rpc")
  /\ lock' = IF PartialRollout THEN "rpc" ELSE NoOne
  /\ paused' = FALSE /\ monitor_loop_trigger' = TRUE
  /\ pc' = [Awake(pc) EXCEPT !.rpc = IF PartialRollout THEN "resume_servers" ELSE "idle"]
  /\ Yields
  /\ UNCHANGED <<running, tasks, feeding, counts, locals, mqvars>>

\* mutant: the servers stay paused and cancel every request they are given
ResumeEndForgets ==
  /\ Runs("rpc") /\ pc.rpc = "resume_servers"
  /\ Unlocked /\ Goto("rpc", "idle") /\ Yields
  /\ UNCHANGED <<flags, tasks, feeding, counts, locals, mqvars>>

ResumeEnd ==
  /\ Runs("rpc") /\ pc.rpc = "resume_servers"
  /\ servers_paused' = FALSE
  /\ Unlocked /\ Goto("rpc", "idle") /\ Yields
  /\ UNCHANGED <<flags, active_tasks, result_queue, unfinished, cancel_queue, start_version,
                 failures, feeding, counts, locals, mqvars>>

-----------------------------------------------------------------------------
Feeding    == FeedSample \/ FeedDone
Processing == \/ ProcLoop \/ ProcSetPaused \/ ProcGet \/ ProcGetWaits \/ ProcDrain
              \/ ProcDrainLock \/ ProcDrainWait \/ ProcIdle \/ ProcSubmit
              \/ AwaitLock("proc")
Generating == \E i \in DOMAIN active_tasks :
                 TaskStart(i) \/ TaskFinish(i) \/ TaskCancel(i) \/ TaskFail(i)
Consuming  == ConsGet \/ ConsPut \/ ConsAck
Finishing  == \/ MainFed \/ MainProcessed \/ MainCancel \/ MainSentinel \/ MainStop
              \/ AwaitLock("main")
Monitoring == MonTop \/ MonCheck \/ MonUnpause \/ AwaitLock("mon")
Serving(version) ==
  \/ PauseBegin \/ PauseCancel \/ PauseGather \/ PauseEnd
  \/ UpdateBegin(version) \/ UpdateQueueSize \/ UpdateSet \/ UpdateEnd
  \/ ResumeBegin \/ ResumeEnd \/ AwaitLock("rpc")
=============================================================================
