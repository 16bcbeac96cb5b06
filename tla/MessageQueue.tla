---------------------------- MODULE MessageQueue ----------------------------
(***************************************************************************)
(* The bounded sample queue between the Rollouter and the Trainer          *)
(* (recipe/fully_async_policy/message_queue.py).                           *)
(*                                                                         *)
(* MessageQueue is an asyncio Ray actor.  Every method runs under _lock    *)
(* and awaits nothing while it holds it, so a method body is one atomic    *)
(* step; the single exception is get_sample, which waits on the condition  *)
(* built on that lock.  A get_sample call is therefore a small process:    *)
(*                                                                         *)
(*     idle -> (blocked -> notified)* -> done -> idle                      *)
(*                                                                         *)
(* "blocked" is inside condition.wait(), "notified" has been woken and is  *)
(* yet to re-acquire the lock and test the loop condition again.           *)
(***************************************************************************)
EXTENDS Integers, Sequences

CONSTANTS
  Callers,         \* concurrent get_sample calls
  MaxQueueSize,    \* max_queue_size
  Closed           \* the None that get_sample returns from a closed queue

ASSUME MaxQueueSizeAssumption == MaxQueueSize \in Nat \ {0}

VARIABLES
  queue,                  \* self.queue, oldest sample first
  running,                \* self.running
  current_param_version,  \* self.current_param_version
  val_queue,              \* self.val_queue
  total_produced,         \* self.total_produced
  total_consumed,         \* self.total_consumed
  dropped_samples,        \* self.dropped_samples
  cleared_samples,        \* history: the cleared_count values, added up
  getter,                 \* where each get_sample call is
  reply                   \* what each finished call returned

counters == <<total_produced, total_consumed, dropped_samples, cleared_samples>>
calls    == <<getter, reply>>
vars     == <<queue, running, current_param_version, val_queue, counters, calls>>

-----------------------------------------------------------------------------
Init ==
  /\ queue = << >>
  /\ running = TRUE
  /\ current_param_version = 0
  /\ val_queue = << >>
  /\ total_produced = 0
  /\ total_consumed = 0
  /\ dropped_samples = 0
  /\ cleared_samples = 0
  /\ getter = [c \in Callers |-> "idle"]
  /\ reply = [c \in Callers |-> Closed]

\* condition.notify_all(): every waiting call becomes runnable
Notified == [c \in Callers |-> IF getter[c] = "blocked" THEN "notified" ELSE getter[c]]

\* Mutants of the operations below, each a slip the code could contain: the
\* test for a full deque one too late, a put that wakes nobody, does not count
\* its drop or turns the new sample away, a get from the wrong end, a shutdown
\* that wakes nobody.
IsFullLate == Len(queue) > MaxQueueSize

PutSampleSilently(sample) ==
  /\ queue' = Append(IF Len(queue) >= MaxQueueSize THEN Tail(queue) ELSE queue, sample)
  /\ dropped_samples' = IF Len(queue) >= MaxQueueSize THEN dropped_samples + 1 ELSE dropped_samples
  /\ total_produced' = total_produced + 1
  /\ UNCHANGED <<running, current_param_version, val_queue,
                 total_consumed, cleared_samples, calls>>

PutSampleUncounted(sample) ==
  /\ queue' = Append(IF Len(queue) >= MaxQueueSize THEN Tail(queue) ELSE queue, sample)
  /\ total_produced' = total_produced + 1
  /\ getter' = Notified
  /\ UNCHANGED <<running, current_param_version, val_queue, dropped_samples,
                 total_consumed, cleared_samples, reply>>

PutSampleRejecting(sample) ==
  /\ queue' = IF Len(queue) >= MaxQueueSize THEN queue ELSE Append(queue, sample)
  /\ dropped_samples' = IF Len(queue) >= MaxQueueSize THEN dropped_samples + 1 ELSE dropped_samples
  /\ total_produced' = total_produced + 1
  /\ getter' = Notified
  /\ UNCHANGED <<running, current_param_version, val_queue,
                 total_consumed, cleared_samples, reply>>

PopNewest(c) ==
  /\ queue # << >>
  /\ queue' = SubSeq(queue, 1, Len(queue) - 1)
  /\ total_consumed' = total_consumed + 1
  /\ reply' = [reply EXCEPT ![c] = queue[Len(queue)]]
  /\ getter' = [getter EXCEPT ![c] = "done"]

ShutdownSilently ==
  /\ running' = FALSE
  /\ UNCHANGED <<queue, current_param_version, val_queue, counters, calls>>

IsFull == Len(queue) >= MaxQueueSize

\* put_sample: a full queue loses its oldest sample to make room
PutSample(sample) ==
  /\ queue' = Append(IF IsFull THEN Tail(queue) ELSE queue, sample)
  /\ dropped_samples' = IF IsFull THEN dropped_samples + 1 ELSE dropped_samples
  /\ total_produced' = total_produced + 1
  /\ getter' = Notified
  /\ UNCHANGED <<running, current_param_version, val_queue,
                 total_consumed, cleared_samples, reply>>

\* get_sample from the lock on: pop, or report the closed queue, or wait
Pop(c) ==
  /\ queue # << >>
  /\ queue' = Tail(queue)
  /\ total_consumed' = total_consumed + 1
  /\ reply' = [reply EXCEPT ![c] = Head(queue)]
  /\ getter' = [getter EXCEPT ![c] = "done"]

ReturnClosed(c) ==
  /\ queue = << >> /\ ~running
  /\ reply' = [reply EXCEPT ![c] = Closed]
  /\ getter' = [getter EXCEPT ![c] = "done"]
  /\ UNCHANGED <<queue, total_consumed>>

Wait(c) ==
  /\ queue = << >> /\ running
  /\ getter' = [getter EXCEPT ![c] = "blocked"]
  /\ UNCHANGED <<queue, total_consumed, reply>>

GetSampleBody(c) ==
  /\ Pop(c) \/ ReturnClosed(c) \/ Wait(c)
  /\ UNCHANGED <<running, current_param_version, val_queue,
                 total_produced, dropped_samples, cleared_samples>>

GetSample(c) == getter[c] = "idle" /\ GetSampleBody(c)
Wake(c)      == getter[c] = "notified" /\ GetSampleBody(c)

\* the caller of get_sample receives the reply
Receive(c) ==
  /\ getter[c] = "done"
  /\ getter' = [getter EXCEPT ![c] = "idle"]
  /\ reply' = [reply EXCEPT ![c] = Closed]
  /\ UNCHANGED <<queue, running, current_param_version, val_queue, counters>>

UpdateParamVersion(version) ==
  /\ current_param_version' = version
  /\ UNCHANGED <<queue, running, val_queue, counters, calls>>

ClearQueue ==
  /\ queue' = << >>
  /\ cleared_samples' = cleared_samples + Len(queue)
  /\ UNCHANGED <<running, current_param_version, val_queue, total_produced,
                 total_consumed, dropped_samples, calls>>

Shutdown ==
  /\ running' = FALSE
  /\ getter' = Notified
  /\ UNCHANGED <<queue, current_param_version, val_queue, counters, reply>>

PutValidate(data) ==
  /\ val_queue' = Append(val_queue, data)
  /\ UNCHANGED <<queue, running, current_param_version, counters, calls>>

\* get_validate never waits: None is returned when there is nothing
GetValidate ==
  /\ val_queue' = IF val_queue = << >> THEN val_queue ELSE Tail(val_queue)
  /\ UNCHANGED <<queue, running, current_param_version, counters, calls>>

-----------------------------------------------------------------------------
(***************************************************************************)
(* The queue on its own: the producer numbers its samples 1, 2, 3, ... so  *)
(* that a sample's value says when it was put.  ParamVersions are the      *)
(* versions the synchronizer announces and the validation results carry.   *)
(***************************************************************************)
CONSTANTS
  MaxProduced,     \* bound: samples put
  MaxVal,          \* bound: validation results waiting
  ParamVersions    \* versions announced

ASSUME BoundsAssumption == MaxProduced \in Nat /\ MaxVal \in Nat

Produce == total_produced < MaxProduced /\ PutSample(total_produced + 1)

Announce(version) ==
  \/ UpdateParamVersion(version)
  \/ Len(val_queue) < MaxVal /\ PutValidate(version)

Next ==
  \/ Produce
  \/ \E c \in Callers : GetSample(c) \/ Wake(c) \/ Receive(c)
  \/ \E v \in ParamVersions : Announce(v)
  \/ GetValidate
  \/ ClearQueue
  \/ Shutdown

Spec == Init /\ [][Next]_vars

\* The actor's event loop runs every notified waiter in the end, and a caller
\* blocked in ray.get receives a reply that exists.
Fairness == \A c \in Callers : WF_vars(Wake(c)) /\ WF_vars(Receive(c))
FairSpec == Spec /\ Fairness

-----------------------------------------------------------------------------
Numbered == 1 .. MaxProduced

(***************************************************************************)
(* Types; the deque never exceeds max_queue_size, and only a call that has *)
(* finished holds a reply.                                                 *)
(***************************************************************************)
TypeOK ==
  /\ queue \in Seq(Nat)
  /\ Len(queue) <= MaxQueueSize
  /\ running \in BOOLEAN
  /\ current_param_version \in ParamVersions \cup {0}
  /\ val_queue \in Seq(ParamVersions)
  /\ total_produced \in Nat
  /\ total_consumed \in Nat
  /\ dropped_samples \in Nat
  /\ cleared_samples \in Nat
  /\ getter \in [Callers -> {"idle", "blocked", "notified", "done"}]
  /\ reply \in [Callers -> Nat \cup {Closed}]
  /\ \A c \in Callers : getter[c] # "done" => reply[c] = Closed

(***************************************************************************)
(* The queue always holds the newest samples, in the order they were put:  *)
(* whatever the mix of gets, drops and clears, nothing in it was put       *)
(* before something that has left it, and nothing is missing in between.   *)
(***************************************************************************)
HoldsTheNewest ==
  /\ Len(queue) <= total_produced
  /\ \A i \in 1 .. Len(queue) : queue[i] = total_produced - Len(queue) + i

(***************************************************************************)
(* Every sample put is accounted for once: delivered, dropped, cleared or  *)
(* still queued.  get_statistics reports these counters.                   *)
(***************************************************************************)
SamplesAreAccountedFor ==
  total_produced = total_consumed + dropped_samples + cleared_samples + Len(queue)

(***************************************************************************)
(* No lost wakeup: a call sleeps only while there is nothing to deliver    *)
(* and the queue is open; put_sample and shutdown leave nobody asleep.     *)
(***************************************************************************)
NoLostWakeup ==
  \A c \in Callers : getter[c] = "blocked" => queue = << >> /\ running

(***************************************************************************)
(* After shutdown every get_sample call that is waiting returns: nobody is *)
(* left on the condition.                                                  *)
(***************************************************************************)
ShutdownReleasesEveryone ==
  \A c \in Callers : ~running /\ getter[c] \in {"blocked", "notified"} ~> getter[c] = "done"

(***************************************************************************)
(* The abstract specification this queue implements: LatestWindow.         *)
(***************************************************************************)
Window == INSTANCE LatestWindow
            WITH Size <- MaxQueueSize, high <- total_produced,
                 low <- total_produced - Len(queue), open <- running, given <- reply

WindowSpec == Window!Spec
=============================================================================
