------------------------- MODULE MessageQueue_proofs -------------------------
(***************************************************************************)
(* Proofs about the sample queue, for every number of callers, queue size  *)
(* and stream of samples: the inductive invariant, and the refinement of   *)
(* LatestWindow.                                                           *)
(***************************************************************************)
EXTENDS MessageQueue, TLAPS

\* Lengths and elements of the queue after the three operations on it.
LEMMA AppendFacts ==
  ASSUME NEW s \in Seq(Nat), NEW x \in Nat
  PROVE  /\ Append(s, x) \in Seq(Nat)
         /\ Len(Append(s, x)) = Len(s) + 1
         /\ \A i \in 1 .. Len(s) : Append(s, x)[i] = s[i]
         /\ Append(s, x)[Len(s) + 1] = x
  OBVIOUS

LEMMA TailFacts ==
  ASSUME NEW s \in Seq(Nat), s # << >>
  PROVE  /\ Tail(s) \in Seq(Nat)
         /\ Len(s) >= 1
         /\ Len(Tail(s)) = Len(s) - 1
         /\ \A i \in 1 .. Len(s) - 1 : Tail(s)[i] = s[i + 1]
         /\ Head(s) = s[1]
  OBVIOUS

-----------------------------------------------------------------------------
IInv ==
  /\ TypeOK
  /\ HoldsTheNewest
  /\ SamplesAreAccountedFor
  /\ NoLostWakeup

LEMMA InitInv == Init => IInv
BY MaxQueueSizeAssumption
DEF Init, IInv, TypeOK, HoldsTheNewest, SamplesAreAccountedFor, NoLostWakeup

\* A put on a full queue shifts the window, a put on any other queue extends it.
LEMMA PutSampleInv ==
  ASSUME IInv, NEW sample \in Nat, sample = total_produced + 1, PutSample(sample)
  PROVE  IInv'
<1> USE MaxQueueSizeAssumption
<1>1. queue \in Seq(Nat) /\ Len(queue) \in Nat /\ Len(queue) <= MaxQueueSize
  BY DEF IInv, TypeOK
<1>2. CASE IsFull
  <2> DEFINE rest == Tail(queue)
  <2>1. queue # << >> /\ Len(queue) = MaxQueueSize
    BY <1>1, <1>2 DEF IsFull
  <2>2. /\ rest \in Seq(Nat) /\ Len(rest) = MaxQueueSize - 1
        /\ \A i \in 1 .. MaxQueueSize - 1 : rest[i] = queue[i + 1]
    BY <1>1, <2>1, TailFacts
  <2>3. queue' = Append(rest, sample)
    BY <1>2 DEF PutSample
  <2> HIDE DEF rest
  <2>4. /\ queue' \in Seq(Nat) /\ Len(queue') = MaxQueueSize
        /\ \A i \in 1 .. MaxQueueSize - 1 : queue'[i] = rest[i]
        /\ queue'[MaxQueueSize] = sample
    BY <2>2, <2>3, AppendFacts
  <2>5. HoldsTheNewest'
    <3>1. /\ total_produced \in Nat /\ total_produced' = total_produced + 1
          /\ MaxQueueSize <= total_produced
          /\ \A i \in 1 .. MaxQueueSize : queue[i] = total_produced - MaxQueueSize + i
      BY <2>1 DEF IInv, TypeOK, HoldsTheNewest, PutSample
    <3>2. ASSUME NEW i \in 1 .. MaxQueueSize
          PROVE  queue'[i] = total_produced' - MaxQueueSize + i
      <4>1. CASE i = MaxQueueSize
        BY <3>1, <4>1, <2>4
      <4>2. CASE i < MaxQueueSize
        <5>1. i \in 1 .. MaxQueueSize - 1 /\ i + 1 \in 1 .. MaxQueueSize
          BY <4>2
        <5>2. queue'[i] = queue[i + 1]
          BY <2>2, <2>4, <5>1
        <5>3. queue[i + 1] = total_produced - MaxQueueSize + (i + 1)
          BY <3>1, <5>1
        <5>4. QED
          BY <3>1, <5>2, <5>3
      <4>3. QED
        BY <4>1, <4>2
    <3>3. QED
      BY <2>4, <3>1, <3>2 DEF HoldsTheNewest
  <2>6. TypeOK'
    <3>1. dropped_samples' \in Nat /\ total_produced' \in Nat
      BY <1>2 DEF IInv, TypeOK, PutSample
    <3>2. QED
      BY <2>4, <3>1 DEF IInv, TypeOK, PutSample, Notified
  <2>7. SamplesAreAccountedFor'
    <3>1. /\ total_produced \in Nat /\ total_consumed \in Nat
          /\ dropped_samples \in Nat /\ cleared_samples \in Nat
          /\ total_produced = total_consumed + dropped_samples + cleared_samples + MaxQueueSize
      BY <2>1 DEF IInv, TypeOK, SamplesAreAccountedFor
    <3>2. /\ total_produced' = total_produced + 1 /\ dropped_samples' = dropped_samples + 1
          /\ UNCHANGED <<total_consumed, cleared_samples>>
      BY <1>2 DEF PutSample
    <3>3. QED
      BY <2>4, <3>1, <3>2 DEF SamplesAreAccountedFor
  <2>8. NoLostWakeup'
    BY DEF IInv, TypeOK, NoLostWakeup, PutSample, Notified
  <2>9. QED
    BY <2>5, <2>6, <2>7, <2>8 DEF IInv
<1>3. CASE ~IsFull
  <2>1. Len(queue) < MaxQueueSize
    BY <1>1, <1>3 DEF IsFull
  <2>2. queue' = Append(queue, sample)
    BY <1>3 DEF PutSample
  <2>3. /\ queue' \in Seq(Nat) /\ Len(queue') = Len(queue) + 1
        /\ \A i \in 1 .. Len(queue) : queue'[i] = queue[i]
        /\ queue'[Len(queue) + 1] = sample
    BY <1>1, <2>2, AppendFacts
  <2>4. HoldsTheNewest'
    <3>1. /\ total_produced \in Nat /\ total_produced' = total_produced + 1
          /\ Len(queue) <= total_produced
          /\ \A i \in 1 .. Len(queue) : queue[i] = total_produced - Len(queue) + i
      BY DEF IInv, TypeOK, HoldsTheNewest, PutSample
    <3>2. ASSUME NEW i \in 1 .. Len(queue')
          PROVE  queue'[i] = total_produced' - Len(queue') + i
      <4>1. CASE i = Len(queue')
        BY <1>1, <2>3, <3>1, <4>1
      <4>2. CASE i \in 1 .. Len(queue)
        BY <1>1, <2>3, <3>1, <4>2
      <4>3. QED
        BY <1>1, <2>3, <4>1, <4>2
    <3>3. QED
      BY <1>1, <2>3, <3>1, <3>2 DEF HoldsTheNewest
  <2>5. TypeOK'
    BY <1>1, <2>1, <2>3 DEF IInv, TypeOK, PutSample, Notified
  <2>6. SamplesAreAccountedFor'
    BY <1>1, <1>3, <2>3 DEF IInv, TypeOK, SamplesAreAccountedFor, PutSample
  <2>7. NoLostWakeup'
    BY DEF IInv, TypeOK, NoLostWakeup, PutSample, Notified
  <2>8. QED
    BY <2>4, <2>5, <2>6, <2>7 DEF IInv
<1>4. QED
  BY <1>2, <1>3

LEMMA GetSampleBodyInv ==
  ASSUME IInv, NEW c \in Callers, getter[c] # "done", GetSampleBody(c)
  PROVE  IInv'
<1>1. queue \in Seq(Nat) /\ Len(queue) \in Nat
  BY DEF IInv, TypeOK
<1>2. CASE Pop(c)
  <2>1. /\ queue # << >> /\ queue' = Tail(queue)
    BY <1>2 DEF Pop
  <2>2. /\ queue' \in Seq(Nat) /\ Len(queue) >= 1 /\ Len(queue') = Len(queue) - 1
        /\ \A i \in 1 .. Len(queue) - 1 : queue'[i] = queue[i + 1]
        /\ Head(queue) \in Nat
    BY <1>1, <2>1, TailFacts
  <2>3. HoldsTheNewest'
    <3>1. /\ total_produced \in Nat /\ total_produced' = total_produced
          /\ Len(queue) <= total_produced
          /\ \A i \in 1 .. Len(queue) : queue[i] = total_produced - Len(queue) + i
      BY DEF IInv, TypeOK, HoldsTheNewest, GetSampleBody
    <3>2. ASSUME NEW i \in 1 .. Len(queue) - 1
          PROVE  queue'[i] = total_produced - (Len(queue) - 1) + i
      <4>1. i + 1 \in 1 .. Len(queue)
        BY <1>1
      <4>2. queue'[i] = total_produced - Len(queue) + (i + 1)
        BY <2>2, <3>1, <4>1
      <4>3. QED
        BY <1>1, <3>1, <4>2
    <3>3. QED
      BY <1>1, <2>2, <3>1, <3>2 DEF HoldsTheNewest
  <2>4. TypeOK'
    BY <1>1, <1>2, <2>2, MaxQueueSizeAssumption DEF IInv, TypeOK, GetSampleBody, Pop
  <2>5. SamplesAreAccountedFor'
    BY <1>1, <1>2, <2>2 DEF IInv, TypeOK, SamplesAreAccountedFor, GetSampleBody, Pop
  <2>6. NoLostWakeup'
    BY <1>2, <2>1 DEF IInv, TypeOK, NoLostWakeup, GetSampleBody, Pop
  <2>7. QED
    BY <2>3, <2>4, <2>5, <2>6 DEF IInv
<1>3. CASE ReturnClosed(c)
  BY <1>3 DEF ReturnClosed, GetSampleBody, IInv, TypeOK, HoldsTheNewest,
              SamplesAreAccountedFor, NoLostWakeup
<1>4. CASE Wait(c)
  BY <1>4 DEF Wait, GetSampleBody, IInv, TypeOK, HoldsTheNewest,
              SamplesAreAccountedFor, NoLostWakeup
<1>5. QED
  BY <1>2, <1>3, <1>4 DEF GetSampleBody

LEMMA StepInv == IInv /\ [Next]_vars => IInv'
<1> SUFFICES ASSUME IInv, [Next]_vars PROVE IInv'
  OBVIOUS
<1> USE MaxQueueSizeAssumption
<1>1. CASE Produce
  <2>1. total_produced + 1 \in Nat
    BY DEF IInv, TypeOK
  <2>2. QED
    BY <1>1, <2>1, PutSampleInv DEF Produce
<1>2. ASSUME NEW c \in Callers, GetSample(c) \/ Wake(c)
      PROVE  IInv'
  BY <1>2, GetSampleBodyInv DEF GetSample, Wake
<1>3. ASSUME NEW c \in Callers, Receive(c)
      PROVE  IInv'
  BY <1>3 DEF Receive, counters, IInv, TypeOK, HoldsTheNewest,
              SamplesAreAccountedFor, NoLostWakeup
<1>4. ASSUME NEW v \in ParamVersions, Announce(v)
      PROVE  IInv'
  <2>1. UNCHANGED <<queue, running, counters, calls>>
    BY <1>4 DEF Announce, UpdateParamVersion, PutValidate
  <2>2. /\ current_param_version' \in ParamVersions \cup {0}
        /\ val_queue' \in Seq(ParamVersions)
    <3>1. CASE UpdateParamVersion(v)
      BY <3>1 DEF UpdateParamVersion, IInv, TypeOK
    <3>2. CASE PutValidate(v)
      BY <3>2 DEF PutValidate, IInv, TypeOK
    <3>3. QED
      BY <1>4, <3>1, <3>2 DEF Announce
  <2>3. TypeOK'
    BY <2>1, <2>2 DEF IInv, TypeOK, counters, calls
  <2>4. (HoldsTheNewest /\ SamplesAreAccountedFor /\ NoLostWakeup)'
    BY <2>1 DEF IInv, HoldsTheNewest, SamplesAreAccountedFor, NoLostWakeup, counters, calls
  <2>5. QED
    BY <2>3, <2>4 DEF IInv
<1>5. CASE GetValidate
  BY <1>5 DEF GetValidate, counters, calls, IInv, TypeOK, HoldsTheNewest,
              SamplesAreAccountedFor, NoLostWakeup
<1>6. CASE ClearQueue
  BY <1>6 DEF ClearQueue, calls, IInv, TypeOK, HoldsTheNewest,
              SamplesAreAccountedFor, NoLostWakeup
<1>7. CASE Shutdown
  BY <1>7 DEF Shutdown, Notified, counters, IInv, TypeOK, HoldsTheNewest,
              SamplesAreAccountedFor, NoLostWakeup
<1>8. CASE UNCHANGED vars
  BY <1>8 DEF vars, counters, calls, IInv, TypeOK, HoldsTheNewest,
              SamplesAreAccountedFor, NoLostWakeup
<1>9. QED
  BY <1>1, <1>2, <1>3, <1>4, <1>5, <1>6, <1>7, <1>8 DEF Next

(***************************************************************************)
(* The invariants of message_queue.py in every behaviour: the deque stays  *)
(* within max_queue_size and holds the newest samples in order, the        *)
(* counters account for every sample, and nobody sleeps beside a sample.   *)
(***************************************************************************)
THEOREM QueueSafety ==
  Spec => [](TypeOK /\ HoldsTheNewest /\ SamplesAreAccountedFor /\ NoLostWakeup)
<1>1. IInv => TypeOK /\ HoldsTheNewest /\ SamplesAreAccountedFor /\ NoLostWakeup
  BY DEF IInv
<1>2. QED
  BY <1>1, InitInv, StepInv, PTL DEF Spec

(***************************************************************************)
(* The counters account for every sample that was put: it is in the deque, *)
(* consumed, dropped on overflow or cleared.                               *)
(***************************************************************************)
THEOREM SamplesAccounted == Spec => []SamplesAreAccountedFor
<1>1. QED
  BY QueueSafety, PTL

(***************************************************************************)
(* No get_sample stays asleep on the condition beside a sample it could    *)
(* take, however puts, gets, clears and a shutdown interleave.             *)
(***************************************************************************)
THEOREM WakeupsReachCallers == Spec => []NoLostWakeup
<1>1. QED
  BY QueueSafety, PTL

-----------------------------------------------------------------------------
(***************************************************************************)
(* Refinement: low is where the deque starts in the stream of samples.     *)
(***************************************************************************)
LEMMA WindowInit == Init => Window!Init
<1> SUFFICES ASSUME Init PROVE Window!Init
  OBVIOUS
<1>1. queue = << >> /\ total_produced = 0
  BY DEF Init
<1>2. Len(queue) = 0
  BY <1>1
<1>3. total_produced - Len(queue) = 0
  <2>1. \A m, n \in Int : m = 0 /\ n = 0 => m - n = 0
    OBVIOUS
  <2>2. total_produced \in Int /\ Len(queue) \in Int
    BY <1>1, <1>2
  <2>3. QED
    BY <1>1, <1>2, <2>1, <2>2, Zenon
<1>4. QED
  BY <1>3 DEF Init, Window!Init

LEMMA WindowPut ==
  ASSUME IInv, IInv', NEW sample \in Nat, PutSample(sample)
  PROVE  Window!Arrive
<1> USE MaxQueueSizeAssumption
<1>1. /\ queue \in Seq(Nat) /\ Len(queue) \in Nat /\ Len(queue) <= MaxQueueSize
      /\ total_produced \in Nat /\ Len(queue) <= total_produced
  BY DEF IInv, TypeOK, HoldsTheNewest
<1>2. /\ total_produced' = total_produced + 1 /\ UNCHANGED <<running, reply>>
  BY DEF PutSample
<1>3. Len(queue') = IF Len(queue) = MaxQueueSize THEN MaxQueueSize ELSE Len(queue) + 1
  <2>1. CASE IsFull
    <3>1. Tail(queue) \in Seq(Nat) /\ Len(Tail(queue)) = MaxQueueSize - 1
      BY <1>1, <2>1, TailFacts DEF IsFull
    <3>2. queue' = Append(Tail(queue), sample)
      BY <2>1 DEF PutSample
    <3>3. QED
      BY <1>1, <2>1, <3>1, <3>2, AppendFacts DEF IsFull
  <2>2. CASE ~IsFull
    BY <1>1, <2>2, AppendFacts DEF IsFull, PutSample
  <2>3. QED
    BY <2>1, <2>2
<1>4. QED
  BY <1>1, <1>2, <1>3 DEF Window!Arrive

LEMMA WindowGet ==
  ASSUME IInv, NEW c \in Callers, getter[c] # "done", GetSampleBody(c)
  PROVE  Window!Give(c) \/ UNCHANGED Window!vars
<1>1. /\ queue \in Seq(Nat) /\ Len(queue) \in Nat /\ total_produced \in Nat
      /\ Len(queue) <= total_produced /\ reply \in [Callers -> Nat \cup {Closed}]
      /\ reply[c] = Closed
  BY DEF IInv, TypeOK, HoldsTheNewest
<1>2. CASE Pop(c)
  <2>1. /\ queue # << >> /\ queue' = Tail(queue)
        /\ reply' = [reply EXCEPT ![c] = Head(queue)]
        /\ UNCHANGED <<total_produced, running>>
    BY <1>2 DEF Pop, GetSampleBody
  <2>2. /\ Len(queue) >= 1 /\ Len(queue') = Len(queue) - 1
        /\ Head(queue) = queue[1]
    BY <1>1, <2>1, TailFacts
  <2>3. queue[1] = total_produced - Len(queue) + 1
    BY <1>1, <2>2 DEF IInv, HoldsTheNewest
  <2>4. /\ total_produced - Len(queue) < total_produced
        /\ total_produced' - Len(queue') = total_produced - Len(queue) + 1
        /\ Head(queue) = total_produced' - Len(queue')
    BY <1>1, <2>1, <2>2, <2>3
  <2>5. QED
    BY <1>1, <2>1, <2>4 DEF Window!Give
<1>3. CASE ReturnClosed(c)
  BY <1>1, <1>3 DEF ReturnClosed, GetSampleBody, Window!vars
<1>4. CASE Wait(c)
  BY <1>4 DEF Wait, GetSampleBody, Window!vars
<1>5. QED
  BY <1>2, <1>3, <1>4 DEF GetSampleBody

LEMMA WindowStep == IInv /\ IInv' /\ [Next]_vars => [Window!Next]_(Window!vars)
<1> SUFFICES ASSUME IInv, IInv', [Next]_vars PROVE [Window!Next]_(Window!vars)
  OBVIOUS
<1>1. CASE Produce
  <2>1. total_produced + 1 \in Nat
    BY DEF IInv, TypeOK
  <2>2. QED
    BY <1>1, <2>1, WindowPut DEF Produce, Window!Next
<1>2. ASSUME NEW c \in Callers, GetSample(c) \/ Wake(c)
      PROVE  [Window!Next]_(Window!vars)
  BY <1>2, WindowGet DEF GetSample, Wake, Window!Next
<1>3. ASSUME NEW c \in Callers, Receive(c)
      PROVE  Window!PutAway(c)
  BY <1>3 DEF Receive, counters, Window!PutAway
<1>4. ASSUME NEW v \in ParamVersions, Announce(v)
      PROVE  UNCHANGED Window!vars
  BY <1>4 DEF Announce, UpdateParamVersion, PutValidate, counters, calls, Window!vars
<1>5. CASE GetValidate
  BY <1>5 DEF GetValidate, counters, calls, Window!vars
<1>6. CASE ClearQueue
  <2>1. Len(queue') = 0 /\ total_produced \in Nat
    BY <1>6 DEF ClearQueue, IInv, TypeOK
  <2>2. QED
    BY <1>6, <2>1 DEF ClearQueue, calls, Window!Next, Window!Discard
<1>7. CASE Shutdown
  BY <1>7 DEF Shutdown, counters, Window!Next, Window!Close
<1>8. CASE UNCHANGED vars
  BY <1>8 DEF vars, counters, calls, Window!vars
<1>9. QED
  BY <1>1, <1>2, <1>3, <1>4, <1>5, <1>6, <1>7, <1>8 DEF Next, Window!Next

(***************************************************************************)
(* MessageQueue implements LatestWindow: every get delivers the oldest     *)
(* sample still obtainable, once, and only a full queue loses samples.     *)
(***************************************************************************)
THEOREM QueueImplementsWindow == Spec => WindowSpec
<1>1. Spec => []IInv
  BY InitInv, StepInv, PTL DEF Spec
<1>2. QED
  BY <1>1, WindowInit, WindowStep, PTL DEF Spec, WindowSpec, Window!Spec
=============================================================================
