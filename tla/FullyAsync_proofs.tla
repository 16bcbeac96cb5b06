------------------------- MODULE FullyAsync_proofs --------------------------
(***************************************************************************)
(* Proofs about fully asynchronous training, for every batch size, sync    *)
(* interval, staleness threshold and number of servers, with and without   *)
(* partial rollout:                                                        *)
(*                                                                         *)
(*   PausedMeansIdle   pause() returns with no generation left running     *)
(*   VersionAgreement  the four copies of the parameter version agree up   *)
(*                     to the one update that is under way                 *)
(*   Types             the queues stay within their sizes                  *)
(*   NeverTwice        a sample is in one place at a time                  *)
(*   LossesCounted     samples are lost only where a counter says so       *)
(*   SentinelLast      nothing follows the None sample that ends training  *)
(*   StalenessBounded  at most max_required_samples + 1 samples are        *)
(*                     generated and not yet fetched                       *)
(*   OnPolicyTraining  with staleness_threshold 0 every sample is trained  *)
(*                     by the version that generated it                    *)
(*   ImplementsTraining                                                    *)
(*                     all of it implements VersionedTraining              *)
(*                                                                         *)
(* None of them is inductive.  The first rests on the mutual exclusion of  *)
(* self.lock (LockInv): from its first await to its last, pause() holds    *)
(* the lock, so nobody submits a task behind its back.  The second rests   *)
(* on the hand-over between trainer, synchronizer and Rollouter (PhaseInv):*)
(* which of the three is at work determines by how much each copy lags.    *)
(* The next three count: every place of the system holds a number of       *)
(* samples of a given set, every step moves samples from one place to      *)
(* another (the lemmas named ...Moves), and so the sum over the places of  *)
(* one sample never exceeds one (PlaceInv) and decreases only with a       *)
(* counter (LossInv).                                                      *)
(*                                                                         *)
(* staleness_samples is only an estimate: update_param_version recomputes  *)
(* it from queues that change while it waits for get_queue_size.  LoadInv  *)
(* says that the estimate is never too small by more than the samples in   *)
(* the processor's and the consumer's hands, and what each partial sum     *)
(* already covers.  For                                                    *)
(* threshold 0 the estimate decides who may start: EpochInv ties it to the *)
(* samples trained on since the last synchronization, so that the last     *)
(* step of an epoch finds every queue empty and no sample survives the     *)
(* change of version.                                                      *)
(*                                                                         *)
(* The refinement needs no further count: PlaceInv makes a full batch a    *)
(* set of required_samples samples none of which was trained on, StampInv  *)
(* says that each was begun, PhaseInv by how much the versions differ.     *)
(***************************************************************************)
EXTENDS FullyAsync, FiniteSetTheorems, TLAPS

\* where pause, update_param_version and resume are between two awaits that
\* are made inside "async with self.lock"
RpcHolding == {"pause_cancel", "pause_gather", "pause_reset",
               "update_size", "update_set", "update_validate", "resume_servers"}

LockInv ==
  /\ DOMAIN pc = Coroutines
  /\ pc["rpc"] \in RpcHolding => lock = "rpc"
  /\ pc["proc"] = "drain_wait" => lock = "proc"

PauseInv == LockInv /\ PauseLeavesNoTask

Pausing  == {"pause", "pause_cancel", "pause_gather", "pause_reset", "pause_returned"}
Resuming == {"update_size", "update_set", "update_validate", "resume",
             "resume_servers", "idle"}

PhaseInv ==
  /\ DOMAIN pc = Coroutines
  /\ {current_param_version, mq_version, sync_version, trainer_version} \subseteq Nat
  /\ trainer_version = IF trainer = "wait_last" THEN sync_version + 1 ELSE sync_version
  /\ sync # "idle" => trainer = "sync"
  /\ \/ /\ sync = "pause" /\ pc["rpc"] = "idle"
        /\ mq_version = current_param_version /\ sync_version = current_param_version + 1
     \/ /\ sync = "pausing" /\ pc["rpc"] \in Pausing
        /\ mq_version = current_param_version /\ sync_version = current_param_version + 1
     \/ /\ sync = "weights" /\ pc["rpc"] = "pause_returned"
        /\ mq_version = sync_version /\ sync_version = current_param_version + 1
     \/ /\ sync = "idle" /\ pc["rpc"] = "update"
        /\ mq_version = sync_version /\ sync_version = current_param_version + 1
     \/ /\ sync = "idle" /\ pc["rpc"] \in Resuming
        /\ mq_version = sync_version /\ sync_version = current_param_version

-----------------------------------------------------------------------------
(* The lock, and what pause() leaves behind *)

LEMMA InitPause == Init => PauseInv
BY DEF Init, RollouterInit, PauseInv, LockInv, PauseLeavesNoTask, RpcHolding, Coroutines

\* a coroutine that acquires the lock finds it free, so nobody is inside
LEMMA FreeLock ==
  ASSUME LockInv, lock = NoOne
  PROVE  pc["rpc"] \notin RpcHolding /\ pc["proc"] # "drain_wait"
BY RollouterAssumption DEF LockInv

LEMMA ProcessingPause ==
  ASSUME PauseInv, Processing
  PROVE  PauseInv'
<1> USE DEF PauseInv, LockInv, PauseLeavesNoTask, Coroutines, RpcHolding, Goto,
            sched, flags, tasks, feeding, counts, locals, mqvars, NoLocking
<1>1. CASE ProcLoop
  BY <1>1 DEF ProcLoop
<1>2. CASE ProcSetPaused
  BY <1>2, FreeLock DEF ProcSetPaused, Locked, CanLock
<1>3. CASE ProcGet
  BY <1>3 DEF ProcGet
<1>4. CASE ProcGetWaits
  BY <1>4 DEF ProcGetWaits
<1>5. CASE ProcDrain
  BY <1>5 DEF ProcDrain, AfterDrain
<1>6. CASE ProcDrainLock
  BY <1>6, FreeLock DEF ProcDrainLock, Locked, Locks, CanLock
<1>7. CASE ProcDrainWait
  BY <1>7 DEF ProcDrainWait, Unlocked
<1>8. CASE ProcIdle
  BY <1>8, FreeLock DEF ProcIdle, Locked, CanLock
<1>9. CASE ProcSubmit
  BY <1>9, FreeLock DEF ProcSubmit, Locked, CanLock
<1>10. CASE AwaitLock("proc")
  BY <1>10 DEF AwaitLock
<1>11. QED
  BY <1>1, <1>2, <1>3, <1>4, <1>5, <1>6, <1>7, <1>8, <1>9, <1>10 DEF Processing

LEMMA GeneratingPause ==
  ASSUME PauseInv, Generating
  PROVE  PauseInv'
<1> USE DEF PauseInv, LockInv, PauseLeavesNoTask, sched
<1>1. PICK i \in DOMAIN active_tasks : TaskStart(i) \/ TaskFinish(i) \/ TaskCancel(i) \/ TaskFail(i)
  BY DEF Generating
<1>2. UNCHANGED <<pc, lock>>
  BY <1>1 DEF TaskStart, TaskFinish, TaskCancel, TaskFail
<1>3. active_tasks # << >>
  BY <1>1
<1>4. QED
  BY <1>2, <1>3

LEMMA OthersPause ==
  ASSUME PauseInv, Feeding \/ Consuming \/ Finishing \/ Monitoring
  PROVE  PauseInv'
<1> USE DEF PauseInv, LockInv, PauseLeavesNoTask, Coroutines, RpcHolding, Goto,
            sched, flags, tasks, feeding, counts, locals, mqvars, NoLocking
<1>1. CASE Feeding
  BY <1>1 DEF Feeding, FeedSample, FeedDone
<1>2. CASE Consuming
  BY <1>2 DEF Consuming, ConsGet, ConsPut, ConsAck
<1>3. CASE Finishing
  <2>1. CASE MainFed \/ MainProcessed \/ MainSentinel
    BY <2>1 DEF MainFed, MainProcessed, MainSentinel
  <2>2. CASE MainCancel
    BY <2>2 DEF MainCancel
  <2>3. CASE MainStop
    BY <2>3, FreeLock DEF MainStop, Locked, CanLock
  <2>4. CASE AwaitLock("main")
    BY <2>4 DEF AwaitLock
  <2>5. QED
    BY <1>3, <2>1, <2>2, <2>3, <2>4 DEF Finishing
<1>4. CASE Monitoring
  <2>1. CASE MonTop
    BY <2>1, FreeLock DEF MonTop, Locked, CanLock
  <2>2. CASE MonCheck
    BY <2>2 DEF MonCheck
  <2>3. CASE MonUnpause
    BY <2>3, FreeLock DEF MonUnpause, Locked, CanLock, Awake
  <2>4. CASE AwaitLock("mon")
    BY <2>4 DEF AwaitLock
  <2>5. QED
    BY <1>4, <2>1, <2>2, <2>3, <2>4 DEF Monitoring
<1>5. QED
  BY <1>1, <1>2, <1>3, <1>4

\* the calls of the synchronizer: the lock is theirs from the first await to
\* the last, so "pause_reset" is reached with active_tasks empty and stays so
LEMMA ServingPause ==
  ASSUME PauseInv, NEW v, Serving(v)
  PROVE  PauseInv'
<1> USE DEF PauseInv, LockInv, PauseLeavesNoTask, Coroutines, RpcHolding, Goto,
            sched, flags, tasks, feeding, counts, locals, mqvars, NoLocking
<1>1. CASE PauseBegin
  BY <1>1, FreeLock DEF PauseBegin, Locks, CanLock, AfterCancel
<1>2. CASE PauseCancel
  BY <1>2 DEF PauseCancel, AfterCancel
<1>3. CASE PauseGather
  BY <1>3 DEF PauseGather
<1>4. CASE PauseEnd
  BY <1>4 DEF PauseEnd, Unlocked
<1>5. CASE UpdateBegin(v)
  BY <1>5, FreeLock DEF UpdateBegin, Locks, CanLock
<1>6. CASE UpdateQueueSize
  BY <1>6 DEF UpdateQueueSize
<1>7. CASE UpdateSet
  BY <1>7 DEF UpdateSet
<1>8. CASE UpdateEnd
  BY <1>8 DEF UpdateEnd, Unlocked
<1>9. CASE ResumeBegin
  BY <1>9, FreeLock DEF ResumeBegin, CanLock, Awake
<1>10. CASE ResumeEnd
  BY <1>10 DEF ResumeEnd, Unlocked
<1>11. CASE AwaitLock("rpc")
  BY <1>11 DEF AwaitLock
<1>12. QED
  BY <1>1, <1>2, <1>3, <1>4, <1>5, <1>6, <1>7, <1>8, <1>9, <1>10, <1>11 DEF Serving

LEMMA TrainingPause ==
  ASSUME PauseInv, Trainer \/ Sync
  PROVE  PauseInv'
<1> USE DEF PauseInv, LockInv, PauseLeavesNoTask, Coroutines, RpcHolding, Goto,
            sched, tasks, UnchangedRollouter
<1>1. CASE Trainer
  BY <1>1 DEF Trainer, TrainerGet, TrainerReceive, TrainerStep, TrainerValidation, TrainerFinal,
              TrainerWaitLast, TrainerFinalWait
<1>2. CASE Sync
  BY <1>2 DEF Sync, SyncPause, SyncVersion, SyncWeights
<1>3. QED
  BY <1>1, <1>2

LEMMA PauseStep ==
  ASSUME PauseInv, [Next]_vars
  PROVE  PauseInv'
<1>1. CASE Next
  BY <1>1, ProcessingPause, GeneratingPause, OthersPause, ServingPause, TrainingPause DEF Next
<1>2. CASE UNCHANGED vars
  BY <1>2 DEF vars, rollouter_vars, sched, tasks, PauseInv, LockInv, PauseLeavesNoTask
<1>3. QED
  BY <1>1, <1>2

(***************************************************************************)
(* No interleaving leaves pause() with a task running: the submission, the *)
(* drain of the processor, the monitor and pause() itself exclude one      *)
(* another by self.lock.                                                   *)
(***************************************************************************)
THEOREM PausedMeansIdle == Spec => []PauseLeavesNoTask
<1>1. PauseInv => PauseLeavesNoTask
  BY DEF PauseInv
<1>2. QED
  BY InitPause, PauseStep, <1>1, PTL DEF Spec

-----------------------------------------------------------------------------
(* The parameter version *)

\* the other coroutines touch no version and no call of the synchronizer
Elsewhere ==
  /\ DOMAIN pc' = Coroutines
  /\ pc'["rpc"] = pc["rpc"]
  /\ UNCHANGED <<current_param_version, mq_version>>

LEMMA ProcessingElsewhere ==
  ASSUME DOMAIN pc = Coroutines, Processing
  PROVE  Elsewhere
BY DEF Elsewhere, Coroutines, Goto, Processing, ProcLoop, ProcSetPaused, ProcGet, ProcGetWaits,
       ProcDrain, ProcDrainLock, ProcDrainWait, ProcIdle, ProcSubmit, AwaitLock, counts, mqvars

LEMMA OthersElsewhere ==
  ASSUME DOMAIN pc = Coroutines,
         Feeding \/ Generating \/ Consuming \/ Finishing \/ Monitoring
  PROVE  Elsewhere
<1> USE DEF Elsewhere, Coroutines, Goto, sched, counts, mqvars
<1>1. CASE Feeding
  BY <1>1 DEF Feeding, FeedSample, FeedDone
<1>2. CASE Generating
  BY <1>2 DEF Generating, TaskStart, TaskFinish, TaskCancel, TaskFail
<1>3. CASE Consuming
  BY <1>3 DEF Consuming, ConsGet, ConsPut, ConsAck, MQ!PutSample
<1>4. CASE Finishing
  BY <1>4 DEF Finishing, MainFed, MainProcessed, MainCancel, MainSentinel, MainStop, AwaitLock,
              MQ!PutSample
<1>5. CASE Monitoring
  BY <1>5 DEF Monitoring, MonTop, MonCheck, MonUnpause, AwaitLock, Awake
<1>6. QED
  BY <1>1, <1>2, <1>3, <1>4, <1>5

LEMMA InitPhase == Init => PhaseInv
BY DEF Init, RollouterInit, MQ!Init, PhaseInv, Resuming, Coroutines

LEMMA ElsewherePhase ==
  ASSUME PhaseInv, Elsewhere, UNCHANGED trainer_vars
  PROVE  PhaseInv'
BY DEF PhaseInv, Elsewhere, Pausing, Resuming, trainer_vars

\* only UpdateBegin touches a version, and it runs after sync_weights has ended
LEMMA ServingPhase ==
  ASSUME PhaseInv, Serving(sync_version), UNCHANGED trainer_vars
  PROVE  PhaseInv'
<1> USE DEF PhaseInv, Pausing, Resuming, Coroutines, Goto, counts, mqvars, trainer_vars
<1>1. CASE PauseBegin
  BY <1>1 DEF PauseBegin, AfterCancel
<1>2. CASE PauseCancel
  BY <1>2 DEF PauseCancel, AfterCancel
<1>3. CASE PauseGather
  BY <1>3 DEF PauseGather
<1>4. CASE PauseEnd
  BY <1>4 DEF PauseEnd
<1>5. CASE UpdateBegin(sync_version)
  BY <1>5 DEF UpdateBegin
<1>6. CASE UpdateQueueSize
  BY <1>6 DEF UpdateQueueSize
<1>7. CASE UpdateSet
  BY <1>7 DEF UpdateSet
<1>8. CASE UpdateEnd
  BY <1>8 DEF UpdateEnd, MQ!PutValidate
<1>9. CASE ResumeBegin
  BY <1>9 DEF ResumeBegin, Awake
<1>10. CASE ResumeEnd
  BY <1>10 DEF ResumeEnd
<1>11. CASE AwaitLock("rpc")
  BY <1>11 DEF AwaitLock
<1>12. QED
  BY <1>1, <1>2, <1>3, <1>4, <1>5, <1>6, <1>7, <1>8, <1>9, <1>10, <1>11 DEF Serving

\* the trainer moves its own version on, and hands it over only when the
\* previous update has ended
LEMMA TrainerPhase ==
  ASSUME PhaseInv, Trainer
  PROVE  PhaseInv'
<1> USE DEF PhaseInv, UnchangedRollouter, sched, counts, mqvars, trainer_vars
<1>1. CASE TrainerGet
  BY <1>1 DEF TrainerGet, MQ!GetSample, MQ!Wake, MQ!GetSampleBody
<1>2. CASE TrainerReceive
  BY <1>2 DEF TrainerReceive, MQ!Receive
<1>3. CASE TrainerStep
  BY <1>3 DEF TrainerStep
<1>4. CASE TrainerValidation
  BY <1>4 DEF TrainerValidation, GetValidationResult, MQ!GetValidate
<1>5. CASE TrainerFinal
  BY <1>5 DEF TrainerFinal
<1>6. CASE TrainerWaitLast
  BY <1>6 DEF TrainerWaitLast, Pausing, Resuming
<1>7. CASE TrainerFinalWait
  BY <1>7 DEF TrainerFinalWait, GetValidationResult, MQ!GetValidate
<1>8. QED
  BY <1>1, <1>2, <1>3, <1>4, <1>5, <1>6, <1>7 DEF Trainer

LEMMA SyncPhase ==
  ASSUME PhaseInv, Sync
  PROVE  PhaseInv'
<1> USE DEF PhaseInv, UnchangedRollouter, Pausing, Resuming, Coroutines, Goto, sched, counts, mqvars
<1>1. CASE SyncPause
  BY <1>1 DEF SyncPause
<1>2. CASE SyncVersion
  BY <1>2 DEF SyncVersion, MQ!UpdateParamVersion
<1>3. CASE SyncWeights
  BY <1>3 DEF SyncWeights
<1>4. QED
  BY <1>1, <1>2, <1>3 DEF Sync

LEMMA PhaseStep ==
  ASSUME PhaseInv, [Next]_vars
  PROVE  PhaseInv'
<1>1. CASE Next
  <2>1. DOMAIN pc = Coroutines
    BY DEF PhaseInv
  <2>2. QED
    BY <1>1, <2>1, ProcessingElsewhere, OthersElsewhere, ElsewherePhase, ServingPhase,
       TrainerPhase, SyncPhase DEF Next
<1>2. CASE UNCHANGED vars
  BY <1>2 DEF vars, rollouter_vars, trainer_vars, sched, counts, mqvars, PhaseInv
<1>3. QED
  BY <1>1, <1>2

(***************************************************************************)
(* Trainer, synchronizer, message queue and Rollouter never disagree about *)
(* the parameter version by more than the update that is under way.        *)
(***************************************************************************)
THEOREM VersionAgreement == Spec => []VersionsInStep
<1>1. PhaseInv => VersionsInStep
  BY DEF PhaseInv, VersionsInStep
<1>2. QED
  BY InitPhase, PhaseStep, <1>1, PTL DEF Spec

-----------------------------------------------------------------------------
(* Counting the elements of a sequence *)

\* a Boolean as a number, and the positions of a sequence that hold a member of S
One(b) == IF b THEN 1 ELSE 0
At(S, seq) == Cardinality({i \in DOMAIN seq : seq[i] \in S})

LEMMA Interval == \A n \in Nat : IsFiniteSet(1 .. n) /\ Cardinality(1 .. n) = n
<1>1. SUFFICES ASSUME NEW n \in Nat PROVE IsFiniteSet(1 .. n) /\ Cardinality(1 .. n) = n
  OBVIOUS
<1>2. IsFiniteSet(1 .. n) /\ Cardinality(1 .. n) = IF 1 > n THEN 0 ELSE n - 1 + 1
  BY FS_Interval
<1>3. QED
  BY <1>2

LEMMA AtType ==
  ASSUME NEW T, NEW seq \in Seq(T), NEW S
  PROVE  /\ IsFiniteSet({i \in DOMAIN seq : seq[i] \in S})
         /\ At(S, seq) \in Nat /\ At(S, seq) <= Len(seq)
<1>1. IsFiniteSet(1 .. Len(seq)) /\ Cardinality(1 .. Len(seq)) = Len(seq)
  BY Interval
<1>2. {i \in DOMAIN seq : seq[i] \in S} \in SUBSET (1 .. Len(seq))
  OBVIOUS
<1>3. QED
  BY <1>1, <1>2, FS_Subset, FS_CardinalityType DEF At

LEMMA AtNone ==
  ASSUME NEW T, NEW seq \in Seq(T), NEW S
  PROVE  At(S, seq) = 0 <=> \A i \in DOMAIN seq : seq[i] \notin S
<1> DEFINE P == {i \in DOMAIN seq : seq[i] \in S}
<1>1. IsFiniteSet(P)
  BY AtType
<1>2. Cardinality(P) = 0 <=> P = {}
  <2> HIDE DEF P
  <2>1. QED
    BY <1>1, FS_EmptySet
<1>3. QED
  BY <1>2 DEF At

LEMMA AtAll ==
  ASSUME NEW T, NEW seq \in Seq(T), NEW S, \A i \in DOMAIN seq : seq[i] \in S
  PROVE  At(S, seq) = Len(seq)
<1>1. {i \in DOMAIN seq : seq[i] \in S} = 1 .. Len(seq)
  OBVIOUS
<1>2. Len(seq) \in Nat
  OBVIOUS
<1>3. QED
  BY <1>1, <1>2, Interval DEF At

LEMMA AtSubset ==
  ASSUME NEW T, NEW seq \in Seq(T), NEW S, NEW R, R \subseteq S
  PROVE  At(R, seq) <= At(S, seq)
<1> DEFINE P == {i \in DOMAIN seq : seq[i] \in S}
           Q == {i \in DOMAIN seq : seq[i] \in R}
<1>1. Q \in SUBSET P
  OBVIOUS
<1>2. IsFiniteSet(P)
  BY AtType
<1>3. Cardinality(Q) <= Cardinality(P)
  <2> HIDE DEF P, Q
  <2>1. QED
    BY <1>1, <1>2, FS_Subset
<1>4. QED
  BY <1>3 DEF At

LEMMA AtAppend ==
  ASSUME NEW T, NEW seq \in Seq(T), NEW x \in T, NEW S
  PROVE  At(S, Append(seq, x)) = At(S, seq) + One(x \in S)
<1> DEFINE P == {i \in DOMAIN seq : seq[i] \in S}
           Q == {i \in DOMAIN Append(seq, x) : Append(seq, x)[i] \in S}
           n == Len(seq) + 1
<1>0. At(S, seq) \in Nat
  BY AtType
<1>1. IsFiniteSet(P) /\ n \notin P
  BY AtType
<1>2. CASE x \in S
  <2>1. Q = P \cup {n}
    BY <1>2
  <2>2. QED
    BY <1>1, <1>2, <2>1, FS_AddElement, AtType DEF At, One
<1>3. CASE x \notin S
  <2>1. Q = P
    BY <1>3
  <2>2. At(S, Append(seq, x)) = At(S, seq)
    BY <2>1 DEF At
  <2>3. QED
    BY <1>3, <2>2, <1>0 DEF One
<1>4. QED
  BY <1>2, <1>3

\* a sequence of the elements of another one, each taken once
LEMMA AtReorder ==
  ASSUME NEW T, NEW seq \in Seq(T), NEW S, NEW I \in SUBSET DOMAIN seq,
         NEW n \in Nat, NEW order \in Bijection(1 .. n, I),
         \A i \in DOMAIN seq : seq[i] \in S => i \in I
  PROVE  At(S, [k \in 1 .. n |-> seq[order[k]]]) = At(S, seq)
<1> DEFINE new == [k \in 1 .. n |-> seq[order[k]]]
           P == {i \in DOMAIN seq : seq[i] \in S}
           Q == {k \in DOMAIN new : new[k] \in S}
           f == [k \in Q |-> order[k]]
<1>1. /\ order \in [1 .. n -> I] /\ (\A k, m \in 1 .. n : order[k] = order[m] => k = m)
      /\ \A i \in I : \E k \in 1 .. n : order[k] = i
  BY DEF Bijection, Injection, Surjection, IsInjective
<1>2. f \in [Q -> P] /\ \A k, m \in Q : f[k] = f[m] => k = m
  BY <1>1
<1>3. \A i \in P : \E k \in Q : f[k] = i
  BY <1>1
<1>4. f \in Bijection(Q, P)
  BY <1>2, <1>3 DEF Bijection, Injection, Surjection, IsInjective
<1>5. ExistsBijection(Q, P)
  BY <1>4 DEF ExistsBijection
<1>6. IsFiniteSet(Q)
  <2>1. Q \in SUBSET (1 .. n)
    OBVIOUS
  <2>2. QED
    BY <2>1, Interval, FS_Subset
<1>7. Cardinality(P) = Cardinality(Q)
  BY <1>5, <1>6, FS_Bijection
<1>8. QED
  BY <1>7 DEF At

LEMMA AtReplace ==
  ASSUME NEW T, NEW seq \in Seq(T), NEW j \in DOMAIN seq, NEW y \in T, NEW S
  PROVE  At(S, [seq EXCEPT ![j] = y]) = At(S, seq) - One(seq[j] \in S) + One(y \in S)
<1> DEFINE P == {i \in DOMAIN seq : seq[i] \in S}
           Q == {i \in DOMAIN seq : [seq EXCEPT ![j] = y][i] \in S}
           R == P \ {j}
<1>1. IsFiniteSet(P)
  BY AtType
<1>2. IsFiniteSet(R) /\ Cardinality(R) = Cardinality(P) - One(seq[j] \in S) /\ Cardinality(P) \in Nat
  <2>1. j \in P <=> seq[j] \in S
    OBVIOUS
  <2> HIDE DEF P
  <2>2. IsFiniteSet(P \ {j}) /\ Cardinality(P) \in Nat
        /\ Cardinality(P \ {j}) = IF j \in P THEN Cardinality(P) - 1 ELSE Cardinality(P)
    BY <1>1, FS_RemoveElement, FS_CardinalityType
  <2>3. QED
    BY <2>1, <2>2 DEF One
<1>3. CASE y \in S
  <2>1. Q = R \cup {j} /\ j \notin R
    BY <1>3
  <2>2. QED
    BY <1>2, <1>3, <2>1, FS_AddElement, FS_CardinalityType DEF At, One
<1>4. CASE y \notin S
  <2>1. Q = R
    BY <1>4
  <2>2. Cardinality(Q) = Cardinality(P) - One(seq[j] \in S) + 0
    <3> HIDE DEF P, Q, R
    <3>1. QED
      BY <1>2, <2>1 DEF One
  <2>3. QED
    BY <1>4, <2>2 DEF At, One
<1>5. QED
  BY <1>3, <1>4

LEMMA AtTail ==
  ASSUME NEW T, NEW seq \in Seq(T), seq # << >>, NEW S
  PROVE  At(S, seq) = At(S, Tail(seq)) + One(Head(seq) \in S)
<1> DEFINE P == {i \in DOMAIN seq : seq[i] \in S}
           R == P \ {1}
           Q == {i \in DOMAIN Tail(seq) : Tail(seq)[i] \in S}
           f == [i \in Q |-> i + 1]
<1>1. /\ Len(seq) \in Nat \ {0} /\ Tail(seq) \in Seq(T) /\ Len(Tail(seq)) = Len(seq) - 1
      /\ \A i \in DOMAIN Tail(seq) : i + 1 \in DOMAIN seq /\ Tail(seq)[i] = seq[i + 1]
      /\ \A i \in DOMAIN seq : i # 1 => i - 1 \in DOMAIN Tail(seq)
  OBVIOUS
<1>2. f \in [Q -> R] /\ \A i, k \in Q : f[i] = f[k] => i = k
  BY <1>1
<1>3. \A i \in R : i - 1 \in Q /\ f[i - 1] = i
  BY <1>1
<1>4. f \in Bijection(Q, R)
  BY <1>2, <1>3 DEF Bijection, Injection, Surjection, IsInjective
<1>5. ExistsBijection(Q, R)
  BY <1>4 DEF ExistsBijection
<1>6. IsFiniteSet(Q) /\ IsFiniteSet(P)
  BY <1>1, AtType
<1>7. Cardinality(R) = Cardinality(Q)
  BY <1>5, <1>6, FS_Bijection
<1>8. Cardinality(R) = Cardinality(P) - One(seq[1] \in S) /\ Cardinality(P) \in Nat
  <2>1. 1 \in P <=> seq[1] \in S
    BY <1>1
  <2> HIDE DEF P
  <2>2. Cardinality(P) \in Nat
        /\ Cardinality(P \ {1}) = IF 1 \in P THEN Cardinality(P) - 1 ELSE Cardinality(P)
    BY <1>6, FS_RemoveElement, FS_CardinalityType
  <2>3. QED
    BY <2>1, <2>2 DEF One
<1>9. Cardinality(P) = Cardinality(Q) + One(seq[1] \in S)
  <2> HIDE DEF P, Q, R
  <2>1. QED
    BY <1>7, <1>8 DEF One
<1>10. At(S, seq) = Cardinality(P) /\ At(S, Tail(seq)) = Cardinality(Q) /\ Head(seq) = seq[1]
  BY DEF At
<1>11. QED
  BY <1>9, <1>10

-----------------------------------------------------------------------------
(* Types *)

Task == [sample : Samples, status : {"new", "generating", "refused", "done", "failed"}]

SchedType ==
  /\ DOMAIN pc = Coroutines
  /\ {turn, lock} \subseteq Coroutines \cup {NoOne}
  /\ waiters \in Seq(Coroutines)
  /\ paused \in BOOLEAN /\ monitor_loop_trigger \in BOOLEAN /\ running \in BOOLEAN
  /\ servers_paused \in BOOLEAN /\ done_bound \in BOOLEAN /\ validate \in BOOLEAN

\* the hand of the processor holds a sample, the end signal or nothing, as its
\* program counter and the loop it is in say
ProcInv ==
  /\ pc["feed"] \in {"put", "end", "returned"}
  /\ DOMAIN hand = {"proc", "cons"} /\ hand["proc"] \in Samples \cup {NoOne, Done}
  /\ pc["proc"] \in {"loop", "get", "set_paused", "idle", "idle_asleep"} => hand["proc"] = NoOne
  /\ pc["proc"] \in {"drain", "drain_lock", "drain_wait"} =>
       \/ site = "pause" /\ hand["proc"] = NoOne
       \/ site = "done" /\ hand["proc"] = Done
       \/ site = "limit" /\ hand["proc"] \in Samples
  /\ pc["proc"] \in {"submit", "submit_asleep"} =>
       hand["proc"] \in Samples /\ Len(active_tasks) < MaxConcurrentSamples

\* every queue holds what it is for, and no more than it may
QueueType ==
  /\ pending_queue \in Seq(Samples \cup {Done}) /\ Len(pending_queue) <= PendingCap
  /\ global_steps \in Samples
  /\ active_tasks \in Seq(Task) /\ Len(active_tasks) <= MaxConcurrentSamples
  /\ result_queue \in Seq(Samples) /\ cancel_queue \in Seq(Samples)
  /\ queue \in Seq(Samples \cup {Sentinel}) /\ Len(queue) <= MaxRequiredSamples
  /\ start_version \in [Samples -> Nat \cup {-1}]

\* unfinished counts what the consumer has not acknowledged; the consumer is
\* cancelled before the sentinel is put, and with a put in flight only if the
\* processor has raised
ConsInv ==
  /\ pc["cons"] \in {"get", "put", "ack", "orphan", "cancelled"}
  /\ hand["cons"] \in IF PutInFlight THEN Samples ELSE {NoOne}
  /\ unfinished \in Nat
  /\ pc["cons"] \in {"get", "put", "ack"} =>
       unfinished = Len(result_queue) + One(pc["cons"] # "get")
  /\ pc["main"] \in {"feed", "proc", "join", "sentinel", "stop", "returned"}
  /\ pc["main"] \in {"feed", "proc", "join"} => pc["cons"] \in {"get", "put", "ack"}
  /\ pc["main"] \in {"sentinel", "stop", "returned"} => pc["cons"] \in {"orphan", "cancelled"}
  /\ pc["cons"] = "orphan" => pc["proc"] = "raised"

CountType ==
  {staleness_samples, sum, failures, dropped_samples, current_param_version, mq_version,
   trainer_version, sync_version} \subseteq Nat

\* a reply waits only where a request is done, and a batch is full only when it
\* is trained on
TrainerInv ==
  /\ mq_running = TRUE
  /\ getter \in [{"trainer"} -> {"idle", "blocked", "notified", "done"}]
  /\ reply \in [{"trainer"} -> Samples \cup {Sentinel, Closed}]
  /\ (reply["trainer"] = Closed) <=> (getter["trainer"] # "done")
  /\ trainer # "collect" => getter["trainer"] = "idle"
  /\ batch \in Seq(Samples) /\ trained \in SUBSET Samples
  /\ local_trigger_step \in 1 .. TriggerSteps
  /\ trainer = "collect" => Len(batch) < RequiredSamples
  /\ trainer = "train" => Len(batch) = RequiredSamples
  /\ trainer = "validation" => batch = << >>
  /\ trainer \in {"wait_last", "sync"} /\ ~validate => batch = << >>

TypeInv == SchedType /\ ProcInv /\ QueueType /\ ConsInv /\ CountType /\ TrainerInv

LEMMA Capacity ==
  /\ MaxRequiredSamples \in Nat \ {0} /\ MaxConcurrentSamples \in Nat \ {0}
  /\ RequiredSamples \in Nat \ {0} /\ TriggerSteps \in Nat \ {0}
  /\ StaleNum = 0 => MaxRequiredSamples = RequiredSamples * TriggerSteps
<1>1. {RequiredSamples, TriggerSteps, StaleDen, ServerSlots} \subseteq Nat \ {0} /\ StaleNum \in Nat
  BY RollouterAssumption
<1>2. SUFFICES ASSUME NEW R \in Nat \ {0}, NEW T \in Nat \ {0}, NEW D \in Nat \ {0}, NEW S \in Nat
               PROVE  /\ (R * (S + D) * T) \div D \in Nat \ {0}
                      /\ S = 0 => (R * (S + D) * T) \div D = R * T
  BY <1>1 DEF MaxRequiredSamples, MaxConcurrentSamples
<1>3. R * T \in Nat \ {0} /\ R * (S + D) * T = (R * T) * (S + D)
  OBVIOUS
<1>4. \A n \in Nat \ {0} : n * (S + D) >= D /\ n * (S + D) \in Nat
  OBVIOUS
<1>5. \A n \in Nat : n >= D => n \div D \in Nat /\ n \div D >= 1
  OBVIOUS
<1>6. \A n \in Nat : (n * (0 + D)) \div D = n
  OBVIOUS
<1>7. QED
  BY <1>3, <1>4, <1>5, <1>6

LEMMA InitType == Init => TypeInv
<1> SUFFICES ASSUME Init PROVE TypeInv
  OBVIOUS
<1> USE DEF Init, RollouterInit, MQ!Init
<1>1. PendingCap \in Nat \ {0} /\ TotalRolloutSteps \in Nat \ {0} /\ NoOne \notin Samples
  BY RollouterAssumption, ValuesAssumption
<1>2. SchedType
  <2>1. DOMAIN pc = Coroutines /\ waiters \in Seq(Coroutines)
    BY DEF Coroutines
  <2>2. QED
    BY <2>1 DEF SchedType
<1>12. ProcInv
  BY <1>1 DEF ProcInv
<1>3. QueueType
  BY <1>1, Capacity DEF QueueType, Samples
<1>4. ConsInv /\ CountType
  BY <1>1 DEF ConsInv, CountType, PutInFlight, One
<1>5. TrainerInv
  BY <1>1, Capacity, ValuesAssumption DEF TrainerInv
<1>6. QED
  BY <1>2, <1>3, <1>4, <1>5, <1>12 DEF TypeInv

\* a coroutine that acquires the lock leaves the others waiting
LEMMA DequeuedType ==
  ASSUME waiters \in Seq(Coroutines), NEW c
  PROVE  Dequeued(c) \in Seq(Coroutines)
BY DEF Dequeued, Queued

LEMMA AwakeDomain == DOMAIN Awake(pc) = DOMAIN pc
BY DEF Awake

LEMMA SchedStep ==
  ASSUME TypeInv, Next
  PROVE  SchedType'
<1>1. SchedType /\ waiters \in Seq(Coroutines) /\ \A c : Dequeued(c) \in Seq(Coroutines)
  BY DequeuedType DEF TypeInv, SchedType
<1>2. {"feed", "proc", "cons", "main", "mon", "rpc"} \subseteq Coroutines
  BY DEF Coroutines
<1> USE DEF SchedType, Goto, sched, flags, tasks, feeding, counts, locals, mqvars, trainer_vars,
            NoLocking, Yields, Keeps, Locked, Locks, Unlocked
<1>3. CASE Processing /\ UNCHANGED trainer_vars
  <2>1. CASE ProcLoop \/ ProcSetPaused \/ ProcGet \/ ProcGetWaits \/ ProcDrain
    <3>1. CASE ProcLoop
      BY <1>1, <1>2, <1>3, <3>1 DEF ProcLoop
    <3>2. CASE ProcSetPaused
      BY <1>1, <1>2, <1>3, <3>2 DEF ProcSetPaused
    <3>3. CASE ProcGet
      BY <1>1, <1>2, <1>3, <3>3 DEF ProcGet
    <3>4. CASE ProcGetWaits
      BY <1>1, <1>2, <1>3, <3>4 DEF ProcGetWaits
    <3>5. CASE ProcDrain
      BY <1>1, <1>2, <1>3, <3>5 DEF ProcDrain
    <3>6. QED
      BY <2>1, <3>1, <3>2, <3>3, <3>4, <3>5
  <2>2. CASE ProcDrainLock
    BY <1>1, <1>2, <1>3, <2>2 DEF ProcDrainLock
  <2>3. CASE ProcDrainWait
    BY <1>1, <1>2, <1>3, <2>3 DEF ProcDrainWait
  <2>4. CASE ProcIdle \/ ProcSubmit
    BY <1>1, <1>2, <1>3, <2>4 DEF ProcIdle, ProcSubmit
  <2>5. CASE AwaitLock("proc")
    BY <1>1, <1>2, <1>3, <2>5 DEF AwaitLock
  <2>6. QED
    BY <1>3, <2>1, <2>2, <2>3, <2>4, <2>5 DEF Processing
<1>4. CASE Finishing /\ UNCHANGED trainer_vars
  <2>1. CASE MainFed \/ MainProcessed \/ MainCancel
    <3>1. CASE MainFed
      BY <1>1, <1>2, <1>4, <3>1 DEF MainFed
    <3>2. CASE MainProcessed
      BY <1>1, <1>2, <1>4, <3>2 DEF MainProcessed
    <3>3. CASE MainCancel
      BY <1>1, <1>2, <1>4, <3>3 DEF MainCancel
    <3>4. QED
      BY <2>1, <3>1, <3>2, <3>3
  <2>2. CASE MainSentinel
    BY <1>1, <1>2, <1>4, <2>2 DEF MainSentinel
  <2>3. CASE MainStop
    BY <1>1, <1>2, <1>4, <2>3 DEF MainStop
  <2>4. CASE AwaitLock("main")
    BY <1>1, <1>2, <1>4, <2>4 DEF AwaitLock
  <2>5. QED
    BY <1>4, <2>1, <2>2, <2>3, <2>4 DEF Finishing
<1>5. CASE Monitoring /\ UNCHANGED trainer_vars
  <2>1. CASE MonTop \/ MonCheck
    BY <1>1, <1>2, <1>5, <2>1 DEF MonTop, MonCheck
  <2>2. CASE MonUnpause
    BY <1>1, <1>2, <1>5, <2>2, AwakeDomain DEF MonUnpause
  <2>3. CASE AwaitLock("mon")
    BY <1>1, <1>2, <1>5, <2>3 DEF AwaitLock
  <2>4. QED
    BY <1>5, <2>1, <2>2, <2>3 DEF Monitoring
<1>6. CASE Serving(sync_version) /\ UNCHANGED trainer_vars
  <2>1. CASE PauseBegin \/ PauseCancel \/ PauseGather \/ PauseEnd
    <3>1. CASE PauseBegin
      BY <1>1, <1>2, <1>6, <3>1 DEF PauseBegin
    <3>2. CASE PauseCancel
      BY <1>1, <1>2, <1>6, <3>2 DEF PauseCancel
    <3>3. CASE PauseGather
      BY <1>1, <1>2, <1>6, <3>3 DEF PauseGather
    <3>4. CASE PauseEnd
      BY <1>1, <1>2, <1>6, <3>4 DEF PauseEnd
    <3>5. QED
      BY <2>1, <3>1, <3>2, <3>3, <3>4
  <2>2. CASE UpdateBegin(sync_version) \/ UpdateQueueSize \/ UpdateSet \/ UpdateEnd
    <3>1. CASE UpdateBegin(sync_version)
      BY <1>1, <1>2, <1>6, <3>1 DEF UpdateBegin
    <3>2. CASE UpdateQueueSize
      BY <1>1, <1>2, <1>6, <3>2 DEF UpdateQueueSize
    <3>3. CASE UpdateSet
      BY <1>1, <1>2, <1>6, <3>3 DEF UpdateSet
    <3>4. CASE UpdateEnd
      BY <1>1, <1>2, <1>6, <3>4 DEF UpdateEnd
    <3>5. QED
      BY <2>2, <3>1, <3>2, <3>3, <3>4
  <2>3. CASE ResumeBegin \/ ResumeEnd
    <3>1. CASE ResumeBegin
      BY <1>1, <1>2, <1>6, <3>1, AwakeDomain DEF ResumeBegin
    <3>2. CASE ResumeEnd
      BY <1>1, <1>2, <1>6, <3>2, AwakeDomain DEF ResumeEnd
    <3>3. QED
      BY <2>3, <3>1, <3>2
  <2>4. CASE AwaitLock("rpc")
    BY <1>1, <1>2, <1>6, <2>4 DEF AwaitLock
  <2>5. QED
    BY <1>6, <2>1, <2>2, <2>3, <2>4 DEF Serving
<1>7. CASE (Feeding \/ Generating \/ Consuming) /\ UNCHANGED trainer_vars
  <2>1. CASE Feeding
    BY <1>1, <1>2, <1>7, <2>1 DEF Feeding, FeedSample, FeedDone
  <2>2. CASE Generating
    BY <1>1, <1>2, <1>7, <2>2 DEF Generating, TaskStart, TaskFinish, TaskCancel, TaskFail
  <2>3. CASE Consuming
    <3>1. CASE ConsGet
      BY <1>1, <1>2, <1>7, <3>1 DEF ConsGet
    <3>2. CASE ConsPut
      BY <1>1, <1>2, <1>7, <3>2 DEF ConsPut
    <3>3. CASE ConsAck
      BY <1>1, <1>2, <1>7, <3>3 DEF ConsAck
    <3>4. QED
      BY <2>3, <3>1, <3>2, <3>3 DEF Consuming
  <2>4. QED
    BY <1>7, <2>1, <2>2, <2>3
<1>8. CASE Trainer
  BY <1>1, <1>2, <1>8 DEF Trainer, TrainerGet, TrainerReceive, TrainerStep, TrainerValidation, TrainerFinal,
                          TrainerWaitLast, TrainerFinalWait, UnchangedRollouter
<1>9. CASE Sync
  BY <1>1, <1>2, <1>9 DEF Sync, SyncPause, SyncVersion, SyncWeights, UnchangedRollouter
<1>10. QED
  BY <1>3, <1>4, <1>5, <1>6, <1>7, <1>8, <1>9 DEF Next

LEMMA PendingType ==
  ASSUME active_tasks \in Seq(Task)
  PROVE  /\ IsFiniteSet(Pending) /\ Cardinality(Pending) \in Nat
         /\ Cardinality(Pending) <= Len(active_tasks)
<1>1. Pending \in SUBSET (1 .. Len(active_tasks)) /\ Len(active_tasks) \in Nat
  BY DEF Pending
<1>2. IsFiniteSet(1 .. Len(active_tasks)) /\ Cardinality(1 .. Len(active_tasks)) = Len(active_tasks)
  BY <1>1, Interval
<1>3. QED
  BY <1>1, <1>2, FS_Subset, FS_CardinalityType

LEMMA DrainType ==
  ASSUME active_tasks \in Seq(Task), ProcDrainWait
  PROVE  active_tasks' \in Seq(Task) /\ Len(active_tasks') <= Len(active_tasks)
<1>1. PICK order \in Bijection(1 .. Cardinality(Pending), Pending) :
        active_tasks' = [n \in 1 .. Cardinality(Pending) |-> active_tasks[order[n]]]
  BY DEF ProcDrainWait
<1>2. order \in [1 .. Cardinality(Pending) -> DOMAIN active_tasks]
  BY DEF Bijection, Injection, Pending
<1>3. active_tasks' \in [1 .. Cardinality(Pending) -> Task]
  BY <1>1, <1>2
<1>4. QED
  BY <1>3, PendingType

LEMMA ProcStep ==
  ASSUME TypeInv, Next
  PROVE  ProcInv'
<1>1. /\ ProcInv /\ DOMAIN pc = Coroutines /\ active_tasks \in Seq(Task)
      /\ MaxConcurrentSamples \in Nat \ {0}
      /\ pending_queue \in Seq(Samples \cup {Done}) /\ cancel_queue \in Seq(Samples)
  BY Capacity DEF TypeInv, SchedType, QueueType
<1>2. NoOne \notin Samples /\ Done \notin Samples
  BY ValuesAssumption
<1> USE DEF ProcInv, Coroutines, Goto, sched, flags, tasks, feeding, counts, locals, mqvars, trainer_vars, NoLocking
<1>3. CASE Processing
  <2>1. CASE ProcLoop
    BY <1>1, <1>2, <2>1 DEF ProcLoop
  <2>2. CASE ProcSetPaused
    BY <1>1, <1>2, <2>2 DEF ProcSetPaused
  <2>3. CASE ProcGet
    <3>1. Head(pending_queue) \in Samples \cup {Done}
      BY <1>1, <2>3 DEF ProcGet
    <3>2. QED
      BY <1>1, <1>2, <2>3, <3>1 DEF ProcGet
  <2>4. CASE ProcGetWaits
    BY <1>1, <1>2, <2>4 DEF ProcGetWaits
  <2>5. CASE ProcDrain
    BY <1>1, <1>2, <2>5 DEF ProcDrain, MustDrain, AfterDrain
  <2>6. CASE ProcDrainLock
    BY <1>1, <1>2, <2>6 DEF ProcDrainLock
  <2>7. CASE ProcDrainWait
    BY <1>1, <1>2, <2>7 DEF ProcDrainWait
  <2>8. CASE ProcIdle
    BY <1>1, <1>2, <2>8 DEF ProcIdle
  <2>9. CASE ProcSubmit
    BY <1>1, <1>2, <2>9 DEF ProcSubmit
  <2>10. CASE AwaitLock("proc")
    BY <1>1, <1>2, <2>10 DEF AwaitLock
  <2>11. QED
    BY <1>3, <2>1, <2>2, <2>3, <2>4, <2>5, <2>6, <2>7, <2>8, <2>9, <2>10 DEF Processing
<1>4. CASE Feeding
  BY <1>1, <1>4 DEF Feeding, FeedSample, FeedDone
<1>5. CASE Generating
  <2>1. UNCHANGED <<pc, hand, site>> /\ Len(active_tasks') = Len(active_tasks)
    BY <1>1, <1>5 DEF Generating, TaskStart, TaskFinish, TaskCancel, TaskFail, SetStatus
  <2>2. QED
    BY <1>1, <2>1
<1>6. CASE Consuming
  BY <1>1, <1>6 DEF Consuming, ConsGet, ConsPut, ConsAck
<1>7. CASE Finishing
  <2>1. CASE MainFed \/ MainProcessed \/ MainCancel
    BY <1>1, <2>1 DEF MainFed, MainProcessed, MainCancel
  <2>2. CASE MainSentinel \/ MainStop
    BY <1>1, <2>2 DEF MainSentinel, MainStop
  <2>3. CASE AwaitLock("main")
    BY <1>1, <2>3 DEF AwaitLock
  <2>4. QED
    BY <1>7, <2>1, <2>2, <2>3 DEF Finishing
<1>8. CASE Monitoring
  <2>1. CASE MonTop \/ MonCheck \/ AwaitLock("mon")
    BY <1>1, <2>1 DEF MonTop, MonCheck, AwaitLock
  <2>2. CASE MonUnpause
    BY <1>1, <1>2, <2>2 DEF MonUnpause, Awake
  <2>3. QED
    BY <1>8, <2>1, <2>2 DEF Monitoring
<1>9. CASE Serving(sync_version)
  <2>1. CASE PauseBegin \/ PauseCancel \/ PauseEnd
    BY <1>1, <2>1 DEF PauseBegin, PauseCancel, PauseEnd
  <2>2. CASE PauseGather
    BY <1>1, <2>2 DEF PauseGather
  <2>3. CASE UpdateBegin(sync_version) \/ UpdateQueueSize \/ UpdateSet \/ UpdateEnd
    BY <1>1, <2>3 DEF UpdateBegin, UpdateQueueSize, UpdateSet, UpdateEnd
  <2>4. CASE ResumeBegin
    BY <1>1, <2>4 DEF ResumeBegin, Awake
  <2>5. CASE ResumeEnd \/ AwaitLock("rpc")
    BY <1>1, <2>5 DEF ResumeEnd, AwaitLock
  <2>6. QED
    BY <1>9, <2>1, <2>2, <2>3, <2>4, <2>5 DEF Serving
<1>10. CASE Trainer
  BY <1>1, <1>10 DEF Trainer, TrainerGet, TrainerReceive, TrainerStep, TrainerValidation, TrainerFinal,
                     TrainerWaitLast, TrainerFinalWait, UnchangedRollouter
<1>11. CASE Sync
  BY <1>1, <1>11 DEF Sync, SyncPause, SyncVersion, SyncWeights, UnchangedRollouter
<1>12. QED
  BY <1>3, <1>4, <1>5, <1>6, <1>7, <1>8, <1>9, <1>10, <1>11 DEF Next

LEMMA PutType ==
  ASSUME QueueType, NEW x \in Samples \cup {Sentinel}, MQ!PutSample(x)
  PROVE  queue' \in Seq(Samples \cup {Sentinel}) /\ Len(queue') <= MaxRequiredSamples
<1>1. /\ queue \in Seq(Samples \cup {Sentinel}) /\ Len(queue) <= MaxRequiredSamples
      /\ MaxRequiredSamples \in Nat \ {0}
  BY Capacity DEF QueueType
<1>2. queue' = Append(IF Len(queue) >= MaxRequiredSamples THEN Tail(queue) ELSE queue, x)
  BY DEF MQ!PutSample, MQ!IsFull
<1>3. CASE Len(queue) >= MaxRequiredSamples
  <2>1. Tail(queue) \in Seq(Samples \cup {Sentinel}) /\ Len(Tail(queue)) = Len(queue) - 1
    BY <1>1, <1>3
  <2>2. QED
    BY <1>1, <1>2, <1>3, <2>1
<1>4. CASE ~(Len(queue) >= MaxRequiredSamples)
  BY <1>1, <1>2, <1>4
<1>5. QED
  BY <1>3, <1>4

LEMMA TailType ==
  ASSUME NEW T, NEW seq \in Seq(T), seq # << >>
  PROVE  Tail(seq) \in Seq(T) /\ Len(Tail(seq)) = Len(seq) - 1 /\ Head(seq) \in T /\ Len(seq) \in Nat
OBVIOUS

LEMMA AppendType ==
  ASSUME NEW T, NEW seq \in Seq(T), NEW x \in T
  PROVE  Append(seq, x) \in Seq(T) /\ Len(Append(seq, x)) = Len(seq) + 1 /\ Len(seq) \in Nat
OBVIOUS

LEMMA ReplaceType ==
  ASSUME NEW T, NEW seq \in Seq(T), NEW i \in DOMAIN seq, NEW x \in T
  PROVE  [seq EXCEPT ![i] = x] \in Seq(T) /\ Len([seq EXCEPT ![i] = x]) = Len(seq)
OBVIOUS

LEMMA StatusType ==
  ASSUME active_tasks \in Seq(Task), NEW i \in DOMAIN active_tasks,
         NEW s \in {"new", "generating", "refused", "done", "failed"}, SetStatus(i, s)
  PROVE  /\ active_tasks' = [active_tasks EXCEPT ![i] = [sample |-> active_tasks[i].sample, status |-> s]]
         /\ active_tasks[i] \in Task /\ [sample |-> active_tasks[i].sample, status |-> s] \in Task
         /\ active_tasks' \in Seq(Task) /\ Len(active_tasks') = Len(active_tasks)
<1>1. active_tasks[i] \in Task
  OBVIOUS
<1>2. [active_tasks[i] EXCEPT !.status = s] = [sample |-> active_tasks[i].sample, status |-> s]
  BY <1>1 DEF Task
<1>3. active_tasks' = [active_tasks EXCEPT ![i] = [active_tasks[i] EXCEPT !.status = s]]
  BY DEF SetStatus
<1>4. [sample |-> active_tasks[i].sample, status |-> s] \in Task
  BY <1>1 DEF Task
<1>5. \A x \in Task : /\ [active_tasks EXCEPT ![i] = x] \in Seq(Task)
                      /\ Len([active_tasks EXCEPT ![i] = x]) = Len(active_tasks)
  BY ReplaceType
<1>6. QED
  BY <1>1, <1>2, <1>3, <1>4, <1>5

LEMMA QueueStep ==
  ASSUME TypeInv, Next
  PROVE  QueueType'
<1>1. /\ QueueType /\ ProcInv /\ DOMAIN pc = Coroutines
      /\ PendingCap \in Nat \ {0} /\ TotalRolloutSteps \in Nat \ {0} /\ MaxConcurrentSamples \in Nat \ {0}
      /\ MaxRequiredSamples \in Nat \ {0}
      /\ current_param_version \in Nat
  BY RollouterAssumption, Capacity DEF TypeInv, SchedType, CountType
<1>2. Len(active_tasks) \in Nat /\ Len(queue) \in Nat /\ Len(pending_queue) \in Nat
  BY <1>1 DEF QueueType
<1> USE DEF sched, flags, tasks, feeding, counts, locals, mqvars
<1>3. CASE Processing
  <2>1. CASE ProcLoop
    <3>1. cancel_queue' = cancel_queue \/ (cancel_queue # << >> /\ cancel_queue' = Tail(cancel_queue))
      BY <2>1 DEF ProcLoop
    <3>2. cancel_queue' \in Seq(Samples)
      BY <1>1, <3>1, TailType DEF QueueType
    <3>3. UNCHANGED <<pending_queue, global_steps, active_tasks, result_queue, queue, start_version>>
      BY <2>1 DEF ProcLoop
    <3>4. QED
      BY <1>1, <3>2, <3>3 DEF QueueType
  <2>2. CASE ProcGet
    BY <1>1, <1>2, <2>2 DEF ProcGet, QueueType
  <2>3. CASE ProcDrainWait
    <3>1. UNCHANGED <<pending_queue, global_steps, result_queue, cancel_queue, queue, start_version>>
      BY <2>3 DEF ProcDrainWait
    <3>2. active_tasks' \in Seq(Task) /\ Len(active_tasks') <= Len(active_tasks)
      BY <1>1, <2>3, DrainType DEF QueueType
    <3>3. QED
      BY <1>1, <1>2, <3>1, <3>2 DEF QueueType
  <2>4. CASE ProcSubmit
    <3>1. UNCHANGED <<pending_queue, global_steps, result_queue, cancel_queue, queue, start_version>>
      BY <2>4 DEF ProcSubmit
    <3>2. \/ UNCHANGED active_tasks
          \/ active_tasks' = Append(active_tasks, [sample |-> hand["proc"], status |-> "new"])
      BY <2>4 DEF ProcSubmit
    <3>3. [sample |-> hand["proc"], status |-> "new"] \in Task /\ Len(active_tasks) < MaxConcurrentSamples
      BY <1>1, <2>4 DEF ProcSubmit, ProcInv, Task
    <3>6. active_tasks \in Seq(Task) /\ Len(active_tasks) <= MaxConcurrentSamples
      BY <1>1 DEF QueueType
    <3>7. \A x \in Task : /\ Append(active_tasks, x) \in Seq(Task)
                          /\ Len(Append(active_tasks, x)) = Len(active_tasks) + 1
      BY <3>6, AppendType
    <3>4. active_tasks' \in Seq(Task) /\ Len(active_tasks') <= MaxConcurrentSamples
      BY <1>1, <1>2, <3>2, <3>3, <3>6, <3>7
    <3>5. QED
      BY <1>1, <3>1, <3>4 DEF QueueType
  <2>5. CASE ProcSetPaused \/ ProcGetWaits \/ ProcDrain \/ ProcDrainLock \/ ProcIdle \/ AwaitLock("proc")
    BY <1>1, <2>5 DEF QueueType, ProcSetPaused, ProcGetWaits, ProcDrain, ProcDrainLock, ProcIdle, AwaitLock
  <2>6. QED
    BY <1>3, <2>1, <2>2, <2>3, <2>4, <2>5 DEF Processing
<1>4. CASE Feeding
  <2>1. CASE FeedSample
    <3>1. /\ pending_queue' = Append(pending_queue, global_steps) /\ Len(pending_queue) < PendingCap
          /\ UNCHANGED <<active_tasks, result_queue, cancel_queue, queue, start_version>>
          /\ global_steps' = global_steps \/ (global_steps < TotalRolloutSteps /\ global_steps' = global_steps + 1)
      BY <1>1, <1>2, <2>1 DEF FeedSample, QueueType, Samples
    <3>2. /\ pending_queue \in Seq(Samples \cup {Done}) /\ global_steps \in Samples
          /\ TotalRolloutSteps \in Nat /\ PendingCap \in Nat
      BY RollouterAssumption DEF TypeInv, QueueType
    <3>3. global_steps' \in Samples
      BY <3>1, <3>2 DEF Samples
    <3>4. pending_queue' \in Seq(Samples \cup {Done}) /\ Len(pending_queue') <= PendingCap
      BY <3>1, <3>2
    <3>5. QED
      BY <1>1, <3>1, <3>3, <3>4 DEF QueueType
  <2>2. CASE FeedDone
    BY <1>1, <1>2, <2>2 DEF FeedDone, QueueType
  <2>3. QED
    BY <1>4, <2>1, <2>2 DEF Feeding
<1>5. CASE Generating
  <2>1. PICK i \in DOMAIN active_tasks : TaskStart(i) \/ TaskFinish(i) \/ TaskCancel(i) \/ TaskFail(i)
    BY <1>5 DEF Generating
  <2>2. PICK s \in {"new", "generating", "refused", "done", "failed"} : SetStatus(i, s)
    BY <2>1 DEF TaskStart, TaskFinish, TaskCancel, TaskFail
  <2>3. /\ active_tasks[i].sample \in Samples /\ active_tasks' \in Seq(Task)
        /\ Len(active_tasks') = Len(active_tasks)
    BY <1>1, <2>2, StatusType DEF QueueType, Task
  <2>4. UNCHANGED <<pending_queue, global_steps, queue>>
    BY <2>1 DEF TaskStart, TaskFinish, TaskCancel, TaskFail
  <2>5. result_queue' \in Seq(Samples) /\ cancel_queue' \in Seq(Samples)
    <3>1. /\ result_queue' = result_queue \/ result_queue' = Append(result_queue, active_tasks[i].sample)
          /\ cancel_queue' = cancel_queue \/ cancel_queue' = Append(cancel_queue, active_tasks[i].sample)
      BY <2>1 DEF TaskStart, TaskFinish, TaskCancel, TaskFail
    <3>2. result_queue \in Seq(Samples) /\ cancel_queue \in Seq(Samples)
      BY <1>1 DEF QueueType
    <3>3. /\ Append(result_queue, active_tasks[i].sample) \in Seq(Samples)
          /\ Append(cancel_queue, active_tasks[i].sample) \in Seq(Samples)
      BY <2>3, <3>2, AppendType
    <3>4. QED
      BY <3>1, <3>2, <3>3
  <2>6. start_version' \in [Samples -> Nat \cup {-1}]
    BY <1>1, <2>1, <2>3 DEF TaskStart, TaskFinish, TaskCancel, TaskFail, QueueType
  <2>7. QED
    BY <1>1, <1>2, <2>3, <2>4, <2>5, <2>6 DEF QueueType
<1>6. CASE Consuming
  <2>1. CASE ConsGet
    BY <1>1, <2>1 DEF ConsGet, QueueType
  <2>2. CASE ConsPut
    <3>1. hand["cons"] \in Samples \cup {Sentinel}
      BY <2>2 DEF ConsPut, TypeInv, ConsInv
    <3>2. QED
      BY <1>1, <2>2, <3>1, PutType DEF ConsPut, QueueType
  <2>3. CASE ConsAck
    BY <1>1, <2>3 DEF ConsAck, QueueType
  <2>4. QED
    BY <1>6, <2>1, <2>2, <2>3 DEF Consuming
<1>7. CASE Finishing
  <2>1. CASE MainSentinel
    BY <1>1, <2>1, PutType DEF MainSentinel, QueueType
  <2>2. QED
    BY <1>1, <1>7, <2>1 DEF QueueType, Finishing, MainFed, MainProcessed, MainCancel, MainStop, AwaitLock
<1>8. CASE Monitoring
  BY <1>1, <1>8 DEF QueueType, Monitoring, MonTop, MonCheck, MonUnpause, AwaitLock
<1>9. CASE Serving(sync_version)
  <2>1. CASE PauseGather
    <3>1. active_tasks' \in Seq(Task) /\ Len(active_tasks') = 0
      BY <2>1 DEF PauseGather
    <3>2. UNCHANGED <<pending_queue, global_steps, result_queue, cancel_queue, queue, start_version>>
      BY <2>1 DEF PauseGather
    <3>3. QED
      BY <1>1, <3>1, <3>2 DEF QueueType
  <2>5. CASE PauseBegin \/ PauseCancel \/ PauseEnd
    BY <1>1, <2>5 DEF QueueType, PauseBegin, PauseCancel, PauseEnd
  <2>2. CASE UpdateBegin(sync_version) \/ UpdateQueueSize \/ UpdateSet \/ UpdateEnd
    BY <1>1, <2>2 DEF QueueType, UpdateBegin, UpdateQueueSize, UpdateSet, UpdateEnd, MQ!PutValidate
  <2>3. CASE ResumeBegin \/ ResumeEnd \/ AwaitLock("rpc")
    BY <1>1, <2>3 DEF QueueType, ResumeBegin, ResumeEnd, AwaitLock
  <2>4. QED
    BY <1>9, <2>1, <2>2, <2>3, <2>5 DEF Serving
<1>10. CASE Trainer
  <2>1. CASE TrainerGet
    <3>1. queue' = queue \/ (queue # << >> /\ queue' = Tail(queue))
      BY <2>1 DEF TrainerGet, MQ!GetSample, MQ!Wake, MQ!GetSampleBody, MQ!Pop, MQ!ReturnClosed, MQ!Wait
    <3>2. queue' \in Seq(Samples \cup {Sentinel}) /\ Len(queue') <= MaxRequiredSamples
      <4>1. queue \in Seq(Samples \cup {Sentinel}) /\ Len(queue) <= MaxRequiredSamples
        BY <1>1 DEF QueueType
      <4>2. queue # << >> => Tail(queue) \in Seq(Samples \cup {Sentinel}) /\ Len(Tail(queue)) = Len(queue) - 1
        BY <4>1, TailType
      <4>3. QED
        BY <1>1, <1>2, <3>1, <4>1, <4>2
    <3>3. QED
      BY <1>1, <2>1, <3>2 DEF TrainerGet, UnchangedRollouter, QueueType
  <2>2. QED
    BY <1>1, <1>10, <2>1 DEF QueueType, Trainer, TrainerReceive, TrainerStep, TrainerValidation, TrainerFinal,
         TrainerWaitLast, TrainerFinalWait, UnchangedRollouter, MQ!Receive, MQ!GetValidate, GetValidationResult
<1>11. CASE Sync
  BY <1>1, <1>11 DEF QueueType, Sync, SyncPause, SyncVersion, SyncWeights, UnchangedRollouter, MQ!UpdateParamVersion
<1>12. QED
  BY <1>3, <1>4, <1>5, <1>6, <1>7, <1>8, <1>9, <1>10, <1>11 DEF Next

LEMMA RaisedForGood ==
  ASSUME TypeInv, [Next]_vars, pc["proc"] = "raised"
  PROVE  pc'["proc"] = "raised"
<1> DOMAIN pc = Coroutines /\ {"feed", "proc", "cons", "main", "mon", "rpc"} \subseteq Coroutines
  BY DEF TypeInv, SchedType, Coroutines
<1> USE DEF sched, flags, tasks, feeding, counts, locals, mqvars, Goto
<1>1. CASE Processing \/ Feeding
  BY <1>1 DEF Processing, ProcLoop, ProcSetPaused, ProcGet, ProcGetWaits, ProcDrain, ProcDrainLock,
              ProcDrainWait, ProcIdle, ProcSubmit, AwaitLock, LockLabels, Feeding, FeedSample, FeedDone
<1>2. CASE Generating \/ Consuming
  BY <1>2 DEF Generating, TaskStart, TaskFinish, TaskCancel, TaskFail, Consuming, ConsGet, ConsPut, ConsAck
<1>3. CASE Finishing
  BY <1>3 DEF Finishing, MainFed, MainProcessed, MainCancel, MainSentinel, MainStop, AwaitLock
<1>4. CASE Monitoring
  BY <1>4 DEF Monitoring, MonTop, MonCheck, MonUnpause, AwaitLock, Awake
<1>5. CASE Serving(sync_version)
  BY <1>5 DEF Serving, PauseBegin, PauseCancel, PauseGather, PauseEnd, UpdateBegin, UpdateQueueSize, UpdateSet,
              UpdateEnd, ResumeBegin, ResumeEnd, AwaitLock, Awake
<1>6. CASE Trainer \/ Sync
  BY <1>6 DEF Trainer, TrainerGet, TrainerReceive, TrainerStep, TrainerValidation, TrainerFinal, TrainerWaitLast,
              TrainerFinalWait, Sync, SyncPause, SyncVersion, SyncWeights, UnchangedRollouter
<1>7. CASE UNCHANGED vars
  BY <1>7 DEF vars, rollouter_vars
<1>8. QED
  BY <1>1, <1>2, <1>3, <1>4, <1>5, <1>6, <1>7 DEF Next

\* nobody but the consumer, the end of the generation and the tasks touches
\* what the consumer holds
LEMMA ConsStep ==
  ASSUME TypeInv, Next
  PROVE  ConsInv'
<1>1. /\ ConsInv /\ DOMAIN pc = Coroutines /\ DOMAIN hand = {"proc", "cons"}
      /\ result_queue \in Seq(Samples) /\ Len(result_queue) \in Nat
  BY DEF TypeInv, SchedType, QueueType, ProcInv
<1>2. {"proc", "cons", "main", "mon", "rpc", "feed"} \subseteq Coroutines
  BY DEF Coroutines
<1>0. pc["proc"] = "raised" => pc'["proc"] = "raised"
  BY RaisedForGood
<1>3. CASE UNCHANGED <<pc["cons"], pc["main"], hand["cons"], unfinished, result_queue>>
  BY <1>1, <1>3, <1>0 DEF ConsInv, PutInFlight, One
<1> USE DEF sched, flags, tasks, feeding, counts, locals, mqvars, Goto
<1>4. CASE Processing
  <2>1. UNCHANGED <<pc["cons"], pc["main"], hand["cons"], unfinished, result_queue>>
    BY <1>1, <1>2, <1>4 DEF Processing, ProcLoop, ProcSetPaused, ProcGet, ProcGetWaits, ProcDrain, ProcDrainLock,
                      ProcDrainWait, ProcIdle, ProcSubmit, AwaitLock
  <2>2. QED
    BY <1>3, <2>1
<1>5. CASE Feeding
  BY <1>1, <1>2, <1>3, <1>5 DEF Feeding, FeedSample, FeedDone
<1>6. CASE Generating
  <2>1. PICK i \in DOMAIN active_tasks : TaskStart(i) \/ TaskFinish(i) \/ TaskCancel(i) \/ TaskFail(i)
    BY <1>6 DEF Generating
  <2>2. CASE TaskFinish(i)
    <3>1. active_tasks[i].sample \in Samples
      <4>1. active_tasks \in Seq(Task)
        BY DEF TypeInv, QueueType
      <4>2. active_tasks[i] \in Task
        BY <2>1, <4>1
      <4>3. QED
        BY <4>2 DEF Task
    <3>2. Len(Append(result_queue, active_tasks[i].sample)) = Len(result_queue) + 1
      BY <1>1, <3>1, AppendType
    <3>3. UNCHANGED <<pc, hand>> /\ unfinished' = unfinished + 1 /\ Len(result_queue') = Len(result_queue) + 1
      BY <2>2, <3>2 DEF TaskFinish
    <3>4. QED
      BY <1>1, <1>0, <3>3 DEF ConsInv, PutInFlight, One
  <2>3. CASE TaskStart(i) \/ TaskCancel(i) \/ TaskFail(i)
    BY <1>3, <2>3 DEF TaskStart, TaskCancel, TaskFail
  <2>4. QED
    BY <2>1, <2>2, <2>3
<1>7. CASE Consuming
  <2>1. CASE ConsGet
    <3>1. Len(Tail(result_queue)) = Len(result_queue) - 1 /\ Head(result_queue) \in Samples
      BY <1>1, <2>1, TailType DEF ConsGet
    <3>2. /\ pc'["cons"] = "put" /\ hand'["cons"] \in Samples /\ unfinished' = unfinished
          /\ Len(result_queue') = Len(result_queue) - 1 /\ pc["cons"] = "get"
          /\ pc'["main"] = pc["main"]
      BY <1>1, <1>2, <2>1, <3>1 DEF ConsGet
    <3>3. QED
      BY <1>1, <1>0, <3>2 DEF ConsInv, PutInFlight, One
  <2>2. CASE ConsPut
    <3>1. /\ pc'["cons"] = IF pc["cons"] = "put" THEN "ack" ELSE "cancelled"
          /\ hand'["cons"] = NoOne /\ unfinished' = unfinished /\ result_queue' = result_queue
          /\ pc["cons"] \in {"put", "orphan"} /\ pc'["main"] = pc["main"]
      BY <1>1, <1>2, <2>2 DEF ConsPut, PutInFlight
    <3>2. QED
      BY <1>1, <1>0, <3>1 DEF ConsInv, PutInFlight, One
  <2>3. CASE ConsAck
    <3>1. /\ pc["cons"] = "ack" /\ pc'["cons"] = "get" /\ pc'["main"] = pc["main"]
          /\ hand' = hand /\ unfinished' = unfinished - 1 /\ result_queue' = result_queue
      BY <1>1, <1>2, <2>3 DEF ConsAck
    <3>2. QED
      BY <1>1, <1>0, <3>1 DEF ConsInv, PutInFlight, One
  <2>4. QED
    BY <1>7, <2>1, <2>2, <2>3 DEF Consuming
<1>8. CASE Finishing
  <2>1. CASE MainCancel
    <3>1. /\ pc'["cons"] = IF pc["cons"] = "put" THEN "orphan" ELSE "cancelled"
          /\ \/ pc["main"] = "join" /\ unfinished = 0
             \/ pc["main"] = "proc" /\ pc["proc"] = "raised"
          /\ pc'["main"] = "sentinel"
          /\ UNCHANGED <<hand, unfinished, result_queue>>
      BY <1>1, <1>2, <2>1 DEF MainCancel
    <3>2. QED
      BY <1>1, <1>0, <3>1 DEF ConsInv, PutInFlight, One
  <2>2. CASE MainFed \/ MainProcessed \/ MainSentinel \/ MainStop
    <3>1. /\ UNCHANGED <<pc["cons"], hand, unfinished, result_queue>>
          /\ \/ pc["main"] \in {"feed", "proc"} /\ pc'["main"] \in {"proc", "join"}
             \/ pc["main"] = "sentinel" /\ pc'["main"] = "stop"
             \/ pc["main"] = "stop" /\ pc'["main"] = "returned"
      BY <1>1, <1>2, <2>2 DEF MainFed, MainProcessed, MainSentinel, MainStop
    <3>2. QED
      BY <1>1, <1>0, <3>1 DEF ConsInv, PutInFlight, One
  <2>3. CASE AwaitLock("main")
    BY <1>3, <2>3 DEF AwaitLock
  <2>4. QED
    BY <1>8, <2>1, <2>2, <2>3 DEF Finishing
<1>9. CASE Monitoring
  BY <1>1, <1>2, <1>3, <1>9 DEF Monitoring, MonTop, MonCheck, MonUnpause, AwaitLock, Awake
<1>10. CASE Serving(sync_version)
  <2>1. CASE PauseBegin \/ PauseCancel \/ PauseGather \/ PauseEnd
    BY <1>1, <1>2, <1>3, <2>1 DEF PauseBegin, PauseCancel, PauseGather, PauseEnd
  <2>2. CASE UpdateBegin(sync_version) \/ UpdateQueueSize \/ UpdateSet \/ UpdateEnd
    BY <1>1, <1>2, <1>3, <2>2 DEF UpdateBegin, UpdateQueueSize, UpdateSet, UpdateEnd
  <2>3. CASE ResumeBegin \/ ResumeEnd \/ AwaitLock("rpc")
    BY <1>1, <1>2, <1>3, <2>3 DEF ResumeBegin, ResumeEnd, AwaitLock, Awake
  <2>4. QED
    BY <1>10, <2>1, <2>2, <2>3 DEF Serving
<1>11. CASE Trainer
  BY <1>3, <1>11 DEF Trainer, TrainerGet, TrainerReceive, TrainerStep, TrainerValidation, TrainerFinal,
                     TrainerWaitLast, TrainerFinalWait, UnchangedRollouter
<1>12. CASE Sync
  BY <1>1, <1>2, <1>3, <1>12 DEF Sync, SyncPause, SyncVersion, SyncWeights, UnchangedRollouter
<1>13. QED
  BY <1>4, <1>5, <1>6, <1>7, <1>8, <1>9, <1>10, <1>11, <1>12 DEF Next

LEMMA CountStep ==
  ASSUME TypeInv, Next
  PROVE  CountType'
<1>1. /\ {staleness_samples, sum, failures, dropped_samples, current_param_version, mq_version,
          trainer_version, sync_version} \subseteq Nat
      /\ Len(active_tasks) \in Nat /\ Len(result_queue) \in Nat /\ Len(cancel_queue) \in Nat
      /\ Len(queue) \in Nat
  BY DEF TypeInv, CountType, QueueType
<1> USE DEF CountType, sched, flags, tasks, feeding, counts, locals, mqvars, trainer_vars
<1>2. CASE Processing /\ UNCHANGED trainer_vars
  BY <1>1, <1>2 DEF Processing, ProcLoop, ProcSetPaused, ProcGet, ProcGetWaits, ProcDrain, ProcDrainLock,
                    ProcDrainWait, ProcIdle, ProcSubmit, AwaitLock
<1>3. CASE (Feeding \/ Generating \/ Consuming) /\ UNCHANGED trainer_vars
  <2>1. CASE Feeding \/ Generating
    BY <1>1, <1>3, <2>1 DEF Feeding, FeedSample, FeedDone, Generating, TaskStart, TaskFinish, TaskCancel, TaskFail
  <2>2. CASE Consuming
    BY <1>1, <1>3, <2>2 DEF Consuming, ConsGet, ConsPut, ConsAck, MQ!PutSample
  <2>3. QED
    BY <1>3, <2>1, <2>2
<1>4. CASE (Finishing \/ Monitoring) /\ UNCHANGED trainer_vars
  BY <1>1, <1>4 DEF Finishing, MainFed, MainProcessed, MainCancel, MainSentinel, MainStop, AwaitLock,
                    MQ!PutSample, Monitoring, MonTop, MonCheck, MonUnpause
<1>5. CASE Serving(sync_version) /\ UNCHANGED trainer_vars
  <2>1. CASE PauseBegin \/ PauseCancel \/ PauseGather \/ PauseEnd
    BY <1>1, <1>5, <2>1 DEF PauseBegin, PauseCancel, PauseGather, PauseEnd
  <2>2. CASE UpdateBegin(sync_version) \/ UpdateQueueSize \/ UpdateSet \/ UpdateEnd
    <3>1. CASE UpdateBegin(sync_version)
      BY <1>1, <1>5, <3>1 DEF UpdateBegin
    <3>2. CASE UpdateQueueSize
      BY <1>1, <1>5, <3>2 DEF UpdateQueueSize
    <3>3. CASE UpdateSet \/ UpdateEnd
      BY <1>1, <1>5, <3>3 DEF UpdateSet, UpdateEnd, MQ!PutValidate, MQ!counters, MQ!calls
    <3>4. QED
      BY <2>2, <3>1, <3>2, <3>3
  <2>3. CASE ResumeBegin \/ ResumeEnd \/ AwaitLock("rpc")
    BY <1>1, <1>5, <2>3 DEF ResumeBegin, ResumeEnd, AwaitLock
  <2>4. QED
    BY <1>5, <2>1, <2>2, <2>3 DEF Serving
<1>6. CASE Trainer
  <2>1. CASE TrainerGet
    BY <1>1, <2>1 DEF TrainerGet, UnchangedRollouter, MQ!GetSample, MQ!Wake, MQ!GetSampleBody
  <2>2. CASE TrainerReceive
    BY <1>1, <2>2 DEF TrainerReceive, UnchangedRollouter, MQ!Receive, MQ!counters, MQ!calls
  <2>3. CASE TrainerValidation \/ TrainerFinalWait
    BY <1>1, <2>3 DEF TrainerValidation, TrainerFinalWait, UnchangedRollouter, MQ!GetValidate, MQ!counters, MQ!calls, GetValidationResult
  <2>4. CASE TrainerStep
    BY <1>1, <2>4 DEF TrainerStep, UnchangedRollouter
  <2>5. CASE TrainerFinal
    BY <1>1, <2>5 DEF TrainerFinal, UnchangedRollouter
  <2>6. CASE TrainerWaitLast
    BY <1>1, <2>6 DEF TrainerWaitLast, UnchangedRollouter
  <2>7. QED
    BY <1>6, <2>1, <2>2, <2>3, <2>4, <2>5, <2>6 DEF Trainer
<1>7. CASE Sync
  <2>1. CASE SyncVersion
    BY <1>1, <2>1 DEF SyncVersion, UnchangedRollouter, MQ!UpdateParamVersion, MQ!counters, MQ!calls
  <2>2. CASE SyncPause \/ SyncWeights
    BY <1>1, <2>2 DEF SyncPause, SyncWeights, UnchangedRollouter
  <2>3. QED
    BY <1>7, <2>1, <2>2 DEF Sync
<1>8. QED
  BY <1>2, <1>3, <1>4, <1>5, <1>6, <1>7 DEF Next

LEMMA TrainerStepType ==
  ASSUME TypeInv, PhaseInv, Next
  PROVE  TrainerInv'
<1>1. /\ TrainerInv /\ validate \in BOOLEAN /\ queue \in Seq(Samples \cup {Sentinel}) /\ {RequiredSamples, TriggerSteps} \subseteq Nat \ {0}
      /\ Closed \notin Samples \cup {Sentinel}
  BY Capacity, ValuesAssumption DEF TypeInv, QueueType, SchedType
<1>2. CASE UNCHANGED <<mq_running, getter, reply, trainer_vars>>
  BY <1>1, <1>2 DEF TrainerInv, trainer_vars
<1>3. ASSUME NEW x, MQ!PutSample(x), UNCHANGED trainer_vars
      PROVE  TrainerInv'
  BY <1>1, <1>3 DEF MQ!PutSample, MQ!Notified, TrainerInv, trainer_vars
<1> USE DEF sched, flags, tasks, feeding, counts, locals, mqvars
<1>4. CASE (Processing \/ Feeding \/ Generating) /\ UNCHANGED trainer_vars
  BY <1>2, <1>4 DEF Processing, ProcLoop, ProcSetPaused, ProcGet, ProcGetWaits, ProcDrain, ProcDrainLock,
                    ProcDrainWait, ProcIdle, ProcSubmit, AwaitLock, Feeding, FeedSample, FeedDone,
                    Generating, TaskStart, TaskFinish, TaskCancel, TaskFail
<1>5. CASE (Consuming \/ Finishing) /\ UNCHANGED trainer_vars
  BY <1>2, <1>3, <1>5 DEF Consuming, ConsGet, ConsPut, ConsAck, Finishing, MainFed, MainProcessed,
                          MainCancel, MainSentinel, MainStop, AwaitLock
<1>6. CASE (Monitoring \/ Serving(sync_version)) /\ UNCHANGED trainer_vars
  <2>1. CASE Monitoring
    BY <1>2, <1>6, <2>1 DEF Monitoring, MonTop, MonCheck, MonUnpause, AwaitLock
  <2>2. CASE UpdateEnd
    BY <1>2, <1>6, <2>2 DEF UpdateEnd, MQ!PutValidate, MQ!counters, MQ!calls
  <2>3. CASE Serving(sync_version) /\ UNCHANGED mqvars
    BY <1>2, <1>6, <2>3
  <2>4. Serving(sync_version) => UpdateEnd \/ UNCHANGED mqvars
    BY DEF Serving, PauseBegin, PauseCancel, PauseGather, PauseEnd, UpdateBegin, UpdateQueueSize, UpdateSet,
           ResumeBegin, ResumeEnd, AwaitLock
  <2>5. QED
    BY <1>6, <2>1, <2>2, <2>3, <2>4
<1>7. CASE TrainerGet
  <2>1. queue # << >> => Head(queue) \in Samples \cup {Sentinel}
    BY <1>1, TailType
  <2>2. QED
    BY <1>1, <1>7, <2>1 DEF TrainerGet, MQ!GetSample, MQ!Wake, MQ!GetSampleBody, MQ!Pop, MQ!ReturnClosed, MQ!Wait,
                      TrainerInv, trainer_vars
<1>8. CASE TrainerReceive
  <2>1. CASE reply["trainer"] = Sentinel
    BY <1>1, <1>8, <2>1 DEF TrainerReceive, MQ!Receive, MQ!counters, MQ!calls, TrainerInv
  <2>2. CASE reply["trainer"] # Sentinel
    <3>1. reply["trainer"] \in Samples /\ batch \in Seq(Samples) /\ Len(batch) < RequiredSamples
      BY <1>1, <1>8, <2>2 DEF TrainerReceive, MQ!Receive, MQ!counters, MQ!calls, TrainerInv
    <3>2. /\ Append(batch, reply["trainer"]) \in Seq(Samples) /\ Len(batch) \in Nat
          /\ Len(Append(batch, reply["trainer"])) = Len(batch) + 1
      BY <3>1, AppendType
    <3>3. /\ batch' = Append(batch, reply["trainer"])
          /\ trainer' = IF Len(batch) + 1 < RequiredSamples THEN "collect" ELSE "train"
          /\ UNCHANGED <<mq_running, trained, local_trigger_step, validate>>
          /\ getter' = [getter EXCEPT !["trainer"] = "idle"] /\ reply' = [reply EXCEPT !["trainer"] = Closed]
      BY <1>8, <2>2 DEF TrainerReceive, MQ!Receive, MQ!counters, MQ!calls
    <3>4. batch' \in Seq(Samples) /\ Len(batch') = Len(batch) + 1
      BY <3>2, <3>3
    <3>5. /\ trainer' \in {"collect", "train"}
          /\ trainer' = "collect" => Len(batch') < RequiredSamples
          /\ trainer' = "train" => Len(batch') = RequiredSamples
      BY <1>1, <3>1, <3>2, <3>3, <3>4
    <3>6. getter'["trainer"] = "idle" /\ reply'["trainer"] = Closed
          /\ getter' \in [{"trainer"} -> {"idle", "blocked", "notified", "done"}]
          /\ reply' \in [{"trainer"} -> Samples \cup {Sentinel, Closed}]
      BY <1>1, <3>3 DEF TrainerInv
    <3>7. QED
      BY <1>1, <3>3, <3>4, <3>5, <3>6 DEF TrainerInv
  <2>3. QED
    BY <2>1, <2>2
<1>9. CASE TrainerStep
  <2>1. \A i \in DOMAIN batch : batch[i] \in Samples
    BY <1>1 DEF TrainerInv
  <2>2. QED
    BY <1>1, <1>9, <2>1 DEF TrainerStep, TrainerInv
<1>10. CASE TrainerValidation \/ TrainerFinalWait
  <2>1. UNCHANGED <<mq_running, getter, reply, batch, trained, local_trigger_step, validate>>
    BY <1>10 DEF TrainerValidation, TrainerFinalWait, GetValidationResult, MQ!GetValidate, MQ!counters, MQ!calls
  <2>2. \/ trainer = "validation" /\ trainer' = "collect"
        \/ trainer = "final_wait" /\ trainer' = "returned"
    BY <1>10 DEF TrainerValidation, TrainerFinalWait
  <2>3. trainer' = "collect" => Len(batch) = 0
    BY <1>1, <2>2 DEF TrainerInv
  <2>4. QED
    BY <1>1, <2>1, <2>2, <2>3 DEF TrainerInv
<1>11. CASE TrainerFinal \/ TrainerWaitLast
  <2>1. CASE TrainerFinal
    BY <1>1, <1>11, <2>1 DEF TrainerFinal, TrainerInv
  <2>2. CASE TrainerWaitLast
    BY <1>1, <1>11, <2>2 DEF TrainerWaitLast, TrainerInv
  <2>3. QED
    BY <1>11, <2>1, <2>2
<1>12. CASE Sync
  <2>1. CASE SyncPause
    BY <1>1, <2>1 DEF SyncPause, TrainerInv
  <2>2. CASE SyncVersion
    BY <1>1, <2>2 DEF SyncVersion, MQ!UpdateParamVersion, MQ!counters, MQ!calls, TrainerInv
  <2>3. CASE SyncWeights
    BY <1>1, <2>3 DEF SyncWeights, TrainerInv, PhaseInv
  <2>4. QED
    BY <1>12, <2>1, <2>2, <2>3 DEF Sync
<1>13. QED
  BY <1>4, <1>5, <1>6, <1>7, <1>8, <1>9, <1>10, <1>11, <1>12 DEF Next, Trainer

LEMMA StepType ==
  ASSUME TypeInv, PhaseInv, Next
  PROVE  TypeInv'
BY SchedStep, ProcStep, QueueStep, ConsStep, CountStep, TrainerStepType DEF TypeInv

LEMMA StutterType ==
  ASSUME TypeInv, UNCHANGED vars
  PROVE  TypeInv'
<1> USE DEF vars, rollouter_vars, trainer_vars, sched, flags, tasks, feeding, counts, locals, mqvars
<1>1. SchedType' /\ QueueType'
  BY DEF TypeInv, SchedType, QueueType
<1>2. ProcInv'
  BY DEF TypeInv, ProcInv
<1>3. ConsInv'
  BY DEF TypeInv, ConsInv, PutInFlight
<1>4. CountType'
  BY DEF TypeInv, CountType
<1>5. TrainerInv'
  BY DEF TypeInv, TrainerInv
<1>6. QED
  BY <1>1, <1>2, <1>3, <1>4, <1>5 DEF TypeInv

(***************************************************************************)
(* The queues hold samples of the run and stay within their sizes, at most *)
(* max_concurrent_samples tasks run at a time, and the counters are never  *)
(* negative.                                                               *)
(***************************************************************************)
THEOREM Types == Spec => []TypeOK
<1>1. Init => TypeInv /\ PhaseInv
  BY InitType, InitPhase
<1>2. TypeInv /\ PhaseInv /\ [Next]_vars => (TypeInv /\ PhaseInv)'
  BY StepType, StutterType, PhaseStep
<1>3. TypeInv => TypeOK
  BY ValuesAssumption DEF TypeInv, TypeOK, SchedType, ProcInv, QueueType, ConsInv, CountType, TrainerInv, Task
<1>4. QED
  BY <1>1, <1>2, <1>3, PTL DEF Spec

-----------------------------------------------------------------------------
(* The places a sample can be in, and how every step changes their counts *)

\* the tasks that hold a sample of S
Live(S) == {t \in Task : t.sample \in S /\ Unended(t)}

\* in a task, cancelled, finished or in the hand of the consumer; held by the
\* processor; fetched by the Trainer; and anywhere between the last two queues
InFlight(S) == At(Live(S), active_tasks) + At(S, cancel_queue) + At(S, result_queue)
               + One(hand["cons"] \in S)
Held(S) == One(hand["proc"] \in S)
Fetched(S) == One(reply["trainer"] \in S) + At(S, batch)
Moving(S) == InFlight(S) + Held(S) + At(S, queue)

LEMMA CountTypes ==
  ASSUME TypeInv, NEW S \in SUBSET Samples
  PROVE  /\ At(Live(S), active_tasks) \in Nat /\ At(S, cancel_queue) \in Nat
         /\ At(S, result_queue) \in Nat /\ At(S, pending_queue) \in Nat
         /\ At(S, queue) \in Nat /\ At(S, batch) \in Nat
         /\ InFlight(S) \in Nat /\ Held(S) \in 0 .. 1 /\ Fetched(S) \in Nat
<1>1. /\ pending_queue \in Seq(Samples \cup {Done}) /\ active_tasks \in Seq(Task)
      /\ result_queue \in Seq(Samples) /\ cancel_queue \in Seq(Samples)
      /\ queue \in Seq(Samples \cup {Sentinel}) /\ batch \in Seq(Samples)
  BY DEF TypeInv, QueueType, TrainerInv
<1>2. /\ At(Live(S), active_tasks) \in Nat /\ At(S, cancel_queue) \in Nat
      /\ At(S, result_queue) \in Nat /\ At(S, pending_queue) \in Nat
      /\ At(S, queue) \in Nat /\ At(S, batch) \in Nat
  BY <1>1, AtType
<1>3. QED
  BY <1>2 DEF InFlight, Held, Fetched, One

\* the same in the state after a step
LEMMA CountTypesAfter ==
  ASSUME TypeInv', NEW S \in SUBSET Samples
  PROVE  /\ At(Live(S), active_tasks)' \in Nat /\ At(S, cancel_queue)' \in Nat
         /\ At(S, result_queue)' \in Nat /\ At(S, pending_queue)' \in Nat
         /\ At(S, queue)' \in Nat /\ At(S, batch)' \in Nat
         /\ InFlight(S)' \in Nat /\ Held(S)' \in 0 .. 1 /\ Fetched(S)' \in Nat
<1>1. /\ pending_queue' \in Seq(Samples \cup {Done}) /\ active_tasks' \in Seq(Task)
      /\ result_queue' \in Seq(Samples) /\ cancel_queue' \in Seq(Samples)
      /\ queue' \in Seq(Samples \cup {Sentinel}) /\ batch' \in Seq(Samples)
  BY DEF TypeInv, QueueType, TrainerInv
<1>2. /\ At(Live(S), active_tasks') \in Nat /\ At(S, cancel_queue') \in Nat
      /\ At(S, result_queue') \in Nat /\ At(S, pending_queue') \in Nat
      /\ At(S, queue') \in Nat /\ At(S, batch') \in Nat
  BY <1>1, AtType
<1>3. QED
  BY <1>2 DEF InFlight, Held, Fetched, One

\* what a step that moves no sample leaves alone
Still(S) == UNCHANGED <<At(S, pending_queue), InFlight(S), Held(S), At(S, queue), Fetched(S)>>

LEMMA FeedMoves ==
  ASSUME TypeInv, TypeInv', FeedSample \/ FeedDone, UNCHANGED trainer_vars, NEW S \in SUBSET Samples
  PROVE  /\ At(S, pending_queue)' = At(S, pending_queue) + One(FeedSample /\ global_steps \in S)
         /\ UNCHANGED <<InFlight(S), Held(S), At(S, queue), Fetched(S)>>
<1>1. pending_queue \in Seq(Samples \cup {Done}) /\ global_steps \in Samples /\ Done \notin S
  BY ValuesAssumption DEF TypeInv, QueueType
<1>2. \A x \in Samples \cup {Done} :
        At(S, Append(pending_queue, x)) = At(S, pending_queue) + One(x \in S)
  BY <1>1, AtAppend
<1>3. UNCHANGED <<active_tasks, cancel_queue, result_queue, hand, queue, reply, batch>>
  BY DEF FeedSample, FeedDone, tasks, locals, mqvars, trainer_vars
<1>4. UNCHANGED <<InFlight(S), Held(S), At(S, queue), Fetched(S)>>
  BY <1>3 DEF InFlight, Held, Fetched
<1>5. QED
  BY <1>1, <1>2, <1>4 DEF FeedSample, FeedDone, One

\* a sample to be resumed
LEMMA LoopMoves ==
  ASSUME TypeInv, TypeInv', ProcLoop, UNCHANGED trainer_vars, NEW S \in SUBSET Samples
  PROVE  /\ InFlight(S)' + Held(S)' = InFlight(S) + Held(S) /\ Held(S) = 0
         /\ UNCHANGED <<At(S, pending_queue), At(S, queue), Fetched(S)>>
<1>1. /\ cancel_queue \in Seq(Samples) /\ DOMAIN hand = {"proc", "cons"}
      /\ hand["proc"] = NoOne /\ NoOne \notin S
  BY ValuesAssumption DEF TypeInv, QueueType, ProcInv, ProcLoop
<1>2. cancel_queue # << >> =>
        At(S, cancel_queue) = At(S, Tail(cancel_queue)) + One(Head(cancel_queue) \in S)
  BY <1>1, AtTail
<1>3. UNCHANGED <<active_tasks, result_queue, pending_queue, hand["cons"], queue, reply, batch>>
  BY <1>1 DEF ProcLoop, mqvars, feeding, trainer_vars
<1>4. \/ UNCHANGED <<cancel_queue, hand>>
      \/ /\ cancel_queue # << >> /\ cancel_queue' = Tail(cancel_queue)
         /\ hand'["proc"] = Head(cancel_queue)
  BY <1>1 DEF ProcLoop
<1>5. At(S, cancel_queue)' + Held(S)' = At(S, cancel_queue) + Held(S) /\ Held(S) = 0
  <2>1. Held(S) = 0 /\ At(S, cancel_queue) \in Nat
    BY <1>1, CountTypes DEF Held, One
  <2>2. CASE UNCHANGED <<cancel_queue, hand>>
    BY <2>1, <2>2 DEF Held
  <2>3. CASE /\ cancel_queue # << >> /\ cancel_queue' = Tail(cancel_queue)
             /\ hand'["proc"] = Head(cancel_queue)
    BY <1>2, <2>1, <2>3 DEF Held
  <2>4. QED
    BY <1>4, <2>2, <2>3
<1>6. At(Live(S), active_tasks)' = At(Live(S), active_tasks) /\ At(S, result_queue)' = At(S, result_queue)
  BY <1>3
<1>7. One(hand["cons"] \in S)' = One(hand["cons"] \in S) /\ One(hand["cons"] \in S) \in Nat
  BY <1>3 DEF One
<1>8. InFlight(S)' + Held(S)' = InFlight(S) + Held(S)
  BY <1>5, <1>6, <1>7, CountTypes, CountTypesAfter DEF InFlight
<1>9. QED
  BY <1>3, <1>5, <1>8 DEF Fetched

LEMMA GetMoves ==
  ASSUME TypeInv, TypeInv', ProcGet, UNCHANGED trainer_vars, NEW S \in SUBSET Samples
  PROVE  /\ At(S, pending_queue) = At(S, pending_queue)' + Held(S)' /\ Held(S) = 0
         /\ UNCHANGED <<InFlight(S), At(S, queue), Fetched(S)>>
<1>1. /\ pending_queue \in Seq(Samples \cup {Done}) /\ DOMAIN hand = {"proc", "cons"}
      /\ hand["proc"] = NoOne /\ NoOne \notin S /\ pending_queue # << >>
  BY ValuesAssumption DEF TypeInv, QueueType, ProcInv, ProcGet
<1>2. At(S, pending_queue) = At(S, Tail(pending_queue)) + One(Head(pending_queue) \in S)
  BY <1>1, AtTail
<1>3. /\ UNCHANGED <<active_tasks, result_queue, cancel_queue, hand["cons"], queue, reply, batch>>
      /\ pending_queue' = Tail(pending_queue) /\ hand'["proc"] = Head(pending_queue)
  BY <1>1 DEF ProcGet, mqvars, tasks, trainer_vars
<1>4. UNCHANGED <<InFlight(S), At(S, queue), Fetched(S)>>
  BY <1>3 DEF InFlight, Fetched
<1>5. QED
  BY <1>1, <1>2, <1>3, <1>4 DEF Held, One

LEMMA DrainMoves ==
  ASSUME TypeInv, TypeInv', ProcDrainWait, UNCHANGED trainer_vars, NEW S \in SUBSET Samples
  PROVE  Still(S)
<1>1. active_tasks \in Seq(Task)
  BY DEF TypeInv, QueueType
<1>2. PICK order \in Bijection(1 .. Cardinality(Pending), Pending) :
        active_tasks' = [n \in 1 .. Cardinality(Pending) |-> active_tasks[order[n]]]
  BY DEF ProcDrainWait
<1>3. /\ Pending \in SUBSET DOMAIN active_tasks /\ Cardinality(Pending) \in Nat
      /\ \A i \in DOMAIN active_tasks : active_tasks[i] \in Live(S) => i \in Pending
  BY <1>1, PendingType DEF Pending, Live
<1>4. At(Live(S), active_tasks') = At(Live(S), active_tasks)
  BY <1>1, <1>2, <1>3, AtReorder
<1>5. UNCHANGED <<pending_queue, result_queue, cancel_queue, hand, queue, reply, batch>>
  BY DEF ProcDrainWait, feeding, mqvars, trainer_vars
<1>6. QED
  BY <1>4, <1>5 DEF Still, InFlight, Held, Fetched

LEMMA SubmitMoves ==
  ASSUME TypeInv, TypeInv', ProcSubmit, UNCHANGED trainer_vars, NEW S \in SUBSET Samples
  PROVE  /\ InFlight(S)' + Held(S)' = InFlight(S) + Held(S)
         /\ paused => UNCHANGED <<InFlight(S), Held(S)>>
         /\ UNCHANGED <<At(S, pending_queue), At(S, queue), Fetched(S)>>
<1>1. /\ active_tasks \in Seq(Task) /\ DOMAIN hand = {"proc", "cons"} /\ hand["proc"] \in Samples
      /\ NoOne \notin S
  BY ValuesAssumption DEF TypeInv, QueueType, ProcInv, ProcSubmit
<1> DEFINE new == [sample |-> hand["proc"], status |-> "new"]
<1>2. new \in Task /\ (new \in Live(S) <=> hand["proc"] \in S)
  BY <1>1 DEF Task, Live, Unended, Ended
<1>3. At(Live(S), Append(active_tasks, new)) = At(Live(S), active_tasks) + One(new \in Live(S))
  BY <1>1, <1>2, AtAppend
<1>4. UNCHANGED <<pending_queue, result_queue, cancel_queue, hand["cons"], queue, reply, batch>>
  BY <1>1 DEF ProcSubmit, mqvars, feeding, trainer_vars
<1>5. \/ UNCHANGED <<active_tasks, hand>>
      \/ ~paused /\ active_tasks' = Append(active_tasks, new) /\ hand'["proc"] = NoOne
  BY <1>1 DEF ProcSubmit
<1>6. paused => UNCHANGED <<active_tasks, hand>>
  BY DEF ProcSubmit
<1>7. At(S, cancel_queue)' = At(S, cancel_queue) /\ At(S, result_queue)' = At(S, result_queue)
      /\ One(hand["cons"] \in S)' = One(hand["cons"] \in S)
  BY <1>4
<1>8. At(Live(S), active_tasks)' + Held(S)' = At(Live(S), active_tasks) + Held(S)
  <2>1. CASE UNCHANGED <<active_tasks, hand>>
    BY <2>1 DEF Held
  <2>2. CASE active_tasks' = Append(active_tasks, new) /\ hand'["proc"] = NoOne
    BY <1>1, <1>2, <1>3, <2>2, CountTypes DEF Held, One
  <2>3. QED
    BY <1>5, <2>1, <2>2
<1>9. InFlight(S)' + Held(S)' = InFlight(S) + Held(S)
  <2>1. One(hand["cons"] \in S) \in Nat
    BY DEF One
  <2>2. QED
    BY <1>7, <1>8, <2>1, CountTypes, CountTypesAfter DEF InFlight
<1>10. QED
  BY <1>4, <1>6, <1>9 DEF Fetched, InFlight, Held

\* a task that starts moves nothing
LEMMA StartMoves ==
  ASSUME TypeInv, TypeInv', NEW i \in DOMAIN active_tasks, TaskStart(i), UNCHANGED trainer_vars,
         NEW S \in SUBSET Samples
  PROVE  Still(S)
<1>1. active_tasks \in Seq(Task)
  BY DEF TypeInv, QueueType
<1>2. PICK s \in {"generating", "refused"} : SetStatus(i, s)
  BY DEF TaskStart
<1> DEFINE new == [sample |-> active_tasks[i].sample, status |-> s]
<1>3. /\ active_tasks' = [active_tasks EXCEPT ![i] = new]
      /\ active_tasks[i] \in Task /\ new \in Task
  BY <1>1, <1>2, StatusType
<1>4. active_tasks[i] \in Live(S) <=> new \in Live(S)
  BY <1>3 DEF Live, Unended, Ended, TaskStart
<1>5. At(Live(S), active_tasks)' = At(Live(S), active_tasks)
  <2>1. \A y \in Task : At(Live(S), [active_tasks EXCEPT ![i] = y])
          = At(Live(S), active_tasks) - One(active_tasks[i] \in Live(S)) + One(y \in Live(S))
    BY <1>1, AtReplace
  <2>2. At(Live(S), active_tasks)'
          = At(Live(S), active_tasks) - One(active_tasks[i] \in Live(S)) + One(new \in Live(S))
    <3> HIDE DEF new
    <3>1. QED
      BY <1>3, <2>1
  <2>3. QED
    BY <1>4, <2>2, CountTypes DEF One
<1>6. UNCHANGED <<pending_queue, result_queue, cancel_queue, hand, queue, reply, batch>>
  BY DEF TaskStart, feeding, locals, mqvars, trainer_vars
<1>7. QED
  BY <1>5, <1>6 DEF Still, InFlight, Held, Fetched

\* a task that ends hands its sample on, unless the generation has raised
LEMMA EndMoves ==
  ASSUME TypeInv, TypeInv', NEW i \in DOMAIN active_tasks, UNCHANGED trainer_vars,
         TaskFinish(i) \/ TaskCancel(i) \/ TaskFail(i), NEW S \in SUBSET Samples
  PROVE  /\ active_tasks[i].sample \in Samples
         /\ TaskFail(i) => InFlight(S)' = InFlight(S) - One(active_tasks[i].sample \in S)
         /\ ~TaskFail(i) => InFlight(S)' = InFlight(S)
         /\ UNCHANGED <<At(S, pending_queue), Held(S), At(S, queue), Fetched(S)>>
<1>1. active_tasks \in Seq(Task) /\ result_queue \in Seq(Samples) /\ cancel_queue \in Seq(Samples)
  BY DEF TypeInv, QueueType
<1>2. PICK s \in {"done", "failed"} : SetStatus(i, s)
  BY DEF TaskFinish, TaskCancel, TaskFail
<1> DEFINE x == active_tasks[i].sample
           new == [sample |-> x, status |-> s]
<1>3. /\ active_tasks' = [active_tasks EXCEPT ![i] = new]
      /\ active_tasks[i] \in Task /\ new \in Task /\ x \in Samples
  <2>1. /\ active_tasks' = [active_tasks EXCEPT ![i] = new]
        /\ active_tasks[i] \in Task /\ new \in Task
    BY <1>1, <1>2, StatusType
  <2>2. QED
    BY <2>1 DEF Task
<1>4. new \notin Live(S) /\ (active_tasks[i] \in Live(S) <=> x \in S)
  <2>1. active_tasks[i].status \in {"generating", "refused"}
    BY DEF TaskFinish, TaskCancel, TaskFail
  <2>2. QED
    BY <1>3, <2>1 DEF Live, Unended, Ended
<1>5. At(Live(S), active_tasks)' = At(Live(S), active_tasks) - One(x \in S)
  <2>1. \A y \in Task : At(Live(S), [active_tasks EXCEPT ![i] = y])
          = At(Live(S), active_tasks) - One(active_tasks[i] \in Live(S)) + One(y \in Live(S))
    BY <1>1, AtReplace
  <2>2. At(Live(S), active_tasks)'
          = At(Live(S), active_tasks) - One(active_tasks[i] \in Live(S)) + One(new \in Live(S))
    <3> HIDE DEF new
    <3>1. QED
      BY <1>3, <2>1
  <2>3. QED
    BY <1>4, <2>2, CountTypes DEF One
<1>6. UNCHANGED <<pending_queue, hand, queue, reply, batch>>
  BY DEF TaskFinish, TaskCancel, TaskFail, feeding, locals, mqvars, trainer_vars
<1>7. At(S, Append(result_queue, x)) = At(S, result_queue) + One(x \in S)
  BY <1>1, <1>3, AtAppend
<1>8. At(S, Append(cancel_queue, x)) = At(S, cancel_queue) + One(x \in S)
  BY <1>1, <1>3, AtAppend
<1>9. \/ TaskFail(i) /\ UNCHANGED <<result_queue, cancel_queue>>
      \/ /\ ~TaskFail(i) /\ UNCHANGED cancel_queue
         /\ result_queue' = Append(result_queue, x)
      \/ /\ ~TaskFail(i) /\ UNCHANGED result_queue
         /\ cancel_queue' = Append(cancel_queue, x)
  <2>1. CASE TaskFail(i)
    BY <2>1 DEF TaskFail
  <2>2. CASE ~TaskFail(i)
    BY <2>2 DEF TaskFinish, TaskCancel
  <2>3. QED
    BY <2>1, <2>2
<1>10. At(S, cancel_queue)' + At(S, result_queue)'
         = At(S, cancel_queue) + At(S, result_queue) + (IF TaskFail(i) THEN 0 ELSE One(x \in S))
  <2>1. CASE TaskFail(i) /\ UNCHANGED <<result_queue, cancel_queue>>
    BY <2>1, CountTypes
  <2>2. CASE ~TaskFail(i) /\ UNCHANGED cancel_queue /\ result_queue' = Append(result_queue, x)
    BY <1>7, <2>2, CountTypes DEF One
  <2>3. CASE ~TaskFail(i) /\ UNCHANGED result_queue /\ cancel_queue' = Append(cancel_queue, x)
    BY <1>8, <2>3, CountTypes DEF One
  <2>4. QED
    BY <1>9, <2>1, <2>2, <2>3
<1>11. One(hand["cons"] \in S)' = One(hand["cons"] \in S) /\ One(hand["cons"] \in S) \in Nat /\ One(x \in S) \in Nat
  BY <1>6 DEF One
<1>12. InFlight(S)' = InFlight(S) - (IF TaskFail(i) THEN One(x \in S) ELSE 0)
  BY <1>5, <1>10, <1>11, CountTypes, CountTypesAfter DEF InFlight
<1>13. QED
  BY <1>3, <1>6, <1>12, CountTypes DEF Held, Fetched

LEMMA ConsMoves ==
  ASSUME TypeInv, TypeInv', ConsGet, UNCHANGED trainer_vars, NEW S \in SUBSET Samples
  PROVE  Still(S)
<1>1. /\ result_queue \in Seq(Samples) /\ DOMAIN hand = {"proc", "cons"}
      /\ hand["cons"] = NoOne /\ NoOne \notin S /\ result_queue # << >>
  BY ValuesAssumption DEF TypeInv, QueueType, ProcInv, ConsInv, PutInFlight, ConsGet
<1>2. At(S, result_queue) = At(S, Tail(result_queue)) + One(Head(result_queue) \in S)
  BY <1>1, AtTail
<1>3. /\ UNCHANGED <<active_tasks, cancel_queue, pending_queue, hand["proc"], queue, reply, batch>>
      /\ result_queue' = Tail(result_queue) /\ hand'["cons"] = Head(result_queue)
  BY <1>1 DEF ConsGet, mqvars, feeding, trainer_vars
<1>4. At(S, result_queue) + One(hand["cons"] \in S) = At(S, result_queue)' + One(hand["cons"] \in S)'
  BY <1>1, <1>2, <1>3, CountTypes, CountTypesAfter DEF One
<1>5. At(Live(S), active_tasks)' = At(Live(S), active_tasks) /\ At(S, cancel_queue)' = At(S, cancel_queue)
  BY <1>3
<1>6. One(hand["cons"] \in S) \in Nat /\ One(hand["cons"] \in S)' \in Nat
  BY DEF One
<1>7. InFlight(S)' = InFlight(S)
  BY <1>4, <1>5, <1>6, CountTypes, CountTypesAfter DEF InFlight
<1>8. QED
  BY <1>3, <1>7 DEF Still, Held, Fetched

\* a put makes room by dropping the oldest sample
Dropped(S) == IF MQ!IsFull THEN One(Head(queue) \in S) ELSE 0

LEMMA PutCount ==
  ASSUME TypeInv, NEW x \in Samples \cup {Sentinel}, MQ!PutSample(x), NEW S \in SUBSET Samples
  PROVE  /\ At(S, queue)' = At(S, queue) - Dropped(S) + One(x \in S)
         /\ MQ!IsFull => queue # << >> /\ dropped_samples' = dropped_samples + 1
         /\ ~MQ!IsFull => dropped_samples' = dropped_samples
         /\ UNCHANGED reply
<1>1. queue \in Seq(Samples \cup {Sentinel}) /\ MaxRequiredSamples \in Nat \ {0}
  BY Capacity DEF TypeInv, QueueType
<1> DEFINE rest == IF MQ!IsFull THEN Tail(queue) ELSE queue
<1>2. /\ queue' = Append(rest, x) /\ UNCHANGED reply
      /\ MQ!IsFull => dropped_samples' = dropped_samples + 1
      /\ ~MQ!IsFull => dropped_samples' = dropped_samples
  BY DEF MQ!PutSample
<1>3. MQ!IsFull => queue # << >>
  BY <1>1 DEF MQ!IsFull
<1>4. rest \in Seq(Samples \cup {Sentinel}) /\ At(S, rest) = At(S, queue) - Dropped(S)
  <2>1. queue # << >> => /\ Tail(queue) \in Seq(Samples \cup {Sentinel})
                         /\ At(S, queue) = At(S, Tail(queue)) + One(Head(queue) \in S)
    BY <1>1, TailType, AtTail
  <2>2. Tail(queue) \in Seq(Samples \cup {Sentinel}) => At(S, Tail(queue)) \in Nat
    BY AtType
  <2>3. QED
    BY <1>1, <1>3, <2>1, <2>2, CountTypes DEF Dropped, One
<1>5. At(S, Append(rest, x)) = At(S, rest) + One(x \in S)
  BY <1>4, AtAppend
<1>6. QED
  BY <1>2, <1>3, <1>4, <1>5

LEMMA PutPlaces ==
  ASSUME TypeInv, TypeInv', ConsPut, NEW S \in SUBSET Samples
  PROVE  /\ hand["cons"] \in Samples
         /\ InFlight(S)' = InFlight(S) - One(hand["cons"] \in S)
         /\ At(S, queue)' = At(S, queue) - Dropped(S) + One(hand["cons"] \in S)
         /\ UNCHANGED <<At(S, pending_queue), Held(S), reply>>
<1>1. DOMAIN hand = {"proc", "cons"} /\ hand["cons"] \in Samples /\ NoOne \notin S
  BY ValuesAssumption DEF TypeInv, ProcInv, ConsInv, ConsPut, PutInFlight
<1>2. /\ UNCHANGED <<active_tasks, cancel_queue, result_queue, pending_queue, hand["proc"]>>
      /\ hand'["cons"] = NoOne /\ MQ!PutSample(hand["cons"])
  BY <1>1 DEF ConsPut, tasks, feeding
<1>3. At(S, queue)' = At(S, queue) - Dropped(S) + One(hand["cons"] \in S) /\ UNCHANGED reply
  BY <1>1, <1>2, PutCount
<1>4. One(hand["cons"] \in S)' = 0 /\ One(hand["cons"] \in S) \in Nat
  BY <1>1, <1>2 DEF One
<1>5. InFlight(S)' = InFlight(S) - One(hand["cons"] \in S)
  BY <1>2, <1>4, CountTypes, CountTypesAfter DEF InFlight
<1>6. QED
  BY <1>1, <1>2, <1>3, <1>5 DEF Held

LEMMA PutMoves ==
  ASSUME TypeInv, TypeInv', ConsPut, UNCHANGED trainer_vars, NEW S \in SUBSET Samples
  PROVE  /\ hand["cons"] \in Samples
         /\ InFlight(S)' = InFlight(S) - One(hand["cons"] \in S)
         /\ At(S, queue)' = At(S, queue) - Dropped(S) + One(hand["cons"] \in S)
         /\ UNCHANGED <<At(S, pending_queue), Held(S), Fetched(S)>>
BY PutPlaces DEF trainer_vars, Fetched

LEMMA SentinelMoves ==
  ASSUME TypeInv, TypeInv', MainSentinel, UNCHANGED trainer_vars, NEW S \in SUBSET Samples
  PROVE  /\ At(S, queue)' = At(S, queue) - Dropped(S)
         /\ UNCHANGED <<At(S, pending_queue), InFlight(S), Held(S), Fetched(S)>>
<1>1. Sentinel \notin S
  BY DEF Samples, Sentinel
<1>2. /\ UNCHANGED <<active_tasks, cancel_queue, result_queue, pending_queue, hand, batch>>
      /\ MQ!PutSample(Sentinel)
  BY DEF MainSentinel, tasks, feeding, locals, trainer_vars
<1>3. At(S, queue)' = At(S, queue) - Dropped(S) + One(Sentinel \in S) /\ UNCHANGED reply
  BY <1>2, PutCount
<1>4. One(Sentinel \in S) = 0 /\ At(S, queue) - Dropped(S) \in Int
  BY <1>1, CountTypes DEF One, Dropped
<1>5. QED
  BY <1>2, <1>3, <1>4 DEF InFlight, Held, Fetched

\* pause() forgets tasks that have ended
LEMMA GatherMoves ==
  ASSUME TypeInv, TypeInv', PauseGather, UNCHANGED trainer_vars, NEW S \in SUBSET Samples
  PROVE  Still(S)
<1>1. active_tasks \in Seq(Task)
  BY DEF TypeInv, QueueType
<1>2. /\ \A i \in DOMAIN active_tasks : Ended(active_tasks[i])
      /\ active_tasks' = << >>
  BY DEF PauseGather
<1>3. At(Live(S), active_tasks) = 0
  <2>1. \A i \in DOMAIN active_tasks : active_tasks[i] \notin Live(S)
    BY <1>2 DEF Live, Unended
  <2>2. QED
    BY <1>1, <2>1, AtNone
<1>4. At(Live(S), << >>) = 0
  <2>1. << >> \in Seq(Task) /\ \A i \in DOMAIN << >> : << >>[i] \notin Live(S)
    OBVIOUS
  <2>2. QED
    BY <2>1, AtNone
<1>5. UNCHANGED <<pending_queue, result_queue, cancel_queue, hand, queue, reply, batch>>
  BY DEF PauseGather, feeding, locals, mqvars, trainer_vars
<1>6. QED
  BY <1>2, <1>3, <1>4, <1>5 DEF Still, InFlight, Held, Fetched

LEMMA FetchMoves ==
  ASSUME TypeInv, TypeInv', TrainerGet, NEW S \in SUBSET Samples
  PROVE  /\ At(S, queue)' + Fetched(S)' = At(S, queue) + Fetched(S)
         /\ Fetched(S) <= Fetched(S)'
         /\ UNCHANGED <<At(S, pending_queue), InFlight(S), Held(S)>>
<1>1. /\ queue \in Seq(Samples \cup {Sentinel}) /\ Closed \notin S
      /\ reply \in [{"trainer"} -> Samples \cup {Sentinel, Closed}] /\ reply["trainer"] = Closed /\ mq_running = TRUE
  BY ValuesAssumption DEF TypeInv, QueueType, TrainerInv, TrainerGet, MQ!GetSample, MQ!Wake
<1>2. UNCHANGED <<active_tasks, cancel_queue, result_queue, pending_queue, hand, batch>>
  BY DEF TrainerGet, UnchangedRollouter, tasks, feeding, locals, trainer_vars
<1>3. \/ UNCHANGED <<queue, reply>>
      \/ queue # << >> /\ queue' = Tail(queue) /\ reply'["trainer"] = Head(queue)
  BY <1>1 DEF TrainerGet, MQ!GetSample, MQ!Wake, MQ!GetSampleBody, MQ!Pop, MQ!ReturnClosed, MQ!Wait
<1>4. queue # << >> => At(S, queue) = At(S, Tail(queue)) + One(Head(queue) \in S)
  BY <1>1, AtTail
<1>5. One(reply["trainer"] \in S) = 0 /\ At(S, batch)' = At(S, batch)
  BY <1>1, <1>2 DEF One
<1>6. CASE UNCHANGED <<queue, reply>>
  BY <1>2, <1>6, CountTypes DEF Fetched, InFlight, Held
<1>7. CASE queue # << >> /\ queue' = Tail(queue) /\ reply'["trainer"] = Head(queue)
  <2>1. At(S, queue) = At(S, queue)' + One(reply["trainer"] \in S)' /\ One(reply["trainer"] \in S)' \in Nat
    BY <1>4, <1>7 DEF One
  <2>2. At(S, queue)' + Fetched(S)' = At(S, queue) + Fetched(S) /\ Fetched(S) <= Fetched(S)'
    BY <1>5, <2>1, CountTypes, CountTypesAfter DEF Fetched
  <2>3. QED
    BY <1>2, <2>2 DEF InFlight, Held
<1>8. QED
  BY <1>3, <1>6, <1>7

LEMMA ReceiveMoves ==
  ASSUME TypeInv, TypeInv', TrainerReceive, NEW S \in SUBSET Samples
  PROVE  Still(S)
<1>1. /\ reply["trainer"] \in Samples \cup {Sentinel} /\ Closed \notin S /\ Sentinel \notin S
      /\ batch \in Seq(Samples) /\ reply \in [{"trainer"} -> Samples \cup {Sentinel, Closed}]
  <2>1. Closed \notin S /\ Sentinel \notin S
    <3>1. Closed \notin Samples \cup {Sentinel}
      BY ValuesAssumption
    <3>2. TotalRolloutSteps \in Nat
      BY RollouterAssumption
    <3>3. Sentinel \notin Samples
      BY <3>2 DEF Samples, Sentinel
    <3>4. QED
      BY <3>1, <3>3
  <2>2. TrainerInv /\ getter["trainer"] = "done"
    BY DEF TypeInv, TrainerReceive, MQ!Receive
  <2>3. QED
    BY <2>1, <2>2 DEF TrainerInv
<1>2. UNCHANGED <<active_tasks, cancel_queue, result_queue, pending_queue, hand, queue>>
  BY DEF TrainerReceive, UnchangedRollouter, tasks, feeding, locals, MQ!Receive
<1>3. /\ reply'["trainer"] = Closed
      /\ batch' = IF reply["trainer"] = Sentinel THEN batch ELSE Append(batch, reply["trainer"])
  BY <1>1 DEF TrainerReceive, MQ!Receive
<1>4. reply["trainer"] \in Samples =>
        At(S, Append(batch, reply["trainer"])) = At(S, batch) + One(reply["trainer"] \in S)
  BY <1>1, AtAppend
<1>5. One(reply["trainer"] \in S)' = 0
  BY <1>1, <1>3 DEF One
<1>6. Fetched(S)' = Fetched(S)
  <2>1. CASE reply["trainer"] = Sentinel
    BY <1>1, <1>3, <1>5, <2>1, CountTypes DEF Fetched, One
  <2>2. CASE reply["trainer"] # Sentinel
    <3>1. batch' = Append(batch, reply["trainer"]) /\ reply["trainer"] \in Samples
      BY <1>1, <1>3, <2>2
    <3>2. At(S, batch)' = At(S, batch) + One(reply["trainer"] \in S)
      BY <1>4, <3>1
    <3>3. At(S, batch) \in Nat /\ One(reply["trainer"] \in S) \in Nat
      BY CountTypes DEF One
    <3>4. QED
      BY <1>5, <3>2, <3>3 DEF Fetched
  <2>3. QED
    BY <2>1, <2>2
<1>7. QED
  BY <1>2, <1>6 DEF Still, InFlight, Held

LEMMA TrainMoves ==
  ASSUME TypeInv, TypeInv', TrainerStep, NEW S \in SUBSET Samples
  PROVE  /\ Fetched(S)' = 0 /\ Fetched(S) = At(S, batch)
         /\ UNCHANGED <<At(S, pending_queue), InFlight(S), Held(S), At(S, queue)>>
<1>1. reply["trainer"] = Closed /\ Closed \notin S
  BY ValuesAssumption DEF TypeInv, TrainerInv, TrainerStep
<1>2. UNCHANGED <<active_tasks, cancel_queue, result_queue, pending_queue, hand, queue, reply>> /\ batch' = << >>
  BY DEF TrainerStep, UnchangedRollouter, tasks, feeding, locals, mqvars
<1>3. At(S, << >>) = 0
  <2>1. << >> \in Seq(Samples) /\ \A i \in DOMAIN << >> : << >>[i] \notin S
    OBVIOUS
  <2>2. QED
    BY <2>1, AtNone
<1>4. QED
  BY <1>1, <1>2, <1>3, CountTypes DEF InFlight, Held, Fetched, One

-----------------------------------------------------------------------------
(* Steps that move samples, and steps that do not *)

\* the steps that move a sample, or change what is counted
Moves ==
  \/ /\ UNCHANGED trainer_vars
     /\ \/ FeedSample \/ FeedDone \/ ProcLoop \/ ProcGet \/ ProcDrainWait \/ ProcSubmit
        \/ \E i \in DOMAIN active_tasks :
             TaskStart(i) \/ TaskFinish(i) \/ TaskCancel(i) \/ TaskFail(i)
        \/ ConsGet \/ ConsPut \/ MainSentinel \/ PauseGather
  \/ TrainerGet \/ TrainerReceive \/ TrainerStep

\* and those that do not
Rests ==
  UNCHANGED <<pending_queue, global_steps, active_tasks, cancel_queue, result_queue, hand, queue,
              reply, batch, trained, start_version, failures, dropped_samples, pc["feed"]>>

LEMMA Steps ==
  ASSUME TypeInv, [Next]_vars
  PROVE  Moves \/ Rests
<1> DOMAIN pc = Coroutines /\ {"feed", "proc", "cons", "main", "mon", "rpc"} \subseteq Coroutines
  BY DEF TypeInv, SchedType, Coroutines
<1> USE DEF Rests, sched, flags, tasks, feeding, counts, locals, mqvars, trainer_vars, Goto
<1>1. CASE Processing /\ UNCHANGED trainer_vars
  <2>1. CASE ProcSetPaused \/ ProcGetWaits \/ ProcDrain \/ ProcDrainLock \/ ProcIdle \/ AwaitLock("proc")
    BY <1>1, <2>1 DEF ProcSetPaused, ProcGetWaits, ProcDrain, ProcDrainLock, ProcIdle, AwaitLock
  <2>2. QED
    BY <1>1, <2>1 DEF Processing, Moves
<1>2. CASE (Feeding \/ Generating) /\ UNCHANGED trainer_vars
  BY <1>2 DEF Feeding, Generating, Moves
<1>3. CASE Consuming /\ UNCHANGED trainer_vars
  <2>1. ConsAck => Rests
    BY <1>3 DEF ConsAck
  <2>2. QED
    BY <1>3, <2>1 DEF Consuming, Moves
<1>4. CASE Finishing /\ UNCHANGED trainer_vars
  <2>1. CASE MainFed \/ MainProcessed \/ MainCancel \/ MainStop \/ AwaitLock("main")
    BY <1>4, <2>1 DEF MainFed, MainProcessed, MainCancel, MainStop, AwaitLock
  <2>2. QED
    BY <1>4, <2>1 DEF Finishing, Moves
<1>5. CASE Monitoring /\ UNCHANGED trainer_vars
  BY <1>5 DEF Monitoring, MonTop, MonCheck, MonUnpause, AwaitLock, Awake
<1>6. CASE Serving(sync_version) /\ UNCHANGED trainer_vars
  <2>1. CASE PauseBegin \/ PauseCancel \/ PauseEnd
    BY <1>6, <2>1 DEF PauseBegin, PauseCancel, PauseEnd
  <2>2. CASE UpdateBegin(sync_version) \/ UpdateQueueSize \/ UpdateSet
    BY <1>6, <2>2 DEF UpdateBegin, UpdateQueueSize, UpdateSet
  <2>3. CASE UpdateEnd
    BY <1>6, <2>3 DEF UpdateEnd, MQ!PutValidate, MQ!counters, MQ!calls
  <2>4. CASE ResumeBegin \/ ResumeEnd \/ AwaitLock("rpc")
    BY <1>6, <2>4 DEF ResumeBegin, ResumeEnd, AwaitLock, Awake
  <2>5. QED
    BY <1>6, <2>1, <2>2, <2>3, <2>4 DEF Serving, Moves
<1>7. CASE Trainer
  <2>1. CASE TrainerValidation \/ TrainerFinalWait
    BY <2>1 DEF TrainerValidation, TrainerFinalWait, GetValidationResult, MQ!GetValidate, MQ!counters,
                MQ!calls, UnchangedRollouter
  <2>2. CASE TrainerFinal
    BY <2>2 DEF TrainerFinal, UnchangedRollouter
  <2>3. CASE TrainerWaitLast
    BY <2>3 DEF TrainerWaitLast, UnchangedRollouter
  <2>4. QED
    BY <1>7, <2>1, <2>2, <2>3 DEF Trainer, Moves
<1>8. CASE Sync
  <2>1. CASE SyncVersion
    BY <2>1 DEF SyncVersion, UnchangedRollouter, MQ!UpdateParamVersion, MQ!counters, MQ!calls
  <2>2. CASE SyncPause \/ SyncWeights
    BY <2>2 DEF SyncPause, SyncWeights
  <2>3. QED
    BY <1>8, <2>1, <2>2 DEF Sync
<1>9. CASE UNCHANGED vars
  BY <1>9 DEF vars, rollouter_vars
<1>10. QED
  BY <1>1, <1>2, <1>3, <1>4, <1>5, <1>6, <1>7, <1>8, <1>9 DEF Next

LEMMA RestMoves ==
  ASSUME Rests, NEW S \in SUBSET Samples
  PROVE  Still(S)
BY DEF Rests, Still, InFlight, Held, Fetched

-----------------------------------------------------------------------------
(* A sample is in one place *)

Everywhere(s) ==
  At({s}, pending_queue) + InFlight({s}) + Held({s}) + At({s}, queue) + Fetched({s}) + One(s \in trained)

LEMMA OccurrencesAreCounted ==
  ASSUME TypeInv, NEW s \in Samples
  PROVE  Occurrences(s) = Everywhere(s)
<1>1. \A seq : Cardinality(Positions(s, seq)) = At({s}, seq)
  <2>1. \A seq : Positions(s, seq) = {i \in DOMAIN seq : seq[i] \in {s}}
    BY DEF Positions
  <2>2. QED
    BY <2>1 DEF At
<1>2. Cardinality(Generations(s)) = At(Live({s}), active_tasks)
  <2>1. \A i \in DOMAIN active_tasks : active_tasks[i] \in Task
    BY DEF TypeInv, QueueType
  <2>2. Generations(s) = {i \in DOMAIN active_tasks : active_tasks[i] \in Live({s})}
    BY <2>1 DEF Generations, Live
  <2>3. QED
    BY <2>2 DEF At
<1>3. \A a, b : Cardinality({}) = 0 /\ Cardinality({a}) = 1 /\ (a # b => Cardinality({a, b}) = 2)
  <2>1. TAKE a, b
  <2>2. Cardinality({}) = 0 /\ IsFiniteSet({a}) /\ Cardinality({a}) = 1
    BY FS_EmptySet, FS_Singleton
  <2>3. a # b => Cardinality({a} \cup {b}) = 1 + 1
    BY <2>2, FS_AddElement
  <2>4. {a} \cup {b} = {a, b}
    OBVIOUS
  <2>5. QED
    BY <2>2, <2>3, <2>4
<1>8. Cardinality({"proc", "cons"}) = 2 /\ Cardinality({"proc"}) = 1 /\ Cardinality({"cons"}) = 1
  BY <1>3
<1>4. Cardinality(Holders(s)) = One(hand["proc"] \in {s}) + One(hand["cons"] \in {s})
  <2>1. CASE hand["proc"] = s /\ hand["cons"] = s
    <3>1. Holders(s) = {"proc", "cons"}
      BY <2>1 DEF Holders
    <3>2. QED
      BY <1>8, <1>3, <2>1, <3>1 DEF One
  <2>2. CASE hand["proc"] = s /\ hand["cons"] # s
    <3>1. Holders(s) = {"proc"}
      BY <2>2 DEF Holders
    <3>2. QED
      BY <1>8, <1>3, <2>2, <3>1 DEF One
  <2>3. CASE hand["proc"] # s /\ hand["cons"] = s
    <3>1. Holders(s) = {"cons"}
      BY <2>3 DEF Holders
    <3>2. QED
      BY <1>8, <1>3, <2>3, <3>1 DEF One
  <2>4. CASE hand["proc"] # s /\ hand["cons"] # s
    <3>1. Holders(s) = {}
      BY <2>4 DEF Holders
    <3>2. QED
      BY <1>3, <2>4, <3>1 DEF One
  <2>5. QED
    BY <2>1, <2>2, <2>3, <2>4
<1>5. Cardinality(Replies(s)) = One(reply["trainer"] \in {s})
  <2>1. CASE reply["trainer"] = s
    <3>1. Replies(s) = {"trainer"}
      BY <2>1 DEF Replies
    <3>2. QED
      BY <1>8, <1>3, <2>1, <3>1 DEF One
  <2>2. CASE reply["trainer"] # s
    <3>1. Replies(s) = {}
      BY <2>2 DEF Replies
    <3>2. QED
      BY <1>8, <1>3, <2>2, <3>1 DEF One
  <2>3. QED
    BY <2>1, <2>2
<1>6. Cardinality({s} \cap trained) = One(s \in trained)
  <2>1. CASE s \in trained
    <3>1. {s} \cap trained = {s}
      BY <2>1
    <3>2. QED
      BY <1>8, <1>3, <2>1, <3>1 DEF One
  <2>2. CASE s \notin trained
    <3>1. {s} \cap trained = {}
      BY <2>2
    <3>2. QED
      BY <1>8, <1>3, <2>2, <3>1 DEF One
  <2>3. QED
    BY <2>1, <2>2
<1>7. /\ Cardinality(Positions(s, pending_queue)) = At({s}, pending_queue)
      /\ Cardinality(Positions(s, cancel_queue)) = At({s}, cancel_queue)
      /\ Cardinality(Positions(s, result_queue)) = At({s}, result_queue)
      /\ Cardinality(Positions(s, queue)) = At({s}, queue)
      /\ Cardinality(Positions(s, batch)) = At({s}, batch)
  BY <1>1
<1>9. /\ {One(hand["proc"] \in {s}), One(hand["cons"] \in {s}), One(reply["trainer"] \in {s}),
          One(s \in trained)} \subseteq Nat
      /\ {At(Live({s}), active_tasks), At({s}, cancel_queue), At({s}, result_queue), At({s}, pending_queue),
          At({s}, queue), At({s}, batch)} \subseteq Nat
  <2>1. {s} \in SUBSET Samples
    OBVIOUS
  <2>2. QED
    BY <2>1, CountTypes DEF One
<1>10. QED
  BY <1>2, <1>4, <1>5, <1>6, <1>7, <1>9 DEF Occurrences, Everywhere, InFlight, Held, Fetched

LEMMA FedGrows ==
  ASSUME TypeInv, [Next]_vars
  PROVE  Fed' = IF FeedSample THEN Fed \cup {global_steps} ELSE Fed
<1>1. /\ DOMAIN pc = Coroutines /\ global_steps \in 1 .. TotalRolloutSteps /\ TotalRolloutSteps \in Nat
      /\ pc["feed"] \in {"put", "end", "returned"}
      /\ {"feed", "proc", "cons", "main", "mon", "rpc"} \subseteq Coroutines
  BY RollouterAssumption DEF TypeInv, SchedType, QueueType, ProcInv, Samples, Coroutines
<1>2. CASE FeedSample
  BY <1>1, <1>2 DEF FeedSample, Fed, Samples, Goto
<1>3. CASE UNCHANGED <<global_steps, pc["feed"]>> /\ ~FeedSample
  BY <1>3 DEF Fed
<1>4. CASE FeedDone
  BY <1>1, <1>4 DEF FeedDone, FeedSample, Fed, Samples, Goto
<1>5. FeedSample \/ FeedDone \/ UNCHANGED <<global_steps, pc["feed"]>>
  <2>1. Moves => FeedSample \/ FeedDone \/ UNCHANGED <<global_steps, pc["feed"]>>
    BY <1>1 DEF Moves, ProcLoop, ProcGet, ProcDrainWait, ProcSubmit, TaskStart, TaskFinish, TaskCancel, TaskFail,
                ConsGet, ConsPut, MainSentinel, PauseGather, TrainerGet, TrainerReceive, TrainerStep,
                UnchangedRollouter, sched, feeding, Goto
  <2>2. QED
    BY <2>1, Steps DEF Rests
<1>6. QED
  BY <1>2, <1>3, <1>4, <1>5

\* the steps that lose no sample
Keeping ==
  \/ Rests
  \/ /\ UNCHANGED trainer_vars
     /\ \/ FeedDone \/ ProcLoop \/ ProcGet \/ ProcDrainWait \/ ProcSubmit
        \/ \E i \in DOMAIN active_tasks : TaskStart(i) \/ TaskFinish(i) \/ TaskCancel(i)
        \/ ConsGet \/ PauseGather
  \/ TrainerGet \/ TrainerReceive \/ TrainerStep

LEMMA KeepingCounts ==
  ASSUME Keeping
  PROVE  UNCHANGED <<dropped_samples, failures>>
<1> USE DEF sched, flags, tasks, feeding, counts, locals, mqvars
<1>1. CASE \/ FeedDone \/ ProcLoop \/ ProcGet \/ ProcDrainWait \/ ProcSubmit \/ ConsGet \/ PauseGather
  BY <1>1 DEF FeedDone, ProcLoop, ProcGet, ProcDrainWait, ProcSubmit, ConsGet, PauseGather
<1>2. CASE \E i \in DOMAIN active_tasks : TaskStart(i) \/ TaskFinish(i) \/ TaskCancel(i)
  BY <1>2 DEF TaskStart, TaskFinish, TaskCancel
<1>3. CASE TrainerGet \/ TrainerReceive \/ TrainerStep
  BY <1>3 DEF TrainerGet, TrainerReceive, TrainerStep, UnchangedRollouter, MQ!GetSample, MQ!Wake,
              MQ!GetSampleBody, MQ!Receive, MQ!counters
<1>4. QED
  BY <1>1, <1>2, <1>3 DEF Keeping, Rests

LEMMA KeepingKeeps ==
  ASSUME TypeInv, TypeInv', Keeping, NEW s \in Samples, Everywhere(s) <= 1
  PROVE  Everywhere(s)' = Everywhere(s)
<1> DEFINE S == {s}
<1>1. S \in SUBSET Samples
  OBVIOUS
<1> HIDE DEF S
<1>2. /\ {At(S, pending_queue), InFlight(S), Held(S), At(S, queue), Fetched(S), One(s \in trained)} \subseteq Nat
      /\ {At(S, pending_queue)', InFlight(S)', Held(S)', At(S, queue)', Fetched(S)'} \subseteq Nat
  BY <1>1, CountTypes, CountTypesAfter DEF One
<1>3. Everywhere(s) = At(S, pending_queue) + InFlight(S) + Held(S) + At(S, queue) + Fetched(S) + One(s \in trained)
  BY DEF Everywhere, S
<1>4. Everywhere(s)' = At(S, pending_queue)' + InFlight(S)' + Held(S)' + At(S, queue)' + Fetched(S)'
                       + One(s \in trained)'
  BY DEF Everywhere, S
<1>5. CASE Still(S) /\ UNCHANGED trained
  BY <1>3, <1>4, <1>5 DEF Still
<1>6. CASE Rests
  BY <1>1, <1>5, <1>6, RestMoves DEF Rests
<1>7. CASE UNCHANGED trainer_vars /\ ~(TrainerGet \/ TrainerReceive \/ TrainerStep)
  <2>0. UNCHANGED trained
    BY <1>7 DEF trainer_vars
  <2>1. CASE ProcDrainWait \/ ConsGet \/ PauseGather
    BY <1>1, <1>5, <1>7, <2>0, <2>1, DrainMoves, ConsMoves, GatherMoves
  <2>2. CASE FeedDone
    <3>1. /\ At(S, pending_queue)' = At(S, pending_queue) + One(FeedSample /\ global_steps \in S)
          /\ UNCHANGED <<InFlight(S), Held(S), At(S, queue), Fetched(S)>>
      BY <1>1, <1>7, <2>2, FeedMoves
    <3>2. ~FeedSample
      BY <2>2 DEF FeedSample, FeedDone
    <3>3. QED
      BY <1>2, <1>5, <2>0, <3>1, <3>2 DEF Still, One
  <2>3. CASE ProcLoop
    BY <1>1, <1>2, <1>3, <1>4, <1>7, <2>0, <2>3, LoopMoves
  <2>4. CASE ProcGet
    BY <1>1, <1>2, <1>3, <1>4, <1>7, <2>0, <2>4, GetMoves
  <2>5. CASE ProcSubmit
    BY <1>1, <1>2, <1>3, <1>4, <1>7, <2>0, <2>5, SubmitMoves
  <2>6. CASE \E i \in DOMAIN active_tasks : TaskStart(i)
    BY <1>1, <1>5, <1>7, <2>0, <2>6, StartMoves
  <2>7. CASE \E i \in DOMAIN active_tasks : TaskFinish(i) \/ TaskCancel(i)
    <3>1. PICK i \in DOMAIN active_tasks : TaskFinish(i) \/ TaskCancel(i)
      BY <2>7
    <3>2. ~TaskFail(i)
      <4>1. active_tasks \in Seq(Task)
        BY DEF TypeInv, QueueType
      <4>a. ASSUME NEW t \in {"done", "failed"}, SetStatus(i, t)
            PROVE  active_tasks'[i].status = t
        <5>1. active_tasks' = [active_tasks EXCEPT ![i] = [sample |-> active_tasks[i].sample, status |-> t]]
          BY <4>1, <4>a, StatusType
        <5>2. QED
          BY <4>1, <5>1
      <4>2. SetStatus(i, "done") => active_tasks'[i].status = "done"
        BY <4>a
      <4>3. SetStatus(i, "failed") => active_tasks'[i].status = "failed"
        BY <4>a
      <4>4. QED
        BY <3>1, <4>2, <4>3 DEF TaskFinish, TaskCancel, TaskFail
    <3>3. UNCHANGED <<At(S, pending_queue), InFlight(S), Held(S), At(S, queue), Fetched(S)>>
      BY <1>1, <1>7, <3>1, <3>2, EndMoves
    <3>4. QED
      BY <1>5, <2>0, <3>3 DEF Still
  <2>8. QED
    BY <1>6, <1>7, <2>1, <2>2, <2>3, <2>4, <2>5, <2>6, <2>7 DEF Keeping
<1>8. CASE TrainerGet
  <2>1. UNCHANGED trained
    BY <1>8 DEF TrainerGet, trainer_vars
  <2>2. QED
    BY <1>1, <1>2, <1>3, <1>4, <1>8, <2>1, FetchMoves
<1>9. CASE TrainerReceive
  <2>1. UNCHANGED trained
    BY <1>9 DEF TrainerReceive
  <2>2. QED
    BY <1>1, <1>5, <1>9, <2>1, ReceiveMoves
<1>10. CASE TrainerStep
  <2>1. batch \in Seq(Samples)
    BY DEF TypeInv, TrainerInv
  <2>2. trained' = trained \cup {batch[i] : i \in DOMAIN batch}
    BY <1>10 DEF TrainerStep
  <2>3. At(S, batch) = 0 <=> \A i \in DOMAIN batch : batch[i] # s
    BY <2>1, AtNone DEF S
  <2>4. s \in trained' <=> s \in trained \/ At(S, batch) # 0
    BY <2>2, <2>3
  <2>5. /\ Fetched(S)' = 0 /\ Fetched(S) = At(S, batch)
        /\ UNCHANGED <<At(S, pending_queue), InFlight(S), Held(S), At(S, queue)>>
    BY <1>1, <1>10, TrainMoves
  <2>6. One(s \in trained)' = IF s \in trained \/ At(S, batch) # 0 THEN 1 ELSE 0
    BY <2>4 DEF One
  <2>7. Everywhere(s)' = At(S, pending_queue) + InFlight(S) + Held(S) + At(S, queue) + One(s \in trained)'
    BY <1>2, <1>4, <2>5, <2>6
  <2>8. At(S, batch) \in Nat /\ One(s \in trained) = IF s \in trained THEN 1 ELSE 0
    BY <1>2, <2>5 DEF One
  <2>9. /\ At(S, pending_queue) \in Nat /\ InFlight(S) \in Nat /\ Held(S) \in Nat /\ At(S, queue) \in Nat
        /\ Everywhere(s) = At(S, pending_queue) + InFlight(S) + Held(S) + At(S, queue) + At(S, batch)
                           + (IF s \in trained THEN 1 ELSE 0)
    BY <1>2, <1>3, <2>5, <2>8
  <2>10. CASE s \in trained
    <3>0. Everywhere(s) = At(S, pending_queue) + InFlight(S) + Held(S) + At(S, queue) + At(S, batch) + 1
      BY <2>9, <2>10
    <3>3. \A p, i, h, q, b \in Nat : p + i + h + q + b + 1 <= 1 => b = 0
      OBVIOUS
    <3>4. Everywhere(s) <= 1
      OBVIOUS
    <3>5. At(S, pending_queue) + InFlight(S) + Held(S) + At(S, queue) + At(S, batch) + 1 <= 1
      BY <3>0, <3>4
    <3>6. At(S, pending_queue) \in Nat /\ InFlight(S) \in Nat /\ Held(S) \in Nat /\ At(S, queue) \in Nat
      BY <2>9
    <3>7. At(S, batch) \in Nat
      BY <2>8
    <3>1. At(S, batch) = 0
      BY <3>3, <3>5, <3>6, <3>7
    <3>2. QED
      BY <2>6, <2>7, <2>9, <2>10, <3>1
  <2>11. CASE s \notin trained
    BY <2>6, <2>7, <2>8, <2>9, <2>11
  <2>12. QED
    BY <2>10, <2>11
<1>11. QED
  BY <1>6, <1>7, <1>8, <1>9, <1>10 DEF Keeping

LEMMA FeedingKeeps ==
  ASSUME TypeInv, TypeInv', FeedSample, UNCHANGED trainer_vars, NEW s \in Samples
  PROVE  /\ Everywhere(s)' = Everywhere(s) + One(s = global_steps)
         /\ UNCHANGED <<dropped_samples, failures>>
<1>1. /\ At({s}, pending_queue)' = At({s}, pending_queue) + One(FeedSample /\ global_steps \in {s})
      /\ UNCHANGED <<InFlight({s}), Held({s}), At({s}, queue), Fetched({s})>>
  BY FeedMoves
<1>2. One(FeedSample /\ global_steps \in {s}) = One(s = global_steps) /\ One(s = global_steps) \in Nat
  BY DEF One
<1>3. UNCHANGED <<trained, dropped_samples, failures>>
  BY DEF FeedSample, trainer_vars, tasks, mqvars
<1>4. /\ At({s}, pending_queue) \in Nat /\ InFlight({s}) \in Nat /\ Held({s}) \in Nat
      /\ At({s}, queue) \in Nat /\ Fetched({s}) \in Nat /\ One(s \in trained) \in Nat
  BY CountTypes DEF One
<1>5. QED
  BY <1>1, <1>2, <1>3, <1>4 DEF Everywhere

\* a full queue and a generation that raises lose one sample, and count it
LEMMA LosingLoses ==
  ASSUME TypeInv, TypeInv', UNCHANGED trainer_vars,
         ConsPut \/ MainSentinel \/ \E i \in DOMAIN active_tasks : TaskFail(i)
  PROVE  \E x : /\ \A s \in Samples : Everywhere(s)' = Everywhere(s) - One(s = x)
                /\ \/ x \notin Samples /\ dropped_samples' + failures' = dropped_samples + failures
                   \/ dropped_samples' + failures' = dropped_samples + failures + 1
<1>1. Sentinel \notin Samples /\ dropped_samples \in Nat /\ failures \in Nat
  <2>1. TotalRolloutSteps \in Nat
    BY RollouterAssumption
  <2>2. QED
    BY <2>1 DEF TypeInv, CountType, Samples, Sentinel
<1>2. trained' = trained
  BY DEF trainer_vars
<1>3. ASSUME NEW s \in Samples
      PROVE  /\ At({s}, pending_queue) \in Nat /\ InFlight({s}) \in Nat /\ Held({s}) \in Nat
             /\ At({s}, queue) \in Nat /\ Fetched({s}) \in Nat /\ One(s \in trained) \in Nat
             /\ One(hand["cons"] \in {s}) \in Nat
  BY CountTypes DEF One
<1>4. CASE \E i \in DOMAIN active_tasks : TaskFail(i)
  <2>1. PICK i \in DOMAIN active_tasks : TaskFail(i)
    BY <1>4
  <2>2. failures' = failures + 1 /\ dropped_samples' = dropped_samples
    BY <2>1 DEF TaskFail, mqvars
  <2>3. ASSUME NEW s \in Samples
        PROVE  Everywhere(s)' = Everywhere(s) - One(s = active_tasks[i].sample)
    <3>1. /\ InFlight({s})' = InFlight({s}) - One(active_tasks[i].sample \in {s})
          /\ UNCHANGED <<At({s}, pending_queue), Held({s}), At({s}, queue), Fetched({s})>>
      BY <2>1, EndMoves
    <3>2. One(active_tasks[i].sample \in {s}) = One(s = active_tasks[i].sample)
          /\ One(s = active_tasks[i].sample) \in Nat
      BY DEF One
    <3>3. QED
      BY <1>2, <1>3, <3>1, <3>2 DEF Everywhere
  <2>4. WITNESS active_tasks[i].sample
  <2>5. QED
    BY <1>1, <2>2, <2>3
<1> DEFINE x == IF MQ!IsFull THEN Head(queue) ELSE Sentinel
<1>5. ASSUME NEW s \in Samples
      PROVE  Dropped({s}) = One(s = x) /\ One(s = x) \in Nat
  BY <1>1, <1>5 DEF Dropped, One
<1>6. CASE ConsPut
  <2>1. UNCHANGED failures /\ MQ!PutSample(hand["cons"]) /\ hand["cons"] \in Samples
    BY <1>6 DEF ConsPut, tasks, TypeInv, ConsInv
  <2>2. /\ MQ!IsFull => dropped_samples' = dropped_samples + 1
        /\ ~MQ!IsFull => dropped_samples' = dropped_samples
    BY <2>1 DEF MQ!PutSample
  <2>3. ASSUME NEW s \in Samples
        PROVE  Everywhere(s)' = Everywhere(s) - One(s = x)
    <3>1. /\ InFlight({s})' = InFlight({s}) - One(hand["cons"] \in {s})
          /\ At({s}, queue)' = At({s}, queue) - Dropped({s}) + One(hand["cons"] \in {s})
          /\ UNCHANGED <<At({s}, pending_queue), Held({s}), Fetched({s})>>
      BY <1>6, PutMoves
    <3>2. Dropped({s}) = One(s = x) /\ One(s = x) \in Nat
      BY <1>5
    <3> HIDE DEF x
    <3>3. QED
      BY <1>2, <1>3, <3>1, <3>2 DEF Everywhere
  <2>4. x \notin Samples \/ MQ!IsFull
    BY <1>1
  <2> HIDE DEF x
  <2>5. WITNESS x
  <2>6. QED
    BY <1>1, <2>1, <2>2, <2>3, <2>4
<1>7. CASE MainSentinel
  <2>1. UNCHANGED failures /\ MQ!PutSample(Sentinel)
    BY <1>7 DEF MainSentinel, tasks
  <2>2. /\ MQ!IsFull => dropped_samples' = dropped_samples + 1
        /\ ~MQ!IsFull => dropped_samples' = dropped_samples
    BY <2>1 DEF MQ!PutSample
  <2>3. ASSUME NEW s \in Samples
        PROVE  Everywhere(s)' = Everywhere(s) - One(s = x)
    <3>1. /\ At({s}, queue)' = At({s}, queue) - Dropped({s})
          /\ UNCHANGED <<At({s}, pending_queue), InFlight({s}), Held({s}), Fetched({s})>>
      BY <1>7, SentinelMoves
    <3>2. Dropped({s}) = One(s = x) /\ One(s = x) \in Nat
      BY <1>5
    <3> HIDE DEF x
    <3>3. QED
      BY <1>2, <1>3, <3>1, <3>2 DEF Everywhere
  <2>4. x \notin Samples \/ MQ!IsFull
    BY <1>1
  <2> HIDE DEF x
  <2>5. WITNESS x
  <2>6. QED
    BY <1>1, <2>1, <2>2, <2>3, <2>4
<1>8. QED
  BY <1>4, <1>6, <1>7

LEMMA EveryStep ==
  ASSUME TypeInv, [Next]_vars
  PROVE  \/ Keeping
         \/ UNCHANGED trainer_vars /\ FeedSample
         \/ UNCHANGED trainer_vars /\ (ConsPut \/ MainSentinel \/ \E i \in DOMAIN active_tasks : TaskFail(i))
BY Steps DEF Moves, Keeping

\* a sample that has been fed is in one place at most, any other in none
PlaceInv == \A s \in Samples : Everywhere(s) <= One(s \in Fed)

\* samples that have been fed and are nowhere
Gone == {s \in Fed : Everywhere(s) = 0}

\* and no more have gone than the two counters admit
LossInv == IsFiniteSet(Gone) /\ Cardinality(Gone) <= dropped_samples + failures

LEMMA EverywhereType ==
  ASSUME TypeInv, NEW s \in Samples
  PROVE  Everywhere(s) \in Nat
<1>1. {s} \in SUBSET Samples
  OBVIOUS
<1>2. QED
  BY <1>1, CountTypes DEF Everywhere, One

LEMMA EverywhereTypeAfter ==
  ASSUME TypeInv', NEW s \in Samples
  PROVE  Everywhere(s)' \in Nat
<1>1. {s} \in SUBSET Samples
  OBVIOUS
<1>2. QED
  BY <1>1, CountTypesAfter DEF Everywhere, One

LEMMA InitPlace == Init => PlaceInv /\ LossInv
<1> SUFFICES ASSUME Init PROVE PlaceInv /\ LossInv
  OBVIOUS
<1> USE DEF Init, RollouterInit, MQ!Init
<1>1. NoOne \notin Samples /\ Closed \notin Samples /\ TotalRolloutSteps \in Nat \ {0}
  BY ValuesAssumption, RollouterAssumption
<1>2. \A S : At(S, << >>) = 0
  <2>1. TAKE S
  <2>2. << >> \in Seq({}) /\ \A i \in DOMAIN << >> : << >>[i] \notin S
    OBVIOUS
  <2>3. QED
    BY <2>2, AtNone
<1>3. \A s \in Samples : Everywhere(s) = 0
  BY <1>1, <1>2 DEF Everywhere, InFlight, Held, Fetched, One
<1>4. Fed = {}
  BY <1>1 DEF Fed, Samples
<1>5. Gone = {}
  BY <1>4 DEF Gone
<1>6. QED
  BY <1>3, <1>5, FS_EmptySet DEF PlaceInv, LossInv, One

LEMMA OnlyTheFeederFeeds ==
  ASSUME TypeInv, FeedSample
  PROVE  /\ ~Keeping
         /\ ~(ConsPut \/ MainSentinel \/ \E i \in DOMAIN active_tasks : TaskFail(i))
         /\ global_steps \in Samples /\ global_steps \notin Fed
<1>1. /\ pending_queue \in Seq(Samples \cup {Done}) /\ global_steps \in Samples /\ pc["feed"] = "put"
      /\ Samples \subseteq Nat /\ staleness_samples \in Nat
  BY DEF TypeInv, QueueType, CountType, FeedSample, Samples
<1>2. pending_queue' # pending_queue
  <2>1. Len(Append(pending_queue, global_steps)) = Len(pending_queue) + 1 /\ Len(pending_queue) \in Nat
    BY <1>1, AppendType
  <2>2. QED
    BY <2>1 DEF FeedSample
<1> USE DEF sched, flags, tasks, feeding, counts, locals, mqvars, trainer_vars
<1>3. ~FeedDone /\ ~ProcGet
  BY <1>1 DEF FeedSample, FeedDone, ProcGet
<1>4. ~(Rests \/ ProcLoop \/ ProcDrainWait \/ ProcSubmit \/ ConsGet \/ PauseGather)
  BY <1>2 DEF Rests, ProcLoop, ProcDrainWait, ProcSubmit, ConsGet, PauseGather
<1>5. ~\E i \in DOMAIN active_tasks : TaskStart(i) \/ TaskFinish(i) \/ TaskCancel(i) \/ TaskFail(i)
  BY <1>2 DEF TaskStart, TaskFinish, TaskCancel, TaskFail
<1>6. ~(TrainerGet \/ TrainerReceive \/ TrainerStep \/ ConsPut \/ MainSentinel)
  BY <1>2 DEF TrainerGet, TrainerReceive, TrainerStep, UnchangedRollouter, ConsPut, MainSentinel
<1>7. global_steps \notin Fed
  BY <1>1 DEF Fed
<1>8. QED
  BY <1>1, <1>3, <1>4, <1>5, <1>6, <1>7 DEF Keeping

LEMMA PlaceStep ==
  ASSUME TypeInv, TypeInv', PlaceInv, LossInv, [Next]_vars
  PROVE  PlaceInv' /\ LossInv'
<1>1. /\ \A s \in Samples : Everywhere(s) \in Nat /\ Everywhere(s)' \in Nat
      /\ \A s \in Samples : Everywhere(s) <= 1 /\ (s \notin Fed => Everywhere(s) = 0)
      /\ dropped_samples \in Nat /\ failures \in Nat /\ Fed \subseteq Samples
      /\ Cardinality(Gone) \in Nat
  <2>1. \A s \in Samples : Everywhere(s) \in Nat /\ Everywhere(s)' \in Nat
    BY EverywhereType, EverywhereTypeAfter
  <2>2. \A s \in Samples : Everywhere(s) <= 1 /\ (s \notin Fed => Everywhere(s) = 0)
    BY <2>1 DEF PlaceInv, One
  <2>3. dropped_samples \in Nat /\ failures \in Nat /\ Fed \subseteq Samples
    BY DEF TypeInv, CountType, Fed
  <2>4. QED
    BY <2>1, <2>2, <2>3, FS_CardinalityType DEF LossInv
<1>2. CASE Keeping
  <2>1. UNCHANGED <<dropped_samples, failures>> /\ \A s \in Samples : Everywhere(s)' = Everywhere(s)
    BY <1>1, <1>2, KeepingCounts, KeepingKeeps
  <2>2. Fed' = Fed
    BY <1>2, FedGrows, OnlyTheFeederFeeds
  <2>3. Gone' = Gone
    BY <1>1, <2>1, <2>2 DEF Gone
  <2>4. QED
    BY <2>1, <2>2, <2>3 DEF PlaceInv, LossInv, One
<1>3. CASE UNCHANGED trainer_vars /\ FeedSample
  <2>0. PICK g : g = global_steps
    OBVIOUS
  <2>1. /\ Fed' = Fed \cup {g} /\ g \in Samples /\ g \notin Fed
        /\ \A s \in Samples : Everywhere(s)' = Everywhere(s) + One(s = g)
        /\ UNCHANGED <<dropped_samples, failures>>
    BY <1>3, <2>0, FedGrows, OnlyTheFeederFeeds, FeedingKeeps
  <2>2. /\ Everywhere(g)' = 1
        /\ \A s \in Samples : s # g => Everywhere(s)' = Everywhere(s)
    BY <1>1, <2>1 DEF One
  <2>3. Gone' = Gone
    <3>1. Gone' = {s \in Fed' : Everywhere(s)' = 0}
      BY DEF Gone
    <3>2. QED
      BY <1>1, <2>1, <2>2, <3>1 DEF Gone
  <2>4. PlaceInv'
    <3>1. \A s \in Samples : Everywhere(s)' <= One(s \in Fed')
      BY <1>1, <2>1, <2>2 DEF One
    <3>2. QED
      BY <3>1 DEF PlaceInv
  <2>5. QED
    BY <2>1, <2>3, <2>4 DEF LossInv
<1>4. CASE UNCHANGED trainer_vars /\ (ConsPut \/ MainSentinel \/ \E i \in DOMAIN active_tasks : TaskFail(i))
  <2>1. PICK x : /\ \A s \in Samples : Everywhere(s)' = Everywhere(s) - One(s = x)
                 /\ \/ x \notin Samples /\ dropped_samples' + failures' = dropped_samples + failures
                    \/ dropped_samples' + failures' = dropped_samples + failures + 1
    BY <1>4, LosingLoses
  <2>2. Fed' = Fed
    BY <1>4, FedGrows, OnlyTheFeederFeeds
  <2>3. \A s \in Samples : Everywhere(s)' <= Everywhere(s) /\ (s # x => Everywhere(s)' = Everywhere(s))
    BY <1>1, <2>1 DEF One
  <2>4. PlaceInv'
    <3>1. \A s \in Samples : Everywhere(s)' <= One(s \in Fed')
      BY <1>1, <2>2, <2>3 DEF One, PlaceInv
    <3>2. QED
      BY <3>1 DEF PlaceInv
  <2>5. Gone' \subseteq Gone \cup ({x} \cap Samples)
    <3>1. Gone' = {s \in Fed' : Everywhere(s)' = 0}
      BY DEF Gone
    <3>2. QED
      BY <1>1, <2>2, <2>3, <3>1 DEF Gone
  <2>6. IsFiniteSet(Gone) /\ Cardinality(Gone) <= dropped_samples + failures
    BY DEF LossInv
  <2>7. CASE x \notin Samples
    <3>1. Gone' \subseteq Gone /\ dropped_samples' + failures' >= dropped_samples + failures
      BY <1>1, <2>1, <2>5, <2>7
    <3>2. IsFiniteSet(Gone') /\ Cardinality(Gone') <= Cardinality(Gone) /\ Cardinality(Gone') \in Nat
      BY <2>6, <3>1, FS_Subset, FS_CardinalityType
    <3>4. dropped_samples' \in Nat /\ failures' \in Nat
      BY DEF TypeInv, CountType
    <3>5. Cardinality(Gone') <= dropped_samples' + failures'
      <4>1. /\ dropped_samples \in Nat /\ failures \in Nat /\ Cardinality(Gone) \in Nat
            /\ Cardinality(Gone) <= dropped_samples + failures
        BY <1>1, <2>6
      <4>2. \A a, b, c, d, e, f \in Nat : a <= b /\ b <= c + d /\ e + f >= c + d => a <= e + f
        OBVIOUS
      <4>3. Cardinality(Gone') \in Nat /\ Cardinality(Gone') <= Cardinality(Gone)
        BY <3>2
      <4>4. QED
        BY <3>1, <3>4, <4>1, <4>2, <4>3
    <3>6. QED
      BY <2>4, <3>2, <3>5 DEF LossInv
  <2>8. CASE x \in Samples
    <3>1. Gone' \subseteq Gone \cup {x} /\ dropped_samples' + failures' = dropped_samples + failures + 1
      BY <2>1, <2>5, <2>8
    <3>2. IsFiniteSet(Gone \cup {x}) /\ Cardinality(Gone \cup {x}) <= Cardinality(Gone) + 1
          /\ Cardinality(Gone \cup {x}) \in Nat
      BY <1>1, <2>6, FS_AddElement, FS_CardinalityType
    <3>3. IsFiniteSet(Gone') /\ Cardinality(Gone') <= Cardinality(Gone \cup {x}) /\ Cardinality(Gone') \in Nat
      BY <3>1, <3>2, FS_Subset, FS_CardinalityType
    <3>4. dropped_samples' \in Nat /\ failures' \in Nat
      BY DEF TypeInv, CountType
    <3>5. Cardinality(Gone') <= dropped_samples' + failures'
      <4>1. /\ dropped_samples \in Nat /\ failures \in Nat /\ Cardinality(Gone) \in Nat
            /\ Cardinality(Gone) <= dropped_samples + failures
        BY <1>1, <2>6
      <4>2. Cardinality(Gone') \in Nat /\ Cardinality(Gone') <= Cardinality(Gone) + 1
        BY <3>2, <3>3, <4>1
      <4>3. \A a, b, c, d, e, f \in Nat : a <= b + 1 /\ b <= c + d /\ e + f = c + d + 1 => a <= e + f
        OBVIOUS
      <4>4. QED
        BY <3>1, <3>4, <4>1, <4>2, <4>3
    <3>6. QED
      BY <2>4, <3>3, <3>5 DEF LossInv
  <2>9. QED
    BY <2>7, <2>8
<1>5. QED
  BY <1>2, <1>3, <1>4, EveryStep

SafeInv == TypeInv /\ PhaseInv /\ PlaceInv /\ LossInv

LEMMA SafeStep ==
  ASSUME SafeInv, [Next]_vars
  PROVE  SafeInv'
BY StepType, StutterType, PhaseStep, PlaceStep DEF SafeInv

LEMMA AlwaysSafe == Spec => []SafeInv
<1>1. Init => SafeInv
  BY InitType, InitPhase, InitPlace DEF SafeInv
<1>2. QED
  BY <1>1, SafeStep, PTL DEF Spec

(***************************************************************************)
(* No interleaving of pause, cancel, resume, submission and delivery       *)
(* generates, delivers or trains on a sample twice (cancel_queue and       *)
(* result_queue of _process_single_sample_streaming).                      *)
(***************************************************************************)
THEOREM NeverTwice == Spec => []NoSampleTwice
<1>1. SafeInv => NoSampleTwice
  BY OccurrencesAreCounted, EverywhereType DEF SafeInv, PlaceInv, NoSampleTwice, One
<1>2. QED
  BY AlwaysSafe, <1>1, PTL

(***************************************************************************)
(* A sample that has been fed and is nowhere has been dropped by a full    *)
(* message queue (dropped_samples) or lost to a generation that raised:    *)
(* the Rollouter itself loses none.                                        *)
(***************************************************************************)
THEOREM LossesCounted == Spec => []LossesAreCounted
<1>1. SafeInv => LossesAreCounted
  <2> SUFFICES ASSUME SafeInv PROVE LossesAreCounted
    OBVIOUS
  <2>1. {s \in Fed : Occurrences(s) = 0} = Gone
    BY OccurrencesAreCounted DEF SafeInv, Gone, Fed
  <2>2. QED
    BY <2>1 DEF SafeInv, LossInv, LossesAreCounted
<1>2. QED
  BY AlwaysSafe, <1>1, PTL

-----------------------------------------------------------------------------
(* The end of the data *)

\* the None sample has been put
Over == pc["main"] \in {"stop", "returned"}

\* before the end there is no sentinel; after it only the put of a cancelled
\* consumer can come behind it, once
SentinelInv ==
  \A i \in DOMAIN queue : queue[i] = Sentinel =>
      /\ Over
      /\ \/ i = Len(queue)
         \/ pc["proc"] = "raised" /\ pc["cons"] = "cancelled" /\ i = Len(queue) - 1

LEMMA OverForGood ==
  ASSUME TypeInv, [Next]_vars, Over
  PROVE  Over'
<1> DOMAIN pc = Coroutines /\ {"feed", "proc", "cons", "main", "mon", "rpc"} \subseteq Coroutines
  BY DEF TypeInv, SchedType, Coroutines
<1> USE DEF Over, sched, flags, tasks, feeding, counts, locals, mqvars, Goto
<1>1. CASE Processing \/ Feeding
  BY <1>1 DEF Processing, ProcLoop, ProcSetPaused, ProcGet, ProcGetWaits, ProcDrain, ProcDrainLock,
              ProcDrainWait, ProcIdle, ProcSubmit, AwaitLock, Feeding, FeedSample, FeedDone
<1>2. CASE Generating \/ Consuming
  BY <1>2 DEF Generating, TaskStart, TaskFinish, TaskCancel, TaskFail, Consuming, ConsGet, ConsPut, ConsAck
<1>3. CASE Finishing
  BY <1>3 DEF Finishing, MainFed, MainProcessed, MainCancel, MainSentinel, MainStop, AwaitLock
<1>4. CASE Monitoring
  BY <1>4 DEF Monitoring, MonTop, MonCheck, MonUnpause, AwaitLock, Awake
<1>5. CASE Serving(sync_version)
  BY <1>5 DEF Serving, PauseBegin, PauseCancel, PauseGather, PauseEnd, UpdateBegin, UpdateQueueSize, UpdateSet,
              UpdateEnd, ResumeBegin, ResumeEnd, AwaitLock, Awake
<1>6. CASE Trainer \/ Sync
  BY <1>6 DEF Trainer, TrainerGet, TrainerReceive, TrainerStep, TrainerValidation, TrainerFinal, TrainerWaitLast,
              TrainerFinalWait, Sync, SyncPause, SyncVersion, SyncWeights, UnchangedRollouter
<1>7. CASE UNCHANGED vars
  BY <1>7 DEF vars, rollouter_vars
<1>8. QED
  BY <1>1, <1>2, <1>3, <1>4, <1>5, <1>6, <1>7 DEF Next

\* a consumer that was cancelled, with nothing in flight, does nothing more
LEMMA CancelledForGood ==
  ASSUME TypeInv, [Next]_vars, pc["cons"] = "cancelled"
  PROVE  pc'["cons"] = "cancelled"
<1> DOMAIN pc = Coroutines /\ {"feed", "proc", "cons", "main", "mon", "rpc"} \subseteq Coroutines
  BY DEF TypeInv, SchedType, Coroutines
<1> USE DEF sched, flags, tasks, feeding, counts, locals, mqvars, Goto
<1>1. CASE Processing \/ Feeding
  BY <1>1 DEF Processing, ProcLoop, ProcSetPaused, ProcGet, ProcGetWaits, ProcDrain, ProcDrainLock,
              ProcDrainWait, ProcIdle, ProcSubmit, AwaitLock, Feeding, FeedSample, FeedDone
<1>2. CASE Generating \/ Consuming
  BY <1>2 DEF Generating, TaskStart, TaskFinish, TaskCancel, TaskFail, Consuming, ConsGet, ConsPut, ConsAck,
              PutInFlight
<1>3. CASE Finishing
  BY <1>3 DEF Finishing, MainFed, MainProcessed, MainCancel, MainSentinel, MainStop, AwaitLock
<1>4. CASE Monitoring
  BY <1>4 DEF Monitoring, MonTop, MonCheck, MonUnpause, AwaitLock, Awake
<1>5. CASE Serving(sync_version)
  BY <1>5 DEF Serving, PauseBegin, PauseCancel, PauseGather, PauseEnd, UpdateBegin, UpdateQueueSize, UpdateSet,
              UpdateEnd, ResumeBegin, ResumeEnd, AwaitLock, Awake
<1>6. CASE Trainer \/ Sync
  BY <1>6 DEF Trainer, TrainerGet, TrainerReceive, TrainerStep, TrainerValidation, TrainerFinal, TrainerWaitLast,
              TrainerFinalWait, Sync, SyncPause, SyncVersion, SyncWeights, UnchangedRollouter
<1>7. CASE UNCHANGED vars
  BY <1>7 DEF vars, rollouter_vars
<1>8. QED
  BY <1>1, <1>2, <1>3, <1>4, <1>5, <1>6, <1>7 DEF Next

\* who touches the queue
LEMMA QueueSteps ==
  ASSUME TypeInv, [Next]_vars
  PROVE  \/ UNCHANGED queue
         \/ queue # << >> /\ queue' = Tail(queue)
         \/ ConsPut
         \/ MainSentinel /\ ~Over
<1> DOMAIN pc = Coroutines /\ {"cons", "main"} \subseteq Coroutines /\ ConsInv
  BY DEF TypeInv, SchedType, Coroutines
<1>2. MainSentinel => ~Over
  BY DEF MainSentinel, Over
<1>3. TrainerGet => \/ UNCHANGED queue
                    \/ queue # << >> /\ queue' = Tail(queue)
  BY DEF TrainerGet, MQ!GetSample, MQ!Wake, MQ!GetSampleBody, MQ!Pop, MQ!ReturnClosed, MQ!Wait
<1>4. CASE Moves
  BY <1>2, <1>3, <1>4
     DEF Moves, FeedSample, FeedDone, ProcLoop, ProcGet, ProcDrainWait, ProcSubmit, TaskStart, TaskFinish, TaskCancel,
         TaskFail, ConsGet, PauseGather, TrainerReceive, TrainerStep, MQ!Receive, mqvars
<1>5. CASE Rests
  BY <1>5 DEF Rests
<1>6. QED
  BY <1>4, <1>5, Steps

\* the places of a queue after an append and after a pop
LEMMA AppendAt ==
  ASSUME NEW S, NEW s \in Seq(S), NEW x \in S
  PROVE  /\ Append(s, x) \in Seq(S) /\ Len(Append(s, x)) = Len(s) + 1 /\ Len(s) \in Nat
         /\ DOMAIN s = 1 .. Len(s) /\ DOMAIN Append(s, x) = 1 .. Len(s) + 1
         /\ Append(s, x)[Len(s) + 1] = x
         /\ \A i \in 1 .. Len(s) : Append(s, x)[i] = s[i]
  OBVIOUS

LEMMA TailAt ==
  ASSUME NEW S, NEW s \in Seq(S), s # << >>
  PROVE  /\ Tail(s) \in Seq(S) /\ Len(Tail(s)) = Len(s) - 1 /\ Len(s) \in Nat \ {0}
         /\ DOMAIN s = 1 .. Len(s)
         /\ \A i \in 1 .. Len(Tail(s)) : Tail(s)[i] = s[i + 1]
  OBVIOUS

\* a put keeps the places counted from the end, but for the one it takes
LEMMA PutShifts ==
  ASSUME TypeInv, NEW x \in Samples \cup {Sentinel}, MQ!PutSample(x)
  PROVE  /\ Len(queue) \in Nat /\ Len(queue') \in Nat \ {0}
         /\ \A i \in DOMAIN queue' :
               \/ i = Len(queue') /\ queue'[i] = x
               \/ \E j \in DOMAIN queue : queue[j] = queue'[i] /\ Len(queue') - i = Len(queue) - j + 1
<1>1. queue \in Seq(Samples \cup {Sentinel}) /\ MaxRequiredSamples \in Nat \ {0}
  BY Capacity DEF TypeInv, QueueType
<1>2. queue' = Append(IF MQ!IsFull THEN Tail(queue) ELSE queue, x)
  BY DEF MQ!PutSample
<1>3. CASE MQ!IsFull
  <2> DEFINE rest == Tail(queue)
  <2>1. queue # << >>
    BY <1>1, <1>3 DEF MQ!IsFull
  <2>2. /\ rest \in Seq(Samples \cup {Sentinel}) /\ Len(rest) = Len(queue) - 1 /\ Len(queue) \in Nat \ {0}
        /\ DOMAIN queue = 1 .. Len(queue) /\ \A i \in 1 .. Len(rest) : rest[i] = queue[i + 1]
    BY <1>1, <2>1, TailAt
  <2>3. queue' = Append(rest, x)
    BY <1>2, <1>3
  <2> HIDE DEF rest
  <2>4. /\ Len(queue') = Len(rest) + 1 /\ DOMAIN queue' = 1 .. Len(rest) + 1 /\ queue'[Len(rest) + 1] = x
        /\ \A i \in 1 .. Len(rest) : queue'[i] = rest[i]
    BY <2>2, <2>3, AppendAt
  <2>5. ASSUME NEW i \in DOMAIN queue', i # Len(queue')
        PROVE  /\ i + 1 \in DOMAIN queue /\ queue[i + 1] = queue'[i]
               /\ Len(queue') - i = Len(queue) - (i + 1) + 1
    BY <2>2, <2>4, <2>5
  <2>6. QED
    BY <2>2, <2>4, <2>5
<1>4. CASE ~MQ!IsFull
  <2>1. queue' = Append(queue, x)
    BY <1>2, <1>4
  <2>2. /\ Len(queue') = Len(queue) + 1 /\ DOMAIN queue' = 1 .. Len(queue) + 1 /\ Len(queue) \in Nat
        /\ DOMAIN queue = 1 .. Len(queue) /\ queue'[Len(queue) + 1] = x
        /\ \A i \in 1 .. Len(queue) : queue'[i] = queue[i]
    BY <1>1, <2>1, AppendAt
  <2>3. ASSUME NEW i \in DOMAIN queue', i # Len(queue')
        PROVE  i \in DOMAIN queue /\ queue[i] = queue'[i] /\ Len(queue') - i = Len(queue) - i + 1
    BY <2>2, <2>3
  <2>4. QED
    BY <2>2, <2>3
<1>5. QED
  BY <1>3, <1>4

LEMMA SentinelStep ==
  ASSUME TypeInv, TypeInv', SentinelInv, [Next]_vars
  PROVE  SentinelInv'
<1>1. queue \in Seq(Samples \cup {Sentinel}) /\ ConsInv /\ Sentinel \notin Samples
  <2>1. TotalRolloutSteps \in Nat
    BY RollouterAssumption
  <2>2. QED
    BY <2>1 DEF TypeInv, QueueType, Samples, Sentinel
<1>2. Over => Over'
  BY OverForGood
<1>3. pc["proc"] = "raised" /\ pc["cons"] = "cancelled" =>
        pc'["proc"] = "raised" /\ pc'["cons"] = "cancelled"
  BY RaisedForGood, CancelledForGood
<1>4. CASE UNCHANGED queue
  BY <1>2, <1>3, <1>4 DEF SentinelInv
<1>5. CASE queue # << >> /\ queue' = Tail(queue)
  <2>1. /\ Len(queue') = Len(queue) - 1 /\ Len(queue) \in Nat
        /\ \A i \in DOMAIN queue' : i \in Nat /\ i + 1 \in DOMAIN queue /\ queue'[i] = queue[i + 1]
    BY <1>1, <1>5
  <2>2. QED
    BY <1>2, <1>3, <2>1 DEF SentinelInv
<1>6. CASE ConsPut
  <2>1. /\ hand["cons"] \in Samples /\ MQ!PutSample(hand["cons"])
        /\ pc["cons"] \in {"put", "orphan"}
        /\ pc'["cons"] = IF pc["cons"] = "put" THEN "ack" ELSE "cancelled"
    BY <1>1, <1>6 DEF ConsPut, PutInFlight, ConsInv, TypeInv, SchedType, Coroutines
  <2>2. ASSUME NEW i \in DOMAIN queue', queue'[i] = Sentinel
        PROVE  /\ Over'
               /\ pc'["proc"] = "raised" /\ pc'["cons"] = "cancelled" /\ i = Len(queue') - 1
    <3>1. PICK j \in DOMAIN queue : queue[j] = Sentinel /\ Len(queue') - i = Len(queue) - j + 1
      BY <1>1, <2>1, <2>2, PutShifts
    <3>2. Over /\ j = Len(queue)
      BY <2>1, <2>2, <3>1 DEF SentinelInv
    <3>3. pc["cons"] = "orphan" /\ pc["proc"] = "raised"
      BY <1>1, <2>1, <3>2 DEF ConsInv, Over
    <3>4. pc'["proc"] = "raised"
      BY <3>3, RaisedForGood
    <3>5. i \in Nat /\ j \in Nat /\ Len(queue) \in Nat /\ Len(queue') \in Nat
      <4>1. queue' \in Seq(Samples \cup {Sentinel})
        BY DEF TypeInv, QueueType
      <4>2. QED
        BY <1>1, <2>2, <3>1, <4>1
    <3>6. QED
      BY <1>2, <2>1, <3>1, <3>2, <3>3, <3>4, <3>5
  <2>3. QED
    BY <2>2 DEF SentinelInv
<1>7. CASE MainSentinel /\ ~Over
  <2>1. MQ!PutSample(Sentinel) /\ Over'
    BY <1>7 DEF MainSentinel, Over, Goto, TypeInv, SchedType, Coroutines
  <2>2. \A j \in DOMAIN queue : queue[j] # Sentinel
    BY <1>7 DEF SentinelInv
  <2>3. \A i \in DOMAIN queue' : queue'[i] = Sentinel => i = Len(queue')
    BY <2>1, <2>2, PutShifts
  <2>4. QED
    BY <2>1, <2>3 DEF SentinelInv
<1>8. QED
  BY <1>4, <1>5, <1>6, <1>7, QueueSteps

(***************************************************************************)
(* The None sample is the last one in the message queue, whatever order    *)
(* the queue executes its calls in: the Trainer, which stops at it, has    *)
(* seen every sample before.  After the processor has raised at most one   *)
(* may follow it, the put nobody waits for when the consumer is cancelled. *)
(***************************************************************************)
THEOREM SentinelLast == Spec => []SentinelIsLast
<1>1. Init => SentinelInv
  BY DEF Init, RollouterInit, MQ!Init, SentinelInv, SentinelIsLast
<1>2. SafeInv /\ SentinelInv /\ [Next]_vars => SentinelInv'
  BY SafeStep, SentinelStep DEF SafeInv
<1>3. SentinelInv => SentinelIsLast
  BY DEF SentinelInv, SentinelIsLast
<1>4. QED
  BY AlwaysSafe, <1>1, <1>2, <1>3, PTL DEF Spec

-----------------------------------------------------------------------------
(* What a step does to the counts of the samples of a set *)

Flow(S) ==
  /\ ProcSubmit \/ InFlight(S)' <= InFlight(S)
  /\ ConsPut \/ At(S, queue)' <= At(S, queue)
  /\ ProcGet \/ Moving(S)' <= Moving(S)
  /\ ProcGet \/ Moving(S)' + Fetched(S)' <= Moving(S) + Fetched(S)
  /\ Moving(S)' + Fetched(S)' <= Moving(S) + Fetched(S) + 1
  /\ TrainerGet \/ Fetched(S)' <= Fetched(S)
  /\ TrainerStep \/ Fetched(S)' >= Fetched(S)
  /\ FeedSample \/ At(S, pending_queue)' <= At(S, pending_queue)

LEMMA FlowStep ==
  ASSUME TypeInv, TypeInv', [Next]_vars, NEW S \in SUBSET Samples
  PROVE  Flow(S)
<1>1. /\ InFlight(S) \in Nat /\ Held(S) \in Nat /\ At(S, queue) \in Nat /\ Fetched(S) \in Nat
      /\ At(S, pending_queue) \in Nat /\ At(S, pending_queue)' \in Nat
      /\ InFlight(S)' \in Nat /\ Held(S)' \in 0 .. 1 /\ At(S, queue)' \in Nat /\ Fetched(S)' \in Nat
  BY CountTypes, CountTypesAfter
<1>2. CASE Still(S)
  BY <1>1, <1>2 DEF Flow, Still, Moving
<1>3. CASE Rests
  BY <1>2, <1>3, RestMoves
<1>4. CASE UNCHANGED trainer_vars /\ (FeedSample \/ FeedDone)
  <2>1. UNCHANGED <<InFlight(S), Held(S), At(S, queue), Fetched(S)>>
    BY <1>4, FeedMoves
  <2>2. FeedDone => At(S, pending_queue)' = At(S, pending_queue)
    <3>1. FeedDone => ~FeedSample
      BY DEF FeedSample, FeedDone
    <3>2. QED
      BY <1>1, <1>4, <3>1, FeedMoves DEF One
  <2>3. QED
    BY <1>1, <1>4, <2>1, <2>2 DEF Flow, Moving
<1>5. CASE UNCHANGED trainer_vars /\ ProcLoop
  BY <1>1, <1>5, LoopMoves DEF Flow, Moving
<1>6. CASE UNCHANGED trainer_vars /\ ProcGet
  BY <1>1, <1>6, GetMoves DEF Flow, Moving
<1>7. CASE UNCHANGED trainer_vars /\ ProcSubmit
  BY <1>1, <1>7, SubmitMoves DEF Flow, Moving
<1>8. CASE UNCHANGED trainer_vars /\ (ProcDrainWait \/ ConsGet \/ PauseGather)
  BY <1>2, <1>8, DrainMoves, ConsMoves, GatherMoves
<1>9. CASE UNCHANGED trainer_vars /\ \E i \in DOMAIN active_tasks : TaskStart(i)
  BY <1>2, <1>9, StartMoves
<1>10. CASE UNCHANGED trainer_vars /\ \E i \in DOMAIN active_tasks : TaskFinish(i) \/ TaskCancel(i) \/ TaskFail(i)
  <2>1. PICK i \in DOMAIN active_tasks : TaskFinish(i) \/ TaskCancel(i) \/ TaskFail(i)
    BY <1>10
  <2>2. One(active_tasks[i].sample \in S) \in Nat
    BY DEF One
  <2>3. /\ InFlight(S)' = InFlight(S) \/ InFlight(S)' = InFlight(S) - One(active_tasks[i].sample \in S)
        /\ UNCHANGED <<At(S, pending_queue), Held(S), At(S, queue), Fetched(S)>>
    BY <1>10, <2>1, EndMoves
  <2>4. QED
    BY <1>1, <2>2, <2>3 DEF Flow, Moving
<1>11. CASE UNCHANGED trainer_vars /\ ConsPut
  <2>1. One(hand["cons"] \in S) \in Nat /\ Dropped(S) \in Nat
    BY DEF One, Dropped
  <2>2. QED
    BY <1>1, <1>11, <2>1, PutMoves DEF Flow, Moving
<1>12. CASE UNCHANGED trainer_vars /\ MainSentinel
  <2>1. Dropped(S) \in Nat
    BY DEF One, Dropped
  <2>2. QED
    BY <1>1, <1>12, <2>1, SentinelMoves DEF Flow, Moving
<1>13. CASE TrainerGet
  BY <1>1, <1>13, FetchMoves DEF Flow, Moving
<1>14. CASE TrainerReceive
  BY <1>2, <1>14, ReceiveMoves
<1>15. CASE TrainerStep
  BY <1>1, <1>15, TrainMoves DEF Flow, Moving
<1>16. QED
  BY <1>3, <1>4, <1>5, <1>6, <1>7, <1>8, <1>9, <1>10, <1>11, <1>12, <1>13, <1>14, <1>15, Steps DEF Moves

-----------------------------------------------------------------------------
(* The load *)

\* staleness_samples covers what is on the way, but for two samples that
\* update_param_version overlooks: one that the processor holds, and one whose
\* put is in flight.  While the sum is being computed it covers what has been
\* counted so far, but for the second
LoadInv ==
  /\ Moving(Samples) <= staleness_samples + 2
  /\ Moving(Samples) <= MaxRequiredSamples + 2
  /\ pc["proc"] = "get" => Moving(Samples) <= MaxRequiredSamples + 1
  /\ pc["rpc"] = "update_size" => InFlight(Samples) <= sum + 1
  /\ pc["rpc"] = "update_set" => InFlight(Samples) + At(Samples, queue) <= sum + 1

\* the steps that change one of the numbers LoadInv speaks of, or begin what
\* it makes a condition
LoadSteps == ProcLoop \/ ProcGet \/ ConsPut \/ UpdateBegin(sync_version) \/ UpdateQueueSize \/ UpdateSet

Updating == {"update_size", "update_set"}

LEMMA LoadFrame ==
  ASSUME TypeInv, [Next]_vars
  PROVE  \/ LoadSteps
         \/ /\ UNCHANGED <<staleness_samples, sum>>
            /\ pc'["proc"] = "get" => pc["proc"] = "get"
            /\ pc'["rpc"] \in Updating => pc'["rpc"] = pc["rpc"]
<1> DOMAIN pc = Coroutines /\ {"feed", "proc", "cons", "main", "mon", "rpc"} \subseteq Coroutines
  BY DEF TypeInv, SchedType, Coroutines
<1> USE DEF LoadSteps, Updating, sched, flags, tasks, feeding, counts, locals, mqvars, Goto
<1>1. CASE Processing
  <2>1. CASE ProcSetPaused \/ ProcGetWaits \/ ProcDrain \/ ProcDrainLock
    BY <2>1 DEF ProcSetPaused, ProcGetWaits, ProcDrain, ProcDrainLock, AfterDrain
  <2>2. CASE ProcDrainWait \/ ProcIdle \/ ProcSubmit \/ AwaitLock("proc")
    BY <2>2 DEF ProcDrainWait, ProcIdle, ProcSubmit, AwaitLock
  <2>3. QED
    BY <1>1, <2>1, <2>2 DEF Processing
<1>2. CASE Feeding \/ Generating
  BY <1>2 DEF Feeding, FeedSample, FeedDone, Generating, TaskStart, TaskFinish, TaskCancel, TaskFail
<1>3. CASE Consuming
  BY <1>3 DEF Consuming, ConsGet, ConsAck
<1>4. CASE Finishing
  <2>1. CASE MainCancel
    BY <2>1 DEF MainCancel, TypeInv, ConsInv
  <2>2. CASE MainFed \/ MainProcessed \/ MainSentinel \/ MainStop \/ AwaitLock("main")
    BY <2>2 DEF MainFed, MainProcessed, MainSentinel, MainStop, AwaitLock
  <2>3. QED
    BY <1>4, <2>1, <2>2 DEF Finishing
<1>5. CASE Monitoring
  BY <1>5 DEF Monitoring, MonTop, MonCheck, MonUnpause, AwaitLock, Awake
<1>6. CASE Serving(sync_version)
  <2>1. CASE PauseBegin \/ PauseCancel \/ PauseGather \/ PauseEnd
    BY <2>1 DEF PauseBegin, PauseCancel, PauseGather, PauseEnd, AfterCancel
  <2>2. CASE UpdateEnd \/ ResumeBegin \/ ResumeEnd \/ AwaitLock("rpc")
    BY <2>2 DEF UpdateEnd, ResumeBegin, ResumeEnd, AwaitLock, Awake
  <2>3. QED
    BY <1>6, <2>1, <2>2 DEF Serving
<1>7. CASE Trainer \/ Sync
  BY <1>7 DEF Trainer, TrainerGet, TrainerReceive, TrainerStep, TrainerValidation, TrainerFinal, TrainerWaitLast,
              TrainerFinalWait, Sync, SyncPause, SyncVersion, SyncWeights, UnchangedRollouter
<1>8. CASE UNCHANGED vars
  BY <1>8 DEF vars, rollouter_vars
<1>9. QED
  BY <1>1, <1>2, <1>3, <1>4, <1>5, <1>6, <1>7, <1>8 DEF Next

LEMMA InitLoad == Init => LoadInv
<1> SUFFICES ASSUME Init PROVE LoadInv
  OBVIOUS
<1> USE DEF Init, RollouterInit, MQ!Init
<1>1. NoOne \notin Samples /\ MaxRequiredSamples \in Nat
  BY ValuesAssumption, Capacity
<1>2. \A S : At(S, << >>) = 0
  <2>1. TAKE S
  <2>2. << >> \in Seq({}) /\ \A i \in DOMAIN << >> : << >>[i] \notin S
    OBVIOUS
  <2>3. QED
    BY <2>2, AtNone
<1>3. Moving(Samples) = 0
  BY <1>1, <1>2 DEF Moving, InFlight, Held, One
<1>4. QED
  BY <1>1, <1>3 DEF LoadInv

LEMMA LoadStep ==
  ASSUME TypeInv, TypeInv', LockInv, LoadInv, [Next]_vars
  PROVE  LoadInv'
<1>0. PICK F, H, Q, M, Fn, Hn, Qn, Mn, L, Ln :
        /\ F = InFlight(Samples) /\ Fn = InFlight(Samples)' /\ H = Held(Samples) /\ Hn = Held(Samples)'
        /\ Q = At(Samples, queue) /\ Qn = At(Samples, queue)' /\ M = Moving(Samples) /\ Mn = Moving(Samples)'
        /\ L = staleness_samples /\ Ln = staleness_samples'
  OBVIOUS
<1>1. /\ F \in Nat /\ H \in 0 .. 1 /\ Q \in Nat /\ Fn \in Nat /\ Hn \in 0 .. 1 /\ Qn \in Nat
      /\ M = F + H + Q /\ Mn = Fn + Hn + Qn
      /\ M \in Nat /\ Mn \in Nat /\ MaxRequiredSamples \in Nat
      /\ sum \in Nat /\ sum' \in Nat /\ L \in Nat /\ Ln \in Nat
  BY <1>0, CountTypes, CountTypesAfter, Capacity DEF TypeInv, CountType, Moving
<1>2. DOMAIN pc = Coroutines /\ {"feed", "proc", "cons", "main", "mon", "rpc"} \subseteq Coroutines
  BY DEF TypeInv, SchedType, Coroutines
<1>3. /\ M <= L + 2 /\ M <= MaxRequiredSamples + 2
      /\ pc["proc"] = "get" => M <= MaxRequiredSamples + 1
      /\ pc["rpc"] = "update_size" => F <= sum + 1
      /\ pc["rpc"] = "update_set" => F + Q <= sum + 1
  BY <1>0 DEF LoadInv
<1>4. /\ ProcSubmit \/ Fn <= F
      /\ ConsPut \/ Qn <= Q
      /\ ProcGet \/ Mn <= M
  BY <1>0, FlowStep DEF Flow
<1>5. SUFFICES /\ Mn <= Ln + 2 /\ Mn <= MaxRequiredSamples + 2
               /\ pc'["proc"] = "get" => Mn <= MaxRequiredSamples + 1
               /\ pc'["rpc"] = "update_size" => Fn <= sum' + 1
               /\ pc'["rpc"] = "update_set" => Fn + Qn <= sum' + 1
  BY <1>0 DEF LoadInv
<1>6. CASE ProcLoop
  <2>1. /\ pc'["rpc"] = pc["rpc"] /\ Ln = L /\ sum' = sum
        /\ pc'["proc"] = "get" => L < MaxRequiredSamples
    BY <1>0, <1>1, <1>2, <1>6 DEF ProcLoop, ShouldPauseGeneration, Goto, counts
  <2>2. ~ProcSubmit /\ ~ProcGet
    BY <1>6 DEF ProcLoop, ProcSubmit, ProcGet
  <2>3. ~ConsPut
    BY <1>2, <1>6 DEF ProcLoop, Goto, ConsPut, PutInFlight
  <2>4. QED
    BY <1>1, <1>3, <1>4, <2>1, <2>2, <2>3
<1>7. CASE ProcGet
  <2>1. /\ pc["proc"] = "get" /\ pc'["proc"] = "drain" /\ pc'["rpc"] = pc["rpc"]
        /\ Ln = L + 1 /\ sum' = sum
    BY <1>0, <1>1, <1>2, <1>7 DEF ProcGet, Goto
  <2>2. UNCHANGED <<active_tasks, cancel_queue, result_queue, hand["cons"], queue>>
    BY <1>7 DEF ProcGet, tasks, mqvars, TypeInv, ProcInv
  <2>3. Fn = F /\ Qn = Q
    BY <1>0, <2>2 DEF InFlight
  <2>4. QED
    BY <1>1, <1>3, <2>1, <2>3
<1>8. CASE ConsPut
  <2>1. /\ Ln = L /\ sum' = sum /\ pc'["proc"] = pc["proc"]
        /\ pc'["rpc"] = pc["rpc"]
    BY <1>0, <1>2, <1>8 DEF ConsPut, counts
  <2>2. PICK d \in 0 .. 1 : Fn = F - 1 /\ Qn = Q - d + 1 /\ Hn = H
    <3>1. Dropped(Samples) \in 0 .. 1
      BY DEF Dropped, One
    <3>2. One(hand["cons"] \in Samples) = 1
      BY <1>8, PutPlaces DEF One
    <3>3. QED
      BY <1>0, <1>8, <3>1, <3>2, PutPlaces
  <2>3. QED
    BY <1>1, <1>3, <2>1, <2>2
<1>9. CASE UpdateBegin(sync_version)
  <2>1. /\ Ln = L /\ pc'["proc"] = pc["proc"] /\ pc'["rpc"] = "update_size"
        /\ sum' = Len(active_tasks) + Len(result_queue) + Len(cancel_queue)
    BY <1>0, <1>2, <1>9 DEF UpdateBegin, Goto
  <2>2. Fn = F /\ Qn = Q /\ Mn = M
    BY <1>0, <1>9 DEF UpdateBegin, tasks, locals, mqvars, InFlight, Held, Moving
  <2>3. F <= Len(active_tasks) + Len(result_queue) + Len(cancel_queue) + One(PutInFlight)
    <3>1. /\ active_tasks \in Seq(Task) /\ result_queue \in Seq(Samples) /\ cancel_queue \in Seq(Samples)
      BY DEF TypeInv, QueueType
    <3>2. At(Live(Samples), active_tasks) <= Len(active_tasks) /\ At(Live(Samples), active_tasks) \in Nat
      BY <3>1, AtType
    <3>5. At(Samples, result_queue) <= Len(result_queue) /\ At(Samples, result_queue) \in Nat
      BY <3>1, AtType
    <3>6. At(Samples, cancel_queue) <= Len(cancel_queue) /\ At(Samples, cancel_queue) \in Nat
      BY <3>1, AtType
    <3>7. Len(active_tasks) \in Nat /\ Len(result_queue) \in Nat /\ Len(cancel_queue) \in Nat
      BY <3>1
    <3>3. One(hand["cons"] \in Samples) = One(PutInFlight) /\ One(PutInFlight) \in Nat
      BY ValuesAssumption DEF TypeInv, ConsInv, One
    <3>4. QED
      BY <1>0, <3>2, <3>3, <3>5, <3>6, <3>7 DEF InFlight
  <2>4. QED
    BY <1>1, <1>3, <2>1, <2>2, <2>3 DEF One
<1>10. CASE UpdateQueueSize
  <2>1. /\ Ln = L /\ pc'["proc"] = pc["proc"]
        /\ pc["rpc"] = "update_size" /\ pc'["rpc"] = "update_set"
        /\ sum' = sum + Len(queue)
    BY <1>0, <1>2, <1>10 DEF UpdateQueueSize, Goto
  <2>2. Fn = F /\ Qn = Q /\ Mn = M
    BY <1>0, <1>10 DEF UpdateQueueSize, tasks, locals, mqvars, InFlight, Held, Moving
  <2>3. Q <= Len(queue) /\ Len(queue) \in Nat
    <3>1. queue \in Seq(Samples \cup {Sentinel})
      BY DEF TypeInv, QueueType
    <3>2. At(Samples, queue) <= Len(queue)
      BY <3>1, AtType
    <3>3. QED
      BY <1>0, <3>1, <3>2
  <2>4. QED
    BY <1>1, <1>3, <2>1, <2>2, <2>3
<1>11. CASE UpdateSet
  <2>1. /\ pc'["proc"] = pc["proc"] /\ pc["rpc"] = "update_set" /\ pc'["rpc"] = "update_validate"
        /\ Ln = sum
    BY <1>0, <1>2, <1>11 DEF UpdateSet, Goto
  <2>2. Fn = F /\ Qn = Q /\ Mn = M
    BY <1>0, <1>11 DEF UpdateSet, tasks, locals, mqvars, InFlight, Held, Moving
  <2>3. QED
    BY <1>1, <1>3, <2>1, <2>2
<1>12. CASE /\ ~LoadSteps
            /\ Ln = L /\ sum' = sum
            /\ pc'["proc"] = "get" => pc["proc"] = "get"
            /\ pc'["rpc"] \in Updating => pc'["rpc"] = pc["rpc"]
  <2>1. Mn <= M /\ Qn <= Q
    BY <1>4, <1>12 DEF LoadSteps
  <2>2. pc'["rpc"] \in Updating => Fn <= F
    <3>1. ProcSubmit => lock = NoOne /\ pc'["rpc"] = pc["rpc"]
      BY <1>2 DEF ProcSubmit, Locked, CanLock, Goto
    <3>2. ProcSubmit => pc["rpc"] \notin RpcHolding
      BY <3>1, FreeLock
    <3>3. QED
      BY <1>4, <3>1, <3>2 DEF RpcHolding, Updating
  <2>3. /\ Mn <= Ln + 2 /\ Mn <= MaxRequiredSamples + 2
        /\ pc'["proc"] = "get" => Mn <= MaxRequiredSamples + 1
    BY <1>1, <1>3, <1>12, <2>1
  <2>4. CASE pc'["rpc"] \in Updating
    <3>1. Fn <= F /\ pc'["rpc"] = pc["rpc"] /\ sum' = sum
      BY <1>12, <2>2, <2>4
    <3>2. /\ pc'["rpc"] = "update_size" => Fn <= sum' + 1
          /\ pc'["rpc"] = "update_set" => Fn + Qn <= sum' + 1
      BY <1>1, <1>3, <1>12, <2>1, <3>1
    <3>3. QED
      BY <2>3, <3>2
  <2>5. CASE pc'["rpc"] \notin Updating
    BY <2>3, <2>5 DEF Updating
  <2>6. QED
    BY <2>4, <2>5
<1>13. QED
  BY <1>0, <1>6, <1>7, <1>8, <1>9, <1>10, <1>11, <1>12, LoadFrame DEF LoadSteps

-----------------------------------------------------------------------------
(* Samples that wait have no version *)

\* no version is stamped on a sample that waits to be processed
FreshInv == \A s \in Samples : s \notin Fed \/ At({s}, pending_queue) > 0 => start_version[s] = -1

LEMMA InitFresh == Init => FreshInv
BY DEF Init, RollouterInit, FreshInv

LEMMA OnlyStartsStamp ==
  ASSUME TypeInv, [Next]_vars
  PROVE  \/ UNCHANGED start_version
         \/ UNCHANGED trainer_vars /\ \E i \in DOMAIN active_tasks : TaskStart(i)
<1> USE DEF tasks
<1>1. CASE Rests
  BY <1>1 DEF Rests
<1>2. CASE FeedSample \/ FeedDone \/ ProcLoop \/ ProcGet \/ ProcDrainWait \/ ProcSubmit
  BY <1>2 DEF FeedSample, FeedDone, ProcLoop, ProcGet, ProcDrainWait, ProcSubmit
<1>3. CASE \E i \in DOMAIN active_tasks : TaskFinish(i) \/ TaskCancel(i) \/ TaskFail(i)
  BY <1>3 DEF TaskFinish, TaskCancel, TaskFail
<1>4. CASE ConsGet \/ ConsPut \/ MainSentinel \/ PauseGather
  BY <1>4 DEF ConsGet, ConsPut, MainSentinel, PauseGather
<1>5. CASE TrainerGet \/ TrainerReceive \/ TrainerStep
  BY <1>5 DEF TrainerGet, TrainerReceive, TrainerStep, UnchangedRollouter
<1>6. QED
  BY <1>1, <1>2, <1>3, <1>4, <1>5, Steps DEF Moves

\* what the invariants say of one sample
LEMMA StartedIsFed ==
  ASSUME TypeInv, PlaceInv, NEW i \in DOMAIN active_tasks, Unended(active_tasks[i])
  PROVE  /\ active_tasks[i].sample \in Fed
         /\ At({active_tasks[i].sample}, pending_queue) = 0
<1> DEFINE s == active_tasks[i].sample
           S == {s}
<1>1. active_tasks \in Seq(Task) /\ active_tasks[i] \in Task
  BY DEF TypeInv, QueueType
<1>2. s \in Samples /\ S \in SUBSET Samples
  BY <1>1 DEF Task
<1>3. active_tasks[i] \in Live(S)
  BY <1>1 DEF Live
<1> HIDE DEF s, S
<1>4. At(Live(S), active_tasks) # 0
  BY <1>1, <1>3, AtNone
<1>5. Everywhere(s) <= One(s \in Fed)
  BY <1>2 DEF PlaceInv
<1>6. Everywhere(s) = At(S, pending_queue) + InFlight(S) + Held(S) + At(S, queue) + Fetched(S) + One(s \in trained)
  BY DEF Everywhere, S
<1>7. One(s \in trained) \in Nat /\ One(hand["cons"] \in S) \in Nat
  BY DEF One
<1>8. At(S, pending_queue) + At(Live(S), active_tasks) <= One(s \in Fed)
  <2>1. InFlight(S) >= At(Live(S), active_tasks)
    BY <1>2, <1>7, CountTypes DEF InFlight
  <2>2. /\ At(S, pending_queue) \in Nat /\ InFlight(S) \in Nat /\ Held(S) \in Nat
        /\ At(S, queue) \in Nat /\ Fetched(S) \in Nat /\ At(Live(S), active_tasks) \in Nat
        /\ One(s \in Fed) \in Nat
    BY <1>2, CountTypes DEF One
  <2>3. QED
    BY <1>5, <1>6, <1>7, <2>1, <2>2
<1>9. s \in Fed /\ At(S, pending_queue) = 0
  BY <1>2, <1>4, <1>8, CountTypes DEF One
<1>10. QED
  BY <1>9 DEF s, S

LEMMA FreshStep ==
  ASSUME TypeInv, TypeInv', PlaceInv, FreshInv, [Next]_vars
  PROVE  FreshInv'
<1>1. SUFFICES ASSUME NEW s \in Samples, s \notin Fed' \/ At({s}, pending_queue)' > 0
               PROVE  start_version'[s] = -1
  BY DEF FreshInv
<1>2. {s} \in SUBSET Samples /\ start_version \in [Samples -> Nat \cup {-1}]
  BY DEF TypeInv, QueueType
<1>3. s \notin Fed \/ At({s}, pending_queue) > 0
  <2>1. CASE s \notin Fed'
    BY <2>1, FedGrows
  <2>2. CASE At({s}, pending_queue)' > 0 /\ ~FeedSample
    <3>1. At({s}, pending_queue)' <= At({s}, pending_queue)
      BY <1>2, <2>2, FlowStep DEF Flow
    <3>2. QED
      BY <1>2, <2>2, <3>1, CountTypes, CountTypesAfter
  <2>3. CASE At({s}, pending_queue)' > 0 /\ FeedSample
    <3>1. UNCHANGED trainer_vars
      BY <2>3, EveryStep, OnlyTheFeederFeeds
    <3>2. At({s}, pending_queue)' = At({s}, pending_queue) + One(global_steps \in {s})
      BY <1>2, <2>3, <3>1, FeedMoves DEF One
    <3>3. global_steps = s => s \notin Fed
      BY <2>3, OnlyTheFeederFeeds
    <3>4. global_steps # s => At({s}, pending_queue) > 0
      BY <1>2, <2>3, <3>2, CountTypes DEF One
    <3>5. QED
      BY <3>3, <3>4
  <2>4. QED
    BY <1>1, <2>1, <2>2, <2>3
<1>4. start_version[s] = -1
  BY <1>3 DEF FreshInv
<1>5. CASE UNCHANGED start_version
  BY <1>4, <1>5
<1>6. CASE \E i \in DOMAIN active_tasks : TaskStart(i)
  <2>1. PICK i \in DOMAIN active_tasks : TaskStart(i)
    BY <1>6
  <2>2. Unended(active_tasks[i])
    BY <2>1 DEF TaskStart, Unended, Ended
  <2>3. active_tasks[i].sample # s
    BY <1>2, <1>3, <2>2, StartedIsFed, CountTypes
  <2>4. QED
    BY <1>2, <1>4, <2>1, <2>3 DEF TaskStart
<1>7. QED
  BY <1>5, <1>6, OnlyStartsStamp

-----------------------------------------------------------------------------
(* Counting samples by counting places *)

LEMMA Image ==
  ASSUME NEW T, NEW seq \in Seq(T), NEW S, NEW U, NEW f \in [S -> U]
  PROVE  LET B == {f[seq[i]] : i \in {j \in DOMAIN seq : seq[j] \in S}}
         IN  IsFiniteSet(B) /\ Cardinality(B) <= At(S, seq)
<1> DEFINE P == {j \in DOMAIN seq : seq[j] \in S}
           B == {f[seq[i]] : i \in P}
           g == [i \in P |-> f[seq[i]]]
<1>1. IsFiniteSet(P)
  BY AtType
<1>2. g \in Surjection(P, B)
  BY DEF Surjection
<1>3. IsFiniteSet(B) /\ Cardinality(B) <= Cardinality(P)
  <2> HIDE DEF g, P, B
  <2>1. QED
    BY <1>1, <1>2, FS_Surjection
<1>4. QED
  BY <1>3 DEF At

\* so many samples at most are in a place of the sequence
LEMMA AtMostAt ==
  ASSUME NEW T, NEW seq \in Seq(T), NEW S
  PROVE  LET B == {s \in S : \E i \in DOMAIN seq : seq[i] = s}
         IN  IsFiniteSet(B) /\ Cardinality(B) <= At(S, seq)
<1> DEFINE B == {s \in S : \E i \in DOMAIN seq : seq[i] = s}
           P == {j \in DOMAIN seq : seq[j] \in S}
           f == [s \in S |-> s]
           C == {f[seq[i]] : i \in P}
<1>1. f \in [S -> S]
  OBVIOUS
<1>2. B = C
  OBVIOUS
<1>3. IsFiniteSet(C) /\ Cardinality(C) <= At(S, seq)
  <2> HIDE DEF f
  <2>1. QED
    BY <1>1, Image
<1>4. QED
  BY <1>2, <1>3

LEMMA Unite ==
  ASSUME NEW A, NEW B, IsFiniteSet(A), IsFiniteSet(B), NEW m \in Nat, NEW n \in Nat,
         Cardinality(A) <= m, Cardinality(B) <= n
  PROVE  IsFiniteSet(A \cup B) /\ Cardinality(A \cup B) <= m + n
<1>1. /\ IsFiniteSet(A \cup B) /\ IsFiniteSet(A \cap B)
      /\ Cardinality(A \cup B) = Cardinality(A) + Cardinality(B) - Cardinality(A \cap B)
  <2>1. A \cap B \in SUBSET A
    OBVIOUS
  <2>2. QED
    BY <2>1, FS_Union, FS_Subset
<1>2. Cardinality(A) \in Nat /\ Cardinality(B) \in Nat /\ Cardinality(A \cap B) \in Nat
  BY <1>1, FS_CardinalityType
<1>3. QED
  BY <1>1, <1>2

LEMMA AtMostOne ==
  ASSUME NEW x, NEW S
  PROVE  IsFiniteSet({x} \cap S) /\ Cardinality({x} \cap S) <= One(x \in S)
<1>1. CASE x \in S
  <2>1. {x} \cap S = {x}
    BY <1>1
  <2>2. IsFiniteSet({x}) /\ Cardinality({x}) = 1
    BY FS_Singleton
  <2>3. QED
    BY <1>1, <2>1, <2>2 DEF One
<1>2. CASE x \notin S
  <2>1. {x} \cap S = {}
    BY <1>2
  <2>2. QED
    BY <1>2, <2>1, FS_EmptySet DEF One
<1>3. QED
  BY <1>1, <1>2

\* the samples that are neither pending nor fetched
OnTheWay == {s \in Samples : Moving({s}) > 0}

LEMMA OnTheWayCounted ==
  ASSUME TypeInv
  PROVE  IsFiniteSet(OnTheWay) /\ Cardinality(OnTheWay) <= Moving(Samples)
<1> DEFINE Listed(seq) == {s \in Samples : \E i \in DOMAIN seq : seq[i] = s}
           f == [t \in Live(Samples) |-> t.sample]
           A == {f[active_tasks[i]] : i \in {j \in DOMAIN active_tasks : active_tasks[j] \in Live(Samples)}}
           C == {hand["cons"]} \cap Samples
           D == {hand["proc"]} \cap Samples
<1>1. /\ active_tasks \in Seq(Task) /\ result_queue \in Seq(Samples) /\ cancel_queue \in Seq(Samples)
      /\ queue \in Seq(Samples \cup {Sentinel})
  BY DEF TypeInv, QueueType
<1>2. f \in [Live(Samples) -> Samples]
  BY DEF Live, Task
<1>3. IsFiniteSet(A) /\ Cardinality(A) <= At(Live(Samples), active_tasks)
  <2> HIDE DEF f
  <2>1. QED
    BY <1>1, <1>2, Image
<1>4. IsFiniteSet(Listed(cancel_queue)) /\ Cardinality(Listed(cancel_queue)) <= At(Samples, cancel_queue)
  BY <1>1, AtMostAt
<1>5. IsFiniteSet(Listed(result_queue)) /\ Cardinality(Listed(result_queue)) <= At(Samples, result_queue)
  BY <1>1, AtMostAt
<1>6. IsFiniteSet(Listed(queue)) /\ Cardinality(Listed(queue)) <= At(Samples, queue)
  BY <1>1, AtMostAt
<1>7. /\ IsFiniteSet(C) /\ Cardinality(C) <= One(hand["cons"] \in Samples)
      /\ IsFiniteSet(D) /\ Cardinality(D) <= One(hand["proc"] \in Samples)
  BY AtMostOne
<1> DEFINE All == A \cup Listed(cancel_queue) \cup Listed(result_queue) \cup C \cup D \cup Listed(queue)
<1>8. OnTheWay \subseteq All
  <2>1. SUFFICES ASSUME NEW s \in Samples, s \notin All PROVE Moving({s}) = 0
    BY DEF OnTheWay
  <2>2. At({s}, cancel_queue) = 0
    BY <1>1, <2>1, AtNone
  <2>3. At({s}, result_queue) = 0
    BY <1>1, <2>1, AtNone
  <2>4. At({s}, queue) = 0
    BY <1>1, <2>1, AtNone
  <2>5. At(Live({s}), active_tasks) = 0
    <3>1. ASSUME NEW i \in DOMAIN active_tasks, active_tasks[i] \in Live({s}) PROVE FALSE
      <4>1. active_tasks[i] \in Live(Samples) /\ f[active_tasks[i]] = s
        BY <3>1 DEF Live
      <4>2. QED
        BY <2>1, <3>1, <4>1
    <3>2. QED
      BY <1>1, <3>1, AtNone
  <2>6. One(hand["cons"] \in {s}) = 0 /\ One(hand["proc"] \in {s}) = 0
    BY <2>1 DEF One
  <2>7. QED
    BY <2>2, <2>3, <2>4, <2>5, <2>6 DEF Moving, InFlight, Held
<1>9. IsFiniteSet(All) /\ Cardinality(All) <= Moving(Samples)
  <2>1. PICK a, b, c, d, e, q \in Nat :
          /\ a = At(Live(Samples), active_tasks) /\ b = At(Samples, cancel_queue)
          /\ c = At(Samples, result_queue) /\ d = One(hand["cons"] \in Samples)
          /\ e = One(hand["proc"] \in Samples) /\ q = At(Samples, queue)
    BY CountTypes DEF One
  <2>2. PICK Lb, Lc, Lq : Lb = Listed(cancel_queue) /\ Lc = Listed(result_queue) /\ Lq = Listed(queue)
    OBVIOUS
  <2> HIDE DEF A, C, D, Listed
  <2>3. IsFiniteSet(A \cup Lb) /\ Cardinality(A \cup Lb) <= a + b
    BY <1>3, <1>4, <2>1, <2>2, Unite
  <2>4. IsFiniteSet(A \cup Lb \cup Lc) /\ Cardinality(A \cup Lb \cup Lc) <= a + b + c
    <3>1. a + b \in Nat /\ IsFiniteSet(Lc) /\ Cardinality(Lc) <= c
      BY <1>5, <2>1, <2>2
    <3>2. QED
      BY <2>3, <3>1, Unite
  <2>5. IsFiniteSet(A \cup Lb \cup Lc \cup C) /\ Cardinality(A \cup Lb \cup Lc \cup C) <= a + b + c + d
    <3>1. a + b + c \in Nat /\ IsFiniteSet(C) /\ Cardinality(C) <= d
      BY <1>7, <2>1
    <3>2. QED
      BY <2>4, <3>1, Unite
  <2>6. /\ IsFiniteSet(A \cup Lb \cup Lc \cup C \cup D)
        /\ Cardinality(A \cup Lb \cup Lc \cup C \cup D) <= a + b + c + d + e
    <3>1. a + b + c + d \in Nat /\ IsFiniteSet(D) /\ Cardinality(D) <= e
      BY <1>7, <2>1
    <3>2. QED
      BY <2>5, <3>1, Unite
  <2>7. /\ IsFiniteSet(A \cup Lb \cup Lc \cup C \cup D \cup Lq)
        /\ Cardinality(A \cup Lb \cup Lc \cup C \cup D \cup Lq) <= a + b + c + d + e + q
    <3>1. a + b + c + d + e \in Nat /\ IsFiniteSet(Lq) /\ Cardinality(Lq) <= q
      BY <1>6, <2>1, <2>2
    <3>2. QED
      BY <2>6, <3>1, Unite
  <2>8. Moving(Samples) = a + b + c + d + e + q
    BY <2>1 DEF Moving, InFlight, Held
  <2>9. QED
    BY <2>2, <2>7, <2>8
<1>10. QED
  <2>1. OnTheWay \in SUBSET All
    BY <1>8
  <2> HIDE DEF All
  <2>2. IsFiniteSet(OnTheWay) /\ Cardinality(OnTheWay) <= Cardinality(All)
    BY <1>9, <2>1, FS_Subset
  <2>3. Cardinality(OnTheWay) \in Nat /\ Cardinality(All) \in Nat /\ Moving(Samples) \in Nat
    BY <1>9, <2>2, FS_CardinalityType, CountTypes DEF Moving
  <2>4. QED
    BY <1>9, <2>2, <2>3

LEMMA OutstandingOnTheWay ==
  ASSUME TypeInv, FreshInv
  PROVE  Outstanding \subseteq OnTheWay
<1>1. SUFFICES ASSUME NEW s \in Outstanding PROVE s \in OnTheWay
  OBVIOUS
<1>2. /\ s \in Samples /\ {s} \in SUBSET Samples /\ start_version[s] # -1 /\ Occurrences(s) > 0
      /\ s \notin trained /\ Replies(s) = {} /\ Positions(s, batch) = {}
  BY DEF Outstanding
<1>3. At({s}, pending_queue) = 0
  BY <1>2, CountTypes DEF FreshInv
<1>4. Fetched({s}) = 0
  <2>1. batch \in Seq(Samples) /\ reply["trainer"] # s
    BY <1>2 DEF TypeInv, TrainerInv, Replies
  <2>2. At({s}, batch) = 0
    BY <1>2, <2>1, AtNone DEF Positions
  <2>3. QED
    BY <2>1, <2>2 DEF Fetched, One
<1>5. Everywhere(s) > 0
  BY <1>2, OccurrencesAreCounted
<1>6. Moving({s}) > 0
  BY <1>2, <1>3, <1>4, <1>5, CountTypes DEF Everywhere, Moving, One
<1>7. QED
  BY <1>2, <1>6 DEF OnTheWay

FullLoadInv == SafeInv /\ PauseInv /\ LoadInv /\ FreshInv

LEMMA FullLoadStep ==
  ASSUME FullLoadInv, [Next]_vars
  PROVE  FullLoadInv'
<1>1. SafeInv' /\ PauseInv'
  BY SafeStep, PauseStep DEF FullLoadInv
<1>2. LoadInv'
  BY <1>1, LoadStep DEF FullLoadInv, SafeInv, PauseInv
<1>3. FreshInv'
  BY <1>1, FreshStep DEF FullLoadInv, SafeInv
<1>4. QED
  BY <1>1, <1>2, <1>3 DEF FullLoadInv

LEMMA AlwaysLoad == Spec => []FullLoadInv
<1>1. Init => FullLoadInv
  BY InitType, InitPhase, InitPlace, InitPause, InitLoad, InitFresh DEF FullLoadInv, SafeInv
<1>2. QED
  BY <1>1, FullLoadStep, PTL DEF Spec

(***************************************************************************)
(* The samples generated, or being generated, and not yet fetched by the   *)
(* Trainer are all but two counted in staleness_samples, and never exceed  *)
(* max_required_samples by more than two (_should_pause_generation).       *)
(***************************************************************************)
THEOREM StalenessBounded == Spec => []StalenessBound
<1>1. FullLoadInv => StalenessBound
  <2> SUFFICES ASSUME FullLoadInv PROVE StalenessBound
    OBVIOUS
  <2>1. IsFiniteSet(OnTheWay) /\ Cardinality(OnTheWay) <= Moving(Samples) /\ Moving(Samples) \in Nat
    BY OnTheWayCounted, CountTypes DEF FullLoadInv, SafeInv, Moving
  <2>2. Outstanding \in SUBSET OnTheWay
    BY OutstandingOnTheWay DEF FullLoadInv, SafeInv
  <2>3. Cardinality(Outstanding) <= Cardinality(OnTheWay) /\ Cardinality(Outstanding) \in Nat
        /\ Cardinality(OnTheWay) \in Nat
    BY <2>1, <2>2, FS_Subset, FS_CardinalityType
  <2>4. /\ Moving(Samples) <= MaxRequiredSamples + 2 /\ MaxRequiredSamples \in Nat
        /\ Moving(Samples) <= staleness_samples + 2 /\ staleness_samples \in Nat
    BY Capacity DEF FullLoadInv, LoadInv, SafeInv, TypeInv, CountType
  <2>5. QED
    BY <2>1, <2>3, <2>4 DEF StalenessBound
<1>2. QED
  BY AlwaysLoad, <1>1, PTL

-----------------------------------------------------------------------------
(* Samples that have left a task have a version *)

\* the samples whose generation has begun
Stamped == {s \in Samples : start_version[s] # -1}
Begun == {t \in Task : t.status = "new" \/ t.sample \in Stamped}

\* whatever has left a task has a version
StampInv ==
  /\ active_tasks \in Seq(Begun)
  /\ result_queue \in Seq(Stamped)
  /\ hand["cons"] \in Stamped \cup {NoOne}
  /\ queue \in Seq(Stamped \cup {Sentinel})
  /\ reply["trainer"] \in Stamped \cup {Sentinel, Closed}
  /\ batch \in Seq(Stamped)

LEMMA InitStamp == Init => StampInv
BY DEF Init, RollouterInit, MQ!Init, StampInv

LEMMA SeqMonotone ==
  ASSUME NEW A, NEW B, A \subseteq B, NEW seq \in Seq(A)
  PROVE  seq \in Seq(B)
OBVIOUS

LEMMA StampedGrows ==
  ASSUME TypeInv, [Next]_vars
  PROVE  Stamped \subseteq Stamped' /\ Begun \subseteq Begun'
<1>1. start_version \in [Samples -> Nat \cup {-1}] /\ current_param_version \in Nat
  BY DEF TypeInv, QueueType, CountType
<1>2. CASE UNCHANGED start_version
  BY <1>2 DEF Stamped, Begun
<1>3. CASE \E i \in DOMAIN active_tasks : TaskStart(i)
  <2>1. \A s \in Samples : start_version[s] # -1 => start_version'[s] # -1
    BY <1>1, <1>3 DEF TaskStart
  <2>2. QED
    BY <2>1 DEF Stamped, Begun
<1>4. QED
  BY <1>2, <1>3, OnlyStartsStamp

LEMMA StampStep ==
  ASSUME TypeInv, StampInv, [Next]_vars
  PROVE  StampInv'
<1>0. PICK A, B, C, D : A = Stamped /\ B = Stamped' /\ C = Begun /\ D = Begun'
  OBVIOUS
<1>1. A \subseteq B /\ C \subseteq D
  BY <1>0, StampedGrows
<1>2. /\ active_tasks \in Seq(D) /\ result_queue \in Seq(B) /\ queue \in Seq(B \cup {Sentinel})
      /\ batch \in Seq(B) /\ hand["cons"] \in B \cup {NoOne} /\ reply["trainer"] \in B \cup {Sentinel, Closed}
  BY <1>0, <1>1, SeqMonotone DEF StampInv
<1>3. /\ B \subseteq Samples /\ D \subseteq Task
      /\ D = {t \in Task : t.status = "new" \/ t.sample \in B}
  BY <1>0 DEF Begun, Stamped
<1>4. SUFFICES /\ active_tasks' \in Seq(D) /\ result_queue' \in Seq(B) /\ queue' \in Seq(B \cup {Sentinel})
               /\ batch' \in Seq(B) /\ hand'["cons"] \in B \cup {NoOne}
               /\ reply'["trainer"] \in B \cup {Sentinel, Closed}
  BY <1>0 DEF StampInv
<1>5. DOMAIN hand = {"proc", "cons"} /\ DOMAIN reply = {"trainer"} /\ active_tasks \in Seq(Task)
      /\ start_version \in [Samples -> Nat \cup {-1}] /\ current_param_version \in Nat
  BY DEF TypeInv, ProcInv, TrainerInv, QueueType, CountType
<1> USE DEF tasks, feeding, locals, mqvars, trainer_vars
<1>6. CASE UNCHANGED <<active_tasks, result_queue, hand["cons"], queue, reply, batch>>
  BY <1>2, <1>6
<1>7. CASE Rests
  BY <1>6, <1>7 DEF Rests
<1>8. CASE UNCHANGED trainer_vars /\ (FeedSample \/ FeedDone \/ ProcLoop \/ ProcGet)
  BY <1>5, <1>6, <1>8 DEF FeedSample, FeedDone, ProcLoop, ProcGet
<1>9. CASE UNCHANGED trainer_vars /\ (ProcDrainWait \/ ProcSubmit \/ PauseGather)
  <2>1. UNCHANGED <<result_queue, hand["cons"], queue, reply, batch>>
    BY <1>5, <1>9 DEF ProcDrainWait, ProcSubmit, PauseGather
  <2>2. CASE ProcDrainWait
    <3>1. PICK order \in Bijection(1 .. Cardinality(Pending), Pending) :
            active_tasks' = [n \in 1 .. Cardinality(Pending) |-> active_tasks[order[n]]]
      BY <2>2 DEF ProcDrainWait
    <3>2. order \in [1 .. Cardinality(Pending) -> DOMAIN active_tasks]
      BY <3>1 DEF Bijection, Injection, Pending
    <3>3. active_tasks' \in [1 .. Cardinality(Pending) -> D]
      BY <1>2, <3>1, <3>2
    <3>4. active_tasks' \in Seq(D)
      BY <1>5, <3>3, PendingType
    <3>5. QED
      BY <1>2, <2>1, <3>4
  <2>3. CASE ProcSubmit
    <3>1. \/ UNCHANGED active_tasks
          \/ active_tasks' = Append(active_tasks, [sample |-> hand["proc"], status |-> "new"])
      BY <2>3 DEF ProcSubmit
    <3>2. [sample |-> hand["proc"], status |-> "new"] \in D
      BY <1>3, <2>3 DEF ProcSubmit, TypeInv, ProcInv, Task
    <3>3. \A x \in D : Append(active_tasks, x) \in Seq(D)
      BY <1>2, AppendType
    <3>4. QED
      BY <1>2, <2>1, <3>1, <3>2, <3>3
  <2>4. CASE PauseGather
    BY <1>2, <2>1, <2>4 DEF PauseGather
  <2>5. QED
    BY <1>9, <2>2, <2>3, <2>4
<1>10. CASE UNCHANGED trainer_vars
            /\ \E i \in DOMAIN active_tasks : TaskStart(i) \/ TaskFinish(i) \/ TaskCancel(i) \/ TaskFail(i)
  <2>1. PICK i \in DOMAIN active_tasks : TaskStart(i) \/ TaskFinish(i) \/ TaskCancel(i) \/ TaskFail(i)
    BY <1>10
  <2>2. PICK s \in {"new", "generating", "refused", "done", "failed"} : SetStatus(i, s)
    BY <2>1 DEF TaskStart, TaskFinish, TaskCancel, TaskFail
  <2>3. /\ active_tasks' = [active_tasks EXCEPT ![i] = [sample |-> active_tasks[i].sample, status |-> s]]
        /\ active_tasks[i] \in Task /\ [sample |-> active_tasks[i].sample, status |-> s] \in Task
    BY <1>5, <2>2, StatusType
  <2>4. active_tasks[i].sample \in B
    <3>1. CASE TaskStart(i)
      <4>1. active_tasks[i].sample \in Samples
        BY <2>3 DEF Task
      <4>2. start_version'[active_tasks[i].sample] # -1
        BY <1>5, <3>1, <4>1 DEF TaskStart
      <4>3. QED
        BY <1>0, <4>1, <4>2 DEF Stamped
    <3>2. CASE TaskFinish(i) \/ TaskCancel(i) \/ TaskFail(i)
      <4>1. active_tasks[i].status # "new" /\ active_tasks[i] \in D
        BY <1>2, <3>2 DEF TaskFinish, TaskCancel, TaskFail
      <4>2. QED
        BY <1>3, <4>1
    <3>3. QED
      BY <2>1, <3>1, <3>2
  <2>5. [sample |-> active_tasks[i].sample, status |-> s] \in D
    BY <1>3, <2>3, <2>4
  <2>6. \A x \in D : [active_tasks EXCEPT ![i] = x] \in Seq(D)
    BY <1>2, ReplaceType
  <2>7. active_tasks' \in Seq(D)
    BY <2>3, <2>5, <2>6
  <2>8. result_queue' \in Seq(B)
    <3>1. result_queue' = result_queue \/ result_queue' = Append(result_queue, active_tasks[i].sample)
      BY <2>1 DEF TaskStart, TaskFinish, TaskCancel, TaskFail
    <3>2. QED
      BY <1>2, <2>4, <3>1, AppendType
  <2>9. UNCHANGED <<hand, queue, reply, batch>>
    BY <1>10, <2>1 DEF TaskStart, TaskFinish, TaskCancel, TaskFail
  <2>10. QED
    BY <1>2, <2>7, <2>8, <2>9
<1>11. CASE UNCHANGED trainer_vars /\ ConsGet
  <2>1. /\ result_queue # << >> /\ result_queue' = Tail(result_queue) /\ hand'["cons"] = Head(result_queue)
        /\ UNCHANGED <<active_tasks, queue, reply, batch>>
    BY <1>5, <1>11 DEF ConsGet
  <2>2. QED
    BY <1>2, <2>1, TailType
<1>12. CASE UNCHANGED trainer_vars /\ (ConsPut \/ MainSentinel)
  <2>1. PICK x \in B \cup {Sentinel} : MQ!PutSample(x)
    <3>1. ConsPut => hand["cons"] \in Samples
      BY DEF ConsPut, TypeInv, ConsInv
    <3>2. NoOne \notin Samples
      BY ValuesAssumption
    <3>3. QED
      BY <1>2, <1>12, <3>1, <3>2 DEF ConsPut, MainSentinel
  <2>2. queue' = Append(IF MQ!IsFull THEN Tail(queue) ELSE queue, x) /\ UNCHANGED reply
    BY <2>1 DEF MQ!PutSample
  <2>3. MQ!IsFull => queue # << >>
    <3>1. MaxRequiredSamples \in Nat \ {0}
      BY Capacity
    <3>2. QED
      BY <3>1 DEF MQ!IsFull
  <2>4. (IF MQ!IsFull THEN Tail(queue) ELSE queue) \in Seq(B \cup {Sentinel})
    BY <1>2, <2>3, TailType
  <2>5. queue' \in Seq(B \cup {Sentinel})
    BY <2>1, <2>2, <2>4, AppendType
  <2>6. UNCHANGED <<active_tasks, result_queue, batch>> /\ hand'["cons"] \in {hand["cons"], NoOne}
    BY <1>5, <1>12 DEF ConsPut, MainSentinel
  <2>7. QED
    BY <1>2, <2>2, <2>5, <2>6
<1>13. CASE TrainerGet
  <2>1. UNCHANGED <<active_tasks, result_queue, hand, batch>>
    BY <1>13 DEF TrainerGet, UnchangedRollouter
  <2>2. \/ UNCHANGED <<queue, reply>>
        \/ queue # << >> /\ queue' = Tail(queue) /\ reply'["trainer"] = Head(queue)
    BY <1>5, <1>13 DEF TrainerGet, TypeInv, TrainerInv, MQ!GetSample, MQ!Wake, MQ!GetSampleBody, MQ!Pop, MQ!ReturnClosed, MQ!Wait
  <2>3. QED
    BY <1>2, <2>1, <2>2, TailType
<1>14. CASE TrainerReceive
  <2>1. UNCHANGED <<active_tasks, result_queue, hand, queue>> /\ reply'["trainer"] = Closed
    BY <1>5, <1>14 DEF TrainerReceive, UnchangedRollouter, MQ!Receive
  <2>2. batch' = IF reply["trainer"] = Sentinel THEN batch ELSE Append(batch, reply["trainer"])
    BY <1>14 DEF TrainerReceive
  <2>3. reply["trainer"] # Closed
    BY <1>14 DEF TrainerReceive, MQ!Receive, TypeInv, TrainerInv
  <2>4. batch' \in Seq(B)
    BY <1>2, <2>2, <2>3, AppendType
  <2>5. QED
    BY <1>2, <2>1, <2>4
<1>15. CASE TrainerStep
  BY <1>2, <1>15 DEF TrainerStep, UnchangedRollouter
<1>16. QED
  BY <1>7, <1>8, <1>9, <1>10, <1>11, <1>12, <1>13, <1>14, <1>15, Steps DEF Moves

-----------------------------------------------------------------------------
(* Staleness threshold 0: an epoch uses up what was generated for it *)

\* the training is coming to its end
Closing == trainer \in {"final", "final_wait", "returned"} \/ validate

\* between the last step of an epoch and the reset of the Rollouter's count
Awaiting == trainer \in {"wait_last", "sync"}
Catching == pc["rpc"] \in {"update", "update_size", "update_set"}

\* the samples taken from the pending queue and not yet trained on
Loaded(S) == Moving(S) + Fetched(S)

\* the samples trained on since the last synchronization
Used == (local_trigger_step - 1) * RequiredSamples

\* validate is set for the final synchronization only
ClosingInv == validate => trainer \in {"wait_last", "sync", "final_wait", "returned"}

\* when an epoch ends every sample loaded has been trained on, and until the
\* Rollouter has counted anew the processor fetches none
EpochInv ==
  ~Closing =>
    /\ ~(Awaiting /\ Catching)
    /\ Awaiting \/ Catching =>
         /\ Loaded(Samples) = 0 /\ local_trigger_step = 1
         /\ staleness_samples >= MaxRequiredSamples /\ pc["proc"] # "get"
    /\ ~Awaiting /\ ~Catching =>
         /\ Loaded(Samples) + Used <= staleness_samples
         /\ Loaded(Samples) + Used <= MaxRequiredSamples
         /\ pc["proc"] = "get" => Loaded(Samples) + Used < MaxRequiredSamples

\* what is loaded was generated by the version that is being trained
PolicyInv ==
  ~Closing => \A s \in Samples : Loaded({s}) > 0 => start_version[s] \in {-1, trainer_version}

\* the steps that are not covered by the frame below
EpochSteps == ProcLoop \/ ProcGet \/ UpdateSet \/ TrainerStep

LEMMA EpochFrame ==
  ASSUME TypeInv, PhaseInv, ClosingInv, [Next]_vars
  PROVE  /\ ClosingInv'
         /\ Closing => Closing'
         /\ \/ EpochSteps \/ Closing'
            \/ /\ UNCHANGED <<staleness_samples, local_trigger_step, trainer_version>>
               /\ pc'["proc"] = "get" => pc["proc"] = "get"
               /\ \/ Awaiting' = Awaiting /\ Catching' = Catching
                  \/ Awaiting /\ ~Awaiting' /\ Catching'
<1> DEFINE Quiet == UNCHANGED <<trainer, validate, local_trigger_step, trainer_version>>
           Same == /\ Quiet /\ UNCHANGED staleness_samples
                   /\ pc'["proc"] = "get" => pc["proc"] = "get"
                   /\ Catching' = Catching
<1>0. DOMAIN pc = Coroutines /\ {"feed", "proc", "cons", "main", "mon", "rpc"} \subseteq Coroutines
      /\ validate \in BOOLEAN
  BY DEF TypeInv, SchedType, Coroutines
<1>1. CASE Quiet /\ (EpochSteps \/ Same)
  BY <1>1 DEF ClosingInv, Closing, Awaiting
<1> USE DEF sched, flags, tasks, feeding, counts, locals, mqvars, Goto
<1>2. Same => Quiet
  OBVIOUS
<1>3. CASE Processing /\ UNCHANGED trainer_vars
  <2>1. Quiet
    BY <1>3 DEF trainer_vars
  <2>2. CASE ProcSetPaused \/ ProcGetWaits \/ ProcDrain \/ ProcDrainLock
    BY <1>0, <1>1, <2>1, <2>2 DEF ProcSetPaused, ProcGetWaits, ProcDrain, ProcDrainLock, AfterDrain, Catching
  <2>3. CASE ProcDrainWait \/ ProcIdle \/ ProcSubmit \/ AwaitLock("proc")
    BY <1>0, <1>1, <2>1, <2>3 DEF ProcDrainWait, ProcIdle, ProcSubmit, AwaitLock, Catching
  <2>4. QED
    BY <1>1, <1>3, <2>1, <2>2, <2>3 DEF Processing, EpochSteps
<1>4. CASE (Feeding \/ Generating) /\ UNCHANGED trainer_vars
  BY <1>0, <1>1, <1>4 DEF Feeding, FeedSample, FeedDone, Generating, TaskStart, TaskFinish, TaskCancel, TaskFail,
                          Catching, trainer_vars
<1>5. CASE Consuming /\ UNCHANGED trainer_vars
  <2>1. Quiet
    BY <1>5 DEF trainer_vars
  <2>2. CASE ConsGet \/ ConsAck
    BY <1>0, <1>1, <2>1, <2>2 DEF ConsGet, ConsAck, Catching
  <2>3. CASE ConsPut
    <3>1. /\ pc'["proc"] = pc["proc"] /\ UNCHANGED staleness_samples
          /\ pc'["rpc"] = pc["rpc"]
      BY <1>0, <2>3 DEF ConsPut
    <3>2. Catching' = Catching
      BY <3>1 DEF Catching
    <3>3. QED
      BY <1>1, <2>1, <3>1, <3>2
  <2>4. QED
    BY <1>5, <2>2, <2>3 DEF Consuming
<1>6. CASE Finishing /\ UNCHANGED trainer_vars
  BY <1>0, <1>1, <1>6 DEF Finishing, MainFed, MainProcessed, MainCancel, MainSentinel, MainStop, AwaitLock,
                          Catching, trainer_vars
<1>7. CASE Monitoring /\ UNCHANGED trainer_vars
  BY <1>0, <1>1, <1>7 DEF Monitoring, MonTop, MonCheck, MonUnpause, AwaitLock, Awake, Catching, trainer_vars
<1>8. CASE Serving(sync_version) /\ UNCHANGED trainer_vars
  <2>1. Quiet
    BY <1>8 DEF trainer_vars
  <2>2. CASE PauseBegin \/ PauseCancel \/ PauseGather \/ PauseEnd
    BY <1>0, <1>1, <2>1, <2>2 DEF PauseBegin, PauseCancel, PauseGather, PauseEnd, AfterCancel, Catching
  <2>3. CASE UpdateBegin(sync_version) \/ UpdateQueueSize \/ UpdateEnd
    BY <1>0, <1>1, <2>1, <2>3 DEF UpdateBegin, UpdateQueueSize, UpdateEnd, Catching
  <2>4. CASE ResumeBegin
    <3>1. /\ pc["rpc"] = "resume" /\ pc'["rpc"] \in {"resume_servers", "idle"}
          /\ pc'["proc"] = "get" => pc["proc"] = "get"
          /\ UNCHANGED staleness_samples
      BY <1>0, <2>4 DEF ResumeBegin, Awake
    <3>2. Catching' = Catching
      BY <3>1 DEF Catching
    <3>3. QED
      BY <1>1, <2>1, <3>1, <3>2
  <2>5. CASE ResumeEnd \/ AwaitLock("rpc")
    BY <1>0, <1>1, <2>1, <2>5 DEF ResumeEnd, AwaitLock, Catching
  <2>6. QED
    BY <1>1, <1>8, <2>1, <2>2, <2>3, <2>4, <2>5 DEF Serving, EpochSteps
<1>9. CASE Trainer
  <2>1. CASE TrainerGet
    BY <1>1, <2>1 DEF TrainerGet, UnchangedRollouter, trainer_vars, Catching
  <2>2. CASE TrainerReceive \/ TrainerValidation \/ TrainerWaitLast
    BY <1>0, <2>2 DEF TrainerReceive, TrainerValidation, TrainerWaitLast, UnchangedRollouter, ClosingInv, Closing,
                      Awaiting, Catching
  <2>3. CASE TrainerStep \/ TrainerFinal \/ TrainerFinalWait
    BY <1>0, <2>3 DEF TrainerStep, TrainerFinal, TrainerFinalWait, ClosingInv, Closing, EpochSteps
  <2>4. QED
    BY <1>9, <2>1, <2>2, <2>3 DEF Trainer
<1>10. CASE Sync
  <2>1. CASE SyncPause
    BY <1>0, <1>1, <2>1 DEF SyncPause, Catching
  <2>2. CASE SyncVersion
    BY <1>0, <1>1, <2>2 DEF SyncVersion, UnchangedRollouter, Catching
  <2>3. CASE SyncWeights
    BY <1>0, <2>3 DEF SyncWeights, PhaseInv, ClosingInv, Closing, Awaiting, Catching
  <2>4. QED
    BY <1>10, <2>1, <2>2, <2>3 DEF Sync
<1>11. CASE UNCHANGED vars
  BY <1>0, <1>1, <1>11 DEF vars, rollouter_vars, trainer_vars, Catching
<1>12. QED
  BY <1>3, <1>4, <1>5, <1>6, <1>7, <1>8, <1>9, <1>10, <1>11 DEF Next

LEMMA LoadedType ==
  ASSUME TypeInv, NEW S \in SUBSET Samples
  PROVE  Loaded(S) \in Nat /\ Moving(S) \in Nat /\ Fetched(S) \in Nat
BY CountTypes DEF Loaded, Moving

LEMMA LoadedTypeAfter ==
  ASSUME TypeInv', NEW S \in SUBSET Samples
  PROVE  Loaded(S)' \in Nat /\ Moving(S)' \in Nat /\ Fetched(S)' \in Nat
BY CountTypesAfter DEF Loaded, Moving

LEMMA InitEpoch == Init => ClosingInv /\ EpochInv /\ PolicyInv
<1> SUFFICES ASSUME Init PROVE ClosingInv /\ EpochInv /\ PolicyInv
  OBVIOUS
<1> USE DEF Init, RollouterInit, MQ!Init
<1>1. NoOne \notin Samples /\ Closed \notin Samples /\ MaxRequiredSamples \in Nat \ {0} /\ RequiredSamples \in Nat
  BY ValuesAssumption, Capacity
<1>2. \A S : At(S, << >>) = 0
  <2>1. TAKE S
  <2>2. << >> \in Seq({}) /\ \A i \in DOMAIN << >> : << >>[i] \notin S
    OBVIOUS
  <2>3. QED
    BY <2>2, AtNone
<1>3. \A S \in SUBSET Samples : Loaded(S) = 0
  BY <1>1, <1>2 DEF Loaded, Moving, InFlight, Held, Fetched, One
<1>4. pc["proc"] = "loop" /\ ~Awaiting /\ ~Catching
  BY DEF Awaiting, Catching
<1>5. Used = 0
  BY <1>1 DEF Used
<1>6. EpochInv
  BY <1>1, <1>3, <1>4, <1>5 DEF EpochInv
<1>7. \A s \in Samples : Loaded({s}) = 0
  BY <1>3
<1>8. QED
  BY <1>6, <1>7 DEF ClosingInv, PolicyInv

\* a training step uses up the samples fetched
LEMMA StepUses ==
  ASSUME TypeInv, TypeInv', TrainerStep
  PROVE  /\ Fetched(Samples) = RequiredSamples /\ Fetched(Samples)' = 0 /\ Moving(Samples)' = Moving(Samples)
<1>1. batch \in Seq(Samples) /\ Len(batch) = RequiredSamples
  BY DEF TypeInv, TrainerInv, TrainerStep
<1>2. \A i \in DOMAIN batch : batch[i] \in Samples
  BY <1>1
<1>3. At(Samples, batch) = RequiredSamples
  BY <1>1, <1>2, AtAll
<1>4. QED
  BY <1>3, TrainMoves DEF Moving

\* the processor and the parameter update leave the Trainer alone
LEMMA TrainerAside ==
  ASSUME TypeInv, PhaseInv, [Next]_vars, ProcLoop \/ ProcGet \/ UpdateSet
  PROVE  UNCHANGED trainer_vars
<1>1. pc' # pc
  <2>1. DOMAIN pc = Coroutines /\ {"proc", "rpc"} \subseteq Coroutines
    BY DEF TypeInv, SchedType, Coroutines
  <2>2. pc'["proc"] # pc["proc"] \/ pc'["rpc"] # pc["rpc"]
    BY <2>1 DEF ProcLoop, ProcGet, UpdateSet, Goto
  <2>3. QED
    BY <2>2
<1>2. Next
  BY <1>1 DEF vars, rollouter_vars, sched
<1>3. CASE Trainer \/ SyncVersion
  BY <1>1, <1>3 DEF Trainer, TrainerGet, TrainerReceive, TrainerStep, TrainerValidation, TrainerFinal,
     TrainerWaitLast, TrainerFinalWait, SyncVersion, UnchangedRollouter, sched
<1>4. CASE SyncPause \/ SyncWeights
  <2>1. DOMAIN pc = Coroutines /\ {"proc", "rpc"} \subseteq Coroutines
    BY DEF TypeInv, SchedType, Coroutines
  <2>2. pc["rpc"] \in {"idle", "pause_returned"} /\ pc'["rpc"] # pc["rpc"] /\ pc'["proc"] = pc["proc"]
    BY <1>4, <2>1 DEF SyncPause, SyncWeights, Goto, PhaseInv
  <2>3. QED
    BY <2>1, <2>2 DEF ProcLoop, ProcGet, UpdateSet, Goto
<1>5. QED
  BY <1>2, <1>3, <1>4 DEF Next, Sync

LEMMA EpochStep ==
  ASSUME StaleNum = 0, TypeInv, TypeInv', PhaseInv, ClosingInv, EpochInv, [Next]_vars
  PROVE  EpochInv'
<1>1. SUFFICES ASSUME ~Closing' PROVE EpochInv'
  BY DEF EpochInv
<1>2. ~Closing
  BY <1>1, EpochFrame
<1>3. PICK W, Wn, L, Ln, k, kn \in Nat :
        /\ W = Loaded(Samples) /\ Wn = Loaded(Samples)' /\ L = staleness_samples /\ Ln = staleness_samples'
        /\ k = local_trigger_step /\ kn = local_trigger_step'
  <2>1. local_trigger_step \in Nat /\ local_trigger_step' \in Nat
    BY Capacity DEF TypeInv, TrainerInv
  <2>2. QED
    BY <2>1, LoadedType, LoadedTypeAfter DEF TypeInv, CountType
<1>4. PICK R, X, T \in Nat \ {0} : R = RequiredSamples /\ X = MaxRequiredSamples /\ T = TriggerSteps
  BY Capacity
<1>5. X = R * T /\ k \in 1 .. T /\ kn \in 1 .. T
  BY <1>3, <1>4, Capacity DEF TypeInv, TrainerInv
<1>6. PICK U, Un : U = (k - 1) * R /\ Un = (kn - 1) * R
  OBVIOUS
<1>18. /\ W \in Nat /\ Wn \in Nat /\ L \in Nat /\ Ln \in Nat /\ R \in Nat /\ X \in Nat /\ R > 0
       /\ U \in Nat /\ Un \in Nat /\ (kn = k => Un = U)
  <2>1. \A a, b \in Nat : a >= 1 => (a - 1) * b \in Nat
    OBVIOUS
  <2>2. U \in Nat /\ Un \in Nat
    BY <1>4, <1>5, <1>6, <2>1
  <2>3. kn = k => Un = U
    BY <1>6
  <2>4. QED
    BY <1>3, <1>4, <2>2, <2>3
<1>7. /\ ~(Awaiting /\ Catching)
      /\ Awaiting \/ Catching => W = 0 /\ k = 1 /\ L >= X /\ pc["proc"] # "get"
      /\ ~Awaiting /\ ~Catching => /\ W + U <= L /\ W + U <= X
                                   /\ pc["proc"] = "get" => W + U < X
  BY <1>2, <1>3, <1>4, <1>6 DEF EpochInv, Used
<1>8. SUFFICES /\ ~(Awaiting' /\ Catching')
               /\ Awaiting' \/ Catching' => Wn = 0 /\ kn = 1 /\ Ln >= X /\ pc'["proc"] # "get"
               /\ ~Awaiting' /\ ~Catching' => /\ Wn + Un <= Ln /\ Wn + Un <= X
                                              /\ pc'["proc"] = "get" => Wn + Un < X
  <2>1. Used' = Un /\ MaxRequiredSamples' = X
    BY <1>3, <1>4, <1>6 DEF Used, MaxRequiredSamples
  <2>2. QED
    BY <1>3, <2>1 DEF EpochInv
<1>9. DOMAIN pc = Coroutines /\ {"feed", "proc", "cons", "main", "mon", "rpc"} \subseteq Coroutines
  BY DEF TypeInv, SchedType, Coroutines
<1>10. /\ ProcGet \/ Wn <= W
       /\ Wn <= W + 1
  BY <1>3, FlowStep DEF Flow, Loaded
<1>11. k = 1 => U = 0
  BY <1>6
<1>12. CASE /\ Ln = L /\ kn = k /\ Wn <= W
            /\ pc'["proc"] = "get" => pc["proc"] = "get"
            /\ \/ Awaiting' = Awaiting /\ Catching' = Catching
               \/ Awaiting /\ ~Awaiting' /\ Catching'
  BY <1>7, <1>12, <1>18 DEF Awaiting, Catching
<1>13. CASE ProcLoop
  <2>1. /\ Ln = L /\ pc'["rpc"] = pc["rpc"]
        /\ pc'["proc"] = "get" => L < X
    <3>1. Ln = L /\ pc'["rpc"] = pc["rpc"]
      BY <1>3, <1>9, <1>13 DEF ProcLoop, Goto, counts
    <3>2. pc'["proc"] = "get" => ~ShouldPauseGeneration
      BY <1>9, <1>13 DEF ProcLoop, Goto
    <3>3. ~ShouldPauseGeneration => L < X
      BY <1>3, <1>4 DEF ShouldPauseGeneration
    <3>4. QED
      BY <3>1, <3>2, <3>3
  <2>2. ~ProcGet
    BY <1>13 DEF ProcLoop, ProcGet
  <2>3. UNCHANGED trainer_vars
    BY <1>13, TrainerAside
  <2>4. Awaiting' = Awaiting /\ Catching' = Catching /\ kn = k
    BY <1>3, <2>1, <2>3 DEF Awaiting, Catching, trainer_vars
  <2>5. QED
    BY <1>7, <1>10, <1>18, <2>1, <2>2, <2>4
<1>14. CASE ProcGet
  <2>1. Ln = L + 1 /\ pc'["rpc"] = pc["rpc"] /\ pc["proc"] = "get" /\ pc'["proc"] = "drain"
    BY <1>3, <1>9, <1>14 DEF ProcGet, Goto
  <2>2. UNCHANGED trainer_vars
    BY <1>14, TrainerAside
  <2>3. Awaiting' = Awaiting /\ Catching' = Catching /\ kn = k
    BY <1>3, <2>1, <2>2 DEF Awaiting, Catching, trainer_vars
  <2>4. QED
    BY <1>7, <1>10, <1>18, <2>1, <2>3
<1>15. CASE UpdateSet
  <2>1. /\ pc["rpc"] = "update_set" /\ pc'["rpc"] = "update_validate" /\ pc'["proc"] = pc["proc"]
        /\ ~ProcGet
    BY <1>9, <1>15 DEF UpdateSet, Goto, ProcGet
  <2>2. UNCHANGED trainer_vars
    BY <1>15, TrainerAside
  <2>3. Catching /\ ~Catching' /\ Awaiting' = Awaiting /\ kn = k
    BY <1>3, <2>1, <2>2 DEF Awaiting, Catching, trainer_vars
  <2>4. QED
    BY <1>7, <1>10, <1>11, <1>18, <2>1, <2>3
<1>16. CASE TrainerStep
  <2>1. PICK M, Mn \in Nat : W = M + R /\ Wn = Mn /\ Mn = M
    BY <1>3, <1>4, <1>16, StepUses, LoadedType, LoadedTypeAfter DEF Loaded
  <2>2. Ln = L /\ UNCHANGED pc /\ trainer = "train"
    BY <1>3, <1>16 DEF TrainerStep, UnchangedRollouter, counts, sched
  <2>3. ~Awaiting /\ ~Catching /\ ~Catching'
    BY <1>7, <2>1, <2>2 DEF Awaiting, Catching
  <2>4. CASE k < T
    <3>1. kn = k + 1 /\ ~Awaiting'
      BY <1>3, <1>4, <1>16, <2>4 DEF TrainerStep, Awaiting
    <3>2. Un = U + R
      <4>1. \A n \in Nat : (n + 1 - 1) * R = (n - 1) * R + R
        BY <1>4
      <4>2. QED
        BY <1>6, <3>1, <4>1
    <3>3. QED
      BY <1>7, <1>18, <2>1, <2>2, <2>3, <3>1, <3>2
  <2>5. CASE k = T
    <3>1. kn = 1 /\ Awaiting'
      BY <1>3, <1>4, <1>5, <1>16, <2>5 DEF TrainerStep, Awaiting
    <3>2. X = U + R
      <4>1. \A n \in Nat \ {0} : R * n = (n - 1) * R + R
        BY <1>4
      <4>2. QED
        BY <1>4, <1>5, <1>6, <2>5, <4>1
    <3>3. M = 0
      BY <1>7, <1>18, <2>1, <2>3, <3>2
    <3>4. Un = 0 /\ L >= X /\ pc["proc"] # "get"
      BY <1>4, <1>6, <1>7, <1>18, <2>1, <2>3, <3>1, <3>2
    <3>5. QED
      BY <2>1, <2>2, <2>3, <3>1, <3>3, <3>4
  <2>6. QED
    BY <1>5, <2>4, <2>5
<1>17. QED
  <2>1. ~EpochSteps => Wn <= W
    BY <1>10 DEF EpochSteps
  <2>2. QED
    BY <1>1, <1>3, <1>12, <1>13, <1>14, <1>15, <1>16, <2>1, EpochFrame DEF EpochSteps

LEMMA LoadedSubset ==
  ASSUME TypeInv, NEW s \in Samples
  PROVE  Loaded({s}) <= Loaded(Samples)
<1> DEFINE S == {s}
<1>0. S \in SUBSET Samples /\ S \subseteq Samples /\ Live(S) \subseteq Live(Samples)
  BY DEF Live
<1> HIDE DEF S
<1>1. /\ active_tasks \in Seq(Task) /\ result_queue \in Seq(Samples) /\ cancel_queue \in Seq(Samples)
      /\ queue \in Seq(Samples \cup {Sentinel}) /\ batch \in Seq(Samples)
  BY DEF TypeInv, QueueType, TrainerInv
<1>2. At(Live(S), active_tasks) <= At(Live(Samples), active_tasks)
  BY <1>0, <1>1, AtSubset
<1>3. At(S, result_queue) <= At(Samples, result_queue)
  BY <1>0, <1>1, AtSubset
<1>4. At(S, cancel_queue) <= At(Samples, cancel_queue)
  BY <1>0, <1>1, AtSubset
<1>5. At(S, queue) <= At(Samples, queue)
  BY <1>0, <1>1, AtSubset
<1>6. At(S, batch) <= At(Samples, batch)
  BY <1>0, <1>1, AtSubset
<1>7. \A x : One(x \in S) \in Nat /\ One(x \in Samples) \in Nat /\ One(x \in S) <= One(x \in Samples)
  BY <1>0 DEF One
<1>8. /\ At(Live(S), active_tasks) \in Nat /\ At(Live(Samples), active_tasks) \in Nat
      /\ At(S, result_queue) \in Nat /\ At(Samples, result_queue) \in Nat
      /\ At(S, cancel_queue) \in Nat /\ At(Samples, cancel_queue) \in Nat
      /\ At(S, queue) \in Nat /\ At(Samples, queue) \in Nat
      /\ At(S, batch) \in Nat /\ At(Samples, batch) \in Nat
  BY <1>0, CountTypes
<1>9. Loaded(S) <= Loaded(Samples)
  BY <1>2, <1>3, <1>4, <1>5, <1>6, <1>7, <1>8 DEF Loaded, Moving, InFlight, Held, Fetched
<1>10. QED
  BY <1>9 DEF S

\* of every sample, so that it can be said of the state after a step as well
NoneExceeds == \A s \in Samples : Loaded({s}) <= Loaded(Samples)

LEMMA LoadedSubsets == TypeInv => NoneExceeds
BY LoadedSubset DEF NoneExceeds

LEMMA LoadedSubsetsAfter == TypeInv' => NoneExceeds'
BY LoadedSubsets, PTL

\* only ProcGet loads a sample, and it has no version then
LEMMA OnlyGetLoads ==
  ASSUME TypeInv, TypeInv', PhaseInv, FreshInv, [Next]_vars, NEW s \in Samples,
         Loaded({s})' > 0
  PROVE  \/ Loaded({s}) > 0
         \/ ProcGet /\ start_version[s] = -1
<1> DEFINE S == {s}
<1>1. S \in SUBSET Samples
  OBVIOUS
<1> HIDE DEF S
<1>2. CASE ~ProcGet
  <2>1. Loaded(S)' <= Loaded(S) /\ Loaded(S) \in Nat /\ Loaded(S)' \in Nat
    BY <1>1, <1>2, FlowStep, LoadedType, LoadedTypeAfter DEF Flow, Loaded
  <2>2. Loaded(S) > 0 \/ ~(Loaded(S)' > 0)
    BY <2>1
  <2>3. QED
    BY <2>2 DEF S
<1>3. CASE ProcGet
  <2>1. UNCHANGED trainer_vars
    BY <1>3, TrainerAside
  <2>2. /\ At(S, pending_queue) = At(S, pending_queue)' + Held(S)' /\ Held(S) = 0
        /\ UNCHANGED <<InFlight(S), At(S, queue), Fetched(S)>>
    BY <1>1, <1>3, <2>1, GetMoves
  <2>3. /\ Loaded(S)' = Loaded(S) + Held(S)' /\ Loaded(S) \in Nat /\ Loaded(S)' \in Nat
        /\ At(S, pending_queue) \in Nat /\ At(S, pending_queue)' \in Nat /\ Held(S)' \in Nat
    BY <1>1, <2>2, CountTypes, CountTypesAfter DEF Loaded, Moving
  <2>4. \/ Loaded(S) > 0
        \/ At(S, pending_queue) > 0
        \/ ~(Loaded(S)' > 0)
    BY <2>2, <2>3
  <2>5. Loaded({s}) > 0 \/ At({s}, pending_queue) > 0
    BY <2>4 DEF S
  <2>6. QED
    BY <1>3, <2>5 DEF FreshInv
<1>4. QED
  BY <1>2, <1>3

LEMMA PolicyStep ==
  ASSUME TypeInv, TypeInv', PhaseInv, FreshInv, ClosingInv, EpochInv, EpochInv', PolicyInv, [Next]_vars
  PROVE  PolicyInv'
<1>1. SUFFICES ASSUME ~Closing', NEW s \in Samples, Loaded({s})' > 0
               PROVE  start_version'[s] \in {-1, trainer_version'}
  BY DEF PolicyInv
<1>2. ~Closing
  BY <1>1, EpochFrame
<1>3. trainer_version' = trainer_version
  <2>1. Loaded(Samples)' > 0
    <3>1. Loaded({s})' <= Loaded(Samples)' /\ {s} \in SUBSET Samples
      BY LoadedSubsetsAfter DEF NoneExceeds
    <3>2. QED
      BY <1>1, <3>1, LoadedTypeAfter
  <2>2. ~Awaiting'
    BY <1>1, <2>1 DEF EpochInv
  <2>3. CASE TrainerStep
    BY <2>2, <2>3 DEF TrainerStep, Awaiting
  <2>4. CASE ProcLoop \/ ProcGet \/ UpdateSet
    BY <2>4, TrainerAside DEF trainer_vars
  <2>5. QED
    BY <1>1, <2>3, <2>4, EpochFrame DEF EpochSteps
<1>4. start_version[s] \in {-1, trainer_version}
  BY <1>1, <1>2, OnlyGetLoads DEF PolicyInv
<1>5. CASE UNCHANGED start_version
  BY <1>3, <1>4, <1>5
<1>6. CASE UNCHANGED trainer_vars /\ \E i \in DOMAIN active_tasks : TaskStart(i)
  <2>1. PICK i \in DOMAIN active_tasks : TaskStart(i)
    BY <1>6
  <2>2. start_version \in [Samples -> Nat \cup {-1}] /\ DOMAIN pc = Coroutines
    BY DEF TypeInv, QueueType, SchedType
  <2>3. ~ProcGet
    BY <2>1, <2>2 DEF TaskStart, ProcGet, sched, Goto, Coroutines
  <2>4. Loaded(Samples) > 0
    <3>1. Loaded({s}) > 0
      BY <1>1, <2>3, OnlyGetLoads
    <3>2. Loaded({s}) <= Loaded(Samples) /\ {s} \in SUBSET Samples
      BY LoadedSubsets DEF NoneExceeds
    <3>3. QED
      BY <3>1, <3>2, LoadedType
  <2>5. ~Awaiting /\ ~Catching
    BY <1>2, <2>4 DEF EpochInv
  <2>6. current_param_version = trainer_version
    BY <2>5 DEF PhaseInv, Awaiting, Catching
  <2>7. start_version'[s] \in {start_version[s], current_param_version}
    BY <2>1, <2>2 DEF TaskStart
  <2>8. QED
    BY <1>3, <1>4, <2>6, <2>7
<1>7. QED
  BY <1>5, <1>6, OnlyStartsStamp

FullPolicyInv == FullLoadInv /\ StampInv /\ ClosingInv /\ EpochInv /\ PolicyInv

LEMMA AlwaysPolicy == StaleNum = 0 /\ Spec => []FullPolicyInv
<1>1. SUFFICES ASSUME StaleNum = 0 PROVE Spec => []FullPolicyInv
  OBVIOUS
<1>2. Init => FullPolicyInv
  BY InitType, InitPhase, InitPlace, InitPause, InitLoad, InitFresh, InitStamp, InitEpoch
     DEF FullPolicyInv, FullLoadInv, SafeInv
<1>3. ASSUME FullPolicyInv, [Next]_vars PROVE FullPolicyInv'
  <2>1. FullLoadInv'
    BY <1>3, FullLoadStep DEF FullPolicyInv
  <2>2. StampInv'
    BY <1>3, StampStep DEF FullPolicyInv, FullLoadInv, SafeInv
  <2>3. ClosingInv'
    BY <1>3, EpochFrame DEF FullPolicyInv, FullLoadInv, SafeInv
  <2>4. EpochInv'
    BY <1>1, <1>3, <2>1, EpochStep DEF FullPolicyInv, FullLoadInv, SafeInv
  <2>5. PolicyInv'
    BY <1>3, <2>1, <2>4, PolicyStep DEF FullPolicyInv, FullLoadInv, SafeInv
  <2>6. QED
    BY <2>1, <2>2, <2>3, <2>4, <2>5 DEF FullPolicyInv
<1>4. QED
  BY <1>2, <1>3, PTL DEF Spec

(***************************************************************************)
(* staleness_threshold=0 is on-policy training: every sample of a batch is *)
(* trained by the version that began its generation, also if the           *)
(* generation was cancelled by pause() and resumed.                        *)
(***************************************************************************)
THEOREM OnPolicyTraining == StaleNum = 0 /\ Spec => []OnPolicy
<1>1. FullPolicyInv => OnPolicy
  <2>1. SUFFICES ASSUME FullPolicyInv, trainer = "train", NEW i \in DOMAIN batch
                 PROVE  start_version[batch[i]] = trainer_version
    BY DEF OnPolicy
  <2>2. TypeInv /\ batch \in Seq(Stamped)
    BY <2>1 DEF FullPolicyInv, FullLoadInv, SafeInv, StampInv
  <2>3. batch[i] \in Stamped /\ batch[i] \in Samples /\ start_version[batch[i]] # -1
    BY <2>1, <2>2 DEF Stamped
  <2>4. PICK s : s = batch[i]
    OBVIOUS
  <2>5. Loaded({s}) > 0
    <3>1. batch \in Seq(Samples) /\ {s} \in SUBSET Samples
      BY <2>2, <2>3, <2>4 DEF TypeInv, TrainerInv
    <3>2. At({s}, batch) # 0
      BY <2>1, <2>4, <3>1, AtNone
    <3>3. At({s}, batch) \in Nat /\ Moving({s}) \in Nat
      BY <2>2, <3>1, CountTypes, LoadedType
    <3>4. One(reply["trainer"] \in {s}) \in Nat
      BY DEF One
    <3>5. QED
      BY <3>2, <3>3, <3>4 DEF Loaded, Fetched
  <2>6. ~Closing
    BY <2>1 DEF FullPolicyInv, ClosingInv, Closing
  <2>7. start_version[s] \in {-1, trainer_version}
    BY <2>1, <2>3, <2>4, <2>5, <2>6 DEF FullPolicyInv, PolicyInv
  <2>8. QED
    BY <2>3, <2>4, <2>7
<1>2. QED
  BY AlwaysPolicy, <1>1, PTL

-----------------------------------------------------------------------------
(* FullyAsync implements VersionedTraining *)

\* what the refinement rests on: the last wait is the final synchronization's
FinalInv == trainer = "final_wait" => validate

TrainingInv ==
  /\ SafeInv /\ StampInv /\ ClosingInv /\ FinalInv
  /\ StaleNum = 0 => OnPolicy

\* version 0, nothing begun, the first step to come
LEMMA InitTraining == Init => Training!Init
BY DEF Init, RollouterInit, Training!Init, Phase

\* a batch holds as many samples as it is long, when none is in it twice
LEMMA BatchIsASet ==
  ASSUME NEW T, NEW seq \in Seq(T), \A s \in T : At({s}, seq) <= 1
  PROVE  Cardinality({seq[i] : i \in DOMAIN seq}) = Len(seq)
<1> DEFINE B == {seq[i] : i \in DOMAIN seq}
<1>1. IsFiniteSet(DOMAIN seq) /\ Cardinality(DOMAIN seq) = Len(seq)
  BY Interval
<1>2. seq \in Surjection(DOMAIN seq, B)
  BY DEF Surjection
<1>3. ASSUME NEW i \in DOMAIN seq, NEW j \in DOMAIN seq, seq[i] = seq[j], i # j
      PROVE  FALSE
  <2>1. PICK x \in T : seq[i] = x /\ seq[j] = x
    BY <1>3
  <2> DEFINE P == {k \in DOMAIN seq : seq[k] \in {x}}
  <2>2. IsFiniteSet(P) /\ At({x}, seq) = Cardinality(P) /\ At({x}, seq) \in Nat
    BY AtType DEF At
  <2>3. Cardinality(P) <= 1 /\ Cardinality(P) \in Nat
    BY <2>1, <2>2
  <2>4. {i} \cup {j} \in SUBSET P
    BY <2>1
  <2> HIDE DEF P
  <2>5. IsFiniteSet({i}) /\ Cardinality({i}) = 1 /\ j \notin {i}
    BY <1>3, FS_Singleton
  <2>6. Cardinality({i} \cup {j}) = Cardinality({i}) + 1
    BY <2>5, FS_AddElement
  <2>7. Cardinality({i} \cup {j}) <= Cardinality(P)
    BY <2>2, <2>4, FS_Subset
  <2>8. \A a, b, c : ~(a = 1 /\ b = a + 1 /\ b <= c /\ c <= 1 /\ c \in Nat)
    OBVIOUS
  <2>9. QED
    BY <2>3, <2>5, <2>6, <2>7, <2>8, Zenon
<1>4. seq \in Injection(DOMAIN seq, B)
  <2>1. seq \in [DOMAIN seq -> B]
    OBVIOUS
  <2>2. \A i, j \in DOMAIN seq : seq[i] = seq[j] => i = j
    BY <1>3
  <2> HIDE DEF B
  <2>3. QED
    BY <2>1, <2>2 DEF Injection, IsInjective
<1>5. Cardinality(B) = Cardinality(DOMAIN seq)
  <2> HIDE DEF B
  <2>1. QED
    BY <1>1, <1>2, <1>4, FS_Surjection
<1>6. QED
  BY <1>1, <1>5

\* a training step is a step of the abstract specification
LEMMA TrainImplements ==
  ASSUME TrainingInv, TrainerStep
  PROVE  Training!Next
<1> DEFINE B == {batch[i] : i \in DOMAIN batch}
<1>1. /\ TypeInv /\ PhaseInv /\ PlaceInv /\ StampInv /\ ClosingInv /\ FinalInv
      /\ StaleNum = 0 => OnPolicy
  BY DEF TrainingInv, SafeInv
<1>2. /\ trainer = "train" /\ batch \in Seq(Samples) /\ Len(batch) = RequiredSamples
      /\ validate = FALSE /\ trained \in SUBSET Samples
      /\ local_trigger_step \in 1 .. TriggerSteps
      /\ reply["trainer"] = Closed
  BY <1>1 DEF TrainerStep, TypeInv, SchedType, TrainerInv, ClosingInv
<1>3. \A s \in Samples : At({s}, batch) <= 1 /\ (At({s}, batch) > 0 => s \notin trained)
  <2>1. SUFFICES ASSUME NEW s \in Samples
                 PROVE  At({s}, batch) <= 1 /\ (At({s}, batch) > 0 => s \notin trained)
    OBVIOUS
  <2>2. Everywhere(s) <= One(s \in Fed) /\ One(s \in Fed) \in {0, 1} /\ Everywhere(s) \in Nat
    BY <1>1, EverywhereType DEF PlaceInv, One
  <2>3. {s} \in SUBSET Samples
    OBVIOUS
  <2>4. /\ At({s}, pending_queue) \in Nat /\ InFlight({s}) \in Nat /\ Held({s}) \in Nat
        /\ At({s}, queue) \in Nat /\ At({s}, batch) \in Nat
    BY <1>1, <2>3, CountTypes
  <2>5. One(s \in trained) \in Nat /\ One(reply["trainer"] \in {s}) \in Nat
    BY DEF One
  <2>6. At({s}, batch) + One(s \in trained) <= 1
    BY <2>2, <2>4, <2>5 DEF Everywhere, Fetched
  <2>7. QED
    BY <2>4, <2>6 DEF One
<1>4. Cardinality(B) = RequiredSamples
  BY <1>2, <1>3, BatchIsASet
<1>5. \A i \in DOMAIN batch : batch[i] \in Stamped /\ At({batch[i]}, batch) > 0
  <2>1. SUFFICES ASSUME NEW i \in DOMAIN batch
                 PROVE  batch[i] \in Stamped /\ At({batch[i]}, batch) > 0
    OBVIOUS
  <2>2. batch[i] \in Stamped
    BY <1>1 DEF StampInv
  <2>3. At({batch[i]}, batch) \in Nat
    BY <1>2, AtType
  <2>4. At({batch[i]}, batch) # 0
    BY <1>2, AtNone
  <2>5. QED
    BY <2>2, <2>3, <2>4
<1>6. B \in SUBSET Samples /\ B \cap trained = {}
  <2>1. \A i \in DOMAIN batch : batch[i] \in Samples
    BY <1>2
  <2>2. \A i \in DOMAIN batch : batch[i] \notin trained
    BY <1>3, <1>5, <2>1
  <2>3. QED
    BY <2>1, <2>2
<1>7. \A s \in B : start_version[s] # -1 /\ (StaleNum = 0 => start_version[s] = trainer_version)
  BY <1>1, <1>2, <1>5 DEF OnPolicy, Stamped
<1>8. /\ trainer_version \in Nat /\ current_param_version \in Nat
      /\ trainer_version <= current_param_version + 1
  BY <1>1, <1>2 DEF PhaseInv
<1>9. /\ trained' = trained \cup B
      /\ \/ /\ local_trigger_step < TriggerSteps /\ local_trigger_step' = local_trigger_step + 1
            /\ UNCHANGED trainer_version /\ trainer' = "validation"
         \/ /\ local_trigger_step = TriggerSteps /\ trainer_version' = trainer_version + 1
            /\ local_trigger_step' = 1 /\ trainer' = "wait_last"
      /\ UNCHANGED <<validate, current_param_version, start_version>>
  BY <1>2, Capacity DEF TrainerStep, UnchangedRollouter, tasks, counts
<1>10. Phase = "training" /\ Phase' = "training"
  BY <1>2, <1>9 DEF Phase
<1>11. Training!Train(B)
  <2> HIDE DEF B
  <2>1. \/ local_trigger_step < TriggerSteps /\ local_trigger_step' = local_trigger_step + 1
           /\ UNCHANGED trainer_version
        \/ local_trigger_step = TriggerSteps /\ Training!NewVersion
    BY <1>8, <1>9 DEF Training!NewVersion
  <2>2. UNCHANGED <<current_param_version, start_version, Phase>> /\ trained' = trained \cup B
    BY <1>9, <1>10
  <2>3. Training!Cardinality(B) = Cardinality(B)
    BY DEF Training!Cardinality, Cardinality
  <2>4. QED
    BY <1>4, <1>6, <1>7, <1>10, <2>1, <2>2, <2>3 DEF Training!Train
<1>12. QED
  BY <1>6, <1>11 DEF Training!Next

\* only update_param_version changes the version of the Rollouter
LEMMA OnlyUpdateRefreshes ==
  ASSUME [Next]_vars
  PROVE  UNCHANGED current_param_version \/ UpdateBegin(sync_version)
<1> USE DEF counts
<1>1. CASE Feeding \/ Processing \/ Generating
  BY <1>1 DEF Feeding, FeedSample, FeedDone, Processing, ProcLoop, ProcSetPaused, ProcGet, ProcGetWaits,
              ProcDrain, ProcDrainLock, ProcDrainWait, ProcIdle, ProcSubmit, AwaitLock,
              Generating, TaskStart, TaskFinish, TaskCancel, TaskFail
<1>2. CASE Consuming \/ Finishing \/ Monitoring
  BY <1>2 DEF Consuming, ConsGet, ConsPut, ConsAck, Finishing, MainFed, MainProcessed, MainCancel,
              MainSentinel, MainStop, Monitoring, MonTop, MonCheck, MonUnpause, AwaitLock
<1>3. CASE Serving(sync_version)
  BY <1>3 DEF Serving, PauseBegin, PauseCancel, PauseGather, PauseEnd, UpdateQueueSize, UpdateSet,
              UpdateEnd, ResumeBegin, ResumeEnd, AwaitLock
<1>4. CASE Trainer \/ Sync
  BY <1>4 DEF Trainer, TrainerGet, TrainerReceive, TrainerStep, TrainerValidation, TrainerFinal,
              TrainerWaitLast, TrainerFinalWait, Sync, SyncPause, SyncVersion, SyncWeights,
              UnchangedRollouter
<1>5. CASE UNCHANGED vars
  BY <1>5 DEF vars, rollouter_vars
<1>6. QED
  BY <1>1, <1>2, <1>3, <1>4, <1>5 DEF Next

\* the steps of the Rollouter
LEMMA RollouterImplements ==
  ASSUME TrainingInv, [Next]_vars, UNCHANGED trainer_vars
  PROVE  [Training!Next]_(Training!vars)
<1>1. TypeInv /\ PhaseInv
  BY DEF TrainingInv, SafeInv
<1>2. UNCHANGED <<trainer_version, local_trigger_step, trained, Phase>>
  BY DEF trainer_vars, Phase
<1>3. CASE \E i \in DOMAIN active_tasks : TaskStart(i)
  <2>1. PICK i \in DOMAIN active_tasks : TaskStart(i)
    BY <1>3
  <2>2. /\ start_version \in [Samples -> Nat \cup {-1}] /\ active_tasks[i].sample \in Samples
        /\ UNCHANGED current_param_version
    <3>1. start_version \in [Samples -> Nat \cup {-1}] /\ active_tasks \in Seq(Task)
      BY <1>1 DEF TypeInv, QueueType
    <3>2. active_tasks[i] \in Task
      BY <3>1
    <3>3. QED
      BY <2>1, <3>1, <3>2 DEF Task, TaskStart, counts
  <2>3. CASE start_version[active_tasks[i].sample] = -1
    <3>1. Training!Generate(active_tasks[i].sample)
      BY <1>2, <2>1, <2>2, <2>3 DEF TaskStart, Training!Generate
    <3>2. QED
      BY <2>2, <3>1 DEF Training!Next
  <2>4. CASE start_version[active_tasks[i].sample] # -1
    <3>1. UNCHANGED start_version
      BY <2>1, <2>2, <2>4 DEF TaskStart
    <3>2. QED
      BY <1>2, <2>2, <3>1 DEF Training!vars
  <2>5. QED
    BY <2>3, <2>4
<1>4. CASE UNCHANGED start_version
  <2>1. CASE UNCHANGED current_param_version
    BY <1>2, <1>4, <2>1 DEF Training!vars
  <2>2. CASE UpdateBegin(sync_version)
    <3>1. /\ current_param_version' = current_param_version + 1
          /\ current_param_version < trainer_version
      BY <1>1, <2>2 DEF UpdateBegin, PhaseInv, Pausing, Resuming
    <3>2. QED
      BY <1>2, <1>4, <3>1 DEF Training!Refresh, Training!Next
  <2>3. UNCHANGED current_param_version \/ UpdateBegin(sync_version)
    BY OnlyUpdateRefreshes
  <2>4. QED
    BY <2>1, <2>2, <2>3
<1>5. QED
  BY <1>1, <1>3, <1>4, OnlyStartsStamp

\* the steps of the Trainer and the synchronizer
LEMMA TrainerImplements ==
  ASSUME TrainingInv, Trainer \/ Sync
  PROVE  FinalInv' /\ [Training!Next]_(Training!vars)
<1>1. /\ PhaseInv /\ ClosingInv /\ FinalInv /\ validate \in BOOLEAN
  BY DEF TrainingInv, SafeInv, TypeInv, SchedType
<1> DEFINE Quiet == UNCHANGED <<trainer_version, current_param_version, start_version,
                                local_trigger_step, trained>>
<1> USE DEF UnchangedRollouter, tasks, counts, FinalInv
<1>2. CASE TrainerStep
  BY <1>2, TrainImplements DEF TrainerStep
<1>3. CASE TrainerGet
  BY <1>1, <1>3 DEF TrainerGet, trainer_vars, Phase, Training!vars
<1>4. CASE TrainerReceive
  <2>1. Quiet /\ UNCHANGED validate /\ trainer = "collect"
        /\ trainer' \in {"final", "collect", "train"}
    BY <1>4 DEF TrainerReceive
  <2>2. validate = FALSE
    BY <1>1, <2>1 DEF ClosingInv
  <2>3. Phase = "training" /\ Phase' \in {"training", "ended"}
    BY <2>1, <2>2 DEF Phase
  <2>4. QED
    BY <2>1, <2>3 DEF Training!vars, Training!Next, Training!End
<1>5. CASE TrainerValidation \/ TrainerWaitLast
  <2>1. Quiet /\ UNCHANGED validate /\ UNCHANGED Phase /\ trainer' # "final_wait"
    BY <1>5 DEF TrainerValidation, TrainerWaitLast, Phase
  <2>2. QED
    BY <2>1 DEF Training!vars
<1>6. CASE TrainerFinalWait
  <2>1. Quiet /\ UNCHANGED validate /\ trainer = "final_wait" /\ trainer' = "returned"
    BY <1>6 DEF TrainerFinalWait
  <2>2. UNCHANGED Phase
    BY <1>1, <2>1 DEF Phase
  <2>3. QED
    BY <2>1, <2>2 DEF Training!vars
<1>7. CASE TrainerFinal
  <2>1. trainer = "final" /\ validate = FALSE /\ Phase = "ended"
    BY <1>1, <1>7 DEF TrainerFinal, ClosingInv, Phase
  <2>2. CASE val_data = NoOne
    <3>1. /\ trainer_version' = trainer_version + 1 /\ local_trigger_step' = 1
          /\ validate' = TRUE /\ trainer' = "wait_last" /\ Phase' = "updated"
          /\ UNCHANGED <<current_param_version, start_version, trained>>
      BY <1>7, <2>2 DEF TrainerFinal, Phase
    <3>2. trainer_version <= current_param_version + 1
      BY <1>1, <2>1 DEF PhaseInv
    <3>3. Training!LastVersion
      BY <2>1, <3>1, <3>2 DEF Training!LastVersion, Training!NewVersion
    <3>4. QED
      BY <3>1, <3>3 DEF Training!Next
  <2>3. CASE val_data # NoOne
    <3>1. Quiet /\ UNCHANGED validate /\ trainer' = "returned" /\ Phase' = "ended"
      BY <1>7, <2>1, <2>3 DEF TrainerFinal, Phase
    <3>2. QED
      BY <2>1, <3>1 DEF Training!vars
  <2>4. QED
    BY <2>2, <2>3
<1>8. CASE SyncPause \/ SyncVersion
  <2>1. Quiet /\ UNCHANGED <<validate, trainer>>
    BY <1>8 DEF SyncPause, SyncVersion
  <2>2. QED
    BY <1>1, <2>1 DEF Training!vars, Phase
<1>9. CASE SyncWeights
  <2>1. /\ Quiet /\ UNCHANGED validate /\ trainer = "sync"
        /\ trainer' = IF validate THEN "final_wait" ELSE "validation"
    BY <1>1, <1>9 DEF SyncWeights, PhaseInv
  <2>2. UNCHANGED Phase
    BY <1>1, <2>1 DEF Phase
  <2>3. QED
    BY <2>1, <2>2 DEF Training!vars
<1>10. QED
  BY <1>2, <1>3, <1>4, <1>5, <1>6, <1>7, <1>8, <1>9 DEF Trainer, Sync

\* every step is a step of the abstract specification, or a stutter
LEMMA TrainingStep ==
  ASSUME TrainingInv, [Next]_vars
  PROVE  FinalInv' /\ [Training!Next]_(Training!vars)
<1>1. CASE Trainer \/ Sync
  BY <1>1, TrainerImplements
<1>2. CASE UNCHANGED trainer_vars
  <2>1. FinalInv'
    BY <1>2 DEF TrainingInv, FinalInv, trainer_vars
  <2>2. QED
    BY <1>2, <2>1, RollouterImplements
<1>3. QED
  BY <1>1, <1>2 DEF Next, vars

\* the invariants of the previous parts hold at every one of them
LEMMA AlwaysTraining == Spec => []TrainingInv
<1> DEFINE Inv == SafeInv /\ StampInv /\ ClosingInv
<1>1. Spec => []Inv
  <2>1. Init => Inv
    BY InitType, InitPhase, InitPlace, InitStamp, InitEpoch DEF SafeInv
  <2>2. Inv /\ [Next]_vars => Inv'
    BY SafeStep, StampStep, EpochFrame DEF SafeInv
  <2>3. QED
    BY <2>1, <2>2, PTL DEF Spec
<1> DEFINE Strict == StaleNum = 0 => OnPolicy
<1>2. Spec => []Strict
  <2>1. CASE StaleNum = 0
    <3>1. OnPolicy => Strict
      OBVIOUS
    <3>2. Spec => []OnPolicy
      BY <2>1, OnPolicyTraining
    <3>3. QED
      BY <3>1, <3>2, PTL
  <2>2. CASE StaleNum # 0
    <3>1. Strict
      BY <2>2
    <3>2. QED
      BY <3>1, PTL
  <2>3. QED
    BY <2>1, <2>2
<1>3. Init => FinalInv
  BY DEF Init, FinalInv
<1>4. Inv /\ Strict /\ FinalInv => TrainingInv
  BY DEF TrainingInv
<1>5. Inv /\ Strict /\ FinalInv /\ [Next]_vars => FinalInv'
  BY <1>4, TrainingStep
<1>6. QED
  <2> HIDE DEF Inv, Strict
  <2>1. QED
    BY <1>1, <1>2, <1>3, <1>4, <1>5, PTL DEF Spec

(***************************************************************************)
(* Rollouter, message queue, Trainer and ParameterSynchronizer together    *)
(* implement VersionedTraining: every step of theirs is one of its steps   *)
(* or a stutter.  A training step (_get_samples_from_queue, then fit)      *)
(* takes required_samples different samples whose generation has begun and *)
(* none of which has been trained on - with staleness_threshold=0, each by *)
(* the version that is trained; a new version comes after                  *)
(* trigger_parameter_sync_step steps, or once after the None sample; the   *)
(* Rollouter takes the versions one by one and is never more than two      *)
(* behind the Trainer; nothing is trained after the None sample.           *)
(***************************************************************************)
THEOREM ImplementsTraining == Spec => TrainingSpec
<1>1. TrainingInv /\ [Next]_vars => [Training!Next]_(Training!vars)
  BY TrainingStep
<1>2. QED
  BY AlwaysTraining, InitTraining, <1>1, PTL DEF Spec, TrainingSpec, Training!Spec
=============================================================================
