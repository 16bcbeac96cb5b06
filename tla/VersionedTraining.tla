-------------------------- MODULE VersionedTraining --------------------------
(***************************************************************************)
(* What asynchronous training promises, without queues, tasks, locks or    *)
(* calls: a policy that generates samples follows a trained version, one   *)
(* version at a time and at most two behind.  A training step takes one    *)
(* batch of samples that have been generated and never been trained on;    *)
(* every StepsPerVersion steps make a version.  When the data has ended    *)
(* one last version may be made of the steps left over, and then none.     *)
(***************************************************************************)
EXTENDS Integers, FiniteSets

CONSTANTS
  Samples,           \* what there is to generate and to train on
  BatchSize,         \* samples of a training step
  StepsPerVersion,   \* training steps between two versions
  Strict             \* TRUE if a version trains on its own samples only

VARIABLES
  version,   \* of the weights that are trained
  policy,    \* version of the weights that generate
  made,      \* the policy each sample was begun with, -1 before
  step,      \* the training step that comes next, from 1
  trained,   \* the samples that have been trained on
  phase      \* "training", then "ended", then perhaps "updated"

vars == <<version, policy, made, step, trained, phase>>

Init ==
  /\ version = 0 /\ policy = 0
  /\ made = [s \in Samples |-> -1]
  /\ step = 1 /\ trained = {} /\ phase = "training"

Generate(s) ==
  /\ made[s] = -1
  /\ made' = [made EXCEPT ![s] = policy]
  /\ UNCHANGED <<version, policy, step, trained, phase>>

\* the next version, which the policy is not to be more than two behind
NewVersion ==
  /\ version <= policy + 1
  /\ version' = version + 1 /\ step' = 1

Train(batch) ==
  /\ phase = "training"
  /\ Cardinality(batch) = BatchSize
  /\ batch \cap trained = {}
  /\ \A s \in batch : made[s] # -1 /\ (Strict => made[s] = version)
  /\ trained' = trained \cup batch
  /\ \/ step < StepsPerVersion /\ step' = step + 1 /\ UNCHANGED version
     \/ step = StepsPerVersion /\ NewVersion
  /\ UNCHANGED <<policy, made, phase>>

Refresh ==
  /\ policy < version
  /\ policy' = policy + 1
  /\ UNCHANGED <<version, made, step, trained, phase>>

End ==
  /\ phase = "training" /\ phase' = "ended"
  /\ UNCHANGED <<version, policy, made, step, trained>>

LastVersion ==
  /\ phase = "ended" /\ phase' = "updated"
  /\ NewVersion
  /\ UNCHANGED <<policy, made, trained>>

Next ==
  \/ \E s \in Samples : Generate(s)
  \/ \E batch \in SUBSET Samples : Train(batch)
  \/ Refresh \/ End \/ LastVersion

Spec == Init /\ [][Next]_vars
=============================================================================
