-------------------------- MODULE AtomicCheckpoint --------------------------
(***************************************************************************)
(* What checkpointing promises: a save takes effect all at once or not at  *)
(* all, and a run that starts again continues from the last save.          *)
(***************************************************************************)
EXTENDS Integers

VARIABLES
  up,     \* the training processes run
  step,   \* training steps in their memory
  saved   \* training steps on disk, 0 before the first save

vars == <<up, step, saved>>

Init == ~up /\ step = 0 /\ saved = 0

Start == ~up /\ up' = TRUE /\ step' = saved /\ UNCHANGED saved
Train == up /\ step' = step + 1 /\ UNCHANGED <<up, saved>>
Save  == up /\ saved' = step /\ UNCHANGED <<up, step>>
Crash == up' = FALSE /\ step' = 0 /\ UNCHANGED saved

Next == Start \/ Train \/ Save \/ Crash

Spec == Init /\ [][Next]_vars
=============================================================================
