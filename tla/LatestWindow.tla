---------------------------- MODULE LatestWindow ----------------------------
(***************************************************************************)
(* What the sample queue promises, without a queue: samples are numbered   *)
(* 1, 2, 3, ... in the order they arrive, and those still obtainable are   *)
(* the window low+1 .. high of at most Size of them.  Arrivals move the    *)
(* upper end, and push the lower end once the window is full; a caller is  *)
(* given the oldest sample of the window, and nobody is given it again.    *)
(***************************************************************************)
EXTENDS Integers

CONSTANTS
  Callers,   \* who may ask for a sample
  Size,      \* the largest window
  Closed     \* what a caller is given by a closed, empty window

VARIABLES
  high,      \* the newest sample
  low,       \* the newest sample no longer obtainable
  open,      \* FALSE once the window is closed
  given      \* what each caller was given last and has not put away

vars == <<high, low, open, given>>

Init ==
  /\ high = 0
  /\ low = 0
  /\ open = TRUE
  /\ given = [c \in Callers |-> Closed]

Arrive ==
  /\ high' = high + 1
  /\ low' = IF high - low = Size THEN low + 1 ELSE low
  /\ UNCHANGED <<open, given>>

Give(c) ==
  /\ low < high
  /\ given[c] = Closed
  /\ low' = low + 1
  /\ given' = [given EXCEPT ![c] = low']
  /\ UNCHANGED <<high, open>>

PutAway(c) ==
  /\ given' = [given EXCEPT ![c] = Closed]
  /\ UNCHANGED <<high, low, open>>

Discard ==
  /\ low' = high
  /\ UNCHANGED <<high, open, given>>

Close ==
  /\ open' = FALSE
  /\ UNCHANGED <<high, low, given>>

Next == Arrive \/ Discard \/ Close \/ \E c \in Callers : Give(c) \/ PutAway(c)

Spec == Init /\ [][Next]_vars
=============================================================================
