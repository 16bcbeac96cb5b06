--------------------------- MODULE MCMessageQueue ---------------------------
(* Two get_sample calls on a queue of two; five samples are enough to fill  *)
(* the queue, overflow it twice and empty it again.                        *)
EXTENDS MessageQueue

=============================================================================
