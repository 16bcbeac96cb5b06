---------------------------- MODULE MCFullyAsync ----------------------------
(***************************************************************************)
(* Model checking of fully asynchronous training.  Every constant is a     *)
(* number, a Boolean or a model value, so the instances differ in their    *)
(* .cfg files only:                                                        *)
(*                                                                         *)
(*   partial       staleness 1, partial rollout, a generation may raise:   *)
(*                 every interleaving of pause, cancel, resume and         *)
(*                 delivery, and the order of the last puts                *)
(*   whole         staleness 2, generations run to their end: how many     *)
(*                 samples are outstanding                                 *)
(*   sync          staleness 0: on-policy training, and its end, also when *)
(*                 one generation raises                                   *)
(*   rollout_num, quiet, raise, interrupted                                *)
(*                 one documented claim each, which TLC refutes            *)
(***************************************************************************)
EXTENDS FullyAsync
=============================================================================
