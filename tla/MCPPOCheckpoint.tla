-------------------------- MODULE MCPPOCheckpoint --------------------------
(* Actor and critic; KeepActor and KeepCritic are max_actor_ckpt_to_keep   *)
(* and max_critic_ckpt_to_keep.                                            *)
EXTENDS PPOCheckpoint

CONSTANTS KeepActor, KeepCritic

Kept == [role \in Roles |-> IF role = "actor" THEN KeepActor ELSE KeepCritic]
=============================================================================
