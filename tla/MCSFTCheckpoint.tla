-------------------------- MODULE MCSFTCheckpoint --------------------------
(* Two ranks and one role; Keep is max_ckpt_to_keep. *)
EXTENDS SFTCheckpoint

CONSTANT Keep

Kept == [role \in Roles |-> Keep]
=============================================================================
