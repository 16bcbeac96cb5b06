--------------------------- MODULE MCHybridEngine ---------------------------
(* Configurations of HybridEngine for TLC. *)
EXTENDS HybridEngine

CONSTANTS r1, r2

\* Every setting with which the code works as documented: an async rollout
\* frees its cache, a sync one frees it or has no prefix cache, and a LoRA actor
\* is not resumed onto dummy weights (README, section 4).  A LoRA actor is its
\* own reference and cannot have base models.  The settings of the engine and
\* those of the batch do not interact: one group varies at a time.
Supported ==
    {c \in Settings :
        /\ (c.async \/ c.prefix) => c.free_cache
        /\ ~(c.lora /\ c.dummy /\ c.resumed)
        /\ c.base => ~c.lora
        /\ (c.ref_inputs \/ c.base) => ~c.resumed /\ ~c.dummy /\ ~c.level2 /\ ~c.remax}

\* Async generation that does not free the engine's cache.
KeepsCache ==
    {c \in Settings :
        /\ c.async /\ ~c.free_cache
        /\ ~c.dummy /\ ~c.offload /\ ~c.prefix /\ ~c.lora /\ ~c.level2 /\ ~c.resumed /\ ~c.remax
        /\ ~c.ref_inputs /\ ~c.base}
=============================================================================
