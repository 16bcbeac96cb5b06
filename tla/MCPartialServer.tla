-------------------------- MODULE MCPartialServer --------------------------
(* An instance of PartialServer for TLC. *)
EXTENDS PartialServer

CONSTANTS s1

\* Every prompt is as long as it may be, so that a response ends at
\* response_length.  Shorter prompts, whose responses may be longer and are cut,
\* are left to the proofs, which are for all lengths.
MCPromptLen == [s \in Samples |-> PromptLength]
=============================================================================
