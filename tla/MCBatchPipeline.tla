-------------------------- MODULE MCBatchPipeline ---------------------------
(* Configurations of BatchPipeline for TLC. *)
EXTENDS BatchPipeline

\* What only one of the two uses is fixed.
Validation(prompts, n, workers) ==
    [validate |-> TRUE, prompts |-> prompts, n |-> n, workers |-> workers, world |-> 1,
     sp |-> 1, mini |-> 1, dynamic |-> FALSE, micro |-> 1, estimator |-> "grpo",
     lengths |-> {1, 3}, scores |-> {0}]

Training(prompts, n, world, sp, mini) ==
    [validate |-> FALSE, prompts |-> prompts, n |-> n, workers |-> 2, world |-> world,
     sp |-> sp, mini |-> mini, dynamic |-> TRUE, micro |-> 1, estimator |-> "grpo",
     lengths |-> {1, 3}, scores |-> {0, 1}]

\* Batches that are padded by one row, by more rows than they have, and not at
\* all; two ranks with three rows each, one group of two ranks with six rows,
\* two groups with two rows each and four ranks with one row each; and, with
\* more lengths, six and eight rows on two ranks, and eight on two groups.
Cases ==
    {Validation(3, 1, 2), Validation(1, 1, 3), Validation(1, 2, 3), Validation(2, 2, 2)}
    \cup
    {Training(2, 3, 2, 1, 2),
     [Training(2, 3, 2, 1, 2) EXCEPT !.estimator = "opo"],
     [Training(2, 3, 2, 2, 2) EXCEPT !.dynamic = FALSE, !.micro = 2],
     Training(2, 3, 2, 1, 1),
     Training(2, 3, 2, 2, 1),
     Training(2, 2, 4, 2, 2),
     Training(4, 1, 4, 1, 4)}
    \cup
    {[c EXCEPT !.lengths = {1, 2, 4}, !.scores = {0}] :
        c \in {Training(2, 3, 2, 1, 2), Training(4, 2, 2, 1, 2), Training(4, 2, 4, 2, 4)}}
=============================================================================
