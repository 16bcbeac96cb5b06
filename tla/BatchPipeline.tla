--------------------------- MODULE BatchPipeline ----------------------------
(***************************************************************************)
(* The way of one batch through an iteration of RayPPOTrainer.fit, or one  *)
(* of _validate: the prompts are repeated and cut into chunks for the      *)
(* agent loop workers, the responses are joined to the batch, its rows are *)
(* reordered to balance the ranks, scored, sent to the actor's ranks for   *)
(* their log-probabilities, collected, given advantages and sent to the    *)
(* ranks once more for the update.  Each column of a DataProto is cut,     *)
(* padded, repeated, permuted and joined on its own: what can go wrong is  *)
(* that the columns no longer speak of the same row.                       *)
(*                                                                         *)
(* A DataProto is a function from its keys to its columns.  A response is  *)
(* <<prompt, worker, row>>; a log-probability is represented by the        *)
(* response it was computed for.                                           *)
(*                                                                         *)
(* ppo_epochs is 1, its default: update_policy trains once on its rows.    *)
(***************************************************************************)
EXTENDS SeqlenBalancing

CONSTANTS
    Configs,        \* the configurations to consider
    PromptLength,   \* the length of every prompt
    MaxTokenLen,    \* ppo_max_token_len_per_gpu and log_prob_max_token_len_per_gpu
    None            \* not returned yet

Settings ==
    [validate  : BOOLEAN,    \* _validate instead of an iteration of fit
     prompts   : Nat,        \* rows that the data loader gives
     n         : Nat,        \* responses per prompt
     workers   : Nat,        \* agent loop workers
     world     : Nat,        \* ranks of the actor
     sp        : Nat,        \* ulysses_sequence_parallel_size
     mini      : Nat,        \* ppo_mini_batch_size, in prompts
     dynamic   : BOOLEAN,    \* use_dynamic_bsz
     micro     : Nat,        \* micro_batch_size_per_gpu, unless dynamic
     estimator : {"grpo", "opo"},
     lengths   : SUBSET Nat, \* the response lengths that may occur
     scores    : SUBSET Int] \* the outcome rewards that may occur

\* The configurations that the code runs with.  The mesh of the actor has whole
\* Ulysses groups; validate_config, the equal chunks of DataProto.chunk and the
\* normalized mini-batch size are asserted.  Every row has a prompt.
Accepted(c) ==
    /\ \A size \in {c.prompts, c.n, c.workers, c.world, c.sp, c.micro} : size > 0
    /\ c.world % c.sp = 0
    /\ c.validate \/ /\ (c.prompts * c.n) % c.workers = 0
                     /\ (c.prompts * c.n) % c.world = 0
                     /\ (c.mini * c.n) \div (c.world \div c.sp) > 0

ASSUME ConfigsAssumption ==
    /\ Configs \subseteq Settings /\ \A c \in Configs : Accepted(c)
    /\ PromptLength \in Nat \ {0} /\ MaxTokenLen \in Nat \ {0}

VARIABLES
    cfg,        \* the configuration of this run
    pc,         \* where the driver is
    batch,      \* the driver's batch
    reward,     \* the column compute_reward has returned (or will return)
    inputs,     \* what each worker, then each rank, was sent
    outputs,    \* what it has returned
    minis,      \* [rank -> the mini-batches it will train on]
    plan,       \* [rank -> the row indices of its micro-batches]
    forwarded,  \* micro-batches through which the ranks have gone
    trained     \* [rank -> the responses it has trained on]

vars == <<cfg, pc, batch, reward, inputs, outputs, minis, plan, forwarded, trained>>

-----------------------------------------------------------------------------
(* DataProto. *)

Size(data) == Len(data[CHOOSE c \in DOMAIN data : TRUE])

\* reorder, __getitem__ and index_select_tensor_dict.
Select(data, idx) == [c \in DOMAIN data |-> [i \in DOMAIN idx |-> data[c][idx[i]]]]

Slice(data, from, to) == [c \in DOMAIN data |-> SubSeq(data[c], from, to)]

Concat(datas) == [c \in DOMAIN datas[1] |->
                    FlattenSeq([i \in DOMAIN datas |-> datas[i][c]])]

\* Rows k + 1, 2k + 1 ... begin a slice; the last one may be shorter.
Split(data, size) ==
    [i \in 1 .. CeilDiv(Size(data), size) |->
        Slice(data, (i - 1) * size + 1, IF i * size < Size(data) THEN i * size ELSE Size(data))]

\* Asserts that the chunks are equal.
Chunk(data, chunks) == Split(data, Size(data) \div chunks)

\* repeat with interleave: the copies of a row follow each other.
Repeat(data, times) ==
    [c \in DOMAIN data |-> [i \in 1 .. Len(data[c]) * times |-> data[c][(i - 1) \div times + 1]]]

\* Keys that both have are asserted to be equal.
Union(data, other) ==
    [c \in DOMAIN data \cup DOMAIN other |-> IF c \in DOMAIN data THEN data[c] ELSE other[c]]

PadSize(data, divisor) == CeilDiv(Size(data), divisor) * divisor - Size(data)

\* pad_dataproto_to_divisor: the rows are repeated from the first one on.
Padded(data, divisor) ==
    Select(data, [i \in 1 .. Size(data) + PadSize(data, divisor) |-> ((i - 1) % Size(data)) + 1])

Unpadded(data, pad_size) == Slice(data, 1, Size(data) - pad_size)

-----------------------------------------------------------------------------
(* The ranks of the actor: Ulysses groups of cfg.sp consecutive ranks.     *)

Ranks == 1 .. cfg.world
DPSize == cfg.world \div cfg.sp
DPRank(r) == (r - 1) \div cfg.sp + 1
IsCollect(r) == (r - 1) % cfg.sp = 0

\* Mutant: the ranks of a group are taken for ranks of their own.
DispatchedByRank(data) == [r \in Ranks |-> Chunk(data, DPSize)[((r - 1) % DPSize) + 1]]

\* dispatch_nd_compute_dataproto: the ranks of a group get the same chunk.
Dispatched(data) == [r \in Ranks |-> Chunk(data, DPSize)[DPRank(r)]]

\* collect_nd_compute_dataproto
Collected(outs) ==
    Concat([d \in 1 .. DPSize |-> outs[CHOOSE r \in Ranks : DPRank(r) = d /\ IsCollect(r)]])

Seqlens(data) == [i \in 1 .. Size(data) |-> PromptLength + data.length[i]]

\* The number that every rank computes, and the largest of them (all_reduce).
Wanted(data) == MicroBatchCount(Seqlens(data), MaxTokenLen * cfg.sp)

\* Mutant: without the all_reduce.
AgreedNot(datas, r) == Wanted(datas[r])

Agreed(datas, r) == CHOOSE k \in {Wanted(datas[q]) : q \in Ranks} :
                        \A q \in Ranks : k >= Wanted(datas[q])

\* The micro-batches of each rank, as row indices.
Planned(datas) ==
    [r \in Ranks |->
        IF cfg.dynamic
        THEN MicroBatches(Seqlens(datas[r]), Agreed(datas, r))
        ELSE LET size == Size(datas[r])
             IN [i \in 1 .. CeilDiv(size, cfg.micro) |->
                    [j \in 1 .. (IF i * cfg.micro < size THEN cfg.micro
                                 ELSE size - (i - 1) * cfg.micro) |-> (i - 1) * cfg.micro + j]]]

-----------------------------------------------------------------------------
Init ==
    /\ cfg \in Configs
    /\ pc = "gen"
    /\ batch = [uid |-> [i \in 1 .. cfg.prompts |-> i]]
    /\ reward = <<>>
    /\ inputs = <<>> /\ outputs = <<>>
    /\ minis = <<>> /\ plan = <<>> /\ forwarded = 0
    /\ trained = [r \in Ranks |-> <<>>]

\* gen_batch is taken out of the batch, repeated and, by _validate, padded.
GenBatch ==
    LET gen == Repeat([prompt |-> [i \in 1 .. cfg.prompts |-> i]], cfg.n)
    IN IF cfg.validate THEN Padded(gen, cfg.workers) ELSE gen

\* AgentLoopManager.generate_sequences
DispatchGeneration ==
    /\ pc = "gen"
    /\ inputs' = Chunk(GenBatch, cfg.workers)
    /\ outputs' = [w \in 1 .. cfg.workers |-> None]
    /\ pc' = "generating"
    /\ UNCHANGED <<cfg, batch, reward, minis, plan, forwarded, trained>>

\* A worker's responses, in the order of its prompts and of any length.
GenerateChunk(w) ==
    /\ pc = "generating" /\ outputs[w] = None
    /\ LET prompt == inputs[w].prompt
       IN \E length \in [DOMAIN prompt -> cfg.lengths] :
            outputs' = [outputs EXCEPT ![w] =
                [prompt   |-> prompt,
                 response |-> [i \in DOMAIN prompt |-> <<prompt[i], w, i>>],
                 length   |-> length]]
    /\ UNCHANGED <<cfg, pc, batch, reward, inputs, minis, plan, forwarded, trained>>

\* The chunks are joined in the order of the workers; the batch is repeated
\* as the generation batch was.
CollectGeneration ==
    /\ pc = "generating" /\ \A w \in DOMAIN outputs : outputs[w] # None
    /\ LET output == Concat(outputs)
           unpadded == Unpadded(output, Size(output) - cfg.prompts * cfg.n)
       IN batch' = Union(Repeat(batch, cfg.n), unpadded)
    /\ pc' = IF cfg.validate THEN "done" ELSE "balance"
    /\ inputs' = <<>> /\ outputs' = <<>>
    /\ UNCHANGED <<cfg, reward, minis, plan, forwarded, trained>>

\* _balance_batch: one partition per rank of the world; small rows at the ends.
BalancedOrder(data) ==
    LET seqlens == Seqlens(data)
        workloads == [i \in DOMAIN seqlens |-> Workload(seqlens[i])]
        ordered(s) == EverySecond(s, 1) \o Reverse(EverySecond(s, 2))
        parts == BalancedPartitions(workloads, cfg.world, TRUE)
    IN FlattenSeq([r \in DOMAIN parts |-> ordered(Lightest(workloads, Range(parts[r])))])

Balance ==
    /\ pc = "balance"
    /\ batch' = Select(batch, BalancedOrder(batch))
    /\ pc' = "reward"
    /\ UNCHANGED <<cfg, reward, inputs, outputs, minis, plan, forwarded, trained>>

\* compute_reward, or compute_reward_async on a copy: a score for each row of
\* the batch as it is now.
Reward ==
    /\ pc = "reward"
    /\ \E score \in [1 .. Size(batch) -> cfg.scores] :
          reward' = [i \in 1 .. Size(batch) |->
                        [response |-> batch.response[i], score |-> score[i]]]
    /\ pc' = "log_prob"
    /\ UNCHANGED <<cfg, batch, inputs, outputs, minis, plan, forwarded, trained>>

-----------------------------------------------------------------------------
(* compute_log_prob *)

DispatchLogProb ==
    /\ pc = "log_prob"
    /\ inputs' = Dispatched(batch)
    /\ outputs' = [r \in Ranks |-> None]
    /\ plan' = Planned(inputs') /\ forwarded' = 0
    /\ pc' = "log_probs"
    /\ UNCHANGED <<cfg, batch, reward, minis, trained>>

\* A forward pass gathers the parameters from all ranks: they go through their
\* micro-batches together.
Forward ==
    /\ pc \in {"log_probs", "updating"}
    /\ \A r \in DOMAIN plan : forwarded < Len(plan[r])
    /\ forwarded' = forwarded + 1
    /\ trained' = IF pc = "log_probs" THEN trained
                  ELSE [r \in Ranks |-> trained[r] \o
                            Select(Head(minis[r]), plan[r][forwarded + 1]).response]
    /\ UNCHANGED <<cfg, pc, batch, reward, inputs, outputs, minis, plan>>

\* The outputs of the micro-batches are put back in the order of the rows.
ReturnLogProb(r) ==
    /\ pc = "log_probs" /\ outputs[r] = None /\ forwarded = Len(plan[r])
    /\ LET log_probs == Select(inputs[r], FlattenSeq(plan[r])).response
       IN outputs' = [outputs EXCEPT ![r] =
            [old_log_prob |-> IF cfg.dynamic THEN Restored(log_probs, plan[r]) ELSE log_probs]]
    /\ UNCHANGED <<cfg, pc, batch, reward, inputs, minis, plan, forwarded, trained>>

CollectLogProb ==
    /\ pc = "log_probs" /\ \A r \in Ranks : outputs[r] # None
    /\ batch' = Union(batch, Collected(outputs))
    /\ inputs' = <<>> /\ outputs' = <<>> /\ plan' = <<>> /\ forwarded' = 0
    /\ pc' = "adv"
    /\ UNCHANGED <<cfg, reward, minis, trained>>

-----------------------------------------------------------------------------
(* compute_advantage *)

\* Mutant: by position, which is only right before the batch is balanced.
GroupOfByPosition(data, i) ==
    {j \in 1 .. Size(data) : (j - 1) \div cfg.n = (i - 1) \div cfg.n}

\* The rows of the same prompt as row i, by the uid column.
GroupOf(data, i) == {j \in 1 .. Size(data) : data.uid[j] = data.uid[i]}

\* How much a response counts in the baseline of its group.
Weight(data, i) == IF cfg.estimator = "opo" THEN data.length[i] ELSE 1

\* The score minus the baseline, times the weight of the group: GRPO (without
\* its division by the standard deviation), RLOO up to the factor 1/(n - 1),
\* and OPO.  The baseline of a single response is 0.
AdvantageOf(data, i) ==
    LET group == GroupOf(data, i)
        weight == [j \in group |-> Weight(data, j)]
        weighted == [j \in group |-> weight[j] * data.score[j].score]
    IN IF Cardinality(group) = 1 THEN data.score[i].score
       ELSE SumOf(weight, group) * data.score[i].score - SumOf(weighted, group)

Advantage ==
    /\ pc = "adv"
    /\ LET scored == Union(batch, [score |-> reward])
       IN batch' = Union(scored, [advantage |->
                        [i \in 1 .. Size(scored) |-> AdvantageOf(scored, i)]])
    /\ pc' = "update"
    /\ UNCHANGED <<cfg, reward, inputs, outputs, minis, plan, forwarded, trained>>

-----------------------------------------------------------------------------
(* update_actor *)

\* ppo_mini_batch_size as ActorRolloutRefWorker.__init__ normalizes it.
MiniBatchSize == (cfg.mini * cfg.n) \div DPSize

DispatchUpdate ==
    /\ pc = "update"
    /\ minis' = [r \in Ranks |-> Split(Dispatched(batch)[r], MiniBatchSize)]
    /\ plan' = Planned([r \in Ranks |-> Head(minis'[r])]) /\ forwarded' = 0
    /\ pc' = "updating"
    /\ UNCHANGED <<cfg, batch, reward, inputs, outputs, trained>>

\* _optimizer_step, and the next mini-batch.
OptimizerStep ==
    /\ pc = "updating" /\ \A r \in Ranks : forwarded = Len(plan[r])
    /\ minis' = [r \in Ranks |-> Tail(minis[r])]
    /\ forwarded' = 0
    /\ IF \E r \in Ranks : minis'[r] = <<>>
       THEN plan' = <<>> /\ pc' = "done"
       ELSE plan' = Planned([r \in Ranks |-> Head(minis'[r])]) /\ UNCHANGED pc
    /\ UNCHANGED <<cfg, batch, reward, inputs, outputs, trained>>

Finished == pc = "done" /\ UNCHANGED vars

Next ==
    \/ DispatchGeneration
    \/ \E w \in DOMAIN outputs : GenerateChunk(w)
    \/ CollectGeneration
    \/ Balance
    \/ Reward
    \/ DispatchLogProb
    \/ Forward
    \/ \E r \in DOMAIN plan : ReturnLogProb(r)
    \/ CollectLogProb
    \/ Advantage
    \/ DispatchUpdate
    \/ OptimizerStep
    \/ Finished

Spec == Init /\ [][Next]_vars

-----------------------------------------------------------------------------
\* Every column of the batch speaks of the same response in every row: its
\* prompt, its uid, its log-probability and its score.  Chunks, padding, the
\* balancing permutation, the micro-batches and the mesh all permute or repeat
\* rows on the way.
RowsStayTogether ==
    "response" \in DOMAIN batch =>
        \A i \in 1 .. Size(batch) :
            /\ batch.uid[i] = batch.response[i][1]
            /\ \A c \in {"old_log_prob"} \cap DOMAIN batch : batch[c][i] = batch.response[i]
            /\ \A c \in {"score"} \cap DOMAIN batch : batch[c][i].response = batch.response[i]
            /\ \A j \in 1 .. Size(batch) : batch.response[i] = batch.response[j] => i = j

\* The ranks have the same number of micro-batches, none of them empty, and
\* the ranks of a sequence-parallel group the very same ones: otherwise a rank
\* leaves its loop while the others wait for it in a collective operation.
MicroBatchesAgree ==
    \A r, q \in DOMAIN plan :
        /\ Len(plan[r]) = Len(plan[q])
        /\ \A i \in DOMAIN plan[r] : plan[r][i] # <<>>
        /\ DPRank(r) = DPRank(q) => plan[r] = plan[q]

\* The advantages of the responses to a prompt are relative to each other, as
\* the comment of fit says, whatever rows they are in after balancing: they
\* differ as the scores do and their weighted sum is zero.
AdvantagesAreGroupRelative ==
    "advantage" \in DOMAIN batch =>
        \A p \in 1 .. cfg.prompts :
            LET rows == {i \in 1 .. Size(batch) : batch.response[i][1] = p}
                weight == SumOf([i \in rows |-> Weight(batch, i)], rows)
            IN Cardinality(rows) > 1 =>
                  /\ \A i, j \in rows :
                        batch.advantage[i] - batch.advantage[j]
                          = weight * (batch.score[i].score - batch.score[j].score)
                  /\ SumOf([i \in rows |-> Weight(batch, i) * batch.advantage[i]], rows) = 0

\* "Each dp rank gets similar total tokens": the partitions that the batch is
\* reordered by differ by no more than two rows that are neighbours in the order
\* of size, up to the number of partitions; and two micro-batches of a rank
\* differ by no more than a row.
LoadsAreBalanced ==
    LET work(seqlens) == [i \in DOMAIN seqlens |-> Workload(seqlens[i])]
        load(data) == Total(work(Seqlens(data)))
    IN /\ pc = "reward" =>
            LET parts == Chunk(batch, cfg.world)
                workloads == work(Seqlens(batch))
                sorted == Lightest(workloads, DOMAIN workloads)
                group(g) == workloads[sorted[g * cfg.world]]
                              - workloads[sorted[(g - 1) * cfg.world + 1]]
            IN \A p, q \in Ranks : \E g \in 1 .. Size(batch) \div cfg.world :
                  load(parts[p]) - load(parts[q]) <= group(g)
       /\ (pc = "log_probs" /\ cfg.dynamic) =>
            \A r \in Ranks : \A i, j \in DOMAIN plan[r] :
                LET part(k) == load(Select(inputs[r], plan[r][k]))
                IN \E seqlen \in Range(Seqlens(inputs[r])) :
                      part(i) - part(j) <= Workload(seqlen)

\* After the update every response has been trained on once, by all ranks of
\* one sequence-parallel group.
EveryRowTrainsOnce ==
    (pc = "done" /\ ~cfg.validate) =>
        /\ \A r, q \in Ranks : DPRank(r) = DPRank(q) => trained[r] = trained[q]
        /\ \A i \in 1 .. Size(batch) :
              Cardinality({p \in Ranks \X (1 .. Size(batch)) :
                  /\ IsCollect(p[1]) /\ p[2] \in DOMAIN trained[p[1]]
                  /\ trained[p[1]][p[2]] = batch.response[i]}) = 1

-----------------------------------------------------------------------------
\* The response tokens of micro-batch i of rank r, and the factor of its mean
\* loss (times MiniBatchSize).
Tokens(r, i) == Total(Select(Head(minis[r]), plan[r][i]).length)
LossScale(r, i) == IF cfg.dynamic THEN Len(plan[r][i]) ELSE cfg.micro

\* docs/algo/dapo.md: the token-mean loss is "across all the tokens in all the
\* sequences in a mini-batch", so that each of them has the same weight.
TokensWeighEqually ==
    pc = "updating" =>
        \A r, q \in Ranks : \A i \in DOMAIN plan[r], j \in DOMAIN plan[q] :
            LossScale(r, i) * Tokens(q, j) = LossScale(q, j) * Tokens(r, i)
=============================================================================
