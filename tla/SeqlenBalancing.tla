-------------------------- MODULE SeqlenBalancing ---------------------------
(***************************************************************************)
(* verl/utils/seqlen_balancing.py: how rows of unequal length are divided  *)
(* among ranks and micro-batches, with the largest differencing method of  *)
(* Karmarkar and Karp.  Rows are numbered from 1.                          *)
(***************************************************************************)
EXTENDS Integers, Sequences, FiniteSets, SequencesExt

SumOf(f, S) == FoldFunctionOnSet(+, 0, f, S)

Total(s) == SumOf(s, DOMAIN s)

CeilDiv(a, b) == (a + b - 1) \div b

\* FLOPs of a transformer block for a sequence, up to a factor.
Workload(seqlen) == 24576 * seqlen + seqlen * seqlen

PairBefore(a, b) == a[1] < b[1] \/ (a[1] = b[1] /\ a[2] < b[2])

\* The sequence s; TLC evaluates a concatenation here, and not at each use.
List(s) == <<>> \o s

\* sorted: the elements of a finite set as a sequence, in a strict total order.
InOrder(S, Before(_, _)) ==
    LET placed == {<<x, Cardinality({y \in S : Before(y, x)}) + 1>> : x \in S}
    IN List([i \in 1 .. Cardinality(S) |-> (CHOOSE p \in placed : p[2] = i)[1]])

\* The rows, the lightest first.
Lightest(workloads, rows) ==
    InOrder(rows, LAMBDA a, b : PairBefore(<<workloads[a], a>>, <<workloads[b], b>>))

-----------------------------------------------------------------------------
(* A Set of rows: the sum of their workloads and the rows, in the order in *)
(* which they were added.  A State: k sets, the largest first.             *)

SetBefore(s, t) ==
    \/ s.sum < t.sum
    \/ s.sum = t.sum /\ Len(s.items) < Len(t.items)
    \/ /\ s.sum = t.sum /\ Len(s.items) = Len(t.items)
       /\ \E i \in DOMAIN s.items : /\ \A j \in 1 .. i - 1 : s.items[j] = t.items[j]
                                    /\ s.items[i] < t.items[i]

\* sorted(sets, reverse=True), which leaves equal sets in their order.
Decreasing(sets) ==
    LET order == InOrder(DOMAIN sets, LAMBDA i, j :
                     SetBefore(sets[j], sets[i]) \/ (sets[i] = sets[j] /\ i < j))
    IN List([i \in DOMAIN sets |-> sets[order[i]]])

\* State.__init__: one of the rows in each of the first sets.
StateOf(rows, workloads, k) ==
    Decreasing([i \in 1 .. k |->
        IF i \in DOMAIN rows THEN [sum |-> workloads[rows[i]], items |-> <<rows[i]>>]
                             ELSE [sum |-> 0, items |-> <<>>]])

Spread(state) == state[1].sum - state[Len(state)].sum

\* Mutant: the largest sets are merged with each other.
MergedUnreversed(state, other) ==
    Decreasing([i \in DOMAIN state |->
        [sum   |-> state[i].sum + other[i].sum,
         items |-> state[i].items \o other[i].items]])

\* State.merge: the largest set takes the smallest set of the other state.
Merged(state, other) ==
    Decreasing([i \in DOMAIN state |->
        LET o == other[Len(other) + 1 - i]
        IN [sum |-> state[i].sum + o.sum, items |-> state[i].items \o o.items]])

\* State.__lt__: what the heap gives first.
PoppedBefore(s, t) ==
    Spread(s) > Spread(t) \/ (Spread(s) = Spread(t) /\ SetBefore(t[1], s[1]))

Top(heap) == CHOOSE s \in heap : \A t \in heap : ~ PoppedBefore(t, s)

\* Two states are popped, merged and pushed.
MergeTwo(heap) ==
    LET s == Top(heap)
        t == Top(heap \ {s})
    IN (heap \ {s, t}) \cup {Merged(s, t)}

\* while len(states_pq) > 1
MergeAll(states) ==
    LET last == Cardinality(states) - 1
        heap[m \in 0 .. last] == IF m = 0 THEN states ELSE MergeTwo(heap[m - 1])
    IN Top(heap[last])

\* karmarkar_karp: with equal_size every state starts with one row per set.
KarmarkarKarp(workloads, k, equal_size) ==
    LET rows   == Lightest(workloads, DOMAIN workloads)
        size   == IF equal_size THEN k ELSE 1
        states == {StateOf(SubSeq(rows, g * size + 1, (g + 1) * size), workloads, k) :
                      g \in 0 .. Len(rows) \div size - 1}
        final  == MergeAll(states)
    IN [i \in 1 .. k |-> final[i].items]

\* get_seqlen_balanced_partitions
BalancedPartitions(workloads, k, equal_size) ==
    LET parts == KarmarkarKarp(workloads, k, equal_size)
    IN [i \in 1 .. k |-> InOrder(Range(parts[i]), <)]

-----------------------------------------------------------------------------
(* Micro-batches of at most max_token_len tokens, on the average.           *)

\* Every second element, from the first or the second one on.
EverySecond(s, first) == [i \in 1 .. (Len(s) - first) \div 2 + 1 |-> s[first + 2 * (i - 1)]]

MicroBatchCount(seqlens, max_token_len) ==
    LET wanted == CeilDiv(Total(seqlens), max_token_len)
    IN IF Len(seqlens) < wanted THEN Len(seqlens) ELSE wanted

\* rearrange_micro_batches, once the number of micro-batches is agreed: the
\* larger micro-batches are placed in the middle.
MicroBatches(seqlens, num) ==
    LET workloads == [i \in DOMAIN seqlens |-> Workload(seqlens[i])]
        load(part) == SumOf(workloads, Range(part))
        sorted == InOrder(Range(BalancedPartitions(workloads, num, FALSE)),
                          LAMBDA a, b : PairBefore(<<load(b), b[1]>>, <<load(a), a[1]>>))
    IN Reverse(EverySecond(sorted, 1)) \o EverySecond(sorted, 2)

\* Mutant: the outputs are left in the order of the micro-batches.
RestoredNot(data, idx_list) == data

\* restore_dynamic_batch: the output of row i is where i is in the list.
Restored(data, idx_list) ==
    LET indices == FlattenSeq(idx_list)
    IN [i \in DOMAIN data |-> data[CHOOSE j \in DOMAIN indices : indices[j] = i]]
=============================================================================
