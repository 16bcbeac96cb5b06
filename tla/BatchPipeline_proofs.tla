------------------------ MODULE BatchPipeline_proofs ------------------------
(***************************************************************************)
(* One iteration of the PPO trainer over a batch, for every configuration  *)
(* that the constructors of the trainer and of the workers accept and for  *)
(* every order of the workers' answers:                                    *)
(*                                                                         *)
(*   PartitionsAreBalanced  what get_seqlen_balanced_partitions returns    *)
(*   RowsStay               the columns of a row stay together             *)
(*   RanksAgree             the ranks have the same micro-batches          *)
(*   AdvantagesRelative     advantages are relative within a group         *)
(*   LoadsBalanced          ranks and micro-batches have even loads        *)
(*   RowsTrainOnce          every row is trained on once                   *)
(*                                                                         *)
(* The first parts are about the data.  SumOf adds the elements of a set,  *)
(* whatever the order (SumRemove).  InOrder lists the elements of a set in *)
(* a strict order.  A heap of the differencing method has every row in one *)
(* state, and a merge keeps the bounds on the differences within a state   *)
(* (Heap, MergeTwoFacts), so that its last state is a division of the rows *)
(* into nonempty parts with bounded differences (Partitioned, Balanced).   *)
(* Then each operation of DataProto is described by the rows that its      *)
(* result takes of its argument (Part, Takes, JoinsInto, Pads, ...), and a *)
(* reordering by the permutation it is (Permutes).  Recursions are reasoned*)
(* about with induction over sets, NatSetInduction and RemovalInduction.   *)
(*                                                                         *)
(* The inductive invariant IInv says, for each phase of the driver, what   *)
(* the batch, the scores, the shares of the ranks, their plans of          *)
(* micro-batches and what they have trained on are.  During the update the *)
(* rows that a rank has trained on are those of the mini-batches before    *)
(* and of the micro-batches before (During, TrainedOn, Seen).  One lemma   *)
(* per action shows that it leads from a phase to a phase.                 *)
(***************************************************************************)
EXTENDS BatchPipeline, FiniteSetTheorems, WellFoundedInduction, TLAPS

-----------------------------------------------------------------------------
(* Induction. *)

\* A nonempty set of naturals has a least element.
LEMMA LeastNat ==
  ASSUME NEW T \in SUBSET Nat, T # {}
  PROVE  \E m \in T : \A k \in T : m <= k
<1> DEFINE R == OpToRel(<, Nat)
<1>1. IsWellFoundedOn(R, Nat)
  BY NatLessThanWellFounded
<1>2. \A x, y \in Nat : x < y => <<x, y>> \in R
  BY DEF OpToRel
<1> HIDE DEF R
<1>3. PICK x \in T : \A y \in T : ~ (<<y, x>> \in R)
  BY <1>1, WFMin
<1>4. ASSUME NEW k \in T PROVE x <= k
  <2>1. ~ (k < x)
    BY <1>2, <1>3
  <2> QED
    BY <2>1
<1> QED
  BY <1>4

\* Induction over the naturals, for a set of them.
LEMMA NatSetInduction ==
  ASSUME NEW S, 0 \in S, \A n \in Nat : n \in S => n + 1 \in S
  PROVE  \A n \in Nat : n \in S
<1> DEFINE T == Nat \ S
<1> SUFFICES ASSUME T # {} PROVE FALSE
  OBVIOUS
<1>1. PICK m \in T : \A k \in T : m <= k
  BY LeastNat
<1>2. m \in Nat /\ m # 0 /\ m - 1 \in Nat
  BY <1>1
<1>3. m - 1 \in S
  BY <1>1, <1>2
<1> QED
  BY <1>1, <1>2, <1>3

-----------------------------------------------------------------------------
(* Sums. *)

\* What CHOOSE takes of a set.
Chosen(s) == CHOOSE x \in s : TRUE

\* The recursive function that SumOf unfolds to.
Iter(f, S) == CHOOSE iter : iter = [s \in SUBSET S |->
                  IF s = {} THEN 0 ELSE f[Chosen(s)] + iter[s \ {Chosen(s)}]]

\* SumOf, whose recursive function takes the elements of S away one by one,
\* is Iter.
LEMMA SumIsIter == \A f, S : SumOf(f, S) = Iter(f, S)[S]
  BY DEF SumOf, FoldFunctionOnSet, MapThenFoldSet, Iter, Chosen

\* CHOOSE takes a member.
LEMMA ChosenInSet == ASSUME NEW s, s # {} PROVE Chosen(s) \in s
  BY DEF Chosen

\* The recursive function exists.
LEMMA IterDefined ==
  ASSUME NEW S, IsFiniteSet(S), NEW f, \A x \in S : f[x] \in Int
  PROVE  /\ Iter(f, S) \in [SUBSET S -> Int]
         /\ \A s \in SUBSET S : Iter(f, S)[s] =
                IF s = {} THEN 0 ELSE f[Chosen(s)] + Iter(f, S)[s \ {Chosen(s)}]
<1> DEFINE D(n) == {s \in SUBSET S : Cardinality(s) <= n}
           Rec(g, s) == g[s] = IF s = {} THEN 0 ELSE f[Chosen(s)] + g[s \ {Chosen(s)}]
           Ex(n) == \E g \in [D(n) -> Int] : \A s \in D(n) : Rec(g, s)
           T == {n \in Nat : Ex(n)}
<1>0. Cardinality({}) = 0
  BY FS_EmptySet
<1>1. \A s \in SUBSET S : IsFiniteSet(s) /\ Cardinality(s) \in Nat
  BY FS_Subset, FS_CardinalityType
<1>2. 0 \in T
  <2> DEFINE g == [s \in D(0) |-> 0]
  <2>1. \A s \in D(0) : s = {}
    BY <1>1, FS_EmptySet
  <2>2. g \in [D(0) -> Int] /\ \A s \in D(0) : Rec(g, s)
    BY <2>1
  <2> QED
    BY <2>2
<1>3. ASSUME NEW n \in Nat, n \in T PROVE n + 1 \in T
  <2>1. PICK g \in [D(n) -> Int] : \A s \in D(n) : Rec(g, s)
    BY <1>3
  <2> DEFINE h == [s \in D(n + 1) |-> IF s \in D(n) THEN g[s]
                                      ELSE f[Chosen(s)] + g[s \ {Chosen(s)}]]
  <2>2. ASSUME NEW s \in D(n + 1), s # {}
        PROVE  Chosen(s) \in S /\ f[Chosen(s)] \in Int /\ s \ {Chosen(s)} \in D(n)
    <3>1. Chosen(s) \in s
      BY <2>2, ChosenInSet
    <3>2. IsFiniteSet(s) /\ Cardinality(s) \in Nat
      BY <1>1
    <3>3. Cardinality(s \ {Chosen(s)}) = Cardinality(s) - 1
      BY <3>1, <3>2, FS_RemoveElement
    <3> QED
      BY <3>1, <3>2, <3>3
  <2>3. \A s \in D(n + 1) : s \notin D(n) => s # {}
    BY <1>0
  <2>4. h \in [D(n + 1) -> Int]
    BY <2>1, <2>2, <2>3
  <2>5. ASSUME NEW s \in D(n + 1) PROVE Rec(h, s)
    <3>1. s # {} => s \ {Chosen(s)} \in D(n) /\ s \ {Chosen(s)} \in D(n + 1)
      BY <2>2, <1>1
    <3>2. CASE s \in D(n)
      BY <2>1, <3>1, <3>2
    <3>3. CASE s \notin D(n)
      BY <2>3, <3>1, <3>3
    <3> QED
      BY <3>2, <3>3
  <2>6. Ex(n + 1)
    <3> HIDE DEF D, h
    <3> QED
      BY <2>4, <2>5
  <2> HIDE DEF Ex
  <2> QED
    BY <2>6
<1>4. Cardinality(S) \in T
  <2> HIDE DEF T
  <2>1. \A n \in Nat : n \in T
    BY <1>2, <1>3, NatSetInduction
  <2> QED
    BY <2>1, FS_CardinalityType
<1>5. D(Cardinality(S)) = SUBSET S
  BY FS_Subset
<1>6. PICK g \in [SUBSET S -> Int] : \A s \in SUBSET S : Rec(g, s)
  BY <1>4, <1>5
<1>7. g = [s \in SUBSET S |-> IF s = {} THEN 0 ELSE f[Chosen(s)] + g[s \ {Chosen(s)}]]
  BY <1>6
<1>8. Iter(f, S) = [s \in SUBSET S |->
            IF s = {} THEN 0 ELSE f[Chosen(s)] + Iter(f, S)[s \ {Chosen(s)}]]
  BY <1>7 DEF Iter
<1>9. ASSUME NEW n \in Nat
      PROVE  \A s \in SUBSET S : Cardinality(s) = n => Iter(f, S)[s] = g[s]
  <2> DEFINE U == {m \in Nat : \A s \in SUBSET S : Cardinality(s) = m => Iter(f, S)[s] = g[s]}
  <2>1. 0 \in U
    <3>1. \A s \in SUBSET S : Cardinality(s) = 0 => s = {}
      BY <1>1, FS_EmptySet
    <3> QED
      BY <3>1, <1>6, <1>8
  <2>2. ASSUME NEW m \in Nat, m \in U PROVE m + 1 \in U
    <3> SUFFICES ASSUME NEW s \in SUBSET S, Cardinality(s) = m + 1
                 PROVE  Iter(f, S)[s] = g[s]
      OBVIOUS
    <3>0. s # {}
      <4> SUFFICES ASSUME s = {} PROVE FALSE
        OBVIOUS
      <4>1. Cardinality(s) = 0
        BY <1>0
      <4> QED
        BY <4>1
    <3>1. s # {} /\ Chosen(s) \in s
      BY <3>0, ChosenInSet
    <3>2. Cardinality(s \ {Chosen(s)}) = m
      BY <1>1, <3>1, FS_RemoveElement
    <3>3. Iter(f, S)[s \ {Chosen(s)}] = g[s \ {Chosen(s)}]
      BY <3>2, <2>2
    <3> QED
      BY <3>1, <3>3, <1>6, <1>8
  <2> HIDE DEF U
  <2>3. n \in U
    BY <2>1, <2>2, NatSetInduction
  <2> QED
    BY <2>3 DEF U
<1>10. \A s \in SUBSET S : Iter(f, S)[s] = g[s]
  BY <1>9, <1>1
<1>11. Iter(f, S) \in [SUBSET S -> Int]
  BY <1>10, <1>8
<1> QED
  BY <1>11, <1>8

\* A property of a finite set that every set has whose smaller subsets have it.
LEMMA RemovalInduction ==
  ASSUME NEW U, IsFiniteSet(U), NEW T,
         \A A \in SUBSET U : (\A x \in A : A \ {x} \in T) => A \in T
  PROVE  \A A \in SUBSET U : A \in T
<1> DEFINE N == {n \in Nat : \A A \in SUBSET U : Cardinality(A) = n => A \in T}
<1>1. \A s \in SUBSET U : IsFiniteSet(s) /\ Cardinality(s) \in Nat
  BY FS_Subset, FS_CardinalityType
<1>2. 0 \in N
  <2>1. \A s \in SUBSET U : Cardinality(s) = 0 => s = {}
    BY <1>1, FS_EmptySet
  <2> QED
    BY <2>1
<1>3. ASSUME NEW n \in Nat, n \in N PROVE n + 1 \in N
  <2> SUFFICES ASSUME NEW A \in SUBSET U, Cardinality(A) = n + 1 PROVE A \in T
    OBVIOUS
  <2>1. ASSUME NEW x \in A PROVE A \ {x} \in T
    <3>1. IsFiniteSet(A)
      BY <1>1
    <3>2. Cardinality(A \ {x}) = Cardinality(A) - 1
      BY <3>1, FS_RemoveElement
    <3>3. Cardinality(A \ {x}) = n
      BY <3>2
    <3> QED
      BY <3>3, <1>3
  <2> HIDE DEF N
  <2> QED
    BY <2>1
<1> HIDE DEF N
<1>4. \A n \in Nat : n \in N
  BY <1>2, <1>3, NatSetInduction
<1> QED
  BY <1>1, <1>4 DEF N

\* Iter of the subsets of R is the same, whichever set holds R.
LEMMA IterOfSubset ==
  ASSUME NEW S, IsFiniteSet(S), NEW f, \A x \in S : f[x] \in Int, NEW R \in SUBSET S
  PROVE  Iter(f, R)[R] = Iter(f, S)[R]
<1> DEFINE T == {A \in SUBSET R : Iter(f, R)[A] = Iter(f, S)[A]}
<1>1. IsFiniteSet(R) /\ \A x \in R : f[x] \in Int
  BY FS_Subset
<1>2. \A s \in SUBSET S : Iter(f, S)[s] =
                IF s = {} THEN 0 ELSE f[Chosen(s)] + Iter(f, S)[s \ {Chosen(s)}]
  BY IterDefined
<1>3. \A s \in SUBSET R : Iter(f, R)[s] =
                IF s = {} THEN 0 ELSE f[Chosen(s)] + Iter(f, R)[s \ {Chosen(s)}]
  BY <1>1, IterDefined
<1>4. ASSUME NEW A \in SUBSET R, \A x \in A : A \ {x} \in T PROVE A \in T
  <2>1. CASE A = {}
    BY <2>1, <1>2, <1>3
  <2>2. CASE A # {}
    <3>1. Chosen(A) \in A
      BY <2>2, ChosenInSet
    <3>2. Iter(f, R)[A \ {Chosen(A)}] = Iter(f, S)[A \ {Chosen(A)}]
      BY <3>1, <1>4
    <3> QED
      BY <3>2, <2>2, <1>2, <1>3
  <2> QED
    BY <2>1, <2>2
<1> HIDE DEF T
<1>5. R \in T
  BY <1>1, <1>4, RemovalInduction
<1> QED
  BY <1>5 DEF T

\* SumOf is an integer, 0 for the empty set, and whatever element is taken out
\* of the set, its value and the sum of the others.
LEMMA SumType ==
  ASSUME NEW S, IsFiniteSet(S), NEW f, \A x \in S : f[x] \in Int
  PROVE  SumOf(f, S) \in Int
<1>1. Iter(f, S) \in [SUBSET S -> Int]
  BY IterDefined
<1>2. Iter(f, S)[S] \in Int
  BY <1>1
<1> QED
  BY <1>2, SumIsIter

\* The sum of nothing.
LEMMA SumEmpty == ASSUME NEW f PROVE SumOf(f, {}) = 0
<1>1. IsFiniteSet({})
  BY FS_EmptySet
<1>2. Iter(f, {})[{}] = 0
  BY <1>1, IterDefined
<1> QED
  BY <1>2, SumIsIter

\* A sum is any one of its terms and the sum of the others: the order in
\* which SumOf takes them does not matter.
LEMMA SumRemove ==
  ASSUME NEW S, IsFiniteSet(S), NEW f, \A x \in S : f[x] \in Int, NEW e \in S
  PROVE  SumOf(f, S) = f[e] + SumOf(f, S \ {e})
<1> DEFINE T == {A \in SUBSET S : \A x \in A : SumOf(f, A) = f[x] + SumOf(f, A \ {x})}
<1>1. ASSUME NEW A \in SUBSET S
      PROVE  IsFiniteSet(A) /\ SumOf(f, A) \in Int
  <2>1. IsFiniteSet(A)
    BY FS_Subset
  <2> QED
    BY <2>1, SumType
<1>2. ASSUME NEW A \in SUBSET S PROVE SumOf(f, A) = Iter(f, S)[A]
  BY SumIsIter, IterOfSubset
<1>3. ASSUME NEW A \in SUBSET S, A # {}
      PROVE  SumOf(f, A) = f[Chosen(A)] + SumOf(f, A \ {Chosen(A)})
  <2>1. SumOf(f, A \ {Chosen(A)}) = Iter(f, S)[A \ {Chosen(A)}]
    BY <1>2
  <2>2. Iter(f, S)[A] = f[Chosen(A)] + Iter(f, S)[A \ {Chosen(A)}]
    BY <1>3, IterDefined
  <2> QED
    BY <1>2, <2>1, <2>2
<1>4. ASSUME NEW A \in SUBSET S, \A x \in A : A \ {x} \in T PROVE A \in T
  <2> SUFFICES ASSUME NEW x \in A PROVE SumOf(f, A) = f[x] + SumOf(f, A \ {x})
    OBVIOUS
  <2> DEFINE c == Chosen(A)
  <2>1. c \in A /\ SumOf(f, A) = f[c] + SumOf(f, A \ {c})
    BY <1>3, ChosenInSet
  <2>2. CASE c = x
    BY <2>1, <2>2
  <2>3. CASE c # x
    <3>1. x \in A \ {c} /\ c \in A \ {x}
      BY <2>1, <2>3
    <3>2. SumOf(f, A \ {c}) = f[x] + SumOf(f, (A \ {c}) \ {x})
      BY <3>1, <1>4
    <3>3. SumOf(f, A \ {x}) = f[c] + SumOf(f, (A \ {x}) \ {c})
      BY <3>1, <1>4
    <3>4. (A \ {x}) \ {c} = (A \ {c}) \ {x}
      OBVIOUS
    <3>5. SumOf(f, (A \ {c}) \ {x}) \in Int /\ f[c] \in Int /\ f[x] \in Int
      BY <1>1, <2>1
    <3>6. SumOf(f, (A \ {x}) \ {c}) = SumOf(f, (A \ {c}) \ {x})
      BY <3>4
    <3> HIDE DEF c
    <3> QED
      BY <2>1, <3>2, <3>3, <3>5, <3>6
  <2> QED
    BY <2>2, <2>3
<1> HIDE DEF T
<1>5. \A A \in SUBSET S : A \in T
  BY <1>4, RemovalInduction
<1> QED
  BY <1>5 DEF T

\* The sum of a linear combination.
LEMMA SumLinear ==
  ASSUME NEW S, IsFiniteSet(S), NEW f, NEW g, NEW h, NEW a \in Int, NEW b \in Int,
         \A x \in S : f[x] \in Int /\ g[x] \in Int /\ h[x] = a * f[x] + b * g[x]
  PROVE  SumOf(h, S) = a * SumOf(f, S) + b * SumOf(g, S)
<1> DEFINE T == {A \in SUBSET S : SumOf(h, A) = a * SumOf(f, A) + b * SumOf(g, A)}
<1>1. ASSUME NEW x \in S PROVE f[x] \in Int /\ g[x] \in Int /\ h[x] \in Int
  OBVIOUS
<1>2. ASSUME NEW A \in SUBSET S, \A x \in A : A \ {x} \in T PROVE A \in T
  <2>1. CASE A = {}
    BY <2>1, SumEmpty
  <2>2. CASE A # {}
    <3>1. PICK x \in A : TRUE
      BY <2>2
    <3>2. IsFiniteSet(A) /\ IsFiniteSet(A \ {x})
      BY FS_Subset
    <3>3. /\ SumOf(f, A) = f[x] + SumOf(f, A \ {x})
          /\ SumOf(g, A) = g[x] + SumOf(g, A \ {x})
          /\ SumOf(h, A) = h[x] + SumOf(h, A \ {x})
      BY <1>1, <3>1, <3>2, SumRemove
    <3>4. SumOf(f, A \ {x}) \in Int /\ SumOf(g, A \ {x}) \in Int
      BY <1>1, <3>2, SumType
    <3>5. SumOf(h, A \ {x}) = a * SumOf(f, A \ {x}) + b * SumOf(g, A \ {x})
      BY <3>1, <1>2
    <3>6. h[x] = a * f[x] + b * g[x] /\ f[x] \in Int /\ g[x] \in Int
      BY <3>1
    <3>7. ASSUME NEW p \in Int, NEW q \in Int, NEW u \in Int, NEW v \in Int
          PROVE  (a * p + b * q) + (a * u + b * v) = a * (p + u) + b * (q + v)
      OBVIOUS
    <3>8. h[x] + SumOf(h, A \ {x}) = a * SumOf(f, A) + b * SumOf(g, A)
      BY <3>3, <3>4, <3>5, <3>6, <3>7
    <3> QED
      BY <3>3, <3>8
  <2> QED
    BY <2>1, <2>2
<1> HIDE DEF T
<1>3. \A A \in SUBSET S : A \in T
  BY <1>2, RemovalInduction
<1> QED
  BY <1>3 DEF T

\* A sum depends on its terms only.
LEMMA SumSame ==
  ASSUME NEW S, IsFiniteSet(S), NEW f, NEW g, \A x \in S : f[x] \in Int /\ g[x] = f[x]
  PROVE  SumOf(g, S) = SumOf(f, S)
<1>1. \A x \in S : g[x] = 1 * f[x] + 0 * f[x]
  OBVIOUS
<1>2. SumOf(g, S) = 1 * SumOf(f, S) + 0 * SumOf(f, S)
  BY <1>1, SumLinear
<1> QED
  BY <1>2, SumType

\* The sum of two disjoint sets.
LEMMA SumUnion ==
  ASSUME NEW S, IsFiniteSet(S), NEW R, IsFiniteSet(R), S \cap R = {}, NEW f,
         \A x \in S \cup R : f[x] \in Int
  PROVE  SumOf(f, S \cup R) = SumOf(f, S) + SumOf(f, R)
<1> DEFINE T == {A \in SUBSET S : SumOf(f, A \cup R) = SumOf(f, A) + SumOf(f, R)}
<1>1. ASSUME NEW A \in SUBSET S, \A x \in A : A \ {x} \in T PROVE A \in T
  <2>0. SumOf(f, R) \in Int
    BY SumType
  <2>1. CASE A = {}
    <3>1. A \cup R = R
      BY <2>1
    <3>2. SumOf(f, A) = 0
      BY <2>1, SumEmpty
    <3>3. SumOf(f, A \cup R) = SumOf(f, R)
      BY <3>1
    <3> QED
      BY <2>0, <3>2, <3>3
  <2>2. CASE A # {}
    <3>1. PICK x \in A : TRUE
      BY <2>2
    <3>2. IsFiniteSet(A) /\ IsFiniteSet(A \ {x}) /\ IsFiniteSet(A \cup R)
      BY FS_Subset, FS_Union
    <3>3. SumOf(f, A) = f[x] + SumOf(f, A \ {x})
      BY <3>1, <3>2, SumRemove
    <3>4. SumOf(f, A \cup R) = f[x] + SumOf(f, (A \cup R) \ {x})
      <4>1. x \in A \cup R /\ \A y \in A \cup R : f[y] \in Int
        BY <3>1
      <4> QED
        BY <4>1, <3>2, SumRemove
    <3>5. (A \cup R) \ {x} = (A \ {x}) \cup R
      BY <3>1
    <3>6. SumOf(f, (A \ {x}) \cup R) = SumOf(f, A \ {x}) + SumOf(f, R)
      BY <3>1, <1>1
    <3>7. SumOf(f, A \ {x}) \in Int
      BY <3>2, SumType
    <3>8. f[x] \in Int
      BY <3>1
    <3>9. SumOf(f, A \cup R) = f[x] + SumOf(f, (A \ {x}) \cup R)
      BY <3>4, <3>5
    <3> QED
      BY <2>0, <3>3, <3>6, <3>7, <3>8, <3>9
  <2> QED
    BY <2>1, <2>2
<1> HIDE DEF T
<1>2. \A A \in SUBSET S : A \in T
  BY <1>1, RemovalInduction
<1> QED
  BY <1>2 DEF T

\* p gives every element of R one of S, of the same value.
Names(p, R, S, f, g) ==
    /\ \A x, y \in S : p[x] = p[y] => x = y
    /\ \A x \in S : g[x] \in Int /\ g[x] = f[p[x]]
    /\ \A y : y \in R <=> \E x \in S : p[x] = y

\* The sum does not depend on how the elements are named.
LEMMA SumReindex ==
  ASSUME NEW S, IsFiniteSet(S), NEW p, NEW f, NEW g, NEW R, Names(p, R, S, f, g)
  PROVE  SumOf(f, R) = SumOf(g, S)
<1>0. /\ \A x, y \in S : p[x] = p[y] => x = y
      /\ \A x \in S : g[x] \in Int /\ g[x] = f[p[x]]
      /\ \A y : y \in R <=> \E x \in S : p[x] = y
  BY DEF Names
<1> DEFINE Im(A) == {p[x] : x \in A}
           T == {A \in SUBSET S : IsFiniteSet(Im(A)) /\ SumOf(f, Im(A)) = SumOf(g, A)}
<1>1. ASSUME NEW A \in SUBSET S, \A x \in A : A \ {x} \in T PROVE A \in T
  <2>1. CASE A = {}
    <3>1. Im(A) = {}
      BY <2>1
    <3> QED
      BY <2>1, <3>1, SumEmpty, FS_EmptySet
  <2>2. CASE A # {}
    <3>1. PICK x \in A : TRUE
      BY <2>2
    <3>2. IsFiniteSet(A) /\ IsFiniteSet(A \ {x})
      BY FS_Subset
    <3>3. SumOf(g, A) = g[x] + SumOf(g, A \ {x})
      BY <1>0, <3>1, <3>2, SumRemove
    <3>4. Im(A) = Im(A \ {x}) \cup {p[x]}
      BY <3>1
    <3>5. p[x] \notin Im(A \ {x})
      BY <1>0, <3>1
    <3>6. IsFiniteSet(Im(A \ {x})) /\ SumOf(f, Im(A \ {x})) = SumOf(g, A \ {x})
      BY <3>1, <1>1
    <3>7. IsFiniteSet(Im(A))
      <4> HIDE DEF Im
      <4>1. IsFiniteSet(Im(A \ {x}) \cup {p[x]})
        BY <3>6, FS_AddElement
      <4> QED
        BY <3>4, <4>1
    <3>8. \A y \in Im(A) : f[y] \in Int
      BY <1>0
    <3>9. Im(A) \ {p[x]} = Im(A \ {x}) /\ p[x] \in Im(A)
      BY <3>4, <3>5
    <3> HIDE DEF Im
    <3>10. SumOf(f, Im(A)) = f[p[x]] + SumOf(f, Im(A) \ {p[x]})
      BY <3>7, <3>8, <3>9, SumRemove
    <3>11. f[p[x]] = g[x]
      BY <1>0, <3>1
    <3>12. SumOf(f, Im(A)) = SumOf(g, A)
      BY <3>3, <3>6, <3>9, <3>10, <3>11
    <3> QED
      BY <3>7, <3>12
  <2> QED
    BY <2>1, <2>2
<1> HIDE DEF T
<1>2. \A A \in SUBSET S : A \in T
  BY <1>1, RemovalInduction
<1>3. R = Im(S) /\ S \in T
  BY <1>0, <1>2
<1> QED
  BY <1>3 DEF T

\* A sum of naturals is at least each of them.
LEMMA SumNat ==
  ASSUME NEW S, IsFiniteSet(S), NEW f, \A x \in S : f[x] \in Nat
  PROVE  SumOf(f, S) \in Nat /\ \A x \in S : f[x] <= SumOf(f, S)
<1> DEFINE T == {A \in SUBSET S : SumOf(f, A) \in Nat}
<1>1. ASSUME NEW A \in SUBSET S, \A x \in A : A \ {x} \in T PROVE A \in T
  <2>1. CASE A = {}
    BY <2>1, SumEmpty
  <2>2. CASE A # {}
    <3>1. PICK x \in A : TRUE
      BY <2>2
    <3>2. SumOf(f, A) = f[x] + SumOf(f, A \ {x})
      BY <3>1, FS_Subset, SumRemove
    <3> QED
      BY <3>1, <3>2, <1>1
  <2> QED
    BY <2>1, <2>2
<1>2. \A A \in SUBSET S : A \in T
  <2> HIDE DEF T
  <2> QED
    BY <1>1, RemovalInduction
<1>3. ASSUME NEW x \in S PROVE f[x] <= SumOf(f, S)
  <2>1. SumOf(f, S) = f[x] + SumOf(f, S \ {x})
    BY SumRemove
  <2>2. SumOf(f, S \ {x}) \in Nat
    BY <1>2
  <2> QED
    BY <2>1, <2>2
<1> QED
  BY <1>2, <1>3

-----------------------------------------------------------------------------
(* Counting and sorting. *)

\* What injects into a finite set is no larger, and fills it if it is as
\* large.
LEMMA InjectionBound ==
  ASSUME NEW S, NEW T, IsFiniteSet(T), NEW f \in [S -> T],
         \A x, y \in S : f[x] = f[y] => x = y
  PROVE  /\ IsFiniteSet(S)
         /\ Cardinality(S) <= Cardinality(T)
         /\ Cardinality(S) = Cardinality(T) => \A t \in T : \E x \in S : f[x] = t
<1>1. f \in Injection(S, T)
  BY DEF Injection, IsInjective
<1>2. f \in Surjection(S, T) => \A t \in T : \E x \in S : f[x] = t
  BY DEF Surjection
<1> QED
  BY <1>1, <1>2, FS_Injection

\* A bijection keeps the number of elements.
LEMMA BijectionCount ==
  ASSUME NEW S, IsFiniteSet(S), NEW T, NEW f \in [S -> T],
         \A x, y \in S : f[x] = f[y] => x = y, \A t \in T : \E x \in S : f[x] = t
  PROVE  IsFiniteSet(T) /\ Cardinality(T) = Cardinality(S)
<1>1. f \in Injection(S, T) /\ f \in Surjection(S, T)
  BY DEF Injection, IsInjective, Surjection
<1> QED
  BY <1>1, FS_Surjection

\* 1 .. n has n elements.
LEMMA IntervalCount ==
  ASSUME NEW n \in Nat PROVE IsFiniteSet(1 .. n) /\ Cardinality(1 .. n) = n
  BY FS_Interval

\* A function on 1 .. n is a sequence, and its length is n.
LEMMA FunctionIsSeq ==
  ASSUME NEW n \in Nat, NEW S, NEW f \in [1 .. n -> S]
  PROVE  f \in Seq(S) /\ Len(f) = n /\ DOMAIN f = 1 .. n
<1>1. f \in Seq(S)
  OBVIOUS
<1>2. DOMAIN f = 1 .. n
  OBVIOUS
<1> QED
  BY <1>1, <1>2

\* A sequence is the function of its elements.
LEMMA SeqElement ==
  ASSUME NEW S, NEW s \in Seq(S)
  PROVE  /\ Len(s) \in Nat /\ DOMAIN s = 1 .. Len(s)
         /\ \A i \in 1 .. Len(s) : s[i] \in S
         /\ s = [i \in 1 .. Len(s) |-> s[i]]
  OBVIOUS

\* A sequence of a subset is one of the set.
LEMMA SeqOfSubset ==
  ASSUME NEW S, NEW T \in SUBSET S, NEW s \in Seq(T)
  PROVE  s \in Seq(S)
<1>1. s \in [1 .. Len(s) -> T] /\ Len(s) \in Nat
  OBVIOUS
<1>2. s \in [1 .. Len(s) -> S]
  BY <1>1
<1> QED
  BY <1>1, <1>2, FunctionIsSeq

\* List only gives a sequence another form.
LEMMA ListIsIdentity ==
  ASSUME NEW S, NEW s \in Seq(S) PROVE List(s) = s
  BY DEF List

\* What InOrder returns when R is the relation that Before describes.
ByPlace(placed, n) == List([i \in 1 .. n |-> (CHOOSE p \in placed : p[2] = i)[1]])

\* InOrder for a relation that is a set of pairs.
Ordered(S, R) ==
    ByPlace({<<x, Cardinality({y \in S : <<y, x>> \in R}) + 1>> : x \in S}, Cardinality(S))

StrictTotalOrder(R, S) ==
    /\ \A x \in S : <<x, x>> \notin R
    /\ \A x, y, z \in S : <<x, y>> \in R /\ <<y, z>> \in R => <<x, z>> \in R
    /\ \A x, y \in S : x # y => <<x, y>> \in R \/ <<y, x>> \in R

\* It returns every element once, and each before those that it comes before.
LEMMA OrderedFacts ==
  ASSUME NEW S, IsFiniteSet(S), NEW R, StrictTotalOrder(R, S)
  PROVE  /\ Ordered(S, R) \in [1 .. Cardinality(S) -> S]
         /\ \A x \in S : \E i \in 1 .. Cardinality(S) : Ordered(S, R)[i] = x
         /\ \A i, j \in 1 .. Cardinality(S) :
               i < j => <<Ordered(S, R)[i], Ordered(S, R)[j]>> \in R
         /\ \A i, j \in 1 .. Cardinality(S) : Ordered(S, R)[i] = Ordered(S, R)[j] => i = j
<1> DEFINE n == Cardinality(S)
           Before(x) == {y \in S : <<y, x>> \in R}
           rank == [x \in S |-> Cardinality(Before(x)) + 1]
           f == [i \in 1 .. n |-> CHOOSE x \in S : rank[x] = i]
<1>0. n \in Nat
  BY FS_CardinalityType
<1>1. \A x \in S : IsFiniteSet(Before(x)) /\ Cardinality(Before(x)) \in Nat
  BY FS_Subset, FS_CardinalityType
<1>2. ASSUME NEW x \in S PROVE rank[x] \in 1 .. n
  <2>1. Before(x) \in SUBSET (S \ {x})
    BY DEF StrictTotalOrder
  <2>2. IsFiniteSet(S \ {x}) /\ Cardinality(S \ {x}) = n - 1
    BY FS_RemoveElement
  <2>3. Cardinality(Before(x)) <= n - 1
    <3> HIDE DEF Before
    <3>1. Cardinality(Before(x)) <= Cardinality(S \ {x})
      BY <2>1, <2>2, FS_Subset
    <3> QED
      BY <2>2, <3>1
  <2> QED
    BY <2>3, <1>0, <1>1
<1>3. ASSUME NEW x \in S, NEW y \in S, <<x, y>> \in R PROVE rank[x] < rank[y]
  <2>1. x \notin Before(x)
    BY DEF StrictTotalOrder
  <2>2. Before(x) \cup {x} \in SUBSET Before(y)
    BY <1>3 DEF StrictTotalOrder
  <2>3. Cardinality(Before(x) \cup {x}) = Cardinality(Before(x)) + 1
    <3> HIDE DEF Before
    <3> QED
      BY <1>1, <2>1, FS_AddElement
  <2>4. Cardinality(Before(x) \cup {x}) <= Cardinality(Before(y))
    <3> HIDE DEF Before
    <3> QED
      BY <1>1, <2>2, FS_Subset
  <2> QED
    BY <1>1, <2>3, <2>4
<1> HIDE DEF Before
<1>4. rank \in [S -> 1 .. n]
  BY <1>2
<1>5. \A x, y \in S : rank[x] = rank[y] => x = y
  <2> HIDE DEF rank
  <2>1. \A x, y \in S : x # y => rank[x] < rank[y] \/ rank[y] < rank[x]
    BY <1>3 DEF StrictTotalOrder
  <2>2. \A x \in S : rank[x] \in Int
    BY <1>4
  <2> QED
    BY <2>1, <2>2
<1>6. \A i \in 1 .. n : \E x \in S : rank[x] = i
  <2> HIDE DEF rank
  <2>1. IsFiniteSet(1 .. n) /\ Cardinality(1 .. n) = Cardinality(S)
    BY <1>0, IntervalCount
  <2> HIDE DEF n
  <2> DEFINE Q == 1 .. n
  <2>2. rank \in [S -> Q] /\ IsFiniteSet(Q) /\ Cardinality(Q) = Cardinality(S)
    BY <2>1, <1>4
  <2> HIDE DEF Q
  <2>3. Cardinality(S) = Cardinality(Q) => \A t \in Q : \E x \in S : rank[x] = t
    BY <2>2, <1>5, InjectionBound
  <2> QED
    BY <2>2, <2>3 DEF Q
<1>7. \A i \in 1 .. n : f[i] \in S /\ rank[f[i]] = i
  <2> HIDE DEF rank
  <2> QED
    BY <1>6
<1>8. \A i \in 1 .. n :
        (CHOOSE p \in {<<x, Cardinality(Before(x)) + 1>> : x \in S} : p[2] = i)[1] = f[i]
  <2> SUFFICES ASSUME NEW i \in 1 .. n
               PROVE  (CHOOSE p \in {<<x, Cardinality(Before(x)) + 1>> : x \in S} : p[2] = i)[1] = f[i]
    OBVIOUS
  <2> DEFINE P == {<<x, Cardinality(Before(x)) + 1>> : x \in S}
             q == CHOOSE p \in P : p[2] = i
  <2>1. <<f[i], Cardinality(Before(f[i])) + 1>> \in P /\ Cardinality(Before(f[i])) + 1 = i
    BY <1>7
  <2>2. \E p \in P : p[2] = i
    BY <2>1
  <2>3. q \in P /\ q[2] = i
    <3> HIDE DEF P
    <3> QED
      BY <2>2
  <2>4. PICK x \in S : q = <<x, Cardinality(Before(x)) + 1>>
    BY <2>3
  <2> HIDE DEF P, q
  <2>5. x = f[i]
    <3>1. rank[x] = i
      BY <2>3, <2>4
    <3> QED
      BY <3>1, <1>5, <1>7
  <2>6. q[1] = f[i]
    BY <2>4, <2>5
  <2> QED
    BY <2>6 DEF q, P
<1>9. f \in [1 .. n -> S]
  BY <1>7
<1>10. Ordered(S, R) = f
  <2>1. [i \in 1 .. n |-> (CHOOSE p \in {<<x, Cardinality(Before(x)) + 1>> : x \in S} : p[2] = i)[1]] = f
    BY <1>8
  <2>2. Ordered(S, R) = List(f)
    BY <2>1 DEF Ordered, ByPlace, Before
  <2> HIDE DEF f
  <2> QED
    BY <1>0, <1>9, <2>2, FunctionIsSeq, ListIsIdentity
<1>11. \A x \in S : \E i \in 1 .. n : f[i] = x
  <2> SUFFICES ASSUME NEW x \in S PROVE f[rank[x]] = x
    BY <1>4
  <2> HIDE DEF rank
  <2>1. rank[x] \in 1 .. n
    BY <1>4
  <2> QED
    BY <2>1, <1>5, <1>7
<1>12. \A i, j \in 1 .. n : i < j => <<f[i], f[j]>> \in R
  <2> SUFFICES ASSUME NEW i \in 1 .. n, NEW j \in 1 .. n, i < j
               PROVE  <<f[i], f[j]>> \in R
    OBVIOUS
  <2> HIDE DEF rank, f
  <2>1. f[i] # f[j] /\ ~ (rank[f[j]] < rank[f[i]])
    BY <1>7
  <2> QED
    BY <2>1, <1>3, <1>7 DEF StrictTotalOrder
<1>13. \A i, j \in 1 .. n : f[i] = f[j] => i = j
  <2> HIDE DEF rank, f
  <2> QED
    BY <1>7
<1> HIDE DEF f
<1> QED
  BY <1>9, <1>10, <1>11, <1>12, <1>13

-----------------------------------------------------------------------------
(* Sets of rows and their order. *)

\* The values of Set: a sum and the rows of D it is made of.
RowSets(D) == [sum : Nat, items : Seq(D)]

\* Set.__lt__ is a strict total order of the sets of rows, in the next three
\* lemmas: no set is before itself,
LEMMA SetBeforeIrreflexive ==
  ASSUME NEW x \in RowSets(Nat) PROVE ~ SetBefore(x, x)
<1>1. x.sum \in Nat /\ x.items \in Seq(Nat)
  BY DEF RowSets
<1>2. \A i \in DOMAIN x.items : x.items[i] \in Nat
  BY <1>1
<1> QED
  BY <1>1, <1>2 DEF SetBefore

\* The first position at which two sequences of one length differ.
LEMMA FirstDifference ==
  ASSUME NEW s \in Seq(Nat), NEW t \in Seq(Nat), Len(s) = Len(t), s # t
  PROVE  \E i \in DOMAIN s : s[i] # t[i] /\ \A j \in 1 .. i - 1 : s[j] = t[j]
<1> DEFINE T == {i \in DOMAIN s : s[i] # t[i]}
<1>1. DOMAIN s = 1 .. Len(s) /\ DOMAIN t = 1 .. Len(s) /\ Len(s) \in Nat
  OBVIOUS
<1>2. s = [i \in 1 .. Len(s) |-> s[i]] /\ t = [i \in 1 .. Len(s) |-> t[i]]
  BY <1>1
<1>3. T # {}
  BY <1>1, <1>2
<1>4. T \in SUBSET Nat
  BY <1>1
<1>5. PICK i \in T : \A j \in T : i <= j
  BY <1>3, <1>4, LeastNat
<1>6. ASSUME NEW j \in 1 .. i - 1 PROVE s[j] = t[j]
  <2>1. i \in 1 .. Len(s) /\ Len(s) \in Nat
    BY <1>1, <1>5
  <2> DEFINE l == Len(s)
  <2>2. j \in 1 .. l /\ ~ (i <= j)
    <3> HIDE DEF l
    <3>1. i \in 1 .. l /\ l \in Nat
      BY <2>1 DEF l
    <3> QED
      BY <3>1
  <2> QED
    BY <1>1, <1>5, <2>2
<1> QED
  BY <1>5, <1>6

\* of two sets one is before the other,
LEMMA SetBeforeTotal ==
  ASSUME NEW x \in RowSets(Nat), NEW y \in RowSets(Nat), x # y
  PROVE  SetBefore(x, y) \/ SetBefore(y, x)
<1>1. /\ x.sum \in Nat /\ x.items \in Seq(Nat)
      /\ y.sum \in Nat /\ y.items \in Seq(Nat)
      /\ Len(x.items) \in Nat /\ Len(y.items) \in Nat
  BY DEF RowSets
<1>2. CASE x.sum # y.sum \/ Len(x.items) # Len(y.items)
  BY <1>1, <1>2 DEF SetBefore
<1>3. CASE x.sum = y.sum /\ Len(x.items) = Len(y.items)
  <2>1. x.items # y.items
    BY <1>3 DEF RowSets
  <2>2. PICK i \in DOMAIN x.items : /\ x.items[i] # y.items[i]
                                    /\ \A j \in 1 .. i - 1 : x.items[j] = y.items[j]
    BY <1>1, <1>3, <2>1, FirstDifference
  <2>3. DOMAIN x.items = DOMAIN y.items
    BY <1>1, <1>3
  <2>4. x.items[i] \in Nat /\ y.items[i] \in Nat
    <3>1. i \in 1 .. Len(x.items)
      BY <1>1, <2>2, SeqElement
    <3>2. i \in 1 .. Len(y.items)
      BY <1>3, <3>1
    <3>3. x.items[i] \in Nat
      BY <1>1, <3>1, SeqElement
    <3>4. y.items[i] \in Nat
      BY <1>1, <3>2, SeqElement
    <3> QED
      BY <3>3, <3>4
  <2>5. x.items[i] < y.items[i] \/ y.items[i] < x.items[i]
    BY <2>2, <2>4
  <2> QED
    BY <1>3, <2>2, <2>3, <2>5 DEF SetBefore
<1> QED
  BY <1>2, <1>3

\* and the order is transitive.
LEMMA SetBeforeTransitive ==
  ASSUME NEW x \in RowSets(Nat), NEW y \in RowSets(Nat), NEW z \in RowSets(Nat),
         SetBefore(x, y), SetBefore(y, z)
  PROVE  SetBefore(x, z)
<1>1. /\ x.sum \in Nat /\ x.items \in Seq(Nat) /\ Len(x.items) \in Nat
      /\ y.sum \in Nat /\ y.items \in Seq(Nat) /\ Len(y.items) \in Nat
      /\ z.sum \in Nat /\ z.items \in Seq(Nat) /\ Len(z.items) \in Nat
  BY DEF RowSets
<1>2. CASE x.sum # y.sum \/ y.sum # z.sum
  BY <1>1, <1>2 DEF SetBefore
<1>3. CASE x.sum = y.sum /\ y.sum = z.sum /\ (Len(x.items) # Len(y.items) \/ Len(y.items) # Len(z.items))
  BY <1>1, <1>3 DEF SetBefore
<1>4. CASE x.sum = y.sum /\ y.sum = z.sum /\ Len(x.items) = Len(y.items) /\ Len(y.items) = Len(z.items)
  <2>1. PICK i \in DOMAIN x.items : /\ \A j \in 1 .. i - 1 : x.items[j] = y.items[j]
                                    /\ x.items[i] < y.items[i]
    BY <1>1, <1>4 DEF SetBefore
  <2>2. PICK l \in DOMAIN y.items : /\ \A j \in 1 .. l - 1 : y.items[j] = z.items[j]
                                    /\ y.items[l] < z.items[l]
    <3>1. ~ (y.sum < z.sum) /\ ~ (Len(y.items) < Len(z.items))
      BY <1>1, <1>4
    <3> QED
      BY <3>1 DEF SetBefore
  <2>3. /\ DOMAIN x.items = 1 .. Len(x.items)
        /\ DOMAIN y.items = 1 .. Len(x.items)
        /\ DOMAIN z.items = 1 .. Len(x.items)
    BY <1>1, <1>4
  <2>4. ASSUME NEW j \in 1 .. Len(x.items)
        PROVE  x.items[j] \in Nat /\ y.items[j] \in Nat /\ z.items[j] \in Nat
    <3>1. x.items[j] \in Nat
      BY <1>1, SeqElement
    <3>2. y.items[j] \in Nat
      BY <1>1, <1>4, SeqElement
    <3>3. z.items[j] \in Nat
      BY <1>1, <1>4, SeqElement
    <3> QED
      BY <3>1, <3>2, <3>3
  <2>5. \E m \in DOMAIN x.items : /\ \A j \in 1 .. m - 1 : x.items[j] = z.items[j]
                                  /\ x.items[m] < z.items[m]
    <3>1. CASE i <= l
      <4>1. \A j \in 1 .. i - 1 : x.items[j] = z.items[j]
        BY <2>1, <2>2, <2>3, <3>1
      <4>2. x.items[i] < z.items[i]
        <5>1. CASE i = l
          BY <2>1, <2>2, <2>3, <2>4, <5>1
        <5>2. CASE i < l
          <6>1. i \in 1 .. l - 1
            BY <2>3, <5>2
          <6> QED
            BY <2>1, <2>2, <6>1
        <5> QED
          BY <2>3, <3>1, <5>1, <5>2
      <4> QED
        BY <4>1, <4>2
    <3>2. CASE l < i
      <4>1. l \in 1 .. i - 1 /\ l \in DOMAIN x.items
        BY <2>3, <3>2
      <4>2. \A j \in 1 .. l - 1 : x.items[j] = z.items[j]
        BY <2>1, <2>2, <2>3, <3>2
      <4>3. x.items[l] < z.items[l]
        BY <2>1, <2>2, <4>1
      <4> QED
        BY <4>1, <4>2, <4>3
    <3> QED
      BY <2>3, <3>1, <3>2
  <2> QED
    BY <1>4, <2>5 DEF SetBefore
<1> QED
  BY <1>2, <1>3, <1>4

\* Decreasing permutes the sets so that their sums decrease.
LEMMA DecreasingFacts ==
  ASSUME NEW k \in Nat, NEW D \in SUBSET Nat, NEW s \in [1 .. k -> RowSets(D)]
  PROVE  /\ Decreasing(s) \in [1 .. k -> RowSets(D)]
         /\ \E p \in [1 .. k -> 1 .. k] :
               /\ \A i \in 1 .. k : Decreasing(s)[i] = s[p[i]]
               /\ \A i, j \in 1 .. k : p[i] = p[j] => i = j
               /\ \A j \in 1 .. k : \E i \in 1 .. k : p[i] = j
         /\ \A i, j \in 1 .. k : i < j => Decreasing(s)[i].sum >= Decreasing(s)[j].sum
<1> DEFINE S == DOMAIN s
           Before(i, j) == SetBefore(s[j], s[i]) \/ (s[i] = s[j] /\ i < j)
           R == {q \in S \X S : Before(q[1], q[2])}
           p == Ordered(S, R)
           order == InOrder(S, LAMBDA i, j : SetBefore(s[j], s[i]) \/ (s[i] = s[j] /\ i < j))
<1>0. S = 1 .. k
  OBVIOUS
<1>1. \A i \in S : s[i] \in RowSets(Nat)
  <2>1. RowSets(D) \subseteq RowSets(Nat)
    BY SeqOfSubset DEF RowSets
  <2> QED
    BY <2>1
<1>2. \A i, j \in S : <<i, j>> \in R <=> Before(i, j)
  OBVIOUS
<1>3. StrictTotalOrder(R, S)
  <2>1. ASSUME NEW i \in S PROVE <<i, i>> \notin R
    BY <1>1, <1>2, SetBeforeIrreflexive
  <2>2. ASSUME NEW i \in S, NEW j \in S, NEW l \in S, <<i, j>> \in R, <<j, l>> \in R
        PROVE  <<i, l>> \in R
    <3>1. Before(i, j) /\ Before(j, l)
      BY <2>2, <1>2
    <3>2. CASE s[i] = s[j] \/ s[j] = s[l]
      BY <1>1, <1>2, <3>1, <3>2, SetBeforeIrreflexive
    <3>3. CASE SetBefore(s[j], s[i]) /\ SetBefore(s[l], s[j])
      BY <1>1, <1>2, <3>3, SetBeforeTransitive
    <3> QED
      BY <3>1, <3>2, <3>3
  <2>3. ASSUME NEW i \in S, NEW j \in S, i # j PROVE <<i, j>> \in R \/ <<j, i>> \in R
    <3>1. CASE s[i] = s[j]
      BY <1>2, <2>3, <3>1
    <3>2. CASE s[i] # s[j]
      BY <1>1, <1>2, <3>2, SetBeforeTotal
    <3> QED
      BY <3>1, <3>2
  <2> HIDE DEF R
  <2> QED
    BY <2>1, <2>2, <2>3 DEF StrictTotalOrder
<1>4. IsFiniteSet(S) /\ Cardinality(S) = k
  BY <1>0, IntervalCount
<1>5. /\ p \in [1 .. k -> S]
      /\ \A x \in S : \E i \in 1 .. k : p[i] = x
      /\ \A i, j \in 1 .. k : i < j => <<p[i], p[j]>> \in R
      /\ \A i, j \in 1 .. k : p[i] = p[j] => i = j
  <2> HIDE DEF R, S
  <2> QED
    BY <1>3, <1>4, OrderedFacts
<1>7. order = p
  <2>1. \A x \in S : {y \in S : Before(y, x)} = {y \in S : <<y, x>> \in R}
    BY <1>2
  <2>2. {<<x, Cardinality({y \in S : Before(y, x)}) + 1>> : x \in S}
          = {<<x, Cardinality({y \in S : <<y, x>> \in R}) + 1>> : x \in S}
    BY <2>1
  <2>3. order = ByPlace({<<x, Cardinality({y \in S : Before(y, x)}) + 1>> : x \in S}, Cardinality(S))
    BY DEF InOrder, ByPlace
  <2> HIDE DEF order
  <2> QED
    BY <2>2, <2>3 DEF Ordered
<1>8. Decreasing(s) = [i \in 1 .. k |-> s[p[i]]]
  <2> HIDE DEF p
  <2> DEFINE f == [i \in 1 .. k |-> s[p[i]]]
  <2>1. f \in [1 .. k -> RowSets(D)]
    BY <1>0, <1>5
  <2>2. Decreasing(s) = List(f)
    BY <1>0, <1>7, Zenon DEF Decreasing
  <2> HIDE DEF f
  <2>3. f \in Seq(RowSets(D))
    BY <2>1, FunctionIsSeq
  <2>4. List(f) = f
    BY <2>3, ListIsIdentity
  <2> QED
    BY <2>2, <2>4 DEF f
<1>9. ASSUME NEW i \in S, NEW j \in S, i < j PROVE s[p[i]].sum >= s[p[j]].sum
  <2>1. Before(p[i], p[j]) /\ p[i] \in S /\ p[j] \in S
    <3> HIDE DEF p, R, Before
    <3> QED
      BY <1>0, <1>2, <1>5, <1>9
  <2> HIDE DEF p
  <2>2. s[p[i]].sum \in Nat /\ s[p[j]].sum \in Nat
    BY <1>1, <2>1 DEF RowSets
  <2> QED
    BY <2>1, <2>2 DEF SetBefore
<1> HIDE DEF p, R
<1>10. Decreasing(s) \in [1 .. k -> RowSets(D)]
  BY <1>0, <1>5, <1>8
<1>11. \A i \in 1 .. k : Decreasing(s)[i] = s[p[i]]
  BY <1>8
<1>12. \A i, j \in 1 .. k : i < j => Decreasing(s)[i].sum >= Decreasing(s)[j].sum
  BY <1>0, <1>9, <1>11
<1> QED
  BY <1>0, <1>5, <1>10, <1>11, <1>12

\* Lightest returns the rows once each, and their workloads do not decrease.
LEMMA LightestFacts ==
  ASSUME NEW D \in SUBSET Nat, IsFiniteSet(D), NEW w, \A r \in D : w[r] \in Nat
  PROVE  /\ Lightest(w, D) \in [1 .. Cardinality(D) -> D]
         /\ \A r \in D : \E i \in 1 .. Cardinality(D) : Lightest(w, D)[i] = r
         /\ \A i, j \in 1 .. Cardinality(D) : i < j => w[Lightest(w, D)[i]] <= w[Lightest(w, D)[j]]
         /\ \A i, j \in 1 .. Cardinality(D) : Lightest(w, D)[i] = Lightest(w, D)[j] => i = j
<1> DEFINE Before(a, b) == PairBefore(<<w[a], a>>, <<w[b], b>>)
           R == {q \in D \X D : Before(q[1], q[2])}
           p == Ordered(D, R)
<1>1. \A a, b \in D : <<a, b>> \in R <=> w[a] < w[b] \/ (w[a] = w[b] /\ a < b)
  BY DEF PairBefore
<1>2. \A a \in D : a \in Nat /\ w[a] \in Nat
  OBVIOUS
<1>3. StrictTotalOrder(R, D)
  <2> HIDE DEF R
  <2>1. \A a \in D : <<a, a>> \notin R
    BY <1>1, <1>2
  <2>2. \A a, b, c \in D : <<a, b>> \in R /\ <<b, c>> \in R => <<a, c>> \in R
    BY <1>1, <1>2
  <2>3. \A a, b \in D : a # b => <<a, b>> \in R \/ <<b, a>> \in R
    BY <1>1, <1>2
  <2> QED
    BY <2>1, <2>2, <2>3 DEF StrictTotalOrder
<1>4. Lightest(w, D) = p
  <2>1. \A x \in D : {y \in D : Before(y, x)} = {y \in D : <<y, x>> \in R}
    OBVIOUS
  <2>2. {<<x, Cardinality({y \in D : Before(y, x)}) + 1>> : x \in D}
          = {<<x, Cardinality({y \in D : <<y, x>> \in R}) + 1>> : x \in D}
    BY <2>1
  <2>3. Lightest(w, D)
          = ByPlace({<<x, Cardinality({y \in D : Before(y, x)}) + 1>> : x \in D}, Cardinality(D))
    BY DEF Lightest, InOrder, ByPlace
  <2> QED
    BY <2>2, <2>3 DEF Ordered
<1>5. /\ p \in [1 .. Cardinality(D) -> D]
      /\ \A x \in D : \E i \in 1 .. Cardinality(D) : p[i] = x
      /\ \A i, j \in 1 .. Cardinality(D) : i < j => <<p[i], p[j]>> \in R
      /\ \A i, j \in 1 .. Cardinality(D) : p[i] = p[j] => i = j
  <2> HIDE DEF R
  <2> QED
    BY <1>3, OrderedFacts
<1>6. \A i, j \in 1 .. Cardinality(D) : i < j => w[p[i]] <= w[p[j]]
  <2> SUFFICES ASSUME NEW i \in 1 .. Cardinality(D), NEW j \in 1 .. Cardinality(D), i < j
               PROVE  w[p[i]] <= w[p[j]]
    OBVIOUS
  <2> HIDE DEF p, R
  <2>1. p[i] \in D /\ p[j] \in D /\ <<p[i], p[j]>> \in R
    BY <1>5
  <2>2. w[p[i]] < w[p[j]] \/ w[p[i]] = w[p[j]]
    BY <1>1, <2>1
  <2>3. w[p[i]] \in Nat /\ w[p[j]] \in Nat
    BY <1>2, <2>1
  <2> QED
    BY <2>2, <2>3
<1> HIDE DEF p
<1> QED
  BY <1>4, <1>5, <1>6

\* A set of numbers in ascending order.
Ascending(D) == InOrder(D, <)

\* Ascending lists the elements of a finite set of naturals, once each.
LEMMA AscendingFacts ==
  ASSUME NEW D \in SUBSET Nat, IsFiniteSet(D)
  PROVE  /\ Ascending(D) \in [1 .. Cardinality(D) -> D]
         /\ \A r \in D : \E i \in 1 .. Cardinality(D) : Ascending(D)[i] = r
         /\ \A i, j \in 1 .. Cardinality(D) : Ascending(D)[i] = Ascending(D)[j] => i = j
<1> DEFINE R == {q \in D \X D : q[1] < q[2]}
           p == Ordered(D, R)
           a == InOrder(D, <)
<1>1. \A x, y \in D : <<x, y>> \in R <=> x < y
  OBVIOUS
<1>3. StrictTotalOrder(R, D)
  <2> HIDE DEF R
  <2> QED
    BY <1>1 DEF StrictTotalOrder
<1>4. a = p
  <2>1. \A x \in D : {y \in D : y < x} = {y \in D : <<y, x>> \in R}
    OBVIOUS
  <2>2. {<<x, Cardinality({y \in D : y < x}) + 1>> : x \in D}
          = {<<x, Cardinality({y \in D : <<y, x>> \in R}) + 1>> : x \in D}
    BY <2>1
  <2>3. a = ByPlace({<<x, Cardinality({y \in D : y < x}) + 1>> : x \in D}, Cardinality(D))
    BY DEF InOrder, ByPlace
  <2> HIDE DEF a
  <2> QED
    BY <2>2, <2>3 DEF Ordered
<1>5. /\ p \in [1 .. Cardinality(D) -> D]
      /\ \A x \in D : \E i \in 1 .. Cardinality(D) : p[i] = x
      /\ \A i, j \in 1 .. Cardinality(D) : p[i] = p[j] => i = j
  <2> HIDE DEF R
  <2> QED
    BY <1>3, OrderedFacts
<1>6. /\ a \in [1 .. Cardinality(D) -> D]
      /\ \A x \in D : \E i \in 1 .. Cardinality(D) : a[i] = x
      /\ \A i, j \in 1 .. Cardinality(D) : a[i] = a[j] => i = j
  <2> HIDE DEF a, p
  <2> QED
    BY <1>4, <1>5
<1> QED
  BY <1>6, Zenon DEF Ascending

-----------------------------------------------------------------------------
(* States of the differencing method, for workloads w and k sets. *)

Has(s, r) == \E i \in DOMAIN s : \E a \in DOMAIN s[i].items : s[i].items[a] = r

\* The sums are right, and no row occurs twice.
PreState(s, w, k) ==
    /\ s \in [1 .. k -> RowSets(DOMAIN w)]
    /\ \A i \in 1 .. k : s[i].sum = SumOf(w, Range(s[i].items))
    /\ \A i, j \in 1 .. k : \A a \in DOMAIN s[i].items, b \in DOMAIN s[j].items :
          s[i].items[a] = s[j].items[b] => i = j /\ a = b

\* The largest set comes first.
IsState(s, w, k) ==
    /\ PreState(s, w, k)
    /\ \A i, j \in 1 .. k : i < j => s[i].sum >= s[j].sum

\* A set is empty only if no set has two rows.
Filled(s, k) == \/ \A i \in 1 .. k : Len(s[i].items) > 0
                \/ \A i \in 1 .. k : Len(s[i].items) <= 1

\* Every set has m rows.
HasSize(s, k, m) == \A i \in 1 .. k : Len(s[i].items) = m

\* No two sums differ by more than b.
Gap(s, k, b) == \A i, j \in 1 .. k : s[i].sum - s[j].sum <= b

\* Sorting the sets keeps all of that.
LEMMA DecreasingState ==
  ASSUME NEW n \in Nat, NEW w \in [1 .. n -> Nat], NEW k \in Nat, NEW s, PreState(s, w, k)
  PROVE  /\ IsState(Decreasing(s), w, k)
         /\ \A r : Has(Decreasing(s), r) <=> Has(s, r)
         /\ Filled(s, k) => Filled(Decreasing(s), k)
         /\ \A m : HasSize(s, k, m) => HasSize(Decreasing(s), k, m)
         /\ \A b : Gap(s, k, b) => Gap(Decreasing(s), k, b)
<1> DEFINE d == Decreasing(s)
<1>1. s \in [1 .. k -> RowSets(1 .. n)] /\ 1 .. n \in SUBSET Nat
  BY DEF PreState
<1>2. /\ d \in [1 .. k -> RowSets(1 .. n)]
      /\ \E p \in [1 .. k -> 1 .. k] : /\ \A i \in 1 .. k : d[i] = s[p[i]]
                                       /\ \A i, j \in 1 .. k : p[i] = p[j] => i = j
                                       /\ \A j \in 1 .. k : \E i \in 1 .. k : p[i] = j
      /\ \A i, j \in 1 .. k : i < j => d[i].sum >= d[j].sum
  BY <1>1, DecreasingFacts
<1> HIDE DEF d
<1>3. PICK p \in [1 .. k -> 1 .. k] : /\ \A i \in 1 .. k : d[i] = s[p[i]]
                                      /\ \A i, j \in 1 .. k : p[i] = p[j] => i = j
                                      /\ \A j \in 1 .. k : \E i \in 1 .. k : p[i] = j
  BY <1>2
<1>4. IsState(d, w, k)
  <2>1. DOMAIN w = 1 .. n
    OBVIOUS
  <2>2. ASSUME NEW i \in 1 .. k PROVE d[i].sum = SumOf(w, Range(d[i].items))
    <3>1. p[i] \in 1 .. k /\ d[i] = s[p[i]]
      BY <1>3
    <3>2. s[p[i]].sum = SumOf(w, Range(s[p[i]].items))
      BY <3>1 DEF PreState
    <3> QED
      BY <3>1, <3>2
  <2>3. ASSUME NEW i \in 1 .. k, NEW j \in 1 .. k,
               NEW a \in DOMAIN d[i].items, NEW b \in DOMAIN d[j].items,
               d[i].items[a] = d[j].items[b]
        PROVE  i = j /\ a = b
    <3>0. /\ p[i] \in 1 .. k /\ d[i] = s[p[i]]
          /\ p[j] \in 1 .. k /\ d[j] = s[p[j]]
      BY <1>3
    <3>1. p[i] = p[j] /\ a = b
      BY <2>3, <3>0 DEF PreState
    <3> QED
      BY <1>3, <3>1
  <2> QED
    BY <1>2, <2>1, <2>2, <2>3 DEF IsState, PreState
<1>5. \A r : Has(d, r) <=> Has(s, r)
  <2>1. DOMAIN d = 1 .. k /\ DOMAIN s = 1 .. k
    BY <1>1, <1>2
  <2>2. ASSUME NEW r, Has(d, r) PROVE Has(s, r)
    <3>1. PICK i \in 1 .. k : \E a \in DOMAIN d[i].items : d[i].items[a] = r
      BY <2>1, <2>2 DEF Has
    <3>2. p[i] \in DOMAIN s /\ d[i] = s[p[i]]
      BY <1>3, <2>1
    <3> QED
      BY <3>1, <3>2 DEF Has
  <2>3. ASSUME NEW r, Has(s, r) PROVE Has(d, r)
    <3>1. PICK j \in 1 .. k : \E a \in DOMAIN s[j].items : s[j].items[a] = r
      BY <2>1, <2>3 DEF Has
    <3>2. PICK i \in 1 .. k : p[i] = j
      BY <1>3
    <3>3. i \in DOMAIN d /\ d[i] = s[j]
      BY <1>3, <2>1, <3>2
    <3> QED
      BY <3>1, <3>3 DEF Has
  <2> QED
    BY <2>2, <2>3
<1>6. Filled(s, k) => Filled(d, k)
  BY <1>3 DEF Filled
<1>7. ASSUME NEW m, HasSize(s, k, m) PROVE HasSize(d, k, m)
  <2> SUFFICES ASSUME NEW i \in 1 .. k PROVE Len(d[i].items) = m
    BY DEF HasSize
  <2>1. p[i] \in 1 .. k /\ d[i] = s[p[i]]
    BY <1>3
  <2>2. Len(s[p[i]].items) = m
    BY <1>7, <2>1 DEF HasSize
  <2> QED
    BY <2>1, <2>2
<1>8. ASSUME NEW b, Gap(s, k, b) PROVE Gap(d, k, b)
  <2> SUFFICES ASSUME NEW i \in 1 .. k, NEW j \in 1 .. k PROVE d[i].sum - d[j].sum <= b
    BY DEF Gap
  <2>1. s[p[i]].sum - s[p[j]].sum <= b
    BY <1>3, <1>8 DEF Gap
  <2> QED
    BY <1>3, <2>1
<1> QED
  BY <1>4, <1>5, <1>6, <1>7, <1>8 DEF d

\* The elements of two sequences joined.
LEMMA ConcatFacts ==
  ASSUME NEW D, NEW x \in Seq(D), NEW y \in Seq(D)
  PROVE  /\ x \o y \in Seq(D)
         /\ Len(x \o y) = Len(x) + Len(y)
         /\ DOMAIN (x \o y) = 1 .. Len(x) + Len(y)
         /\ \A i \in 1 .. Len(x) : (x \o y)[i] = x[i]
         /\ \A i \in 1 .. Len(y) : (x \o y)[Len(x) + i] = y[i]
         /\ \A i \in 1 .. Len(x) + Len(y) : i <= Len(x) \/ i - Len(x) \in 1 .. Len(y)
  OBVIOUS

\* A sequence has finitely many values.
LEMMA SeqRangeFinite ==
  ASSUME NEW D, NEW x \in Seq(D)
  PROVE  IsFiniteSet(Range(x)) /\ Range(x) \in SUBSET D
<1>1. x \in Surjection(1 .. Len(x), Range(x)) /\ Len(x) \in Nat
  BY DEF Surjection, Range
<1>2. IsFiniteSet(1 .. Len(x))
  BY <1>1, IntervalCount
<1>3. IsFiniteSet(Range(x))
  BY <1>1, <1>2, FS_Surjection
<1>4. Range(x) \in SUBSET D
  BY DEF Range
<1> QED
  BY <1>3, <1>4

\* A sequence without duplicates has as many values as it has positions.
LEMMA SeqRangeCount ==
  ASSUME NEW D, NEW x \in Seq(D), \A i, j \in DOMAIN x : x[i] = x[j] => i = j
  PROVE  Cardinality(Range(x)) = Len(x)
<1> DEFINE R == Range(x)
<1>1. Len(x) \in Nat /\ DOMAIN x = 1 .. Len(x)
  OBVIOUS
<1>2. x \in [1 .. Len(x) -> R] /\ \A r \in R : \E i \in 1 .. Len(x) : x[i] = r
  BY <1>1 DEF Range
<1>3. IsFiniteSet(1 .. Len(x)) /\ Cardinality(1 .. Len(x)) = Len(x)
  BY <1>1, IntervalCount
<1> HIDE DEF R
<1>4. Cardinality(R) = Cardinality(1 .. Len(x))
  BY <1>1, <1>2, <1>3, BijectionCount
<1> QED
  BY <1>3, <1>4 DEF R

\* The values of two sequences joined.
LEMMA RangeOfConcat ==
  ASSUME NEW D, NEW x \in Seq(D), NEW y \in Seq(D)
  PROVE  Range(x \o y) = Range(x) \cup Range(y)
<1> DEFINE z == x \o y
<1>1. /\ DOMAIN z = 1 .. Len(x) + Len(y) /\ Len(x) \in Nat /\ Len(y) \in Nat
      /\ DOMAIN x = 1 .. Len(x) /\ DOMAIN y = 1 .. Len(y)
      /\ \A i \in 1 .. Len(x) : z[i] = x[i]
      /\ \A i \in 1 .. Len(y) : z[Len(x) + i] = y[i]
      /\ \A i \in 1 .. Len(x) + Len(y) : i <= Len(x) \/ i - Len(x) \in 1 .. Len(y)
  BY ConcatFacts
<1> HIDE DEF z
<1>2. ASSUME NEW i \in DOMAIN z PROVE z[i] \in Range(x) \cup Range(y)
  <2>1. CASE i <= Len(x)
    <3>1. i \in DOMAIN x /\ z[i] = x[i]
      BY <1>1, <2>1
    <3> QED
      BY <3>1 DEF Range
  <2>2. CASE i - Len(x) \in 1 .. Len(y)
    <3> DEFINE j == i - Len(x)
    <3>1. j \in DOMAIN y /\ Len(x) + j = i
      BY <1>1, <2>2
    <3>2. z[i] = y[j]
      BY <1>1, <3>1
    <3> QED
      BY <3>1, <3>2 DEF Range
  <2> QED
    BY <1>1, <2>1, <2>2
<1>3. ASSUME NEW i \in DOMAIN x PROVE x[i] \in Range(z)
  <2>1. i \in DOMAIN z /\ z[i] = x[i]
    BY <1>1
  <2> QED
    BY <2>1 DEF Range
<1>4. ASSUME NEW i \in DOMAIN y PROVE y[i] \in Range(z)
  <2>1. Len(x) + i \in DOMAIN z /\ z[Len(x) + i] = y[i]
    BY <1>1
  <2> QED
    BY <2>1 DEF Range
<1>5. Range(z) = Range(x) \cup Range(y)
  BY <1>2, <1>3, <1>4 DEF Range
<1> QED
  BY <1>5 DEF z

\* A row in a set makes its sum positive, and an empty set has the sum 0.
LEMMA SumOfItems ==
  ASSUME NEW n \in Nat, NEW w \in [1 .. n -> Nat \ {0}], NEW k \in Nat, NEW s,
         PreState(s, w, k), NEW i \in 1 .. k
  PROVE  /\ s[i].sum \in Nat
         /\ s[i].sum > 0 <=> Len(s[i].items) > 0
<1>1. s[i] \in RowSets(1 .. n)
  BY DEF PreState
<1>2. s[i].sum \in Nat /\ s[i].items \in Seq(1 .. n) /\ Len(s[i].items) \in Nat
  BY <1>1 DEF RowSets
<1>3. s[i].sum = SumOf(w, Range(s[i].items))
  BY DEF PreState
<1>4. IsFiniteSet(Range(s[i].items)) /\ Range(s[i].items) \in SUBSET (1 .. n)
  BY <1>2, SeqRangeFinite
<1>5. CASE Len(s[i].items) = 0
  <2>1. Range(s[i].items) = {}
    BY <1>2, <1>5 DEF Range
  <2>2. s[i].sum = 0
    BY <1>3, <2>1, SumEmpty
  <2> QED
    BY <1>5, <2>2
<1>6. CASE Len(s[i].items) > 0
  <2> DEFINE r == s[i].items[1]
  <2>1. r \in Range(s[i].items)
    BY <1>2, <1>6 DEF Range
  <2>2. w[r] <= SumOf(w, Range(s[i].items)) /\ w[r] \in Nat /\ w[r] > 0
    <3> HIDE DEF r
    <3> QED
      BY <1>4, <2>1, SumNat
  <2> QED
    BY <1>2, <1>3, <1>6, <2>2
<1> QED
  BY <1>2, <1>5, <1>6

\* State.merge joins two states of disjoint rows to a state of their rows.  No
\* set stays empty while another gets two rows, and the sets differ by no more
\* than those of one of the two states did.
LEMMA MergedFacts ==
  ASSUME NEW n \in Nat, NEW w \in [1 .. n -> Nat \ {0}], NEW k \in Nat,
         NEW s, IsState(s, w, k), NEW t, IsState(t, w, k),
         \A r : ~ (Has(s, r) /\ Has(t, r))
  PROVE  /\ IsState(Merged(s, t), w, k)
         /\ \A r : Has(Merged(s, t), r) <=> Has(s, r) \/ Has(t, r)
         /\ Filled(s, k) /\ Filled(t, k) => Filled(Merged(s, t), k)
         /\ \A a, b \in Nat : HasSize(s, k, a) /\ HasSize(t, k, b)
                                => HasSize(Merged(s, t), k, a + b)
         /\ \A a, b \in Int : Gap(s, k, a) /\ Gap(t, k, b)
                                => Gap(Merged(s, t), k, a) \/ Gap(Merged(s, t), k, b)
<1> DEFINE m == [i \in 1 .. k |-> [sum   |-> s[i].sum + t[k + 1 - i].sum,
                                   items |-> s[i].items \o t[k + 1 - i].items]]
           N == 1 .. n
<1>0. DOMAIN w = N /\ N \in SUBSET Nat /\ IsFiniteSet(N) /\ \A x \in N : w[x] \in Int
  BY IntervalCount
<1>1. /\ s \in [1 .. k -> RowSets(N)] /\ t \in [1 .. k -> RowSets(N)]
      /\ PreState(s, w, k) /\ PreState(t, w, k)
  BY DEF IsState, PreState
<1>2. Len(t) = k /\ DOMAIN s = 1 .. k
  BY <1>1, FunctionIsSeq
<1>3. Merged(s, t) = Decreasing(m)
  BY <1>2 DEF Merged
<1>4. \A i \in 1 .. k : k + 1 - i \in 1 .. k
  OBVIOUS
<1>5. ASSUME NEW i \in 1 .. k
      PROVE  /\ s[i].items \in Seq(N) /\ t[k + 1 - i].items \in Seq(N)
             /\ s[i].sum \in Nat /\ t[k + 1 - i].sum \in Nat
             /\ s[i].sum = SumOf(w, Range(s[i].items))
             /\ t[k + 1 - i].sum = SumOf(w, Range(t[k + 1 - i].items))
  <2>1. k + 1 - i \in 1 .. k
    BY <1>4
  <2>2. s[i] \in RowSets(N) /\ t[k + 1 - i] \in RowSets(N)
    BY <1>1, <2>1
  <2> QED
    BY <1>1, <2>1, <2>2 DEF PreState, RowSets
<1>6. \A i \in 1 .. k : /\ m[i].sum = s[i].sum + t[k + 1 - i].sum
                        /\ m[i].items = s[i].items \o t[k + 1 - i].items
  OBVIOUS
<1>7. m \in [1 .. k -> RowSets(N)]
  <2>1. ASSUME NEW i \in 1 .. k PROVE m[i] \in RowSets(N)
    <3>1. s[i].items \o t[k + 1 - i].items \in Seq(N)
      BY <1>5, ConcatFacts
    <3>2. s[i].sum + t[k + 1 - i].sum \in Nat
      <4>1. \A x, y \in Nat : x + y \in Nat
        OBVIOUS
      <4> QED
        BY <1>5, <4>1
    <3> QED
      BY <3>1, <3>2 DEF RowSets
  <2> QED
    BY <2>1
<1> HIDE DEF m, N
<1>8. ASSUME NEW i \in 1 .. k
      PROVE  /\ DOMAIN m[i].items \in SUBSET Nat
             /\ Len(m[i].items) = Len(s[i].items) + Len(t[k + 1 - i].items)
             /\ Len(s[i].items) \in Nat /\ DOMAIN s[i].items = 1 .. Len(s[i].items)
             /\ Len(t[k + 1 - i].items) \in Nat
             /\ DOMAIN t[k + 1 - i].items = 1 .. Len(t[k + 1 - i].items)
             /\ \A a \in DOMAIN s[i].items :
                   a \in DOMAIN m[i].items /\ m[i].items[a] = s[i].items[a]
             /\ \A a \in DOMAIN t[k + 1 - i].items :
                   /\ Len(s[i].items) + a \in DOMAIN m[i].items
                   /\ m[i].items[Len(s[i].items) + a] = t[k + 1 - i].items[a]
             /\ \A a \in DOMAIN m[i].items :
                   a \in DOMAIN s[i].items \/ a - Len(s[i].items) \in DOMAIN t[k + 1 - i].items
  <2> DEFINE x == s[i].items
             y == t[k + 1 - i].items
  <2>1. x \in Seq(N) /\ y \in Seq(N)
    BY <1>5
  <2>2. m[i].items = x \o y
    BY <1>6
  <2> HIDE DEF x, y
  <2>3. /\ Len(x \o y) = Len(x) + Len(y)
        /\ DOMAIN (x \o y) = 1 .. Len(x) + Len(y)
        /\ \A a \in 1 .. Len(x) : (x \o y)[a] = x[a]
        /\ \A a \in 1 .. Len(y) : (x \o y)[Len(x) + a] = y[a]
        /\ \A a \in 1 .. Len(x) + Len(y) : a <= Len(x) \/ a - Len(x) \in 1 .. Len(y)
        /\ Len(x) \in Nat /\ Len(y) \in Nat /\ DOMAIN x = 1 .. Len(x) /\ DOMAIN y = 1 .. Len(y)
    BY <2>1, ConcatFacts, SeqElement
  <2>4. \A a \in 1 .. Len(x) + Len(y) : a \in 1 .. Len(x) \/ a - Len(x) \in 1 .. Len(y)
    BY <2>3
  <2>5. /\ DOMAIN (x \o y) \in SUBSET Nat
        /\ Len(x \o y) = Len(x) + Len(y)
        /\ Len(x) \in Nat /\ DOMAIN x = 1 .. Len(x)
        /\ Len(y) \in Nat /\ DOMAIN y = 1 .. Len(y)
        /\ \A a \in DOMAIN x : a \in DOMAIN (x \o y) /\ (x \o y)[a] = x[a]
        /\ \A a \in DOMAIN y : Len(x) + a \in DOMAIN (x \o y) /\ (x \o y)[Len(x) + a] = y[a]
        /\ \A a \in DOMAIN (x \o y) : a \in DOMAIN x \/ a - Len(x) \in DOMAIN y
    BY <2>3, <2>4
  <2> QED
    BY <2>2, <2>5 DEF x, y
<1>9. PreState(m, w, k)
  <2>1. ASSUME NEW i \in 1 .. k PROVE m[i].sum = SumOf(w, Range(m[i].items))
    <3> DEFINE x == s[i].items
               y == t[k + 1 - i].items
    <3>1. /\ x \in Seq(N) /\ y \in Seq(N)
          /\ s[i].sum = SumOf(w, Range(x)) /\ t[k + 1 - i].sum = SumOf(w, Range(y))
      BY <1>5
    <3>2. m[i].items = x \o y /\ m[i].sum = s[i].sum + t[k + 1 - i].sum
      BY <1>6
    <3>3. Range(x) \cap Range(y) = {}
      <4>1. ASSUME NEW r, r \in Range(x), r \in Range(y) PROVE FALSE
        <5>1. Has(s, r)
          BY <1>2, <4>1 DEF Has, Range
        <5>2. k + 1 - i \in DOMAIN t
          BY <1>1, <1>4
        <5>3. Has(t, r)
          BY <4>1, <5>2 DEF Has, Range
        <5> QED
          BY <5>1, <5>3
      <4> QED
        BY <4>1
    <3> HIDE DEF x, y
    <3>4. IsFiniteSet(Range(x)) /\ Range(x) \in SUBSET N /\ IsFiniteSet(Range(y)) /\ Range(y) \in SUBSET N
      BY <3>1, SeqRangeFinite
    <3>5. SumOf(w, Range(x) \cup Range(y)) = SumOf(w, Range(x)) + SumOf(w, Range(y))
      <4>1. \A z \in Range(x) \cup Range(y) : w[z] \in Int
        BY <1>0, <3>4
      <4> QED
        BY <3>3, <3>4, <4>1, SumUnion
    <3>6. Range(x \o y) = Range(x) \cup Range(y)
      BY <3>1, RangeOfConcat
    <3> QED
      BY <3>1, <3>2, <3>5, <3>6
  <2>2. ASSUME NEW i \in 1 .. k, NEW j \in 1 .. k,
               NEW a \in DOMAIN m[i].items, NEW b \in DOMAIN m[j].items,
               m[i].items[a] = m[j].items[b]
        PROVE  i = j /\ a = b
    <3> DEFINE r == m[i].items[a]
               ls == Len(s[i].items)
               lt == Len(s[j].items)
    <3>0. /\ k + 1 - i \in 1 .. k /\ k + 1 - j \in 1 .. k /\ DOMAIN t = 1 .. k /\ DOMAIN s = 1 .. k
      BY <1>1, <1>4
    <3>00. a \in Int /\ b \in Int /\ ls \in Int /\ lt \in Int
      <4>1. DOMAIN m[i].items \in SUBSET Nat /\ DOMAIN m[j].items \in SUBSET Nat
        BY <1>8
      <4>2. a \in Nat /\ b \in Nat
        BY <4>1
      <4>3. ls \in Nat /\ lt \in Nat
        BY <1>8
      <4> QED
        BY <4>2, <4>3
    <3>01. ls + (a - ls) = a /\ lt + (b - lt) = b
      <4> HIDE DEF ls, lt
      <4> QED
        BY <3>00
    <3>1. a \in DOMAIN s[i].items => Has(s, r) /\ r = s[i].items[a]
      BY <1>8, <3>0 DEF Has
    <3>2. b \in DOMAIN s[j].items => Has(s, r) /\ r = s[j].items[b]
      <4> SUFFICES ASSUME b \in DOMAIN s[j].items PROVE Has(s, r) /\ r = s[j].items[b]
        OBVIOUS
      <4>1. m[j].items[b] = s[j].items[b]
        BY <1>8
      <4> QED
        BY <3>0, <2>2, <4>1 DEF Has
    <3>3. a - ls \in DOMAIN t[k + 1 - i].items => Has(t, r) /\ r = t[k + 1 - i].items[a - ls]
      <4> SUFFICES ASSUME a - ls \in DOMAIN t[k + 1 - i].items
                   PROVE  Has(t, r) /\ r = t[k + 1 - i].items[a - ls]
        OBVIOUS
      <4>1. m[i].items[ls + (a - ls)] = t[k + 1 - i].items[a - ls]
        BY <1>8
      <4> QED
        BY <3>0, <3>01, <4>1 DEF Has
    <3>4. b - lt \in DOMAIN t[k + 1 - j].items => Has(t, r) /\ r = t[k + 1 - j].items[b - lt]
      <4> SUFFICES ASSUME b - lt \in DOMAIN t[k + 1 - j].items
                   PROVE  Has(t, r) /\ r = t[k + 1 - j].items[b - lt]
        OBVIOUS
      <4>1. m[j].items[lt + (b - lt)] = t[k + 1 - j].items[b - lt]
        BY <1>8
      <4> QED
        BY <3>0, <3>01, <4>1, <2>2 DEF Has
    <3>5. /\ a \in DOMAIN s[i].items \/ a - ls \in DOMAIN t[k + 1 - i].items
          /\ b \in DOMAIN s[j].items \/ b - lt \in DOMAIN t[k + 1 - j].items
      BY <1>8
    <3>6. CASE a \in DOMAIN s[i].items /\ b \in DOMAIN s[j].items
      <4>1. s[i].items[a] = s[j].items[b]
        BY <3>1, <3>2, <3>6
      <4> QED
        BY <1>1, <3>6, <4>1 DEF PreState
    <3>7. CASE a - ls \in DOMAIN t[k + 1 - i].items /\ b - lt \in DOMAIN t[k + 1 - j].items
      <4>1. t[k + 1 - i].items[a - ls] = t[k + 1 - j].items[b - lt]
        BY <3>3, <3>4, <3>7
      <4>2. k + 1 - i = k + 1 - j /\ a - ls = b - lt
        BY <1>1, <3>0, <3>7, <4>1 DEF PreState
      <4>3. i = j
        BY <4>2
      <4>4. ls = lt
        BY <4>3
      <4> HIDE DEF ls, lt
      <4> QED
        BY <4>2, <4>3, <4>4, <3>00
    <3> HIDE DEF r, ls, lt
    <3> QED
      BY <3>1, <3>2, <3>3, <3>4, <3>5, <3>6, <3>7
  <2> QED
    BY <1>0, <1>7, <2>1, <2>2 DEF PreState
<1>10. \A r : Has(m, r) <=> Has(s, r) \/ Has(t, r)
  <2>0. DOMAIN m = 1 .. k /\ DOMAIN s = 1 .. k /\ DOMAIN t = 1 .. k
    BY <1>1, <1>7
  <2>1. ASSUME NEW r, Has(m, r) PROVE Has(s, r) \/ Has(t, r)
    <3>1. PICK i \in 1 .. k : \E a \in DOMAIN m[i].items : m[i].items[a] = r
      BY <2>0, <2>1 DEF Has
    <3>2. PICK a \in DOMAIN m[i].items : m[i].items[a] = r
      BY <3>1
    <3>3. CASE a \in DOMAIN s[i].items
      BY <1>8, <2>0, <3>2, <3>3 DEF Has
    <3>4. CASE a - Len(s[i].items) \in DOMAIN t[k + 1 - i].items
      <4>1. m[i].items[Len(s[i].items) + (a - Len(s[i].items))] = t[k + 1 - i].items[a - Len(s[i].items)]
        BY <1>8, <3>4
      <4>2. Len(s[i].items) + (a - Len(s[i].items)) = a
        <5>1. a \in Nat /\ Len(s[i].items) \in Nat
          BY <1>8
        <5> QED
          BY <5>1
      <4>3. t[k + 1 - i].items[a - Len(s[i].items)] = r
        BY <3>2, <4>1, <4>2
      <4> QED
        BY <1>4, <2>0, <3>4, <4>3 DEF Has
    <3> QED
      BY <1>8, <3>3, <3>4
  <2>2. ASSUME NEW r, Has(s, r) PROVE Has(m, r)
    <3>1. PICK i \in 1 .. k : \E a \in DOMAIN s[i].items : s[i].items[a] = r
      BY <2>0, <2>2 DEF Has
    <3>2. PICK a \in DOMAIN s[i].items : s[i].items[a] = r
      BY <3>1
    <3>3. m[i].items[a] = r /\ a \in DOMAIN m[i].items
      BY <1>8, <3>2
    <3> QED
      BY <2>0, <3>3 DEF Has
  <2>3. ASSUME NEW r, Has(t, r) PROVE Has(m, r)
    <3>1. PICK j \in 1 .. k : \E a \in DOMAIN t[j].items : t[j].items[a] = r
      BY <2>0, <2>3 DEF Has
    <3> DEFINE i == k + 1 - j
    <3>2. i \in 1 .. k /\ k + 1 - i = j
      OBVIOUS
    <3> HIDE DEF i
    <3>3. PICK a \in DOMAIN t[k + 1 - i].items : t[k + 1 - i].items[a] = r
      BY <3>1, <3>2
    <3>4. m[i].items[Len(s[i].items) + a] = r /\ Len(s[i].items) + a \in DOMAIN m[i].items
      BY <1>8, <3>2, <3>3
    <3> QED
      BY <2>0, <3>2, <3>4 DEF Has
  <2> QED
    BY <2>1, <2>2, <2>3
<1>11. ASSUME Filled(s, k), Filled(t, k) PROVE Filled(m, k)
  <2>1. CASE \A i \in 1 .. k : Len(m[i].items) > 0
    BY <2>1 DEF Filled
  <2>2. CASE \E i \in 1 .. k : ~ (Len(m[i].items) > 0)
    <3>1. PICK i \in 1 .. k : ~ (Len(m[i].items) > 0)
      BY <2>2
    <3> DEFINE i2 == k + 1 - i
    <3>2. Len(s[i].items) = 0 /\ Len(t[i2].items) = 0 /\ i2 \in 1 .. k
      <4> DEFINE ls == Len(s[i].items)
                 lt == Len(t[i2].items)
                 lm == Len(m[i].items)
      <4>1. ls \in Nat /\ lt \in Nat /\ lm = ls + lt /\ ~ (lm > 0)
        BY <3>1, <1>8
      <4>2. ls = 0 /\ lt = 0
        <5> HIDE DEF ls, lt, lm
        <5> QED
          BY <4>1
      <4> QED
        BY <4>2, <1>4
    <3>3. \A j \in 1 .. k : Len(s[j].items) <= 1 /\ Len(t[j].items) <= 1
      BY <1>11, <3>2 DEF Filled
    <3>4. s[i].sum = 0 /\ t[i2].sum = 0
      <4> HIDE DEF i2
      <4>1. /\ s[i].sum \in Nat /\ (s[i].sum > 0 <=> Len(s[i].items) > 0)
            /\ t[i2].sum \in Nat /\ (t[i2].sum > 0 <=> Len(t[i2].items) > 0)
        BY <1>1, <3>2, SumOfItems
      <4> QED
        BY <3>2, <4>1
    <3>5. ASSUME NEW j \in 1 .. k PROVE Len(m[j].items) <= 1
      <4> DEFINE j2 == k + 1 - j
      <4>0. j2 \in 1 .. k
        BY <1>4
      <4>1. /\ Len(m[j].items) = Len(s[j].items) + Len(t[j2].items)
            /\ Len(s[j].items) \in Nat /\ Len(t[j2].items) \in Nat
        BY <1>8
      <4>2. i <= j \/ i2 <= j2
        OBVIOUS
      <4> HIDE DEF i2, j2
      <4>3. s[j].sum \in Nat /\ (s[j].sum > 0 <=> Len(s[j].items) > 0)
        BY <1>1, SumOfItems
      <4>4. t[j2].sum \in Nat /\ (t[j2].sum > 0 <=> Len(t[j2].items) > 0)
        BY <1>1, <4>0, SumOfItems
      <4>5. i <= j => s[i].sum >= s[j].sum
        BY <4>3 DEF IsState
      <4>6. i2 <= j2 => t[i2].sum >= t[j2].sum
        BY <3>2, <4>0, <4>4 DEF IsState
      <4> DEFINE ls == Len(s[j].items)
                 lt == Len(t[j2].items)
                 lm == Len(m[j].items)
      <4>7. ls \in Nat /\ lt \in Nat /\ lm = ls + lt /\ ls <= 1 /\ lt <= 1
        BY <3>3, <4>0, <4>1
      <4>8. ls = 0 \/ lt = 0
        <5>1. CASE i <= j
          <6>1. s[j].sum = 0
            BY <3>4, <4>3, <4>5, <5>1
          <6> QED
            BY <4>3, <4>7, <6>1
        <5>2. CASE i2 <= j2
          <6>1. t[j2].sum = 0
            BY <3>4, <4>4, <4>6, <5>2
          <6> QED
            BY <4>4, <4>7, <6>1
        <5> QED
          BY <4>2, <5>1, <5>2
      <4>9. lm <= 1
        <5> HIDE DEF ls, lt, lm
        <5> QED
          BY <4>7, <4>8
      <4> QED
        BY <4>9
    <3> QED
      BY <3>5 DEF Filled
  <2> QED
    BY <2>1, <2>2
<1>12. ASSUME NEW a \in Nat, NEW b \in Nat, HasSize(s, k, a), HasSize(t, k, b)
       PROVE  HasSize(m, k, a + b)
  BY <1>4, <1>8, <1>12 DEF HasSize
<1>13. ASSUME NEW a \in Int, NEW b \in Int, Gap(s, k, a), Gap(t, k, b)
       PROVE  Gap(m, k, a) \/ Gap(m, k, b)
  <2>1. ASSUME NEW i \in 1 .. k, NEW j \in 1 .. k
        PROVE  m[i].sum - m[j].sum <= a \/ m[i].sum - m[j].sum <= b
    <3> DEFINE i2 == k + 1 - i
               j2 == k + 1 - j
    <3>1. /\ s[i].sum \in Nat /\ s[j].sum \in Nat /\ t[i2].sum \in Nat /\ t[j2].sum \in Nat
          /\ i2 \in 1 .. k /\ j2 \in 1 .. k
      BY <1>4, <1>5
    <3>2. s[i].sum - s[j].sum <= a /\ t[i2].sum - t[j2].sum <= b
      BY <1>13, <3>1 DEF Gap
    <3>3. m[i].sum - m[j].sum = (s[i].sum - s[j].sum) + (t[i2].sum - t[j2].sum)
      <4>1. m[i].sum = s[i].sum + t[i2].sum /\ m[j].sum = s[j].sum + t[j2].sum
        BY <1>6
      <4> DEFINE x == s[i].sum
                 y == s[j].sum
                 u == t[i2].sum
                 v == t[j2].sum
      <4>2. x \in Nat /\ y \in Nat /\ u \in Nat /\ v \in Nat /\ m[i].sum = x + u /\ m[j].sum = y + v
        BY <3>1, <4>1
      <4>3. m[i].sum - m[j].sum = (x - y) + (u - v)
        <5> HIDE DEF x, y, u, v
        <5> QED
          BY <4>2
      <4> QED
        BY <4>3
    <3>4. i <= j => j2 <= i2
      OBVIOUS
    <3>5. j <= i => i2 <= j2
      OBVIOUS
    <3> HIDE DEF i2, j2
    <3>6. CASE i <= j
      <4>1. t[j2].sum >= t[i2].sum
        <5>1. \A g, h \in 1 .. k : g < h => t[g].sum >= t[h].sum
          BY DEF IsState
        <5> QED
          BY <3>1, <3>4, <3>6, <5>1
      <4> DEFINE x == s[i].sum
                 y == s[j].sum
                 u == t[i2].sum
                 v == t[j2].sum
                 e == m[i].sum - m[j].sum
      <4>2. x \in Nat /\ y \in Nat /\ u \in Nat /\ v \in Nat
        BY <3>1
      <4>3. e = (x - y) + (u - v) /\ x - y <= a /\ v >= u
        BY <3>2, <3>3, <4>1
      <4>4. e <= a
        <5> HIDE DEF x, y, u, v, e
        <5> QED
          BY <4>2, <4>3
      <4> QED
        BY <4>4
    <3>7. CASE j <= i
      <4>1. s[j].sum >= s[i].sum
        <5>1. \A g, h \in 1 .. k : g < h => s[g].sum >= s[h].sum
          BY DEF IsState
        <5>2. j < i => s[j].sum >= s[i].sum
          BY <5>1
        <5>3. i = j \/ j < i
          BY <3>7
        <5>4. i = j => s[j].sum >= s[i].sum
          BY <3>1
        <5> QED
          BY <5>2, <5>3, <5>4
      <4> DEFINE x == s[i].sum
                 y == s[j].sum
                 u == t[i2].sum
                 v == t[j2].sum
                 e == m[i].sum - m[j].sum
      <4>2. x \in Nat /\ y \in Nat /\ u \in Nat /\ v \in Nat
        BY <3>1
      <4>3. e = (x - y) + (u - v) /\ u - v <= b /\ y >= x
        BY <3>2, <3>3, <4>1
      <4>4. e <= b
        <5> HIDE DEF x, y, u, v, e
        <5> QED
          BY <4>2, <4>3
      <4> QED
        BY <4>4
    <3> QED
      BY <3>6, <3>7
  <2>2. \A i \in 1 .. k : m[i].sum \in Nat
    BY <1>7 DEF RowSets
  <2>3. a <= b => Gap(m, k, b)
    BY <2>1, <2>2 DEF Gap
  <2>4. b <= a => Gap(m, k, a)
    BY <2>1, <2>2 DEF Gap
  <2> QED
    BY <2>3, <2>4
<1>14. /\ IsState(Decreasing(m), w, k)
       /\ \A r : Has(Decreasing(m), r) <=> Has(m, r)
       /\ Filled(m, k) => Filled(Decreasing(m), k)
       /\ \A c : HasSize(m, k, c) => HasSize(Decreasing(m), k, c)
       /\ \A b : Gap(m, k, b) => Gap(Decreasing(m), k, b)
  <2>1. w \in [1 .. n -> Nat]
    OBVIOUS
  <2> QED
    BY <1>9, <2>1, DecreasingState
<1> QED
  BY <1>3, <1>10, <1>11, <1>12, <1>13, <1>14

\* The sum over one element.
LEMMA SumSingle ==
  ASSUME NEW x, NEW f, f[x] \in Int PROVE SumOf(f, {x}) = f[x]
<1> DEFINE S == {x}
<1>1. IsFiniteSet(S) /\ (\A y \in S : f[y] \in Int) /\ x \in S
  BY FS_Singleton
<1>2. S \ {x} = {}
  OBVIOUS
<1> HIDE DEF S
<1>3. SumOf(f, S) = f[x] + SumOf(f, S \ {x})
  BY <1>1, SumRemove
<1>4. SumOf(f, S \ {x}) = 0
  BY <1>2, SumEmpty
<1> QED
  BY <1>3, <1>4 DEF S

\* The workload that set i of a state is given, of k sets.
Given(rows, w, i) == IF i \in DOMAIN rows THEN w[rows[i]] ELSE 0

\* State.__init__: the rows are in sets of their own.
LEMMA StateOfFacts ==
  ASSUME NEW n \in Nat, NEW w \in [1 .. n -> Nat], NEW k \in Nat,
         NEW rows \in Seq(1 .. n), Len(rows) <= k,
         \A i, j \in DOMAIN rows : rows[i] = rows[j] => i = j
  PROVE  /\ IsState(StateOf(rows, w, k), w, k)
         /\ \A r : Has(StateOf(rows, w, k), r) <=> r \in Range(rows)
         /\ Filled(StateOf(rows, w, k), k)
         /\ Len(rows) = k => HasSize(StateOf(rows, w, k), k, 1)
         /\ \A b : (\A i, j \in 1 .. k : Given(rows, w, i) - Given(rows, w, j) <= b)
                      => Gap(StateOf(rows, w, k), k, b)
<1> DEFINE N == 1 .. n
           m == [i \in 1 .. k |->
                  IF i \in DOMAIN rows THEN [sum |-> w[rows[i]], items |-> <<rows[i]>>]
                                       ELSE [sum |-> 0, items |-> <<>>]]
<1>0. DOMAIN w = N /\ DOMAIN rows = 1 .. Len(rows) /\ Len(rows) \in Nat
  OBVIOUS
<1>1. \A i \in DOMAIN rows : rows[i] \in N /\ w[rows[i]] \in Nat
  OBVIOUS
<1>2. StateOf(rows, w, k) = Decreasing(m)
  BY DEF StateOf
<1>3. ASSUME NEW i \in 1 .. k
      PROVE  /\ m[i].sum = Given(rows, w, i)
             /\ i \in DOMAIN rows => m[i].items = <<rows[i]>>
             /\ i \notin DOMAIN rows => m[i].items = <<>>
  BY DEF Given
<1>4. m \in [1 .. k -> RowSets(N)]
  <2>1. ASSUME NEW i \in 1 .. k PROVE m[i] \in RowSets(N)
    <3>1. CASE i \in DOMAIN rows
      <4>1. rows[i] \in N /\ w[rows[i]] \in Nat
        BY <1>1, <3>1
      <4> QED
        BY <3>1, <4>1 DEF RowSets
    <3>2. CASE i \notin DOMAIN rows
      BY <3>2 DEF RowSets
    <3> QED
      BY <3>1, <3>2
  <2> QED
    BY <2>1
<1> HIDE DEF m
<1>5. ASSUME NEW i \in 1 .. k, i \in DOMAIN rows
      PROVE  /\ DOMAIN m[i].items = {1} /\ m[i].items[1] = rows[i] /\ Len(m[i].items) = 1
             /\ Range(m[i].items) = {rows[i]}
  <2>1. m[i].items = <<rows[i]>>
    BY <1>3, <1>5
  <2>2. \A r : DOMAIN <<r>> = {1} /\ <<r>>[1] = r /\ Len(<<r>>) = 1
    OBVIOUS
  <2>3. DOMAIN m[i].items = {1} /\ m[i].items[1] = rows[i] /\ Len(m[i].items) = 1
    BY <2>1, <2>2
  <2>4. Range(m[i].items) = {m[i].items[1]}
    BY <2>3 DEF Range
  <2> QED
    BY <2>3, <2>4
<1>6. ASSUME NEW i \in 1 .. k, i \notin DOMAIN rows
      PROVE  DOMAIN m[i].items = {} /\ Len(m[i].items) = 0 /\ Range(m[i].items) = {}
  BY <1>3, <1>6 DEF Range
<1>7. PreState(m, w, k)
  <2>1. ASSUME NEW i \in 1 .. k PROVE m[i].sum = SumOf(w, Range(m[i].items))
    <3>1. CASE i \in DOMAIN rows
      <4>1. m[i].sum = w[rows[i]] /\ w[rows[i]] \in Int
        BY <1>1, <1>3, <3>1 DEF Given
      <4>2. SumOf(w, {rows[i]}) = w[rows[i]]
        BY <4>1, SumSingle
      <4>3. Range(m[i].items) = {rows[i]}
        BY <1>5, <3>1
      <4> QED
        BY <4>1, <4>2, <4>3
    <3>2. CASE i \notin DOMAIN rows
      BY <1>3, <1>6, <3>2, SumEmpty DEF Given
    <3> QED
      BY <3>1, <3>2
  <2>2. ASSUME NEW i \in 1 .. k, NEW j \in 1 .. k,
               NEW a \in DOMAIN m[i].items, NEW b \in DOMAIN m[j].items,
               m[i].items[a] = m[j].items[b]
        PROVE  i = j /\ a = b
    <3>1. i \in DOMAIN rows /\ j \in DOMAIN rows
      BY <1>6
    <3>2. a = 1 /\ b = 1 /\ rows[i] = rows[j]
      BY <1>5, <2>2, <3>1
    <3> QED
      BY <3>1, <3>2
  <2> QED
    BY <1>0, <1>4, <2>1, <2>2 DEF PreState
<1>8. \A r : Has(m, r) <=> r \in Range(rows)
  <2>0. DOMAIN m = 1 .. k
    BY <1>4
  <2>1. ASSUME NEW r, Has(m, r) PROVE r \in Range(rows)
    <3>1. PICK i \in 1 .. k : \E a \in DOMAIN m[i].items : m[i].items[a] = r
      BY <2>0, <2>1 DEF Has
    <3>2. i \in DOMAIN rows
      BY <1>6, <3>1
    <3>3. r = rows[i]
      BY <1>5, <3>1, <3>2
    <3> QED
      BY <3>2, <3>3 DEF Range
  <2>2. ASSUME NEW r, r \in Range(rows) PROVE Has(m, r)
    <3>1. PICK i \in DOMAIN rows : rows[i] = r
      BY <2>2 DEF Range
    <3>2. i \in 1 .. k
      BY <1>0
    <3>3. 1 \in DOMAIN m[i].items /\ m[i].items[1] = r
      BY <1>5, <3>1, <3>2
    <3> QED
      BY <2>0, <3>2, <3>3 DEF Has
  <2> QED
    BY <2>1, <2>2
<1>9. Filled(m, k)
  <2>1. ASSUME NEW i \in 1 .. k PROVE Len(m[i].items) <= 1
    <3> DEFINE l == Len(m[i].items)
    <3>1. l = 1 \/ l = 0
      BY <1>5, <1>6
    <3>2. l <= 1
      <4> HIDE DEF l
      <4> QED
        BY <3>1
    <3> QED
      BY <3>2
  <2> QED
    BY <2>1 DEF Filled
<1>10. ASSUME Len(rows) = k PROVE HasSize(m, k, 1)
  BY <1>0, <1>5, <1>10 DEF HasSize
<1>11. ASSUME NEW b, \A i, j \in 1 .. k : Given(rows, w, i) - Given(rows, w, j) <= b
       PROVE  Gap(m, k, b)
  BY <1>3, <1>11 DEF Gap
<1>12. /\ IsState(Decreasing(m), w, k)
       /\ \A r : Has(Decreasing(m), r) <=> Has(m, r)
       /\ Filled(m, k) => Filled(Decreasing(m), k)
       /\ \A c : HasSize(m, k, c) => HasSize(Decreasing(m), k, c)
       /\ \A b : Gap(m, k, b) => Gap(Decreasing(m), k, b)
  BY <1>7, DecreasingState
<1> QED
  BY <1>2, <1>8, <1>9, <1>10, <1>11, <1>12

-----------------------------------------------------------------------------
(* The heap. *)

\* A finite set has an element that none is popped before.
LEMMA TopExists ==
  ASSUME NEW n \in Nat, NEW w \in [1 .. n -> Nat], NEW k \in Nat \ {0},
         NEW heap, IsFiniteSet(heap), heap # {}, \A s \in heap : IsState(s, w, k)
  PROVE  Top(heap) \in heap
<1> DEFINE N == 1 .. n
           Pred(x) == {u \in heap : PoppedBefore(u, x)}
           C == {Cardinality(Pred(x)) : x \in heap}
<1>1. ASSUME NEW s \in heap
      PROVE  Spread(s) \in Int /\ s[1] \in RowSets(Nat)
  <2>1. s \in [1 .. k -> RowSets(N)] /\ N \in SUBSET Nat
    BY DEF IsState, PreState
  <2>2. Len(s) = k
    BY <2>1, FunctionIsSeq
  <2>3. s[1] \in RowSets(N) /\ s[k] \in RowSets(N)
    BY <2>1
  <2>4. RowSets(N) \subseteq RowSets(Nat)
    BY <2>1, SeqOfSubset DEF RowSets
  <2>5. s[1].sum \in Nat /\ s[k].sum \in Nat
    BY <2>3 DEF RowSets
  <2> QED
    BY <2>2, <2>3, <2>4, <2>5 DEF Spread
<1>2. \A s \in heap : ~ PoppedBefore(s, s)
  BY <1>1, SetBeforeIrreflexive DEF PoppedBefore
<1>3. ASSUME NEW s \in heap, NEW t \in heap, NEW u \in heap, PoppedBefore(s, t), PoppedBefore(t, u)
      PROVE  PoppedBefore(s, u)
  <2>1. Spread(s) \in Int /\ Spread(t) \in Int /\ Spread(u) \in Int
    BY <1>1
  <2>2. CASE Spread(s) > Spread(u)
    BY <2>2 DEF PoppedBefore
  <2>3. CASE ~ (Spread(s) > Spread(u))
    <3>1. Spread(s) = Spread(t) /\ Spread(t) = Spread(u)
      BY <1>3, <2>1, <2>3 DEF PoppedBefore
    <3>2. SetBefore(t[1], s[1]) /\ SetBefore(u[1], t[1])
      BY <1>3, <2>1, <3>1 DEF PoppedBefore
    <3>3. SetBefore(u[1], s[1])
      BY <1>1, <3>2, SetBeforeTransitive
    <3> QED
      BY <3>1, <3>3 DEF PoppedBefore
  <2> QED
    BY <2>2, <2>3
<1>4. \A x \in heap : IsFiniteSet(Pred(x)) /\ Cardinality(Pred(x)) \in Nat
  BY FS_Subset, FS_CardinalityType
<1>5. C \in SUBSET Nat /\ C # {}
  BY <1>4
<1>6. PICK c \in C : \A d \in C : c <= d
  <2> HIDE DEF C
  <2> QED
    BY <1>5, LeastNat
<1>7. PICK x \in heap : c = Cardinality(Pred(x))
  BY <1>6
<1>8. ASSUME NEW t \in heap PROVE ~ PoppedBefore(t, x)
  <2> SUFFICES ASSUME PoppedBefore(t, x) PROVE FALSE
    OBVIOUS
  <2>1. Pred(t) \in SUBSET (Pred(x) \ {t}) /\ t \in Pred(x)
    BY <1>2, <1>3
  <2>2. Cardinality(Pred(t)) \in C
    OBVIOUS
  <2>3. c <= Cardinality(Pred(t))
    <3> HIDE DEF C
    <3> QED
      BY <1>6, <2>2
  <2>4. IsFiniteSet(Pred(x)) /\ Cardinality(Pred(x)) \in Nat /\ Cardinality(Pred(t)) \in Nat
    BY <1>4
  <2> HIDE DEF Pred, C
  <2>5. Cardinality(Pred(x) \ {t}) = Cardinality(Pred(x)) - 1 /\ IsFiniteSet(Pred(x) \ {t})
    BY <2>1, <2>4, FS_RemoveElement
  <2>6. Cardinality(Pred(t)) <= Cardinality(Pred(x) \ {t})
    BY <2>1, <2>5, FS_Subset
  <2> QED
    BY <1>7, <2>3, <2>4, <2>5, <2>6
<1>9. \E s \in heap : \A t \in heap : ~ PoppedBefore(t, s)
  BY <1>8
<1> QED
  BY <1>9 DEF Top

\* The states on the heap have the rows 1 .. n between them.
Heap(h, w, n, k) ==
    /\ IsFiniteSet(h) /\ h # {}
    /\ \A s \in h : IsState(s, w, k) /\ Filled(s, k) /\ \E r \in 1 .. n : Has(s, r)
    /\ \A s, t \in h : (\E r \in 1 .. n : Has(s, r) /\ Has(t, r)) => s = t
    /\ \A r \in 1 .. n : \E s \in h : Has(s, r)

\* In each state the sets are of one size, and their sums differ by no more
\* than a bound of B.
Sized(h, k) == \A s \in h : \E m \in Nat : HasSize(s, k, m)

Gaps(h, k, B) == \A s \in h : \E b \in B : Gap(s, k, b)

\* Only rows 1 .. n are in a state.
LEMMA HasRow ==
  ASSUME NEW n \in Nat, NEW w \in [1 .. n -> Nat], NEW k \in Nat, NEW s, IsState(s, w, k),
         NEW r, Has(s, r)
  PROVE  r \in 1 .. n
<1> DEFINE N == 1 .. n
<1>1. s \in [1 .. k -> RowSets(N)]
  BY DEF IsState, PreState
<1>2. PICK i \in 1 .. k : \E a \in DOMAIN s[i].items : s[i].items[a] = r
  BY <1>1 DEF Has
<1>3. s[i].items \in Seq(N)
  BY <1>1 DEF RowSets
<1> QED
  BY <1>2, <1>3, SeqElement

\* One round of the loop of the differencing method takes two states off the
\* heap and puts their merge on it: the heap stays one of states that have
\* every row once, is smaller by one, and keeps the sizes of the sets and the
\* bounds on the differences of their sums.
LEMMA MergeTwoFacts ==
  ASSUME NEW n \in Nat, NEW w \in [1 .. n -> Nat \ {0}], NEW k \in Nat \ {0},
         NEW h, Heap(h, w, n, k), Cardinality(h) > 1
  PROVE  /\ Heap(MergeTwo(h), w, n, k)
         /\ Cardinality(MergeTwo(h)) = Cardinality(h) - 1
         /\ Sized(h, k) => Sized(MergeTwo(h), k)
         /\ \A B \in SUBSET Int : Gaps(h, k, B) => Gaps(MergeTwo(h), k, B)
<1> DEFINE s == Top(h)
           t == Top(h \ {s})
           m == Merged(s, t)
           rest == h \ {s, t}
<1>0. w \in [1 .. n -> Nat]
  OBVIOUS
<1>1. IsFiniteSet(h) /\ h # {} /\ (\A u \in h : IsState(u, w, k)) /\ Cardinality(h) \in Nat
  BY FS_CardinalityType DEF Heap
<1>2. s \in h
  BY <1>0, <1>1, TopExists
<1> HIDE DEF s
<1>3. IsFiniteSet(h \ {s}) /\ Cardinality(h \ {s}) = Cardinality(h) - 1
  BY <1>1, <1>2, FS_RemoveElement
<1>4. h \ {s} # {}
  <2> SUFFICES ASSUME h \ {s} = {} PROVE FALSE
    OBVIOUS
  <2>1. Cardinality({}) = 0
    BY FS_EmptySet
  <2>2. Cardinality(h \ {s}) = 0
    BY <2>1
  <2> QED
    BY <1>1, <1>3, <2>2
<1>5. t \in h \ {s}
  <2> DEFINE g == h \ {s}
  <2>1. IsFiniteSet(g) /\ g # {} /\ \A u \in g : IsState(u, w, k)
    BY <1>1, <1>3, <1>4
  <2> HIDE DEF g
  <2>2. Top(g) \in g
    BY <1>0, <2>1, TopExists
  <2> QED
    BY <2>2 DEF g
<1> HIDE DEF t
<1>6. IsFiniteSet(rest) /\ Cardinality(rest) = Cardinality(h) - 2
  <2>1. rest = (h \ {s}) \ {t}
    OBVIOUS
  <2>2. IsFiniteSet((h \ {s}) \ {t}) /\ Cardinality((h \ {s}) \ {t}) = Cardinality(h \ {s}) - 1
    BY <1>3, <1>5, FS_RemoveElement
  <2> HIDE DEF rest
  <2>3. IsFiniteSet(rest) /\ Cardinality(rest) = Cardinality(h \ {s}) - 1
    BY <2>1, <2>2
  <2> QED
    BY <1>1, <1>3, <2>3
<1>7. \A r : ~ (Has(s, r) /\ Has(t, r))
  <2> SUFFICES ASSUME NEW r, Has(s, r), Has(t, r) PROVE FALSE
    OBVIOUS
  <2>1. r \in 1 .. n
    BY <1>0, <1>1, <1>2, HasRow
  <2> QED
    BY <1>2, <1>5, <2>1 DEF Heap
<1>8. /\ IsState(m, w, k)
      /\ \A r : Has(m, r) <=> Has(s, r) \/ Has(t, r)
      /\ Filled(s, k) /\ Filled(t, k) => Filled(m, k)
      /\ \A a, b \in Nat : HasSize(s, k, a) /\ HasSize(t, k, b) => HasSize(m, k, a + b)
      /\ \A a, b \in Int : Gap(s, k, a) /\ Gap(t, k, b) => Gap(m, k, a) \/ Gap(m, k, b)
  <2>1. IsState(s, w, k) /\ IsState(t, w, k)
    BY <1>1, <1>2, <1>5
  <2> QED
    BY <1>7, <2>1, MergedFacts
<1>9. MergeTwo(h) = rest \cup {m}
  BY DEF MergeTwo, s, t
<1> HIDE DEF m, rest
<1>10. rest \in SUBSET h /\ s \notin rest /\ t \notin rest /\ \A u \in h : u = s \/ u = t \/ u \in rest
  BY DEF rest
<1>11. ASSUME NEW u \in rest, NEW r \in 1 .. n, Has(u, r), Has(m, r) PROVE FALSE
  <2>1. Has(s, r) \/ Has(t, r)
    BY <1>8, <1>11
  <2> QED
    BY <1>2, <1>5, <1>10, <1>11, <2>1 DEF Heap
<1>12. PICK r0 \in 1 .. n : Has(m, r0)
  BY <1>2, <1>8 DEF Heap
<1>13. m \notin rest
  BY <1>11, <1>12
<1>14. IsFiniteSet(rest \cup {m}) /\ Cardinality(rest \cup {m}) = Cardinality(h) - 1
  <2>1. IsFiniteSet(rest \cup {m}) /\ Cardinality(rest \cup {m}) = Cardinality(rest) + 1
    BY <1>6, <1>13, FS_AddElement
  <2> QED
    BY <1>1, <1>6, <2>1
<1>15. Filled(m, k)
  BY <1>2, <1>5, <1>8 DEF Heap
<1>16. Heap(rest \cup {m}, w, n, k)
  <2>1. ASSUME NEW u \in rest \cup {m}
        PROVE  IsState(u, w, k) /\ Filled(u, k) /\ \E r \in 1 .. n : Has(u, r)
    <3>1. CASE u \in rest
      BY <1>10, <3>1 DEF Heap
    <3>2. CASE u = m
      BY <1>8, <1>12, <1>15, <3>2
    <3> QED
      BY <3>1, <3>2
  <2>2. ASSUME NEW u \in rest \cup {m}, NEW v \in rest \cup {m}, NEW r \in 1 .. n, Has(u, r), Has(v, r)
        PROVE  u = v
    <3>1. CASE u \in rest /\ v \in rest
      BY <1>10, <2>2, <3>1 DEF Heap
    <3>2. CASE u = m \/ v = m
      BY <1>11, <2>2, <3>2
    <3> QED
      BY <3>1, <3>2
  <2>3. ASSUME NEW r \in 1 .. n PROVE \E u \in rest \cup {m} : Has(u, r)
    <3>1. PICK u \in h : Has(u, r)
      BY DEF Heap
    <3> QED
      BY <1>8, <1>10, <3>1
  <2> QED
    BY <1>14, <2>1, <2>2, <2>3 DEF Heap
<1>17. ASSUME Sized(h, k) PROVE Sized(rest \cup {m}, k)
  <2>1. PICK a \in Nat : HasSize(s, k, a)
    BY <1>2, <1>17 DEF Sized
  <2>2. PICK b \in Nat : HasSize(t, k, b)
    BY <1>5, <1>17 DEF Sized
  <2>3. HasSize(m, k, a + b) /\ a + b \in Nat
    BY <1>8, <2>1, <2>2
  <2> QED
    BY <1>10, <1>17, <2>3 DEF Sized
<1>18. ASSUME NEW B \in SUBSET Int, Gaps(h, k, B) PROVE Gaps(rest \cup {m}, k, B)
  <2>1. PICK a \in B : Gap(s, k, a)
    BY <1>2, <1>18 DEF Gaps
  <2>2. PICK b \in B : Gap(t, k, b)
    BY <1>5, <1>18 DEF Gaps
  <2>3. Gap(m, k, a) \/ Gap(m, k, b)
    BY <1>8, <2>1, <2>2
  <2> QED
    BY <1>10, <1>18, <2>3 DEF Gaps
<1> QED
  BY <1>9, <1>14, <1>16, <1>17, <1>18

\* The heap after each merge.
Heaps(states, last) == CHOOSE heap : heap = [m \in 0 .. last |->
                           IF m = 0 THEN states ELSE MergeTwo(heap[m - 1])]

\* Heaps has the heap after each merge: every heap is MergeTwo of the one
\* before.
LEMMA HeapsDefined ==
  ASSUME NEW states, NEW last \in Nat
  PROVE  /\ Heaps(states, last)[0] = states
         /\ \A m \in Nat : m < last =>
               Heaps(states, last)[m + 1] = MergeTwo(Heaps(states, last)[m])
<1> DEFINE Is(h, l) == h = [m \in 0 .. l |-> IF m = 0 THEN states ELSE MergeTwo(h[m - 1])]
           T == {l \in Nat : \E h : Is(h, l)}
<1>1. 0 \in T
  <2>1. Is([m \in 0 .. 0 |-> states], 0)
    OBVIOUS
  <2> QED
    BY <2>1
<1>2. ASSUME NEW l \in Nat, l \in T PROVE l + 1 \in T
  <2>1. PICK g : Is(g, l)
    BY <1>2
  <2> DEFINE h == [m \in 0 .. l + 1 |-> IF m = l + 1 THEN MergeTwo(g[l]) ELSE g[m]]
  <2>2. \A m \in 0 .. l : h[m] = g[m]
    OBVIOUS
  <2>3. h[l + 1] = MergeTwo(h[l])
    OBVIOUS
  <2>4. \A m \in 0 .. l : g[m] = IF m = 0 THEN states ELSE MergeTwo(g[m - 1])
    BY <2>1
  <2>5. ASSUME NEW m \in 0 .. l + 1
        PROVE  h[m] = IF m = 0 THEN states ELSE MergeTwo(h[m - 1])
    <3> HIDE DEF h
    <3>1. CASE m = l + 1
      BY <2>3, <3>1
    <3>2. CASE m = 0
      BY <2>2, <2>4, <3>2
    <3>3. CASE m # l + 1 /\ m # 0
      <4>1. m \in 0 .. l /\ m - 1 \in 0 .. l
        BY <3>3
      <4> QED
        BY <2>2, <2>4, <3>3, <4>1
    <3> QED
      BY <3>1, <3>2, <3>3
  <2>6. DOMAIN h = 0 .. l + 1 /\ h = [m \in DOMAIN h |-> h[m]]
    OBVIOUS
  <2> HIDE DEF h
  <2>7. Is(h, l + 1)
    BY <2>5, <2>6
  <2> QED
    BY <2>7
<1> HIDE DEF T
<1>3. last \in T
  BY <1>1, <1>2, NatSetInduction
<1>4. Is(Heaps(states, last), last)
  BY <1>3 DEF T, Heaps
<1> DEFINE f == Heaps(states, last)
<1> HIDE DEF f
<1>5. f = [m \in 0 .. last |-> IF m = 0 THEN states ELSE MergeTwo(f[m - 1])]
  BY <1>4 DEF f
<1>6. f[0] = states
  BY <1>5
<1>7. ASSUME NEW m \in Nat, m < last PROVE f[m + 1] = MergeTwo(f[m])
  <2>1. m + 1 \in 0 .. last /\ m + 1 # 0 /\ (m + 1) - 1 = m
    BY <1>7
  <2> QED
    BY <1>5, <2>1
<1> QED
  BY <1>6, <1>7 DEF f

\* A single state is left, which has all the rows.
LEMMA MergeAllFacts ==
  ASSUME NEW n \in Nat, NEW w \in [1 .. n -> Nat \ {0}], NEW k \in Nat \ {0},
         NEW states, Heap(states, w, n, k)
  PROVE  /\ IsState(MergeAll(states), w, k)
         /\ Filled(MergeAll(states), k)
         /\ \A r \in 1 .. n : Has(MergeAll(states), r)
         /\ Sized(states, k) => \E m \in Nat : HasSize(MergeAll(states), k, m)
         /\ \A B \in SUBSET Int : Gaps(states, k, B) => \E b \in B : Gap(MergeAll(states), k, b)
<1> DEFINE last == Cardinality(states) - 1
           h == Heaps(states, last)
           Good(m) == /\ Heap(h[m], w, n, k)
                      /\ Cardinality(h[m]) = last + 1 - m
                      /\ Sized(states, k) => Sized(h[m], k)
                      /\ \A B \in SUBSET Int : Gaps(states, k, B) => Gaps(h[m], k, B)
           T == {m \in Nat : m <= last => Good(m)}
<1>1. last \in Nat
  <2>1. Cardinality(states) \in Nat /\ IsFiniteSet(states) /\ states # {}
    BY FS_CardinalityType DEF Heap
  <2>2. Cardinality(states) # 0
    BY <2>1, FS_EmptySet
  <2> QED
    BY <2>1, <2>2
<1>2. MergeAll(states) = Top(h[last])
  BY DEF MergeAll, Heaps
<1>3. Cardinality(states) = last + 1
  <2>1. Cardinality(states) \in Nat
    BY FS_CardinalityType DEF Heap
  <2> QED
    BY <2>1
<1> HIDE DEF last
<1>4. h[0] = states /\ \A m \in Nat : m < last => h[m + 1] = MergeTwo(h[m])
  BY <1>1, HeapsDefined
<1> HIDE DEF h
<1>5. 0 \in T
  BY <1>1, <1>3, <1>4
<1>6. ASSUME NEW m \in Nat, m \in T PROVE m + 1 \in T
  <2> SUFFICES ASSUME m + 1 <= last PROVE Good(m + 1)
    OBVIOUS
  <2>1. Good(m) /\ m < last
    BY <1>1, <1>6
  <2>2. Heap(h[m], w, n, k) /\ Cardinality(h[m]) > 1
    BY <1>1, <2>1
  <2> DEFINE g == h[m]
  <2>3. h[m + 1] = MergeTwo(g)
    BY <1>4, <2>1
  <2>4. Heap(g, w, n, k) /\ Cardinality(g) > 1
    BY <2>2
  <2>5. Cardinality(g) = last + 1 - m
    BY <2>1
  <2>6. (Sized(states, k) => Sized(g, k)) /\ \A B \in SUBSET Int : Gaps(states, k, B) => Gaps(g, k, B)
    BY <2>1
  <2> HIDE DEF g
  <2>7. /\ Heap(MergeTwo(g), w, n, k)
        /\ Cardinality(MergeTwo(g)) = Cardinality(g) - 1
        /\ Sized(g, k) => Sized(MergeTwo(g), k)
        /\ \A B \in SUBSET Int : Gaps(g, k, B) => Gaps(MergeTwo(g), k, B)
    BY <2>4, MergeTwoFacts
  <2>8. Cardinality(MergeTwo(g)) = last + 1 - (m + 1)
    <3> DEFINE c == Cardinality(g)
               d == Cardinality(MergeTwo(g))
    <3>1. c = last + 1 - m /\ d = c - 1
      BY <2>5, <2>7
    <3> HIDE DEF c, d
    <3>2. d = last + 1 - (m + 1)
      BY <1>1, <3>1
    <3> QED
      BY <3>2 DEF d
  <2> QED
    BY <2>3, <2>6, <2>7, <2>8
<1>7. Good(last)
  <2> HIDE DEF T
  <2>1. last \in T
    BY <1>1, <1>5, <1>6, NatSetInduction
  <2> QED
    BY <1>1, <2>1 DEF T
<1> DEFINE g == h[last]
           f == Top(g)
<1>8. /\ Heap(g, w, n, k) /\ Cardinality(g) = 1
      /\ Sized(states, k) => Sized(g, k)
      /\ \A B \in SUBSET Int : Gaps(states, k, B) => Gaps(g, k, B)
  BY <1>1, <1>7
<1> HIDE DEF g
<1>9. IsFiniteSet(g) /\ \A s \in g : IsState(s, w, k)
  BY <1>8 DEF Heap
<1>10. f \in g
  <2>1. g # {} /\ w \in [1 .. n -> Nat]
    BY <1>8 DEF Heap
  <2> QED
    BY <1>9, <2>1, TopExists
<1> HIDE DEF f
<1>11. \A s \in g : s = f
  <2>1. PICK x : g = {x}
    BY <1>8, <1>9, FS_Singleton
  <2> QED
    BY <1>10, <2>1
<1>12. MergeAll(states) = f
  BY <1>2 DEF f, g
<1>13. \A r \in 1 .. n : Has(f, r)
  BY <1>8, <1>11 DEF Heap
<1> QED
  BY <1>8, <1>10, <1>12, <1>13 DEF Heap, Sized, Gaps

\* The quotient and the remainder.
LEMMA Division ==
  ASSUME NEW a \in Nat, NEW b \in Nat \ {0}
  PROVE  a \div b \in Nat /\ a % b \in 0 .. b - 1 /\ a = (a \div b) * b + (a % b)
OBVIOUS

\* A quotient and a remainder are the only ones.
LEMMA DivisionUnique ==
  ASSUME NEW a \in Nat, NEW b \in Nat \ {0}, NEW q \in Nat, NEW r \in 0 .. b - 1, a = q * b + r
  PROVE  a \div b = q /\ a % b = r
<1>1. a \div b = q
  OBVIOUS
<1>2. a % b = r
  OBVIOUS
<1> QED
  BY <1>1, <1>2

\* Position i of block g, of b positions each.
Place(b, g, i) == g * b + i

\* The c blocks of b positions are the positions 1 .. c * b.
Places(b, c) ==
    /\ \A g \in 0 .. c - 1 : \A i \in 1 .. b : Place(b, g, i) \in 1 .. c * b
    /\ \A g, h \in 0 .. c - 1 : \A i, j \in 1 .. b :
          Place(b, g, i) = Place(b, h, j) => g = h /\ i = j
    /\ \A p \in 1 .. c * b : \E g \in 0 .. c - 1 : \E i \in 1 .. b : p = Place(b, g, i)

\* The positions 1 .. c * b are those of c blocks of b.
LEMMA PlacesFacts ==
  ASSUME NEW b \in Nat \ {0}, NEW c \in Nat
  PROVE  Places(b, c)
<1>1. ASSUME NEW g \in 0 .. c - 1, NEW i \in 1 .. b PROVE Place(b, g, i) \in 1 .. c * b
  <2>1. (g + 1) * b <= c * b /\ (g + 1) * b = g * b + b /\ g * b \in Nat
    OBVIOUS
  <2> QED
    BY <2>1 DEF Place
<1>2. ASSUME NEW g \in 0 .. c - 1, NEW h \in 0 .. c - 1, NEW i \in 1 .. b, NEW j \in 1 .. b,
             Place(b, g, i) = Place(b, h, j)
      PROVE  g = h /\ i = j
  <2> DEFINE x == i - 1
             y == j - 1
             a == g * b + x
  <2>1. a \in Nat /\ a = g * b + x /\ a = h * b + y /\ x \in 0 .. b - 1 /\ y \in 0 .. b - 1
    BY <1>2 DEF Place
  <2> HIDE DEF a, x, y
  <2>2. a \div b = g
    BY <2>1
  <2>3. a \div b = h
    BY <2>1
  <2>4. x = y
    BY <2>1, <2>2, <2>3
  <2> QED
    BY <2>2, <2>3, <2>4 DEF x, y
<1>3. ASSUME NEW p \in 1 .. c * b
      PROVE  \E g \in 0 .. c - 1 : \E i \in 1 .. b : p = Place(b, g, i)
  <2> DEFINE g == (p - 1) \div b
             i == ((p - 1) % b) + 1
  <2>1. g \in Nat /\ i \in 1 .. b /\ p - 1 = g * b + (i - 1)
    OBVIOUS
  <2> HIDE DEF g, i
  <2>2. p = g * b + i
    BY <2>1
  <2>3. g < c
    <3> SUFFICES ASSUME g >= c PROVE FALSE
      BY <2>1
    <3>1. g * b >= c * b
      BY <2>1
    <3> QED
      BY <2>1, <2>2, <3>1
  <2>4. g \in 0 .. c - 1
    BY <2>1, <2>3
  <2> QED
    BY <2>1, <2>2, <2>4 DEF Place
<1> QED
  BY <1>1, <1>2, <1>3 DEF Places

\* Block g of a sequence.
Block(s, b, g) == SubSeq(s, g * b + 1, (g + 1) * b)

\* The c blocks of a sequence of c * b elements.
Blocks(s, b, c, S) ==
    \A g \in 0 .. c - 1 :
        /\ Block(s, b, g) \in Seq(S)
        /\ Len(Block(s, b, g)) = b
        /\ DOMAIN Block(s, b, g) = 1 .. b
        /\ \A i \in 1 .. b : Block(s, b, g)[i] = s[Place(b, g, i)]

\* What StateOf is given: the c blocks of b of a sequence.
LEMMA BlocksFacts ==
  ASSUME NEW S, NEW b \in Nat \ {0}, NEW c \in Nat, NEW s \in [1 .. c * b -> S]
  PROVE  Blocks(s, b, c, S)
<1>1. ASSUME NEW g \in Nat, g < c
      PROVE  /\ Block(s, b, g) \in Seq(S)
             /\ Len(Block(s, b, g)) = b
             /\ DOMAIN Block(s, b, g) = 1 .. b
             /\ \A i \in 1 .. b : Block(s, b, g)[i] = s[Place(b, g, i)]
  <2> DEFINE n == c * b
             x == g * b
  <2>0. (g + 1) * b <= n /\ n \in Nat /\ s \in [1 .. n -> S]
    BY <1>1
  <2>1. /\ x \in Nat /\ (g + 1) * b = x + b /\ x + b <= n
        /\ \A i \in 1 .. b : Place(b, g, i) = x + i /\ x + i \in 1 .. n
    <3>1. x \in Nat /\ (g + 1) * b = x + b
      OBVIOUS
    <3>2. x + b <= n
      BY <2>0, <3>1
    <3>3. \A i \in 1 .. b : Place(b, g, i) = x + i
      BY DEF Place
    <3> HIDE DEF n, x
    <3>4. \A i \in 1 .. b : x + i \in 1 .. n
      BY <2>0, <3>1, <3>2
    <3> QED
      BY <3>1, <3>2, <3>3, <3>4
  <2> DEFINE u == SubSeq(s, x + 1, x + b)
  <2>2. Block(s, b, g) = u
    BY <2>1 DEF Block
  <2> HIDE DEF x, n
  <2>3. s \in Seq(S) /\ DOMAIN s = 1 .. n /\ Len(s) = n
    BY <2>0, FunctionIsSeq
  <2>4. x + 1 \in 1 .. n + 1 /\ x + b \in x .. n
    BY <2>0, <2>1
  <2>5. Len(u) = b
    BY <2>0, <2>1, <2>3, <2>4
  <2>6. \A i \in 1 .. b : u[i] = s[x + i]
    BY <2>0, <2>1, <2>3, <2>4
  <2>7. u \in Seq(S)
    <3>1. \A i \in 1 .. n : s[i] \in S
      BY <2>0
    <3> QED
      BY <2>1, <2>3, <2>4, <3>1
  <2> HIDE DEF u
  <2>8. DOMAIN u = 1 .. b
    BY <2>5, <2>7
  <2>9. \A i \in 1 .. b : u[i] = s[Place(b, g, i)]
    BY <2>1, <2>6
  <2> QED
    BY <2>2, <2>5, <2>7, <2>8, <2>9
<1>2. \A g \in 0 .. c - 1 : g \in Nat /\ g < c
  OBVIOUS
<1> QED
  BY <1>1, <1>2 DEF Blocks

\* A first heap, of sz rows in each state: with the bounds its states begin
\* with.
Started(states, rows, w, n, k, sz, c) ==
    /\ Heap(states, w, n, k)
    /\ sz = k => Sized(states, k)
    /\ sz = k => Gaps(states, k, {w[rows[g * k]] - w[rows[(g - 1) * k + 1]] : g \in 1 .. c})
    /\ sz = 1 => Gaps(states, k, {w[r] : r \in 1 .. n})

\* The states that the differencing method starts with: the rows in their
\* order, sz at a time.
LEMMA FirstHeap ==
  ASSUME NEW n \in Nat, NEW w \in [1 .. n -> Nat \ {0}], NEW k \in Nat \ {0},
         NEW sz \in Nat \ {0}, sz = 1 \/ sz = k, NEW c \in Nat \ {0}, n = c * sz,
         NEW rows \in [1 .. n -> 1 .. n],
         \A i, j \in 1 .. n : rows[i] = rows[j] => i = j,
         \A r \in 1 .. n : \E i \in 1 .. n : rows[i] = r,
         \A i, j \in 1 .. n : i < j => w[rows[i]] <= w[rows[j]],
         NEW states, states = {StateOf(Block(rows, sz, g), w, k) : g \in 0 .. c - 1}
  PROVE  Started(states, rows, w, n, k, sz, c)
<1> DEFINE N == 1 .. n
           R(g) == Block(rows, sz, g)
           S(g) == StateOf(R(g), w, k)
           P(g, i) == Place(sz, g, i)
<1>0. /\ w \in [1 .. n -> Nat] /\ sz \in Nat \ {0} /\ sz <= k
      /\ rows \in [1 .. c * sz -> N]
  <2>1. sz \in Nat \ {0} /\ sz <= k
    <3>1. CASE sz = 1
      BY <3>1
    <3>2. CASE sz = k
      BY <3>2
    <3> QED
      BY <3>1, <3>2
  <2>2. 1 .. n = 1 .. c * sz
    OBVIOUS
  <2>3. w \in [1 .. n -> Nat]
    OBVIOUS
  <2> QED
    BY <2>1, <2>2, <2>3
<1>p. /\ \A g \in 0 .. c - 1 : \A i \in 1 .. sz : P(g, i) \in 1 .. n
      /\ \A g, h \in 0 .. c - 1 : \A i, j \in 1 .. sz : P(g, i) = P(h, j) => g = h /\ i = j
      /\ \A p \in 1 .. n : \E g \in 0 .. c - 1 : \E i \in 1 .. sz : p = P(g, i)
  <2>1. Places(sz, c)
    BY <1>0, PlacesFacts
  <2> QED
    BY <2>1 DEF Places
<1>1. ASSUME NEW g \in 0 .. c - 1
      PROVE  /\ R(g) \in Seq(N) /\ Len(R(g)) = sz /\ DOMAIN R(g) = 1 .. sz
             /\ \A i \in 1 .. sz : R(g)[i] = rows[P(g, i)]
  <2>1. Blocks(rows, sz, c, N)
    <3> HIDE DEF N
    <3> QED
      BY <1>0, BlocksFacts
  <2> QED
    BY <2>1 DEF Blocks
<1> HIDE DEF R, P
<1>2. ASSUME NEW g \in 0 .. c - 1
      PROVE  /\ IsState(S(g), w, k)
             /\ \A r : Has(S(g), r) <=> r \in Range(R(g))
             /\ Filled(S(g), k)
             /\ sz = k => HasSize(S(g), k, 1)
             /\ \A b : (\A i, j \in 1 .. k : Given(R(g), w, i) - Given(R(g), w, j) <= b)
                          => Gap(S(g), k, b)
  <2> DEFINE q == R(g)
  <2>1. q \in Seq(1 .. n) /\ Len(q) <= k /\ Len(q) = sz
    BY <1>0, <1>1
  <2>2. \A i, j \in DOMAIN q : q[i] = q[j] => i = j
    <3> SUFFICES ASSUME NEW i \in 1 .. sz, NEW j \in 1 .. sz, q[i] = q[j] PROVE i = j
      BY <1>1
    <3>1. P(g, i) = P(g, j)
      BY <1>1, <1>p
    <3> QED
      BY <1>p, <3>1
  <2> HIDE DEF q
  <2>3. /\ IsState(StateOf(q, w, k), w, k)
        /\ \A r : Has(StateOf(q, w, k), r) <=> r \in Range(q)
        /\ Filled(StateOf(q, w, k), k)
        /\ Len(q) = k => HasSize(StateOf(q, w, k), k, 1)
        /\ \A b : (\A i, j \in 1 .. k : Given(q, w, i) - Given(q, w, j) <= b)
                      => Gap(StateOf(q, w, k), k, b)
    BY <1>0, <2>1, <2>2, StateOfFacts
  <2> QED
    BY <2>1, <2>3 DEF q
<1>3. states = {S(g) : g \in 0 .. c - 1}
  BY DEF R
<1> HIDE DEF S
<1>4. IsFiniteSet(states) /\ states # {}
  <2> DEFINE I == 0 .. c - 1
             f == [g \in I |-> S(g)]
  <2>1. IsFiniteSet(I) /\ 0 \in I
    BY FS_Interval
  <2>2. f \in Surjection(I, states)
    BY <1>3 DEF Surjection
  <2> HIDE DEF f, I
  <2>3. IsFiniteSet(states)
    BY <2>1, <2>2, FS_Surjection
  <2>4. S(0) \in states
    BY <1>3, <2>1 DEF I
  <2> QED
    BY <2>3, <2>4
<1>5. ASSUME NEW s \in states
      PROVE  IsState(s, w, k) /\ Filled(s, k) /\ \E r \in 1 .. n : Has(s, r)
  <2>1. PICK g \in 0 .. c - 1 : s = S(g)
    BY <1>3
  <2>2. 1 \in DOMAIN R(g) /\ R(g)[1] \in N
    <3>1. 1 \in 1 .. sz
      BY <1>0
    <3>2. 1 \in DOMAIN R(g) /\ R(g)[1] = rows[P(g, 1)]
      BY <1>1, <3>1
    <3>3. P(g, 1) \in 1 .. n
      BY <1>p, <3>1
    <3> QED
      BY <3>2, <3>3
  <2>3. R(g)[1] \in Range(R(g)) /\ R(g)[1] \in 1 .. n
    BY <2>2 DEF Range
  <2> QED
    BY <1>2, <2>1, <2>3
<1>6. ASSUME NEW s \in states, NEW t \in states, NEW r \in 1 .. n, Has(s, r), Has(t, r)
      PROVE  s = t
  <2>1. PICK g \in 0 .. c - 1 : s = S(g)
    BY <1>3
  <2>2. PICK h \in 0 .. c - 1 : t = S(h)
    BY <1>3
  <2>3. PICK i \in 1 .. sz : r = R(g)[i]
    <3>1. r \in Range(R(g)) /\ DOMAIN R(g) = 1 .. sz
      BY <1>1, <1>2, <1>6, <2>1
    <3> QED
      BY <3>1 DEF Range
  <2>4. PICK j \in 1 .. sz : r = R(h)[j]
    <3>1. r \in Range(R(h)) /\ DOMAIN R(h) = 1 .. sz
      BY <1>1, <1>2, <1>6, <2>2
    <3> QED
      BY <3>1 DEF Range
  <2>5. P(g, i) = P(h, j)
    <3>1. P(g, i) \in 1 .. n /\ P(h, j) \in 1 .. n
      BY <1>p
    <3>2. rows[P(g, i)] = R(g)[i]
      BY <1>1
    <3>3. rows[P(h, j)] = R(h)[j]
      BY <1>1
    <3> QED
      BY <2>3, <2>4, <3>1, <3>2, <3>3
  <2>6. g = h
    BY <1>p, <2>5
  <2> QED
    BY <2>1, <2>2, <2>6
<1>7. ASSUME NEW r \in 1 .. n PROVE \E s \in states : Has(s, r)
  <2>1. PICK p \in 1 .. n : rows[p] = r
    OBVIOUS
  <2>2. PICK g \in 0 .. c - 1 : \E i \in 1 .. sz : p = P(g, i)
    BY <1>p
  <2>4. PICK i \in 1 .. sz : p = P(g, i)
    BY <2>2
  <2>5. R(g)[i] = r /\ i \in DOMAIN R(g)
    BY <1>1, <2>1, <2>4
  <2>3. r \in Range(R(g))
    <3> DEFINE q == R(g)
    <3>1. i \in DOMAIN q /\ q[i] = r
      BY <2>5
    <3> HIDE DEF q
    <3>2. r \in Range(q)
      BY <3>1 DEF Range
    <3> QED
      BY <3>2 DEF q
  <2>6. Has(S(g), r)
    BY <1>2, <2>3
  <2>7. S(g) \in states
    BY <1>3
  <2> QED
    BY <2>6, <2>7
<1>8. Heap(states, w, n, k)
  BY <1>4, <1>5, <1>6, <1>7 DEF Heap
<1>9. ASSUME sz = k PROVE Sized(states, k)
  <2>1. \A g \in 0 .. c - 1 : HasSize(S(g), k, 1)
    BY <1>2, <1>9
  <2>2. ASSUME NEW s \in states PROVE HasSize(s, k, 1)
    <3>1. PICK g \in 0 .. c - 1 : s = S(g)
      BY <1>3
    <3> QED
      BY <2>1, <3>1
  <2> QED
    BY <2>2 DEF Sized
<1>10. ASSUME sz = k
       PROVE  Gaps(states, k, {w[rows[g * k]] - w[rows[(g - 1) * k + 1]] : g \in 1 .. c})
  <2> SUFFICES ASSUME NEW s \in states
               PROVE  \E b \in {w[rows[g * k]] - w[rows[(g - 1) * k + 1]] : g \in 1 .. c} : Gap(s, k, b)
    BY DEF Gaps
  <2>1. PICK g \in 0 .. c - 1 : s = S(g)
    BY <1>3
  <2> DEFINE b == w[rows[(g + 1) * k]] - w[rows[g * k + 1]]
             x == g * k
  <2>2. b \in {w[rows[h * k]] - w[rows[(h - 1) * k + 1]] : h \in 1 .. c}
    <3>1. g + 1 \in 1 .. c /\ (g + 1) - 1 = g
      OBVIOUS
    <3> QED
      BY <3>1
  <2>3. \A i \in 1 .. k : Given(R(g), w, i) = w[rows[x + i]] /\ x + i \in 1 .. n
    <3>1. \A i \in 1 .. k : P(g, i) = x + i
      BY <1>10 DEF P, Place
    <3>2. \A i \in 1 .. k : i \in DOMAIN R(g) /\ R(g)[i] = rows[P(g, i)] /\ P(g, i) \in 1 .. n
      BY <1>1, <1>10, <1>p
    <3> HIDE DEF x
    <3>3. ASSUME NEW i \in 1 .. k PROVE Given(R(g), w, i) = w[rows[x + i]] /\ x + i \in 1 .. n
      <4>1. P(g, i) = x + i
        BY <3>1
      <4>2. i \in DOMAIN R(g) /\ R(g)[i] = rows[P(g, i)] /\ P(g, i) \in 1 .. n
        BY <3>2
      <4>3. Given(R(g), w, i) = w[rows[P(g, i)]]
        BY <4>2 DEF Given
      <4> QED
        BY <4>1, <4>2, <4>3
    <3> QED
      BY <3>3
  <2>4. ASSUME NEW i \in 1 .. k, NEW j \in 1 .. k
        PROVE  Given(R(g), w, i) - Given(R(g), w, j) <= b
    <3>1. x + 1 \in 1 .. n /\ x + k \in 1 .. n /\ x + i \in 1 .. n /\ x + j \in 1 .. n
      <4>1. 1 \in 1 .. k /\ k \in 1 .. k
        OBVIOUS
      <4> QED
        BY <2>3, <4>1
    <3>2. (g + 1) * k = x + k
      OBVIOUS
    <3> HIDE DEF x
    <3>3. w[rows[x + i]] <= w[rows[x + k]]
      <4>1. x + i < x + k \/ x + i = x + k
        <5>1. x \in Nat
          BY DEF x
        <5> QED
          BY <5>1
      <4>2. CASE x + i < x + k
        BY <3>1, <4>2
      <4>3. CASE x + i = x + k
        <5> DEFINE v == w[rows[x + k]]
        <5>1. v \in Nat /\ w[rows[x + i]] = v
          BY <3>1, <4>3
        <5> HIDE DEF v
        <5>2. v <= v
          BY <5>1
        <5> QED
          BY <5>1, <5>2 DEF v
      <4> QED
        BY <4>1, <4>2, <4>3
    <3>4. w[rows[x + 1]] <= w[rows[x + j]]
      <4>1. x + 1 < x + j \/ x + 1 = x + j
        <5>1. x \in Nat
          BY DEF x
        <5> QED
          BY <5>1
      <4>2. CASE x + 1 < x + j
        BY <3>1, <4>2
      <4>3. CASE x + 1 = x + j
        <5> DEFINE v == w[rows[x + 1]]
        <5>1. v \in Nat /\ w[rows[x + j]] = v
          BY <3>1, <4>3
        <5> HIDE DEF v
        <5>2. v <= v
          BY <5>1
        <5> QED
          BY <5>1, <5>2 DEF v
      <4> QED
        BY <4>1, <4>2, <4>3
    <3> DEFINE wi == w[rows[x + i]]
               wj == w[rows[x + j]]
               wk == w[rows[x + k]]
               w1 == w[rows[x + 1]]
    <3>5. wi \in Nat /\ wj \in Nat /\ wk \in Nat /\ w1 \in Nat /\ wi <= wk /\ w1 <= wj
      BY <3>1, <3>3, <3>4
    <3>6. b = wk - w1 /\ Given(R(g), w, i) = wi /\ Given(R(g), w, j) = wj
      BY <2>3, <3>2 DEF x
    <3>7. wi - wj <= wk - w1
      <4> HIDE DEF wi, wj, wk, w1
      <4> QED
        BY <3>5
    <3> HIDE DEF wi, wj, wk, w1, b
    <3> QED
      BY <3>6, <3>7
  <2> HIDE DEF b
  <2>5. Gap(s, k, b)
    BY <1>2, <2>1, <2>4
  <2> QED
    BY <2>2, <2>5
<1>11. ASSUME sz = 1
       PROVE  Gaps(states, k, {w[r] : r \in 1 .. n})
  <2> SUFFICES ASSUME NEW s \in states
               PROVE  \E b \in {w[r] : r \in 1 .. n} : Gap(s, k, b)
    BY DEF Gaps
  <2>1. PICK g \in 0 .. c - 1 : s = S(g)
    BY <1>3
  <2> DEFINE r == R(g)[1]
             b == w[r]
  <2>2. DOMAIN R(g) = {1} /\ r \in 1 .. n
    <3>1. 1 .. sz = {1}
      BY <1>11
    <3>2. DOMAIN R(g) = {1} /\ R(g)[1] = rows[P(g, 1)] /\ P(g, 1) \in 1 .. n
      BY <1>1, <1>p, <3>1
    <3> QED
      BY <3>2
  <2>3. b \in Nat
    BY <2>2
  <2> HIDE DEF r
  <2>4. \A i \in 1 .. k : Given(R(g), w, i) = b \/ Given(R(g), w, i) = 0
    BY <2>2 DEF Given, r
  <2> HIDE DEF b
  <2>5. ASSUME NEW i \in 1 .. k, NEW j \in 1 .. k
        PROVE  Given(R(g), w, i) - Given(R(g), w, j) <= b
    <3> DEFINE u == Given(R(g), w, i)
               v == Given(R(g), w, j)
    <3>1. (u = b \/ u = 0) /\ (v = b \/ v = 0)
      BY <2>4
    <3> HIDE DEF u, v
    <3>2. u - v <= b
      BY <2>3, <3>1
    <3> QED
      BY <3>2 DEF u, v
  <2>6. Gap(s, k, b)
    BY <1>2, <2>1, <2>5
  <2> QED
    BY <2>2, <2>6 DEF b
<1> QED
  BY <1>8, <1>9, <1>10, <1>11 DEF Started

\* P divides the rows 1 .. n among k parts, none of them empty.
Partitioned(P, n, k) ==
    /\ P \in [1 .. k -> Seq(1 .. n)]
    /\ \A i \in 1 .. k : Len(P[i]) > 0
    /\ \A i, j \in 1 .. k : \A a \in DOMAIN P[i], b \in DOMAIN P[j] :
          P[i][a] = P[j][b] => i = j /\ a = b
    /\ \A r \in 1 .. n : \E i \in 1 .. k : \E a \in DOMAIN P[i] : P[i][a] = r

\* The loads of two parts differ by no more than b.
LoadGap(P, k, w, b) ==
    \A i, j \in 1 .. k : SumOf(w, Range(P[i])) - SumOf(w, Range(P[j])) <= b

\* What get_seqlen_balanced_partitions asserts of the partitions it returns, and
\* what its comment promises of their loads.  They are k, none of them empty,
\* and have every row once; with equal_size they have the same number of rows,
\* and their loads differ by no more than those of the first and the last row
\* of a block of k neighbours in the order of size; without it, by no more than
\* the load of one row.
Balanced(P, n, w, k, equal_size, c) ==
    /\ Partitioned(P, n, k)
    /\ equal_size => \A i \in 1 .. k : Len(P[i]) = c
    /\ equal_size => \E g \in 1 .. c : LoadGap(P, k, w,
          w[Lightest(w, 1 .. n)[g * k]] - w[Lightest(w, 1 .. n)[(g - 1) * k + 1]])
    /\ ~ equal_size => \E r \in 1 .. n : LoadGap(P, k, w, w[r])

\* The differencing method divides the rows among the parts, as many to each
\* where it must, and no two loads differ by more than the gap it started
\* with.
LEMMA KarmarkarKarpFacts ==
  ASSUME NEW n \in Nat, NEW w \in [1 .. n -> Nat \ {0}], NEW k \in Nat \ {0}, k <= n,
         NEW equal_size \in BOOLEAN, NEW c \in Nat, equal_size => n = c * k
  PROVE  Balanced(KarmarkarKarp(w, k, equal_size), n, w, k, equal_size, c)
<1> DEFINE N == 1 .. n
           rows == Lightest(w, N)
           sz == IF equal_size THEN k ELSE 1
           d == IF equal_size THEN c ELSE n
           states == {StateOf(SubSeq(rows, g * sz + 1, (g + 1) * sz), w, k) : g \in 0 .. d - 1}
           f == MergeAll(states)
           P == [i \in 1 .. k |-> f[i].items]
<1>1. /\ rows \in [1 .. n -> 1 .. n]
      /\ \A i, j \in 1 .. n : rows[i] = rows[j] => i = j
      /\ \A r \in 1 .. n : \E i \in 1 .. n : rows[i] = r
      /\ \A i, j \in 1 .. n : i < j => w[rows[i]] <= w[rows[j]]
  <2>1. N \in SUBSET Nat /\ IsFiniteSet(N) /\ Cardinality(N) = n /\ \A r \in N : w[r] \in Nat
    BY IntervalCount
  <2> HIDE DEF N
  <2>2. /\ Lightest(w, N) \in [1 .. Cardinality(N) -> N]
        /\ \A r \in N : \E i \in 1 .. Cardinality(N) : Lightest(w, N)[i] = r
        /\ \A i, j \in 1 .. Cardinality(N) : i < j => w[Lightest(w, N)[i]] <= w[Lightest(w, N)[j]]
        /\ \A i, j \in 1 .. Cardinality(N) : Lightest(w, N)[i] = Lightest(w, N)[j] => i = j
    BY <2>1, LightestFacts
  <2> QED
    BY <2>1, <2>2 DEF N
<1>r. rows = Lightest(w, 1 .. n)
  OBVIOUS
<1>2. Len(rows) = n /\ DOMAIN w = N
  <2> HIDE DEF rows
  <2> QED
    BY <1>1, FunctionIsSeq
<1>3. /\ sz \in Nat \ {0} /\ (sz = 1 \/ sz = k) /\ d \in Nat \ {0} /\ n = d * sz
      /\ (equal_size => sz = k /\ d = c) /\ (~ equal_size => sz = 1)
  <2>1. CASE equal_size
    <3>1. c # 0
      <4> SUFFICES ASSUME c = 0 PROVE FALSE
        OBVIOUS
      <4>1. c * k = 0
        OBVIOUS
      <4> QED
        BY <2>1, <4>1
    <3> QED
      BY <2>1, <3>1
  <2>2. CASE ~ equal_size
    BY <2>2
  <2> QED
    BY <2>1, <2>2
<1>4. Len(rows) \div sz = d
  <2> HIDE DEF sz, d, rows
  <2> QED
    BY <1>2, <1>3
<1>5. KarmarkarKarp(w, k, equal_size) = P
  <2> HIDE DEF rows
  <2>1. KarmarkarKarp(w, k, equal_size) =
          [i \in 1 .. k |-> MergeAll({StateOf(SubSeq(rows, g * sz + 1, (g + 1) * sz), w, k) :
                                         g \in 0 .. Len(rows) \div sz - 1})[i].items]
    BY <1>2 DEF KarmarkarKarp, rows
  <2> QED
    BY <1>4, <2>1
<1> HIDE DEF sz, d, rows
<1>6. states = {StateOf(Block(rows, sz, g), w, k) : g \in 0 .. d - 1}
  BY DEF Block
<1> HIDE DEF states
<1>7. /\ Heap(states, w, n, k)
      /\ sz = k => Sized(states, k)
      /\ sz = k => Gaps(states, k, {w[rows[g * k]] - w[rows[(g - 1) * k + 1]] : g \in 1 .. d})
      /\ sz = 1 => Gaps(states, k, {w[r] : r \in 1 .. n})
  <2>1. Started(states, rows, w, n, k, sz, d)
    BY <1>1, <1>3, <1>6, FirstHeap
  <2> QED
    BY <2>1 DEF Started
<1> HIDE DEF f
<1>8. /\ IsState(f, w, k)
      /\ Filled(f, k)
      /\ \A r \in 1 .. n : Has(f, r)
      /\ Sized(states, k) => \E m \in Nat : HasSize(f, k, m)
      /\ \A B \in SUBSET Int : Gaps(states, k, B) => \E b \in B : Gap(f, k, b)
  BY <1>7, MergeAllFacts DEF f
<1>9. f \in [1 .. k -> RowSets(N)] /\ \A i \in 1 .. k : f[i].items \in Seq(N) /\ P[i] = f[i].items
  BY <1>8 DEF IsState, PreState, RowSets
<1> HIDE DEF P
<1>10. \A i, j \in 1 .. k : \A a \in DOMAIN P[i], b \in DOMAIN P[j] :
          P[i][a] = P[j][b] => i = j /\ a = b
  <2>1. \A i, j \in 1 .. k : \A a \in DOMAIN f[i].items, b \in DOMAIN f[j].items :
          f[i].items[a] = f[j].items[b] => i = j /\ a = b
    BY <1>8 DEF IsState, PreState
  <2> SUFFICES ASSUME NEW i \in 1 .. k, NEW j \in 1 .. k,
                      NEW a \in DOMAIN P[i], NEW b \in DOMAIN P[j], P[i][a] = P[j][b]
               PROVE  i = j /\ a = b
    OBVIOUS
  <2>2. P[i] = f[i].items /\ P[j] = f[j].items
    BY <1>9
  <2> QED
    BY <2>1, <2>2
<1>11. \A r \in 1 .. n : \E i \in 1 .. k : \E a \in DOMAIN P[i] : P[i][a] = r
  <2> SUFFICES ASSUME NEW r \in 1 .. n PROVE \E i \in 1 .. k : \E a \in DOMAIN P[i] : P[i][a] = r
    OBVIOUS
  <2>1. PICK i \in DOMAIN f : \E a \in DOMAIN f[i].items : f[i].items[a] = r
    BY <1>8 DEF Has
  <2> QED
    BY <1>9, <2>1
<1>12. \A i \in 1 .. k : Len(P[i]) > 0
  <2> SUFFICES ASSUME NEW e \in 1 .. k, ~ (Len(P[e]) > 0) PROVE FALSE
    OBVIOUS
  <2>1. \A i \in 1 .. k : Len(P[i]) <= 1
    BY <1>8, <1>9 DEF Filled
  <2>2. DOMAIN P[e] = {}
    <3>1. P[e] \in Seq(N)
      BY <1>9
    <3>2. Len(P[e]) = 0 /\ DOMAIN P[e] = 1 .. Len(P[e])
      BY <3>1
    <3> QED
      BY <3>2
  <2> DEFINE K == 1 .. k
             home == [r \in N |-> CHOOSE i \in K : \E a \in DOMAIN P[i] : P[i][a] = r]
  <2>3. ASSUME NEW r \in N
        PROVE  home[r] \in K /\ \E a \in DOMAIN P[home[r]] : P[home[r]][a] = r
    BY <1>11
  <2>4. \A r \in N : home[r] # e /\ P[home[r]][1] = r
    <3> SUFFICES ASSUME NEW r \in N PROVE home[r] # e /\ P[home[r]][1] = r
      OBVIOUS
    <3> HIDE DEF home
    <3>1. PICK a \in DOMAIN P[home[r]] : P[home[r]][a] = r
      BY <2>3
    <3>2. P[home[r]] \in Seq(N) /\ Len(P[home[r]]) <= 1
      BY <1>9, <2>1, <2>3
    <3>3. a = 1
      BY <3>2
    <3>4. home[r] # e
      BY <2>2
    <3> QED
      BY <3>1, <3>3, <3>4
  <2>5. IsFiniteSet(K) /\ Cardinality(K) = k /\ IsFiniteSet(N) /\ Cardinality(N) = n
    BY IntervalCount
  <2>6. home \in [N -> K \ {e}] /\ e \in K
    BY <2>3, <2>4
  <2>7. \A x, y \in N : home[x] = home[y] => x = y
    <3> HIDE DEF home
    <3> QED
      BY <2>4
  <2> HIDE DEF home, K, N
  <2>8. IsFiniteSet(K \ {e}) /\ Cardinality(K \ {e}) = k - 1
    BY <2>5, <2>6, FS_RemoveElement
  <2>9. Cardinality(N) <= Cardinality(K \ {e})
    BY <2>6, <2>7, <2>8, InjectionBound
  <2> QED
    BY <2>5, <2>8, <2>9
<1>13. P \in [1 .. k -> Seq(N)]
  BY <1>9 DEF P
<1>14. Partitioned(P, n, k)
  BY <1>10, <1>11, <1>12, <1>13 DEF Partitioned
<1>15. ASSUME equal_size, NEW i \in 1 .. k PROVE Len(P[i]) = c
  <2>1. PICK m \in Nat : HasSize(f, k, m)
    BY <1>3, <1>7, <1>8, <1>15
  <2>2. \A j \in 1 .. k : Len(P[j]) = m /\ DOMAIN P[j] = 1 .. m
    <3> SUFFICES ASSUME NEW j \in 1 .. k PROVE Len(P[j]) = m /\ DOMAIN P[j] = 1 .. m
      OBVIOUS
    <3>1. Len(P[j]) = m /\ P[j] \in Seq(N)
      BY <1>9, <2>1 DEF HasSize
    <3> QED
      BY <3>1
  <2> DEFINE K == 1 .. k
             M == 1 .. m
             at == [x \in K \X M |-> P[x[1]][x[2]]]
  <2>3. at \in [K \X M -> N]
    <3> SUFFICES ASSUME NEW x \in K \X M PROVE P[x[1]][x[2]] \in N
      OBVIOUS
    <3>1. x[1] \in K /\ x[2] \in DOMAIN P[x[1]] /\ P[x[1]] \in Seq(N)
      BY <2>2, <1>13
    <3> QED
      BY <3>1, SeqElement
  <2>4. \A x, y \in K \X M : at[x] = at[y] => x = y
    <3> SUFFICES ASSUME NEW x \in K \X M, NEW y \in K \X M, at[x] = at[y] PROVE x = y
      OBVIOUS
    <3>1. x[1] \in K /\ x[2] \in DOMAIN P[x[1]] /\ y[1] \in K /\ y[2] \in DOMAIN P[y[1]]
      BY <2>2
    <3>2. P[x[1]][x[2]] = P[y[1]][y[2]]
      OBVIOUS
    <3>3. x[1] = y[1] /\ x[2] = y[2]
      BY <1>10, <3>1, <3>2
    <3> QED
      BY <3>3
  <2>5. \A r \in N : \E x \in K \X M : at[x] = r
    <3> SUFFICES ASSUME NEW r \in N PROVE \E x \in K \X M : at[x] = r
      OBVIOUS
    <3>1. PICK j \in K : \E a \in DOMAIN P[j] : P[j][a] = r
      BY <1>11
    <3>2. PICK a \in M : P[j][a] = r
      BY <2>2, <3>1
    <3>3. <<j, a>> \in K \X M /\ at[<<j, a>>] = r
      BY <3>2
    <3> QED
      BY <3>3
  <2>6. IsFiniteSet(K) /\ Cardinality(K) = k /\ IsFiniteSet(M) /\ Cardinality(M) = m /\ Cardinality(N) = n
    BY IntervalCount
  <2> DEFINE KM == K \X M
  <2>7. IsFiniteSet(KM) /\ Cardinality(KM) = k * m
    <3> HIDE DEF K, M
    <3> QED
      BY <2>6, FS_Product
  <2>a. at \in [KM -> N] /\ (\A x, y \in KM : at[x] = at[y] => x = y) /\ \A r \in N : \E x \in KM : at[x] = r
    BY <2>3, <2>4, <2>5
  <2> HIDE DEF K, M, N, at, KM
  <2>8. Cardinality(N) = Cardinality(KM)
    BY <2>7, <2>a, BijectionCount
  <2>9. k * m = c * k
    BY <1>15, <2>6, <2>7, <2>8
  <2>10. m = c
    BY <2>9
  <2> QED
    BY <2>2, <2>10
<1>16. ASSUME NEW b, Gap(f, k, b) PROVE LoadGap(P, k, w, b)
  <2>1. \A i \in 1 .. k : f[i].sum = SumOf(w, Range(P[i]))
    BY <1>8, <1>9 DEF IsState, PreState
  <2> QED
    BY <1>16, <2>1 DEF Gap, LoadGap
<1>17. ASSUME equal_size
       PROVE  \E g \in 1 .. c : LoadGap(P, k, w, w[rows[g * k]] - w[rows[(g - 1) * k + 1]])
  <2> DEFINE B == {w[rows[g * k]] - w[rows[(g - 1) * k + 1]] : g \in 1 .. d}
  <2>1. d = c /\ Gaps(states, k, B)
    BY <1>3, <1>7, <1>17
  <2>2. B \in SUBSET Int
    <3> SUFFICES ASSUME NEW g \in 1 .. c PROVE w[rows[g * k]] - w[rows[(g - 1) * k + 1]] \in Int
      BY <2>1
    <3> DEFINE x == g * k
               y == (g - 1) * k + 1
    <3>1. x \in 1 .. n /\ y \in 1 .. n
      <4>1. Places(k, c)
        BY PlacesFacts
      <4>2. g - 1 \in 0 .. c - 1 /\ 1 \in 1 .. k /\ k \in 1 .. k
        OBVIOUS
      <4>3. Place(k, g - 1, 1) \in 1 .. c * k /\ Place(k, g - 1, k) \in 1 .. c * k
        BY <4>1, <4>2 DEF Places
      <4>4. Place(k, g - 1, 1) = y
        BY DEF Place
      <4>5. Place(k, g - 1, k) = x
        BY DEF Place
      <4>6. 1 .. c * k = 1 .. n
        BY <1>17
      <4> HIDE DEF x, y
      <4> QED
        BY <4>3, <4>4, <4>5, <4>6
    <3> HIDE DEF x, y
    <3>2. w[rows[x]] \in Nat /\ w[rows[y]] \in Nat
      BY <1>1, <3>1
    <3>3. w[rows[x]] - w[rows[y]] \in Int
      BY <3>2
    <3> QED
      BY <3>3 DEF x, y
  <2> HIDE DEF B
  <2>3. PICK b \in B : Gap(f, k, b)
    BY <1>8, <2>1, <2>2
  <2>4. LoadGap(P, k, w, b)
    BY <1>16, <2>3
  <2>5. PICK g \in 1 .. c : b = w[rows[g * k]] - w[rows[(g - 1) * k + 1]]
    BY <2>1 DEF B
  <2> QED
    BY <2>4, <2>5
<1>18. ASSUME ~ equal_size PROVE \E r \in 1 .. n : LoadGap(P, k, w, w[r])
  <2> DEFINE B == {w[r] : r \in 1 .. n}
  <2>1. Gaps(states, k, B) /\ B \in SUBSET Int
    BY <1>3, <1>7, <1>18
  <2> HIDE DEF B
  <2>2. PICK b \in B : Gap(f, k, b)
    BY <1>8, <2>1
  <2>3. LoadGap(P, k, w, b)
    BY <1>16, <2>2
  <2> QED
    BY <2>3 DEF B
<1>19. Balanced(P, n, w, k, equal_size, c)
  BY <1>r, <1>14, <1>15, <1>17, <1>18 DEF Balanced
<1> QED
  BY <1>5, <1>19

\* get_seqlen_balanced_partitions, for every number of rows, every workload
\* and every number of parts: each part has a row, each row is in one part,
\* the parts are of one size if equal_size asks for it, and the loads of two
\* parts differ by no more than two workloads that are neighbours in the
\* sorted order (equal_size), or than the largest workload.
THEOREM PartitionsAreBalanced ==
  ASSUME NEW n \in Nat, NEW w \in [1 .. n -> Nat \ {0}], NEW k \in Nat \ {0}, k <= n,
         NEW equal_size \in BOOLEAN, NEW c \in Nat, equal_size => n = c * k
  PROVE  Balanced(BalancedPartitions(w, k, equal_size), n, w, k, equal_size, c)
<1> DEFINE N == 1 .. n
           P == KarmarkarKarp(w, k, equal_size)
           Q == BalancedPartitions(w, k, equal_size)
<1>1. Balanced(P, n, w, k, equal_size, c)
  BY KarmarkarKarpFacts DEF P
<1>2. Q = [i \in 1 .. k |-> Ascending(Range(P[i]))]
  BY DEF BalancedPartitions, Ascending
<1> HIDE DEF P, Q
<1>3. ASSUME NEW i \in 1 .. k
      PROVE  /\ Q[i] \in Seq(N) /\ Len(Q[i]) = Len(P[i]) /\ Range(Q[i]) = Range(P[i])
             /\ \A a, b \in DOMAIN Q[i] : Q[i][a] = Q[i][b] => a = b
  <2> DEFINE D == Range(P[i])
             q == Ascending(D)
  <2>1. P[i] \in Seq(N) /\ \A a, b \in DOMAIN P[i] : P[i][a] = P[i][b] => a = b
    BY <1>1 DEF Balanced, Partitioned
  <2>2. IsFiniteSet(D) /\ D \in SUBSET N /\ Cardinality(D) = Len(P[i]) /\ D \in SUBSET Nat
    <3> DEFINE p == P[i]
    <3>1. p \in Seq(N) /\ \A a, b \in DOMAIN p : p[a] = p[b] => a = b
      BY <2>1
    <3> HIDE DEF p, N
    <3>2. IsFiniteSet(Range(p)) /\ Range(p) \in SUBSET N /\ Cardinality(Range(p)) = Len(p)
      BY <3>1, SeqRangeFinite, SeqRangeCount
    <3>3. N \in SUBSET Nat
      BY DEF N
    <3> QED
      BY <3>2, <3>3 DEF p
  <2> HIDE DEF D
  <2>3. /\ q \in [1 .. Cardinality(D) -> D]
        /\ \A r \in D : \E x \in 1 .. Cardinality(D) : q[x] = r
        /\ \A x, y \in 1 .. Cardinality(D) : q[x] = q[y] => x = y
    BY <2>2, AscendingFacts
  <2> HIDE DEF q
  <2>4. Cardinality(D) \in Nat
    BY <2>2, FS_CardinalityType
  <2>5. q \in Seq(D) /\ Len(q) = Cardinality(D) /\ DOMAIN q = 1 .. Cardinality(D)
    BY <2>3, <2>4, FunctionIsSeq
  <2>6. q \in Seq(N)
    BY <2>2, <2>5, SeqOfSubset
  <2>7. Range(q) = D
    BY <2>3, <2>5 DEF Range
  <2>8. Q[i] = q
    BY <1>2 DEF q, D
  <2> QED
    BY <2>2, <2>3, <2>5, <2>6, <2>7, <2>8 DEF D
<1>4. Q \in [1 .. k -> Seq(N)]
  <2>1. DOMAIN Q = 1 .. k /\ Q = [i \in 1 .. k |-> Q[i]]
    BY <1>2
  <2> QED
    BY <1>3, <2>1
<1>5. Partitioned(Q, n, k)
  <2>1. \A i \in 1 .. k : Len(Q[i]) > 0
    BY <1>1, <1>3 DEF Balanced, Partitioned
  <2>2. ASSUME NEW i \in 1 .. k, NEW j \in 1 .. k, NEW a \in DOMAIN Q[i], NEW b \in DOMAIN Q[j],
               Q[i][a] = Q[j][b]
        PROVE  i = j /\ a = b
    <3> DEFINE r == Q[i][a]
    <3>1. r \in Range(P[i]) /\ r \in Range(P[j])
      <4>1. r \in Range(Q[i]) /\ r \in Range(Q[j])
        BY <2>2 DEF Range
      <4> QED
        BY <1>3, <4>1
    <3> HIDE DEF r
    <3>2. PICK x \in DOMAIN P[i] : P[i][x] = r
      BY <3>1 DEF Range
    <3>3. PICK y \in DOMAIN P[j] : P[j][y] = r
      BY <3>1 DEF Range
    <3>4. i = j
      BY <1>1, <3>2, <3>3 DEF Balanced, Partitioned
    <3> QED
      BY <1>3, <2>2, <3>4
  <2>3. ASSUME NEW r \in 1 .. n PROVE \E i \in 1 .. k : \E a \in DOMAIN Q[i] : Q[i][a] = r
    <3>1. PICK i \in 1 .. k : \E a \in DOMAIN P[i] : P[i][a] = r
      BY <1>1 DEF Balanced, Partitioned
    <3>2. r \in Range(P[i])
      BY <3>1 DEF Range
    <3>3. r \in Range(Q[i])
      BY <1>3, <3>2
    <3> QED
      BY <3>3 DEF Range
  <2> QED
    BY <1>4, <2>1, <2>2, <2>3 DEF Partitioned
<1>6. ASSUME NEW b, LoadGap(P, k, w, b) PROVE LoadGap(Q, k, w, b)
  BY <1>3, <1>6 DEF LoadGap
<1>7. Balanced(Q, n, w, k, equal_size, c)
  BY <1>1, <1>3, <1>5, <1>6 DEF Balanced
<1> QED
  BY <1>7 DEF Q

-----------------------------------------------------------------------------
(* FlattenSeq, which joins the chunks of a DataProto and the indices of    *)
(* micro-batches.                                                          *)

\* The recursive function that FlattenSeq unfolds to.
Flats(seqs) == CHOOSE flatten : flatten = [i \in 1 .. Len(seqs) |->
                   IF i = 1 THEN seqs[i] ELSE flatten[i - 1] \o seqs[i]]

\* f[k] is FlattenSeq of the k sequences, and f is its recursion.
Flattens(f, seqs, k) ==
    /\ FlattenSeq(seqs) = f[k]
    /\ f[1] = seqs[1]
    /\ \A i \in Nat \ {0} : i < k => f[i + 1] = f[i] \o seqs[i + 1]

\* The recursion of FlattenSeq, which is over the positions of seqs.
LEMMA FlatsDefined ==
  ASSUME NEW k \in Nat \ {0}, NEW seqs, Len(seqs) = k
  PROVE  Flattens(Flats(seqs), seqs, k)
<1> DEFINE Is(h, l) == h = [i \in 1 .. l |-> IF i = 1 THEN seqs[i] ELSE h[i - 1] \o seqs[i]]
           T == {l \in Nat : \E h : Is(h, l)}
<1>1. 0 \in T
  <2>1. Is([i \in 1 .. 0 |-> seqs[i]], 0)
    OBVIOUS
  <2> QED
    BY <2>1
<1>2. ASSUME NEW l \in Nat, l \in T PROVE l + 1 \in T
  <2>1. PICK g : Is(g, l)
    BY <1>2
  <2> DEFINE h == [i \in 1 .. l + 1 |-> IF i = l + 1 THEN (IF i = 1 THEN seqs[i] ELSE g[l] \o seqs[i])
                                                     ELSE g[i]]
  <2>2. \A i \in 1 .. l : h[i] = g[i]
    OBVIOUS
  <2>3. h[l + 1] = IF l + 1 = 1 THEN seqs[l + 1] ELSE h[l] \o seqs[l + 1]
    OBVIOUS
  <2>4. \A i \in 1 .. l : g[i] = IF i = 1 THEN seqs[i] ELSE g[i - 1] \o seqs[i]
    BY <2>1
  <2>5. ASSUME NEW i \in 1 .. l + 1
        PROVE  h[i] = IF i = 1 THEN seqs[i] ELSE h[i - 1] \o seqs[i]
    <3> HIDE DEF h
    <3>1. CASE i = l + 1
      BY <2>3, <3>1
    <3>2. CASE i # l + 1 /\ i = 1
      BY <2>2, <2>4, <3>2
    <3>3. CASE i # l + 1 /\ i # 1
      <4>1. i \in 1 .. l /\ i - 1 \in 1 .. l
        BY <3>3
      <4> QED
        BY <2>2, <2>4, <3>3, <4>1
    <3> QED
      BY <3>1, <3>2, <3>3
  <2>6. DOMAIN h = 1 .. l + 1 /\ h = [i \in DOMAIN h |-> h[i]]
    OBVIOUS
  <2> HIDE DEF h
  <2>7. h = [i \in 1 .. l + 1 |-> IF i = 1 THEN seqs[i] ELSE h[i - 1] \o seqs[i]]
    BY <2>5, <2>6
  <2>8. \E e : Is(e, l + 1)
    BY <2>7
  <2> HIDE DEF Is
  <2> QED
    BY <2>8
<1> HIDE DEF T
<1>3. k \in T
  BY <1>1, <1>2, NatSetInduction
<1>4. Is(Flats(seqs), k)
  BY <1>3 DEF T, Flats
<1> DEFINE f == Flats(seqs)
<1>5. FlattenSeq(seqs) = f[k]
  BY DEF FlattenSeq, Flats
<1> HIDE DEF f
<1>6. f = [i \in 1 .. k |-> IF i = 1 THEN seqs[i] ELSE f[i - 1] \o seqs[i]]
  BY <1>4 DEF f
<1>7. f[1] = seqs[1]
  BY <1>6
<1>8. ASSUME NEW i \in Nat \ {0}, i < k PROVE f[i + 1] = f[i] \o seqs[i + 1]
  <2>1. i + 1 \in 1 .. k /\ i + 1 # 1 /\ (i + 1) - 1 = i
    BY <1>8
  <2> QED
    BY <1>6, <2>1
<1> QED
  BY <1>5, <1>7, <1>8 DEF f, Flattens

\* Element j of sequence i is at o[i] + j.
FlatAt(seqs, k, o, S) ==
    /\ FlattenSeq(seqs) \in Seq(S)
    /\ Len(FlattenSeq(seqs)) = o[k + 1]
    /\ \A i \in 1 .. k : \A j \in 1 .. Len(seqs[i]) : FlattenSeq(seqs)[o[i] + j] = seqs[i][j]

\* The elements of flattened sequences: sequence i begins after o[i].
LEMMA FlattenAt ==
  ASSUME NEW S, NEW k \in Nat \ {0}, NEW seqs \in [1 .. k -> Seq(S)],
         NEW o \in [1 .. k + 1 -> Nat], o[1] = 0,
         \A i \in 1 .. k : o[i + 1] = o[i] + Len(seqs[i])
  PROVE  FlatAt(seqs, k, o, S)
<1> DEFINE f == Flats(seqs)
           Good(m) == /\ f[m] \in Seq(S) /\ Len(f[m]) = o[m + 1]
                      /\ \A i \in 1 .. m : \A j \in 1 .. Len(seqs[i]) :
                            o[i] + j \in 1 .. Len(f[m]) /\ f[m][o[i] + j] = seqs[i][j]
           T == {m \in Nat : m + 1 <= k => Good(m + 1)}
<1>1. Len(seqs) = k
  BY FunctionIsSeq
<1>2. /\ FlattenSeq(seqs) = f[k] /\ f[1] = seqs[1]
      /\ \A i \in Nat \ {0} : i < k => f[i + 1] = f[i] \o seqs[i + 1]
  <2>1. Flattens(f, seqs, k)
    BY <1>1, FlatsDefined
  <2> QED
    BY <2>1 DEF Flattens
<1> HIDE DEF f
<1>3. 0 \in T
  <2> SUFFICES Good(1)
    OBVIOUS
  <2>1. f[1] = seqs[1] /\ 1 \in 1 .. k
    BY <1>2
  <2>2. seqs[1] \in Seq(S) /\ Len(seqs[1]) \in Nat
    BY <2>1, SeqElement
  <2>3. o[1 + 1] = Len(seqs[1])
    BY <2>1, <2>2
  <2>4. \A j \in 1 .. Len(seqs[1]) : o[1] + j \in 1 .. Len(f[1]) /\ f[1][o[1] + j] = seqs[1][j]
    BY <2>1, <2>2
  <2>5. \A i \in 1 .. 1 : i = 1
    OBVIOUS
  <2> QED
    BY <2>1, <2>2, <2>3, <2>4, <2>5
<1>4. ASSUME NEW l \in Nat, l \in T PROVE l + 1 \in T
  <2> DEFINE m == l + 1
             x == f[m]
             y == seqs[m + 1]
             z == f[m + 1]
  <2> SUFFICES ASSUME m + 1 <= k PROVE Good(m + 1)
    OBVIOUS
  <2>1. m \in Nat \ {0} /\ m < k /\ m + 1 \in 1 .. k /\ Good(m)
    <3>1. m \in Nat \ {0} /\ m < k /\ m + 1 \in 1 .. k /\ m <= k
      OBVIOUS
    <3> HIDE DEF Good
    <3> QED
      BY <1>4, <3>1
  <2>2. z = x \o y
    BY <1>2, <2>1
  <2>3. x \in Seq(S) /\ y \in Seq(S) /\ Len(x) = o[m + 1]
    BY <2>1
  <2>4. \A i \in 1 .. m : \A j \in 1 .. Len(seqs[i]) :
           o[i] + j \in 1 .. Len(x) /\ x[o[i] + j] = seqs[i][j]
    BY <2>1
  <2>5. o[(m + 1) + 1] = o[m + 1] + Len(y)
    BY <2>1
  <2> HIDE DEF x, y, z, m
  <2>6. /\ z \in Seq(S) /\ Len(z) = Len(x) + Len(y) /\ Len(x) \in Nat /\ Len(y) \in Nat
        /\ \A i \in 1 .. Len(x) : z[i] = x[i]
        /\ \A i \in 1 .. Len(y) : z[Len(x) + i] = y[i]
    <3>1. Len(x) \in Nat /\ Len(y) \in Nat
      BY <2>3
    <3>2. /\ x \o y \in Seq(S) /\ Len(x \o y) = Len(x) + Len(y)
          /\ \A i \in 1 .. Len(x) : (x \o y)[i] = x[i]
          /\ \A i \in 1 .. Len(y) : (x \o y)[Len(x) + i] = y[i]
      <4>1. x \in Seq(S) /\ y \in Seq(S)
        BY <2>3
      <4> QED
        <5> HIDE DEF Good, T
        <5>1. x \o y \in Seq(S)
          BY <4>1, ConcatFacts
        <5>2. Len(x \o y) = Len(x) + Len(y)
          BY <4>1, ConcatFacts
        <5>3. \A i \in 1 .. Len(x) : (x \o y)[i] = x[i]
          BY <4>1, ConcatFacts
        <5>4. \A i \in 1 .. Len(y) : (x \o y)[Len(x) + i] = y[i]
          BY <4>1, ConcatFacts
        <5> QED
          BY <5>1, <5>2, <5>3, <5>4
    <3> QED
      BY <2>2, <3>1, <3>2
  <2>7. ASSUME NEW i \in 1 .. m + 1, NEW j \in 1 .. Len(seqs[i])
        PROVE  o[i] + j \in 1 .. Len(z) /\ z[o[i] + j] = seqs[i][j]
    <3>1. CASE i = m + 1
      <4>1. j \in 1 .. Len(y) /\ seqs[i] = y /\ o[i] = Len(x)
        BY <2>3, <3>1 DEF y
      <4> DEFINE lx == Len(x)
                 ly == Len(y)
                 lz == Len(z)
      <4>2. lz = lx + ly /\ lx \in Nat /\ ly \in Nat /\ j \in 1 .. ly
        BY <2>6, <4>1
      <4>3. z[lx + j] = y[j]
        BY <2>6, <4>1
      <4>4. o[i] = lx
        BY <4>1
      <4> HIDE DEF lx, ly, lz
      <4>5. lx + j \in 1 .. lz
        BY <4>2
      <4> QED
        BY <4>1, <4>3, <4>4, <4>5 DEF lz
    <3>2. CASE i # m + 1
      <4>1. i \in 1 .. m
        BY <2>1, <3>2
      <4> DEFINE at == o[i] + j
                 lx == Len(x)
                 ly == Len(y)
                 lz == Len(z)
      <4>2. at \in 1 .. lx /\ x[at] = seqs[i][j]
        BY <2>4, <4>1
      <4>3. lz = lx + ly /\ lx \in Nat /\ ly \in Nat /\ \A p \in 1 .. lx : z[p] = x[p]
        BY <2>6
      <4> HIDE DEF at, lx, ly, lz
      <4>4. at \in 1 .. lz /\ z[at] = seqs[i][j]
        BY <4>2, <4>3
      <4> QED
        BY <4>4 DEF at, lz
    <3> QED
      BY <3>1, <3>2
  <2>8. Len(z) = o[(m + 1) + 1]
    BY <2>3, <2>5, <2>6
  <2>9. Good(m + 1)
    BY <2>6, <2>7, <2>8 DEF z
  <2> QED
    BY <2>9 DEF m
<1>5. Good(k)
  <2> HIDE DEF T
  <2>1. k - 1 \in Nat /\ (k - 1) + 1 = k
    OBVIOUS
  <2>2. k - 1 \in T
    BY <1>3, <1>4, <2>1, NatSetInduction
  <2> HIDE DEF Good
  <2> QED
    BY <2>1, <2>2 DEF T
<1> QED
  BY <1>2, <1>5 DEF FlatAt

\* p permutes 1 .. n.
Permutes(p, n) ==
    /\ p \in [1 .. n -> 1 .. n]
    /\ \A i, j \in 1 .. n : p[i] = p[j] => i = j
    /\ \A r \in 1 .. n : \E i \in 1 .. n : p[i] = r

\* The parts of a partition, one after the other, permute the rows.
LEMMA FlattenPermutes ==
  ASSUME NEW n \in Nat, NEW k \in Nat \ {0}, NEW P, Partitioned(P, n, k)
  PROVE  Permutes(FlattenSeq(P), n)
<1> DEFINE f == Flats(P)
           N == 1 .. n
           Good(m) == /\ f[m] \in Seq(N)
                      /\ \A a, b \in DOMAIN f[m] : f[m][a] = f[m][b] => a = b
                      /\ \A r : r \in Range(f[m]) <=> \E i \in 1 .. m : r \in Range(P[i])
           T == {m \in Nat : m + 1 <= k => Good(m + 1)}
<1>1. /\ P \in [1 .. k -> Seq(N)]
      /\ \A i, j \in 1 .. k : \A a \in DOMAIN P[i], b \in DOMAIN P[j] :
            P[i][a] = P[j][b] => i = j /\ a = b
      /\ \A r \in N : \E i \in 1 .. k : \E a \in DOMAIN P[i] : P[i][a] = r
  BY DEF Partitioned
<1>2. Len(P) = k
  BY <1>1, FunctionIsSeq
<1>3. /\ FlattenSeq(P) = f[k] /\ f[1] = P[1]
      /\ \A i \in Nat \ {0} : i < k => f[i + 1] = f[i] \o P[i + 1]
  <2>1. Flattens(f, P, k)
    BY <1>2, FlatsDefined
  <2> QED
    BY <2>1 DEF Flattens
<1> HIDE DEF f, N
<1>4. 0 \in T
  <2> SUFFICES Good(1)
    OBVIOUS
  <2>1. f[1] = P[1] /\ 1 \in 1 .. k
    BY <1>3
  <2>2. \A i \in 1 .. 1 : i = 1
    OBVIOUS
  <2>3. \A a, b \in DOMAIN P[1] : P[1][a] = P[1][b] => a = b
    BY <1>1, <2>1
  <2> QED
    BY <1>1, <2>1, <2>2, <2>3
<1>5. ASSUME NEW l \in Nat, l \in T PROVE l + 1 \in T
  <2> DEFINE m == l + 1
             x == f[m]
             y == P[m + 1]
             z == f[m + 1]
  <2> SUFFICES ASSUME m + 1 <= k PROVE Good(m + 1)
    OBVIOUS
  <2>1. m \in Nat \ {0} /\ m < k /\ m + 1 \in 1 .. k /\ Good(m)
    BY <1>5
  <2>2. z = x \o y
    BY <1>3, <2>1
  <2>3. x \in Seq(N) /\ y \in Seq(N)
    BY <1>1, <2>1
  <2>4. /\ \A a, b \in DOMAIN x : x[a] = x[b] => a = b
        /\ \A r : r \in Range(x) <=> \E i \in 1 .. m : r \in Range(P[i])
    BY <2>1
  <2>5. \A a, b \in DOMAIN y : y[a] = y[b] => a = b
    BY <1>1, <2>1
  <2>6. Range(x) \cap Range(y) = {}
    <3> SUFFICES ASSUME NEW r \in Range(x), r \in Range(y) PROVE FALSE
      OBVIOUS
    <3>1. PICK i \in 1 .. m : r \in Range(P[i])
      BY <2>4
    <3>2. PICK a \in DOMAIN P[i] : P[i][a] = r
      BY <3>1 DEF Range
    <3>3. PICK b \in DOMAIN P[m + 1] : P[m + 1][b] = r
      BY DEF Range
    <3>4. i \in 1 .. k /\ i # m + 1
      BY <2>1
    <3> QED
      BY <1>1, <2>1, <3>2, <3>3, <3>4
  <2>7. y = P[m + 1] /\ z = f[m + 1]
    OBVIOUS
  <2> HIDE DEF x, y, z, m
  <2>8. /\ z \in Seq(N) /\ Len(x) \in Nat /\ Len(y) \in Nat /\ DOMAIN z = 1 .. Len(x) + Len(y)
        /\ \A i \in 1 .. Len(x) : z[i] = x[i]
        /\ \A i \in 1 .. Len(y) : z[Len(x) + i] = y[i]
        /\ \A i \in 1 .. Len(x) + Len(y) : i <= Len(x) \/ i - Len(x) \in 1 .. Len(y)
        /\ DOMAIN x = 1 .. Len(x) /\ DOMAIN y = 1 .. Len(y)
    BY <2>2, <2>3, ConcatFacts, SeqElement
  <2>9. ASSUME NEW a \in DOMAIN z
        PROVE  \/ a \in DOMAIN x /\ z[a] = x[a] /\ z[a] \in Range(x)
               \/ a - Len(x) \in DOMAIN y /\ z[a] = y[a - Len(x)] /\ z[a] \in Range(y)
    <3>1. CASE a <= Len(x)
      BY <2>8, <3>1 DEF Range
    <3>2. CASE a - Len(x) \in 1 .. Len(y)
      <4>1. z[Len(x) + (a - Len(x))] = y[a - Len(x)]
        BY <2>8, <3>2
      <4>2. Len(x) + (a - Len(x)) = a
        BY <2>8
      <4> QED
        BY <2>8, <3>2, <4>1, <4>2 DEF Range
    <3> QED
      BY <2>8, <3>1, <3>2
  <2>10. ASSUME NEW a \in DOMAIN z, NEW b \in DOMAIN z, z[a] = z[b] PROVE a = b
    <3>1. CASE z[a] \in Range(x)
      <4>1. a \in DOMAIN x /\ b \in DOMAIN x /\ x[a] = x[b]
        BY <2>6, <2>9, <2>10, <3>1
      <4> QED
        BY <2>4, <4>1
    <3>2. CASE z[a] \in Range(y)
      <4>1. a - Len(x) \in DOMAIN y /\ b - Len(x) \in DOMAIN y /\ y[a - Len(x)] = y[b - Len(x)]
        BY <2>6, <2>9, <2>10, <3>2
      <4>2. a - Len(x) = b - Len(x)
        BY <2>5, <4>1
      <4> QED
        BY <2>8, <4>2
    <3> QED
      BY <2>9, <3>1, <3>2
  <2>11. Range(z) = Range(x) \cup Range(y)
    BY <2>2, <2>3, RangeOfConcat
  <2>12. ASSUME NEW r PROVE r \in Range(z) <=> \E i \in 1 .. m + 1 : r \in Range(P[i])
    <3>1. (1 .. m + 1) = (1 .. m) \cup {m + 1}
      BY <2>1
    <3> QED
      BY <2>4, <2>7, <2>11, <3>1
  <2>13. Good(m + 1)
    BY <2>7, <2>8, <2>10, <2>12
  <2> QED
    BY <2>13 DEF m
<1>6. Good(k)
  <2> HIDE DEF T
  <2>1. k - 1 \in Nat /\ (k - 1) + 1 = k
    OBVIOUS
  <2>2. k - 1 \in T
    BY <1>4, <1>5, <2>1, NatSetInduction
  <2> QED
    BY <2>1, <2>2 DEF T
<1> DEFINE p == FlattenSeq(P)
<1>7. /\ p \in Seq(N) /\ \A a, b \in DOMAIN p : p[a] = p[b] => a = b
      /\ \A r : r \in Range(p) <=> \E i \in 1 .. k : r \in Range(P[i])
  BY <1>3, <1>6
<1> HIDE DEF p
<1>8. Range(p) = N
  <2>1. Range(p) \in SUBSET N
    BY <1>7, SeqRangeFinite
  <2>2. ASSUME NEW r \in N PROVE r \in Range(p)
    <3>1. \E i \in 1 .. k : r \in Range(P[i])
      BY <1>1 DEF Range
    <3> QED
      BY <1>7, <3>1
  <2> QED
    BY <2>1, <2>2
<1>9. Len(p) = n
  <2>1. Cardinality(Range(p)) = Len(p)
    BY <1>7, SeqRangeCount
  <2>2. Cardinality(N) = n
    BY IntervalCount DEF N
  <2> QED
    BY <1>8, <2>1, <2>2
<1>10. p \in [1 .. n -> N] /\ DOMAIN p = 1 .. n
  BY <1>7, <1>9, SeqElement
<1>11. \A r \in 1 .. n : \E i \in 1 .. n : p[i] = r
  BY <1>8, <1>10 DEF Range, N
<1> QED
  BY <1>7, <1>10, <1>11 DEF Permutes, p, N

-----------------------------------------------------------------------------
(* The micro-batches, and the rows of a partition, with the small ones at  *)
(* the ends.                                                               *)

\* t is the sequence s in another order.
Rearranged(t, s, n) == \E q : Permutes(q, n) /\ t = [i \in 1 .. n |-> s[q[i]]]

\* The elements at the odd and at the even positions of n.
Halves(s, n, h, S) ==
    /\ h \in 1 .. n /\ (n = 2 * h \/ n = 2 * h - 1)
    /\ EverySecond(s, 1) \in Seq(S) /\ EverySecond(s, 2) \in Seq(S)
    /\ Len(EverySecond(s, 1)) = h /\ Len(EverySecond(s, 2)) = n - h
    /\ \A i \in 1 .. h : EverySecond(s, 1)[i] = s[2 * i - 1]
    /\ \A i \in 1 .. n - h : EverySecond(s, 2)[i] = s[2 * i]

\* The rows at odd positions and the rows at even positions are the two
\* halves.
LEMMA EverySecondFacts ==
  ASSUME NEW S, NEW n \in Nat \ {0}, NEW s \in [1 .. n -> S]
  PROVE  \E h \in Nat : Halves(s, n, h, S)
<1> DEFINE h == (n - 1) \div 2 + 1
           g == (n - 2) \div 2 + 1
           odd == EverySecond(s, 1)
           even == EverySecond(s, 2)
<1>1. h \in 1 .. n /\ (n = 2 * h \/ n = 2 * h - 1) /\ g = n - h /\ g \in Nat
  OBVIOUS
<1>2. Len(s) = n
  BY FunctionIsSeq
<1>3. /\ odd = [i \in 1 .. h |-> s[1 + 2 * (i - 1)]]
      /\ even = [i \in 1 .. g |-> s[2 + 2 * (i - 1)]]
  BY <1>2 DEF EverySecond
<1> HIDE DEF h, g, odd, even
<1>4. \A i \in 1 .. h : 1 + 2 * (i - 1) = 2 * i - 1 /\ 2 * i - 1 \in 1 .. n
  BY <1>1
<1>5. \A i \in 1 .. g : 2 + 2 * (i - 1) = 2 * i /\ 2 * i \in 1 .. n
  BY <1>1
<1>6. odd \in [1 .. h -> S] /\ \A i \in 1 .. h : odd[i] = s[2 * i - 1]
  BY <1>3, <1>4
<1>7. even \in [1 .. g -> S] /\ \A i \in 1 .. g : even[i] = s[2 * i]
  BY <1>3, <1>5
<1>8. h \in Nat /\ odd \in Seq(S) /\ Len(odd) = h
  BY <1>1, <1>6, FunctionIsSeq
<1>9. even \in Seq(S) /\ Len(even) = g
  BY <1>1, <1>7, FunctionIsSeq
<1>10. Halves(s, n, h, S)
  BY <1>1, <1>6, <1>7, <1>8, <1>9 DEF Halves, odd, even
<1> QED
  BY <1>8, <1>10

\* Reverse, position by position.
LEMMA ReverseFacts ==
  ASSUME NEW S, NEW s \in Seq(S)
  PROVE  /\ Reverse(s) \in Seq(S) /\ Len(Reverse(s)) = Len(s)
         /\ \A i \in 1 .. Len(s) : Reverse(s)[i] = s[Len(s) + 1 - i]
<1> DEFINE n == Len(s)
<1>1. n \in Nat /\ \A i \in 1 .. n : s[i] \in S
  BY SeqElement
<1>2. Reverse(s) = [i \in 1 .. n |-> s[(n - i) + 1]]
  BY DEF Reverse
<1> HIDE DEF n
<1>3. \A i \in 1 .. n : (n - i) + 1 = n + 1 - i /\ n + 1 - i \in 1 .. n
  BY <1>1
<1>4. Reverse(s) \in [1 .. n -> S] /\ \A i \in 1 .. n : Reverse(s)[i] = s[n + 1 - i]
  BY <1>1, <1>2, <1>3
<1>5. Reverse(s) \in Seq(S) /\ Len(Reverse(s)) = n
  BY <1>1, <1>4, FunctionIsSeq
<1> QED
  BY <1>4, <1>5 DEF n

\* Two sequences one after the other, by position.
Joined(z, x, y, n, h) == z = [i \in 1 .. n |-> IF i <= h THEN x[i] ELSE y[i - h]]

\* A sequence joined of two parts, position by position.
LEMMA JoinFacts ==
  ASSUME NEW S, NEW x \in Seq(S), NEW y \in Seq(S), NEW n \in Nat, NEW h \in 0 .. n,
         Len(x) = h, Len(y) = n - h
  PROVE  Joined(x \o y, x, y, n, h)
<1> DEFINE z == x \o y
<1>1. z \in Seq(S) /\ Len(z) = n
  BY ConcatFacts
<1>2. z = [i \in 1 .. n |-> z[i]]
  <2> HIDE DEF z
  <2> QED
    BY <1>1, SeqElement
<1>3. ASSUME NEW i \in 1 .. n PROVE z[i] = IF i <= h THEN x[i] ELSE y[i - h]
  OBVIOUS
<1> HIDE DEF z
<1> QED
  BY <1>2, <1>3 DEF z, Joined

\* rearrange_micro_batches: the elements at the odd positions, backwards, and
\* those at the even ones.
LEMMA MiddleFacts ==
  ASSUME NEW S, NEW n \in Nat \ {0}, NEW s \in [1 .. n -> S]
  PROVE  Rearranged(Reverse(EverySecond(s, 1)) \o EverySecond(s, 2), s, n)
<1>1. PICK h \in Nat : Halves(s, n, h, S)
  BY EverySecondFacts
<1> DEFINE odd == EverySecond(s, 1)
           x == Reverse(odd)
           y == EverySecond(s, 2)
           q == [i \in 1 .. n |-> IF i <= h THEN 2 * (h + 1 - i) - 1 ELSE 2 * (i - h)]
<1>2. /\ h \in 1 .. n /\ (n = 2 * h \/ n = 2 * h - 1)
      /\ odd \in Seq(S) /\ y \in Seq(S) /\ Len(odd) = h /\ Len(y) = n - h
      /\ \A i \in 1 .. h : odd[i] = s[2 * i - 1]
      /\ \A i \in 1 .. n - h : y[i] = s[2 * i]
  BY <1>1 DEF Halves
<1> HIDE DEF odd, y
<1>3. x \in Seq(S) /\ Len(x) = h /\ \A i \in 1 .. h : x[i] = odd[h + 1 - i]
  BY <1>2, ReverseFacts
<1> HIDE DEF x
<1>4. x \o y = [i \in 1 .. n |-> IF i <= h THEN x[i] ELSE y[i - h]]
  <2>1. h \in 0 .. n /\ x \in Seq(S) /\ y \in Seq(S) /\ Len(x) = h /\ Len(y) = n - h
    BY <1>2, <1>3
  <2>2. Joined(x \o y, x, y, n, h)
    BY <2>1, JoinFacts
  <2> QED
    BY <2>2 DEF Joined
<1>5. ASSUME NEW i \in 1 .. n PROVE (IF i <= h THEN x[i] ELSE y[i - h]) = s[q[i]]
  <2>1. CASE i <= h
    <3>1. i \in 1 .. h /\ h + 1 - i \in 1 .. h
      BY <1>2, <2>1
    <3>2. x[i] = s[2 * (h + 1 - i) - 1]
      BY <1>2, <1>3, <3>1
    <3> QED
      BY <2>1, <3>2
  <2>2. CASE ~ (i <= h)
    <3>1. i - h \in 1 .. n - h
      BY <1>2, <2>2
    <3>2. y[i - h] = s[2 * (i - h)]
      BY <1>2, <3>1
    <3> QED
      BY <2>2, <3>2
  <2> QED
    BY <2>1, <2>2
<1>6. Permutes(q, n)
  <2>1. ASSUME NEW i \in 1 .. n PROVE q[i] \in 1 .. n
    <3>1. CASE i <= h
      BY <1>2, <3>1
    <3>2. CASE ~ (i <= h)
      BY <1>2, <3>2
    <3> QED
      BY <3>1, <3>2
  <2>2. ASSUME NEW i \in 1 .. n, NEW j \in 1 .. n, q[i] = q[j] PROVE i = j
    <3>1. CASE i <= h /\ j <= h
      BY <1>2, <2>2, <3>1
    <3>2. CASE i <= h /\ ~ (j <= h)
      BY <1>2, <2>2, <3>2
    <3>3. CASE ~ (i <= h) /\ j <= h
      BY <1>2, <2>2, <3>3
    <3>4. CASE ~ (i <= h) /\ ~ (j <= h)
      BY <1>2, <2>2, <3>4
    <3> QED
      BY <3>1, <3>2, <3>3, <3>4
  <2>3. ASSUME NEW r \in 1 .. n PROVE \E i \in 1 .. n : q[i] = r
    <3>1. PICK m \in Int : r = 2 * m \/ r = 2 * m - 1
      <4>1. r = 2 * ((r + 1) \div 2) \/ r = 2 * ((r + 1) \div 2) - 1
        OBVIOUS
      <4> QED
        BY <4>1
    <3>2. CASE r = 2 * m
      <4>1. h + m \in 1 .. n /\ ~ (h + m <= h)
        BY <1>2, <3>2
      <4>2. q[h + m] = r
        BY <3>2, <4>1
      <4> QED
        BY <4>1, <4>2
    <3>3. CASE r = 2 * m - 1
      <4>1. h + 1 - m \in 1 .. n /\ h + 1 - m <= h
        BY <1>2, <3>3
      <4>2. q[h + 1 - m] = r
        BY <3>3, <4>1
      <4> QED
        BY <4>1, <4>2
    <3> QED
      BY <3>1, <3>2, <3>3
  <2> QED
    BY <2>1, <2>2, <2>3 DEF Permutes
<1>7. x \o y = [i \in 1 .. n |-> s[q[i]]]
  <2> HIDE DEF q
  <2> QED
    BY <1>4, <1>5
<1> QED
  BY <1>6, <1>7 DEF Rearranged, x, y, odd

\* _balance_batch: the elements at the odd positions, and those at the even
\* ones backwards.
LEMMA EndsFacts ==
  ASSUME NEW S, NEW n \in Nat \ {0}, NEW s \in [1 .. n -> S]
  PROVE  Rearranged(EverySecond(s, 1) \o Reverse(EverySecond(s, 2)), s, n)
<1>1. PICK h \in Nat : Halves(s, n, h, S)
  BY EverySecondFacts
<1> DEFINE x == EverySecond(s, 1)
           even == EverySecond(s, 2)
           y == Reverse(even)
           q == [i \in 1 .. n |-> IF i <= h THEN 2 * i - 1 ELSE 2 * (n + 1 - i)]
<1>2. /\ h \in 1 .. n /\ (n = 2 * h \/ n = 2 * h - 1)
      /\ x \in Seq(S) /\ even \in Seq(S) /\ Len(x) = h /\ Len(even) = n - h
      /\ \A i \in 1 .. h : x[i] = s[2 * i - 1]
      /\ \A i \in 1 .. n - h : even[i] = s[2 * i]
  BY <1>1 DEF Halves
<1> HIDE DEF x, even
<1>3. y \in Seq(S) /\ Len(y) = n - h /\ \A i \in 1 .. n - h : y[i] = even[(n - h) + 1 - i]
  <2> DEFINE l == Len(even)
  <2>1. /\ y \in Seq(S) /\ Len(y) = l
        /\ \A i \in 1 .. l : y[i] = even[l + 1 - i]
    BY <1>2, ReverseFacts
  <2>2. l = n - h
    BY <1>2
  <2> HIDE DEF l, y
  <2> QED
    BY <2>1, <2>2
<1> HIDE DEF y
<1>4. x \o y = [i \in 1 .. n |-> IF i <= h THEN x[i] ELSE y[i - h]]
  <2>1. h \in 0 .. n /\ x \in Seq(S) /\ y \in Seq(S) /\ Len(x) = h /\ Len(y) = n - h
    BY <1>2, <1>3
  <2>2. Joined(x \o y, x, y, n, h)
    BY <2>1, JoinFacts
  <2> QED
    BY <2>2 DEF Joined
<1>5. ASSUME NEW i \in 1 .. n PROVE (IF i <= h THEN x[i] ELSE y[i - h]) = s[q[i]]
  <2>1. CASE i <= h
    BY <1>2, <2>1
  <2>2. CASE ~ (i <= h)
    <3>1. i - h \in 1 .. n - h /\ n + 1 - i \in 1 .. n - h /\ (n - h) + 1 - (i - h) = n + 1 - i
      BY <1>2, <2>2
    <3>2. y[i - h] = even[n + 1 - i]
      BY <1>3, <3>1
    <3>3. even[n + 1 - i] = s[2 * (n + 1 - i)]
      BY <1>2, <3>1
    <3> QED
      BY <2>2, <3>2, <3>3
  <2> QED
    BY <2>1, <2>2
<1>6. Permutes(q, n)
  <2>1. ASSUME NEW i \in 1 .. n PROVE q[i] \in 1 .. n
    <3>1. CASE i <= h
      BY <1>2, <3>1
    <3>2. CASE ~ (i <= h)
      BY <1>2, <3>2
    <3> QED
      BY <3>1, <3>2
  <2>2. ASSUME NEW i \in 1 .. n, NEW j \in 1 .. n, q[i] = q[j] PROVE i = j
    <3>1. CASE i <= h /\ j <= h
      BY <1>2, <2>2, <3>1
    <3>2. CASE i <= h /\ ~ (j <= h)
      BY <1>2, <2>2, <3>2
    <3>3. CASE ~ (i <= h) /\ j <= h
      BY <1>2, <2>2, <3>3
    <3>4. CASE ~ (i <= h) /\ ~ (j <= h)
      BY <1>2, <2>2, <3>4
    <3> QED
      BY <3>1, <3>2, <3>3, <3>4
  <2>3. ASSUME NEW r \in 1 .. n PROVE \E i \in 1 .. n : q[i] = r
    <3>1. PICK m \in Int : r = 2 * m \/ r = 2 * m - 1
      <4>1. r = 2 * ((r + 1) \div 2) \/ r = 2 * ((r + 1) \div 2) - 1
        OBVIOUS
      <4> QED
        BY <4>1
    <3>2. CASE r = 2 * m
      <4>1. n + 1 - m \in 1 .. n /\ ~ (n + 1 - m <= h) /\ n + 1 - (n + 1 - m) = m
        BY <1>2, <3>2
      <4>2. q[n + 1 - m] = r
        BY <3>2, <4>1
      <4> QED
        BY <4>1, <4>2
    <3>3. CASE r = 2 * m - 1
      <4>1. m \in 1 .. n /\ m <= h
        BY <1>2, <3>3
      <4>2. q[m] = r
        BY <3>3, <4>1
      <4> QED
        BY <4>1, <4>2
    <3> QED
      BY <3>1, <3>2, <3>3
  <2> QED
    BY <2>1, <2>2, <2>3 DEF Permutes
<1>7. x \o y = [i \in 1 .. n |-> s[q[i]]]
  <2> HIDE DEF q
  <2> QED
    BY <1>4, <1>5
<1> QED
  BY <1>6, <1>7 DEF Rearranged, y, x, even

\* Two rearrangements are one.
LEMMA RearrangedAgain ==
  ASSUME NEW n \in Nat, NEW s, NEW t, NEW u, Rearranged(t, s, n), Rearranged(u, t, n)
  PROVE  Rearranged(u, s, n)
<1>1. PICK p : Permutes(p, n) /\ t = [i \in 1 .. n |-> s[p[i]]]
  BY DEF Rearranged
<1>2. PICK q : Permutes(q, n) /\ u = [i \in 1 .. n |-> t[q[i]]]
  BY DEF Rearranged
<1> DEFINE c == [i \in 1 .. n |-> p[q[i]]]
<1>a. /\ p \in [1 .. n -> 1 .. n] /\ q \in [1 .. n -> 1 .. n]
      /\ \A i, j \in 1 .. n : p[i] = p[j] => i = j
      /\ \A i, j \in 1 .. n : q[i] = q[j] => i = j
      /\ \A r \in 1 .. n : \E i \in 1 .. n : p[i] = r
      /\ \A r \in 1 .. n : \E i \in 1 .. n : q[i] = r
  BY <1>1, <1>2 DEF Permutes
<1>3. Permutes(c, n)
  <2>1. c \in [1 .. n -> 1 .. n]
    BY <1>a
  <2>2. \A i, j \in 1 .. n : c[i] = c[j] => i = j
    BY <1>a
  <2>3. ASSUME NEW r \in 1 .. n PROVE \E i \in 1 .. n : c[i] = r
    <3>1. PICK j \in 1 .. n : p[j] = r
      BY <1>a
    <3>2. PICK i \in 1 .. n : q[i] = j
      BY <1>a
    <3>3. c[i] = r
      BY <3>1, <3>2
    <3> QED
      BY <3>3
  <2> QED
    BY <2>1, <2>2, <2>3 DEF Permutes
<1>4. u = [i \in 1 .. n |-> s[c[i]]]
  BY <1>1, <1>2 DEF Permutes
<1> QED
  BY <1>3, <1>4 DEF Rearranged

\* The parts of a partition in another order are the same partition.
LEMMA Repartitioned ==
  ASSUME NEW n \in Nat, NEW k \in Nat \ {0}, NEW P, Partitioned(P, n, k),
         NEW M, Rearranged(M, P, k)
  PROVE  Partitioned(M, n, k) /\ \A w, b : LoadGap(P, k, w, b) => LoadGap(M, k, w, b)
<1>1. PICK q : Permutes(q, k) /\ M = [i \in 1 .. k |-> P[q[i]]]
  BY DEF Rearranged
<1>2. /\ \A i \in 1 .. k : M[i] = P[q[i]] /\ q[i] \in 1 .. k
      /\ \A i, j \in 1 .. k : q[i] = q[j] => i = j
      /\ \A j \in 1 .. k : \E i \in 1 .. k : q[i] = j
  BY <1>1 DEF Permutes
<1>3. M \in [1 .. k -> Seq(1 .. n)]
  BY <1>1, <1>2 DEF Partitioned
<1>4. \A i \in 1 .. k : Len(M[i]) > 0
  BY <1>2 DEF Partitioned
<1>5. ASSUME NEW i \in 1 .. k, NEW j \in 1 .. k, NEW a \in DOMAIN M[i], NEW b \in DOMAIN M[j],
             M[i][a] = M[j][b]
      PROVE  i = j /\ a = b
  <2> DEFINE x == q[i]
             y == q[j]
  <2>1. x \in 1 .. k /\ y \in 1 .. k /\ M[i] = P[x] /\ M[j] = P[y]
    BY <1>2
  <2>a. x = q[i] /\ y = q[j]
    OBVIOUS
  <2> HIDE DEF x, y
  <2>2. a \in DOMAIN P[x] /\ b \in DOMAIN P[y] /\ P[x][a] = P[y][b]
    BY <1>5, <2>1
  <2>3. x = y /\ a = b
    BY <2>1, <2>2 DEF Partitioned
  <2> QED
    BY <1>2, <2>3, <2>a
<1>6. ASSUME NEW r \in 1 .. n PROVE \E i \in 1 .. k : \E a \in DOMAIN M[i] : M[i][a] = r
  <2>1. PICK j \in 1 .. k : \E a \in DOMAIN P[j] : P[j][a] = r
    BY DEF Partitioned
  <2>2. PICK i \in 1 .. k : q[i] = j
    BY <1>2
  <2>3. M[i] = P[j]
    BY <1>2, <2>2
  <2> QED
    BY <2>1, <2>3
<1>7. Partitioned(M, n, k)
  BY <1>3, <1>4, <1>5, <1>6 DEF Partitioned
<1>8. ASSUME NEW w, NEW b, LoadGap(P, k, w, b) PROVE LoadGap(M, k, w, b)
  BY <1>2, <1>8 DEF LoadGap
<1> QED
  BY <1>7, <1>8

\* The elements of a sequence without repetitions, in an order.
LEMMA OrderedRange ==
  ASSUME NEW k \in Nat, NEW P, DOMAIN P = 1 .. k,
         \A i, j \in 1 .. k : P[i] = P[j] => i = j,
         NEW R, StrictTotalOrder(R, Range(P))
  PROVE  Rearranged(Ordered(Range(P), R), P, k)
<1> DEFINE S == Range(P)
           K == 1 .. k
           f == Ordered(S, R)
<1>1. IsFiniteSet(S) /\ Cardinality(S) = k
  <2>1. IsFiniteSet(K) /\ Cardinality(K) = k
    BY IntervalCount
  <2> DEFINE p == [i \in K |-> P[i]]
  <2>2. p \in [K -> S] /\ (\A x, y \in K : p[x] = p[y] => x = y) /\ \A t \in S : \E x \in K : p[x] = t
    BY DEF Range
  <2> HIDE DEF p, S, K
  <2> QED
    BY <2>1, <2>2, BijectionCount
<1>2. StrictTotalOrder(R, S)
  OBVIOUS
<1> HIDE DEF S
<1>3. /\ f \in [1 .. Cardinality(S) -> S]
      /\ \A x \in S : \E i \in 1 .. Cardinality(S) : f[i] = x
      /\ \A i, j \in 1 .. Cardinality(S) : f[i] = f[j] => i = j
  BY <1>1, <1>2, OrderedFacts
<1> HIDE DEF f, K
<1>4. f \in [1 .. k -> S] /\ (\A x \in S : \E i \in 1 .. k : f[i] = x)
      /\ \A i, j \in 1 .. k : f[i] = f[j] => i = j
  BY <1>1, <1>3
<1> DEFINE q == [i \in 1 .. k |-> CHOOSE j \in 1 .. k : P[j] = f[i]]
<1>5. ASSUME NEW i \in 1 .. k PROVE q[i] \in 1 .. k /\ P[q[i]] = f[i]
  <2>1. f[i] \in S
    BY <1>4
  <2>2. \E j \in 1 .. k : P[j] = f[i]
    BY <2>1 DEF S, Range
  <2> QED
    BY <2>2
<1>6. q \in [1 .. k -> 1 .. k]
  BY <1>5
<1> HIDE DEF q
<1>7. \A i, j \in 1 .. k : q[i] = q[j] => i = j
  BY <1>4, <1>5
<1>8. ASSUME NEW j \in 1 .. k PROVE \E i \in 1 .. k : q[i] = j
  <2>1. P[j] \in S
    BY DEF S, Range
  <2>2. PICK i \in 1 .. k : f[i] = P[j]
    BY <1>4, <2>1
  <2>3. q[i] = j
    BY <1>5, <2>2
  <2> QED
    BY <2>3
<1>9. f = [i \in 1 .. k |-> P[q[i]]]
  BY <1>4, <1>5
<1> QED
  BY <1>6, <1>7, <1>8, <1>9 DEF Rearranged, Permutes, f, S

\* The workloads of rows of these lengths.
Works(seqlens) == [i \in DOMAIN seqlens |-> Workload(seqlens[i])]

\* The workload of a row is positive.
LEMMA WorksType ==
  ASSUME NEW n \in Nat, NEW seqlens \in [1 .. n -> Nat \ {0}]
  PROVE  Works(seqlens) \in [1 .. n -> Nat \ {0}]
<1>1. ASSUME NEW x \in Nat \ {0} PROVE Workload(x) \in Nat \ {0}
  <2>1. x * x \in Nat
    OBVIOUS
  <2> QED
    BY <2>1 DEF Workload
<1> QED
  BY <1>1 DEF Works

\* The micro-batches divide the rows among them, none of them is empty, and
\* their loads differ by no more than that of one row.
MicroBatched(M, n, w, k) ==
    Partitioned(M, n, k) /\ \E r \in 1 .. n : LoadGap(M, k, w, w[r])

\* rearrange_micro_batches divides the rows of a rank among its
\* micro-batches, none of them empty, and their loads differ by no more than
\* the largest workload, in whatever order it then places them.
LEMMA MicroBatchesFacts ==
  ASSUME NEW n \in Nat \ {0}, NEW seqlens \in [1 .. n -> Nat \ {0}], NEW num \in 1 .. n
  PROVE  MicroBatched(MicroBatches(seqlens, num), n, Works(seqlens), num)
<1> DEFINE w == Works(seqlens)
           P == BalancedPartitions(w, num, FALSE)
           load(part) == SumOf(w, Range(part))
           Before(a, b) == PairBefore(<<load(b), b[1]>>, <<load(a), a[1]>>)
           S == Range(P)
           R == {q \in S \X S : Before(q[1], q[2])}
           f == Ordered(S, R)
<1>1. w \in [1 .. n -> Nat \ {0}]
  BY WorksType
<1>2. MicroBatches(seqlens, num) =
        LET sorted == InOrder(S, LAMBDA a, b : PairBefore(<<load(b), b[1]>>, <<load(a), a[1]>>))
        IN  Reverse(EverySecond(sorted, 1)) \o EverySecond(sorted, 2)
  BY DEF MicroBatches, Works
<1>3. InOrder(S, LAMBDA a, b : PairBefore(<<load(b), b[1]>>, <<load(a), a[1]>>)) = f
  <2>1. \A x \in S : {y \in S : Before(y, x)} = {y \in S : <<y, x>> \in R}
    OBVIOUS
  <2>2. {<<x, Cardinality({y \in S : Before(y, x)}) + 1>> : x \in S}
          = {<<x, Cardinality({y \in S : <<y, x>> \in R}) + 1>> : x \in S}
    BY <2>1
  <2>3. InOrder(S, LAMBDA a, b : PairBefore(<<load(b), b[1]>>, <<load(a), a[1]>>))
          = ByPlace({<<x, Cardinality({y \in S : Before(y, x)}) + 1>> : x \in S}, Cardinality(S))
    BY DEF InOrder, ByPlace
  <2> QED
    BY <2>2, <2>3 DEF Ordered
<1>4. MicroBatches(seqlens, num) = Reverse(EverySecond(f, 1)) \o EverySecond(f, 2)
  <2> HIDE DEF S, f
  <2> QED
    BY <1>2, <1>3
<1> HIDE DEF w, P
<1>5. Balanced(P, n, w, num, FALSE, 0)
  <2>1. num \in Nat \ {0} /\ num <= n /\ n \in Nat
    OBVIOUS
  <2> QED
    BY <1>1, <2>1, PartitionsAreBalanced DEF P
<1>6. Partitioned(P, n, num) /\ \E r \in 1 .. n : LoadGap(P, num, w, w[r])
  BY <1>5 DEF Balanced
<1>7. /\ P \in [1 .. num -> Seq(1 .. n)]
      /\ \A i \in 1 .. num : Len(P[i]) > 0
      /\ \A i, j \in 1 .. num : \A a \in DOMAIN P[i], b \in DOMAIN P[j] :
            P[i][a] = P[j][b] => i = j /\ a = b
  BY <1>6 DEF Partitioned
<1>8. ASSUME NEW p \in S
      PROVE  /\ p[1] \in 1 .. n /\ load(p) \in Int
             /\ \E i \in 1 .. num : p = P[i] /\ 1 \in DOMAIN P[i]
  <2>1. PICK i \in 1 .. num : p = P[i]
    BY <1>7 DEF Range
  <2>2. p \in Seq(1 .. n) /\ Len(p) > 0
    BY <1>7, <2>1
  <2>3. 1 \in DOMAIN p /\ p[1] \in 1 .. n
    BY <2>2
  <2> DEFINE N == 1 .. n
             T == Range(p)
  <2>4. IsFiniteSet(T) /\ T \in SUBSET N
    <3>1. p \in Seq(N)
      BY <2>2
    <3> HIDE DEF N
    <3> QED
      BY <3>1, SeqRangeFinite
  <2>5. \A x \in T : w[x] \in Int
    BY <1>1, <2>4
  <2> HIDE DEF T
  <2>6. SumOf(w, T) \in Int
    BY <2>4, <2>5, SumType
  <2> QED
    BY <2>1, <2>3, <2>6 DEF T
<1>9. \A x, y \in S : x[1] = y[1] => x = y
  <2> SUFFICES ASSUME NEW x \in S, NEW y \in S, x[1] = y[1] PROVE x = y
    OBVIOUS
  <2> HIDE DEF S
  <2>1. PICK i \in 1 .. num : x = P[i] /\ 1 \in DOMAIN P[i]
    BY <1>8
  <2>2. PICK j \in 1 .. num : y = P[j] /\ 1 \in DOMAIN P[j]
    BY <1>8
  <2>3. i = j
    BY <1>7, <2>1, <2>2
  <2> QED
    BY <2>1, <2>2, <2>3
<1>10. \A x, y \in S : <<x, y>> \in R <=> load(y) < load(x) \/ (load(y) = load(x) /\ y[1] < x[1])
  BY DEF PairBefore
<1> HIDE DEF S, R
<1>11. StrictTotalOrder(R, S)
  <2>1. \A x \in S : x[1] \in Int /\ load(x) \in Int
    BY <1>8
  <2> HIDE DEF load
  <2>2. \A x \in S : <<x, x>> \notin R
    BY <1>10, <2>1
  <2>3. ASSUME NEW x \in S, NEW y \in S, NEW z \in S, <<x, y>> \in R, <<y, z>> \in R
        PROVE  <<x, z>> \in R
    <3>1. /\ load(y) < load(x) \/ (load(y) = load(x) /\ y[1] < x[1])
          /\ load(z) < load(y) \/ (load(z) = load(y) /\ z[1] < y[1])
      BY <1>10, <2>3
    <3>2. load(z) < load(x) \/ (load(z) = load(x) /\ z[1] < x[1])
      BY <2>1, <3>1
    <3> QED
      BY <1>10, <3>2
  <2>4. ASSUME NEW x \in S, NEW y \in S, x # y PROVE <<x, y>> \in R \/ <<y, x>> \in R
    <3>1. x[1] # y[1]
      BY <1>9, <2>4
    <3>2. \/ load(y) < load(x) \/ (load(y) = load(x) /\ y[1] < x[1])
          \/ load(x) < load(y) \/ (load(x) = load(y) /\ x[1] < y[1])
      BY <2>1, <3>1
    <3> QED
      BY <1>10, <3>2
  <2> QED
    BY <2>2, <2>3, <2>4 DEF StrictTotalOrder
<1>12. Rearranged(f, P, num)
  <2>1. \A i, j \in 1 .. num : P[i] = P[j] => i = j
    <3> SUFFICES ASSUME NEW i \in 1 .. num, NEW j \in 1 .. num, P[i] = P[j] PROVE i = j
      OBVIOUS
    <3>1. P[i] \in Seq(1 .. n) /\ Len(P[i]) > 0
      BY <1>7
    <3>2. 1 \in DOMAIN P[i] /\ 1 \in DOMAIN P[j]
      BY <3>1
    <3> QED
      BY <1>7, <3>2
  <2>2. num \in Nat /\ DOMAIN P = 1 .. num
    BY <1>7
  <2>3. StrictTotalOrder(R, Range(P))
    BY <1>11 DEF S
  <2>4. Rearranged(Ordered(Range(P), R), P, num)
    BY <2>1, <2>2, <2>3, OrderedRange
  <2> QED
    BY <2>4 DEF S
<1> HIDE DEF f
<1>13. f \in [1 .. num -> Seq(1 .. n)]
  <2>1. PICK q : Permutes(q, num) /\ f = [i \in 1 .. num |-> P[q[i]]]
    BY <1>12 DEF Rearranged
  <2> QED
    BY <1>7, <2>1 DEF Permutes
<1> DEFINE M == Reverse(EverySecond(f, 1)) \o EverySecond(f, 2)
<1>14. Rearranged(M, f, num)
  <2> DEFINE T == Seq(1 .. n)
  <2>1. num \in Nat \ {0} /\ f \in [1 .. num -> T]
    BY <1>13
  <2> HIDE DEF T
  <2> QED
    BY <2>1, MiddleFacts
<1> HIDE DEF M
<1>15. Rearranged(M, P, num)
  <2>1. num \in Nat
    OBVIOUS
  <2> QED
    BY <1>12, <1>14, <2>1, RearrangedAgain
<1>16. Partitioned(M, n, num) /\ \A v, b : LoadGap(P, num, v, b) => LoadGap(M, num, v, b)
  <2>1. n \in Nat /\ num \in Nat \ {0}
    OBVIOUS
  <2> QED
    BY <1>6, <1>15, <2>1, Repartitioned
<1>17. M = MicroBatches(seqlens, num)
  BY <1>4 DEF M
<1>18. MicroBatched(M, n, w, num)
  BY <1>6, <1>16 DEF MicroBatched
<1> QED
  BY <1>17, <1>18 DEF w

-----------------------------------------------------------------------------
(* The operations of DataProto, column by column.                          *)

\* A column of m rows; a DataProto with the columns C of m rows.
IsColumn(s, m) == s = [i \in 1 .. m |-> s[i]]
Data(d, C, m) == d = [c \in C |-> d[c]] /\ \A c \in C : IsColumn(d[c], m)

\* A column is a sequence of its values.
LEMMA ColumnFacts ==
  ASSUME NEW m \in Nat, NEW s, IsColumn(s, m)
  PROVE  /\ s \in [1 .. m -> Range(s)] /\ s \in Seq(Range(s))
         /\ Len(s) = m /\ DOMAIN s = 1 .. m
<1>1. s = [i \in 1 .. m |-> s[i]]
  BY DEF IsColumn
<1>2. DOMAIN s = 1 .. m
  BY <1>1
<1>3. s \in [1 .. m -> Range(s)]
  BY <1>1, <1>2 DEF Range
<1> QED
  BY <1>2, <1>3, FunctionIsSeq

\* The length of a DataProto is that of its columns.
LEMMA SizeFacts ==
  ASSUME NEW m \in Nat, NEW C, C # {}, NEW d, Data(d, C, m)
  PROVE  Size(d) = m
<1> DEFINE c == CHOOSE x \in DOMAIN d : TRUE
<1>1. DOMAIN d = C
  BY DEF Data
<1>2. c \in C
  BY <1>1
<1>3. Size(d) = Len(d[c])
  BY DEF Size
<1> HIDE DEF c
<1>4. IsColumn(d[c], m)
  BY <1>2 DEF Data
<1> QED
  BY <1>3, <1>4, ColumnFacts

\* x has, in row i, row f[i] of d.
Takes(x, d, C, k, f) ==
    /\ Data(x, C, k)
    /\ \A c \in C : \A i \in 1 .. k : x[c][i] = d[c][f[i]]

\* select_idxs takes the rows f of every column.
LEMMA SelectFacts ==
  ASSUME NEW m \in Nat, NEW C, NEW d, Data(d, C, m), NEW k \in Nat, NEW f \in [1 .. k -> 1 .. m]
  PROVE  Takes(Select(d, f), d, C, k, f)
<1> DEFINE x == Select(d, f)
<1>1. x = [c \in C |-> [i \in 1 .. k |-> d[c][f[i]]]]
  BY DEF Select, Data
<1> HIDE DEF x
<1>2. \A c \in C : x[c] = [i \in 1 .. k |-> d[c][f[i]]]
  BY <1>1
<1>3. \A c \in C : IsColumn(x[c], k)
  BY <1>2 DEF IsColumn
<1>4. x = [c \in C |-> x[c]]
  BY <1>1
<1>5. ASSUME NEW c \in C, NEW i \in 1 .. k PROVE x[c][i] = d[c][f[i]]
  <2>1. x[c] = [j \in 1 .. k |-> d[c][f[j]]]
    BY <1>2
  <2> QED
    BY <2>1
<1>6. Data(x, C, k)
  BY <1>3, <1>4 DEF Data
<1> QED
  BY <1>5, <1>6 DEF Takes, x

\* The k rows of d after the first a rows.
Part(x, d, C, a, k) ==
    /\ Data(x, C, k)
    /\ \A c \in C : \A i \in 1 .. k : x[c][i] = d[c][a + i]

\* A slice is the rows a + 1 .. a + k of every column.
LEMMA SliceFacts ==
  ASSUME NEW m \in Nat, NEW C, NEW d, Data(d, C, m), NEW a \in Nat, NEW k \in Nat, a + k <= m
  PROVE  Part(Slice(d, a + 1, a + k), d, C, a, k)
<1> DEFINE x == Slice(d, a + 1, a + k)
<1>1. x = [c \in C |-> SubSeq(d[c], a + 1, a + k)]
  BY DEF Slice, Data
<1> HIDE DEF x
<1>2. ASSUME NEW c \in C
      PROVE  IsColumn(x[c], k) /\ \A i \in 1 .. k : x[c][i] = d[c][a + i]
  <2> DEFINE s == d[c]
             S == Range(s)
  <2>1. x[c] = SubSeq(s, a + 1, a + k)
    BY <1>1
  <2>2. IsColumn(s, m)
    BY DEF Data
  <2> HIDE DEF s
  <2>3. s \in Seq(S) /\ Len(s) = m
    BY <2>2, ColumnFacts
  <2> HIDE DEF S
  <2>4. SubSeq(s, a + 1, a + k) = [i \in 1 .. k |-> s[a + i]]
    BY <2>3
  <2> QED
    BY <2>1, <2>4 DEF IsColumn, s
<1>3. x = [c \in C |-> x[c]]
  BY <1>1
<1> QED
  BY <1>2, <1>3 DEF Part, Data, x

\* The rows of piece g when m rows are split size by size, and the number of
\* the pieces.
PieceSize(m, size, g) == IF g * size < m THEN size ELSE m - (g - 1) * size
Pieces(m, size) ==
    /\ CeilDiv(m, size) \in Nat \ {0}
    /\ \A g \in 1 .. CeilDiv(m, size) :
          /\ PieceSize(m, size, g) \in 1 .. size
          /\ (g - 1) * size + PieceSize(m, size, g) <= m
          /\ (IF g * size < m THEN g * size ELSE m) = (g - 1) * size + PieceSize(m, size, g)
          /\ (g - 1) * size \in Nat
          /\ g = CeilDiv(m, size) => (g - 1) * size + PieceSize(m, size, g) = m
          /\ g < CeilDiv(m, size) => PieceSize(m, size, g) = size

\* The pieces of size rows that m rows are divided into: all but the last are
\* full, and they fill 1 .. m.
LEMMA PiecesFacts ==
  ASSUME NEW m \in Nat \ {0}, NEW size \in Nat \ {0}
  PROVE  Pieces(m, size)
<1> DEFINE K == CeilDiv(m, size)
<1>1. K \in Nat /\ K * size <= m + size - 1 /\ m + size - 1 < K * size + size
  <2> DEFINE a == m + size - 1
             b == (m + size - 1) % size
  <2>1. a \in Nat /\ K = a \div size
    BY DEF CeilDiv
  <2>2. K \in Nat /\ b \in 0 .. size - 1 /\ a = K * size + b
    BY <2>1, Division
  <2> HIDE DEF K, b
  <2> DEFINE p == K * size
  <2>3. p \in Int
    BY <2>2
  <2> HIDE DEF p
  <2>4. a = p + b
    BY <2>2 DEF p
  <2>5. p <= m + size - 1 /\ m + size - 1 < p + size
    BY <2>2, <2>3, <2>4
  <2> QED
    BY <2>2, <2>5 DEF p
<1> HIDE DEF K
<1>2. K # 0
  BY <1>1
<1>3. ASSUME NEW g \in 1 .. K
      PROVE  /\ PieceSize(m, size, g) \in 1 .. size
             /\ (g - 1) * size + PieceSize(m, size, g) <= m
             /\ (IF g * size < m THEN g * size ELSE m) = (g - 1) * size + PieceSize(m, size, g)
             /\ (g - 1) * size \in Nat
             /\ g = K => (g - 1) * size + PieceSize(m, size, g) = m
             /\ g < K => PieceSize(m, size, g) = size
  <2> DEFINE x == g * size
             y == (g - 1) * size
             p == K * size
  <2>1. x = y + size /\ x \in Int /\ p \in Int
    BY <1>1
  <2>2. y \in Nat
    BY <1>1
  <2>3. g < K => x + size <= p
    <3> SUFFICES ASSUME g < K PROVE x + size <= p
      OBVIOUS
    <3>1. g + 1 <= K
      BY <1>1
    <3>2. (g + 1) * size <= K * size
      <4>1. K = (g + 1) + (K - (g + 1)) /\ K - (g + 1) \in Nat
        BY <1>1, <3>1
      <4> DEFINE e == K - (g + 1)
      <4>2. K * size = (g + 1) * size + e * size
        BY <1>1
      <4>3. e * size \in Nat
        BY <4>1
      <4> QED
        BY <4>2, <4>3
    <3>3. (g + 1) * size = x + size
      OBVIOUS
    <3> QED
      BY <3>2, <3>3
  <2>4. g = K => x = p
    OBVIOUS
  <2>5. PieceSize(m, size, g) = IF x < m THEN size ELSE m - y
    BY DEF PieceSize
  <2>6. p <= m + size - 1 /\ m + size - 1 < p + size
    BY <1>1
  <2>a. g < K \/ g = K
    BY <1>1
  <2> HIDE DEF x, y, p
  <2> DEFINE z == PieceSize(m, size, g)
  <2>7. z = IF x < m THEN size ELSE m - y
    BY <2>5
  <2> HIDE DEF z
  <2>8. CASE g < K
    <3>1. x < m
      BY <2>1, <2>3, <2>6, <2>8
    <3> QED
      BY <2>1, <2>2, <2>7, <2>8, <3>1 DEF x, y, z
  <2>9. CASE g = K
    <3>1. ~ (x < m) /\ m - y \in 1 .. size
      BY <2>1, <2>2, <2>4, <2>6, <2>9
    <3>2. z = m - y /\ z \in 1 .. size /\ y + z = m
      BY <2>2, <2>7, <3>1
    <3>3. ~ (g < K)
      BY <1>1, <2>9
    <3> QED
      BY <2>2, <3>1, <3>2, <3>3 DEF x, y, z
  <2> QED
    BY <2>8, <2>9, <2>a
<1> QED
  BY <1>1, <1>2, <1>3 DEF Pieces, K

\* What the pieces have.
SplitsInto(x, d, C, m, size) ==
    /\ DOMAIN x = 1 .. CeilDiv(m, size)
    /\ x \in Seq(Range(x)) /\ Len(x) = CeilDiv(m, size)
    /\ \A g \in 1 .. CeilDiv(m, size) : Part(x[g], d, C, (g - 1) * size, PieceSize(m, size, g))

\* DataProto.split gives those pieces.
LEMMA SplitFacts ==
  ASSUME NEW m \in Nat \ {0}, NEW C, C # {}, NEW d, Data(d, C, m), NEW size \in Nat \ {0}
  PROVE  SplitsInto(Split(d, size), d, C, m, size)
<1> DEFINE x == Split(d, size)
           K == CeilDiv(m, size)
<1>1. Size(d) = m
  BY SizeFacts
<1>2. x = [g \in 1 .. K |-> Slice(d, (g - 1) * size + 1, IF g * size < m THEN g * size ELSE m)]
  BY <1>1 DEF Split
<1> HIDE DEF x
<1>3. Pieces(m, size)
  BY PiecesFacts
<1>4. ASSUME NEW g \in 1 .. K
      PROVE  Part(x[g], d, C, (g - 1) * size, PieceSize(m, size, g))
  <2> DEFINE a == (g - 1) * size
             k == PieceSize(m, size, g)
  <2>1. a \in Nat /\ k \in Nat /\ a + k <= m /\ (IF g * size < m THEN g * size ELSE m) = a + k
    BY <1>3 DEF Pieces
  <2>2. x[g] = Slice(d, a + 1, a + k)
    BY <1>2, <2>1
  <2> HIDE DEF a, k
  <2> QED
    BY <2>1, <2>2, SliceFacts DEF a, k
<1>5. IsColumn(x, K) /\ K \in Nat
  BY <1>2, <1>3 DEF IsColumn, Pieces
<1>6. x \in Seq(Range(x)) /\ Len(x) = K /\ DOMAIN x = 1 .. K
  <2> HIDE DEF K
  <2> QED
    BY <1>5, ColumnFacts
<1> QED
  BY <1>4, <1>6 DEF SplitsInto, x

\* The chunks are equal.
ChunksInto(x, d, C, b, size) ==
    /\ x \in Seq(Range(x)) /\ Len(x) = b /\ DOMAIN x = 1 .. b
    /\ \A g \in 1 .. b : Part(x[g], d, C, (g - 1) * size, size)

\* DataProto.chunk gives b pieces of the same size when b divides the rows.
LEMMA ChunkFacts ==
  ASSUME NEW b \in Nat \ {0}, NEW size \in Nat \ {0}, NEW C, C # {}, NEW d, Data(d, C, b * size)
  PROVE  ChunksInto(Chunk(d, b), d, C, b, size)
<1> DEFINE m == b * size
<1>1. m \in Nat \ {0} /\ m = b * size /\ m = size * b
  OBVIOUS
<1>2. Size(d) = m
  BY <1>1, SizeFacts
<1>3. m \div b = size
  <2>1. m = size * b + 0
    BY <1>1
  <2> HIDE DEF m
  <2> QED
    BY <1>1, <2>1, DivisionUnique
<1>4. CeilDiv(m, size) = b
  <2> DEFINE a == m + size - 1
  <2>1. a \in Nat /\ size - 1 \in 0 .. size - 1 /\ a = b * size + (size - 1)
    BY <1>1
  <2>2. CeilDiv(m, size) = a \div size
    BY DEF CeilDiv
  <2> HIDE DEF a
  <2>3. a \div size = b
    BY <2>1, DivisionUnique
  <2> QED
    BY <2>2, <2>3
<1>5. Chunk(d, b) = Split(d, size)
  BY <1>2, <1>3 DEF Chunk
<1>a. Data(d, C, m)
  OBVIOUS
<1> HIDE DEF m
<1>6. SplitsInto(Split(d, size), d, C, m, size)
  BY <1>1, <1>a, SplitFacts
<1>7. ASSUME NEW g \in 1 .. b PROVE PieceSize(m, size, g) = size
  <2>1. Pieces(m, size)
    BY <1>1, PiecesFacts
  <2>2. CASE g = b
    <3>1. (g - 1) * size + PieceSize(m, size, g) = m /\ PieceSize(m, size, g) \in 1 .. size
      BY <1>4, <2>1, <2>2 DEF Pieces
    <3>2. (g - 1) * size = m - size
      BY <1>1, <2>2
    <3> QED
      BY <1>1, <3>1, <3>2
  <2>3. CASE g # b
    BY <1>4, <2>1, <2>3 DEF Pieces
  <2> QED
    BY <2>2, <2>3
<1> QED
  BY <1>4, <1>5, <1>6, <1>7 DEF SplitsInto, ChunksInto

\* Row i of part g is where position i of block g is.
JoinsInto(x, parts, C, b, m) ==
    /\ Data(x, C, b * m)
    /\ \A c \in C : \A g \in 1 .. b : \A i \in 1 .. m :
          x[c][Place(m, g - 1, i)] = parts[g][c][i]

\* DataProto.concat puts the rows of b parts of m rows one after the other.
LEMMA ConcatDataFacts ==
  ASSUME NEW b \in Nat \ {0}, NEW m \in Nat \ {0}, NEW C, NEW parts, DOMAIN parts = 1 .. b,
         \A g \in 1 .. b : Data(parts[g], C, m)
  PROVE  JoinsInto(Concat(parts), parts, C, b, m)
<1> DEFINE x == Concat(parts)
           seqs(c) == [g \in 1 .. b |-> parts[g][c]]
           o == [g \in 1 .. b + 1 |-> (g - 1) * m]
<1>1. DOMAIN parts[1] = C
  BY DEF Data
<1>2. x = [c \in C |-> FlattenSeq(seqs(c))]
  BY <1>1 DEF Concat
<1> HIDE DEF x
<1>3. ASSUME NEW c \in C
      PROVE  /\ IsColumn(x[c], b * m)
             /\ \A g \in 1 .. b : \A i \in 1 .. m : x[c][Place(m, g - 1, i)] = parts[g][c][i]
  <2> DEFINE s == seqs(c)
             S == UNION {Range(parts[g][c]) : g \in 1 .. b}
             y == FlattenSeq(s)
  <2>1. ASSUME NEW g \in 1 .. b PROVE s[g] \in Seq(S) /\ Len(s[g]) = m /\ s[g] = parts[g][c]
    <3> DEFINE t == parts[g][c]
               T == Range(t)
    <3>1. IsColumn(t, m)
      BY DEF Data
    <3>2. s[g] = t
      OBVIOUS
    <3>3. T \in SUBSET S
      OBVIOUS
    <3>4. t \in Seq(T) /\ Len(t) = m
      <4> HIDE DEF t
      <4> QED
        BY <3>1, ColumnFacts
    <3> HIDE DEF t, T, s, S
    <3>5. t \in Seq(S)
      BY <3>3, <3>4, SeqOfSubset
    <3> QED
      BY <3>2, <3>4, <3>5 DEF t
  <2>2. s \in [1 .. b -> Seq(S)]
    BY <2>1
  <2>3. o \in [1 .. b + 1 -> Nat] /\ o[1] = 0 /\ o[b + 1] = b * m
    OBVIOUS
  <2>4. ASSUME NEW g \in 1 .. b PROVE o[g + 1] = o[g] + Len(s[g])
    <3>1. o[g + 1] = g * m /\ o[g] = (g - 1) * m
      OBVIOUS
    <3>2. g * m = (g - 1) * m + m
      OBVIOUS
    <3> HIDE DEF o
    <3> QED
      BY <2>1, <3>1, <3>2
  <2>5. \A g \in 1 .. b : o[g] = (g - 1) * m
    OBVIOUS
  <2>6. x[c] = y
    BY <1>2
  <2> HIDE DEF s, S, o, y
  <2>7. FlatAt(s, b, o, S)
    BY <2>2, <2>3, <2>4, FlattenAt
  <2>8. /\ y \in Seq(S) /\ Len(y) = b * m
        /\ \A g \in 1 .. b : \A i \in 1 .. Len(s[g]) : y[o[g] + i] = s[g][i]
    BY <2>3, <2>7 DEF FlatAt, y
  <2>9. IsColumn(y, b * m)
    <3> DEFINE n == b * m
    <3>1. Len(y) = n
      BY <2>8
    <3> HIDE DEF n
    <3>2. y = [i \in 1 .. n |-> y[i]]
      BY <2>8, <3>1, SeqElement
    <3> QED
      BY <3>2 DEF IsColumn, n
  <2>10. ASSUME NEW g \in 1 .. b, NEW i \in 1 .. m PROVE y[Place(m, g - 1, i)] = parts[g][c][i]
    <3>1. y[o[g] + i] = s[g][i]
      BY <2>1, <2>8
    <3>2. o[g] + i = Place(m, g - 1, i)
      BY <2>5 DEF Place
    <3> QED
      BY <2>1, <3>1, <3>2
  <2> QED
    BY <2>6, <2>9, <2>10
<1>4. x = [c \in C |-> x[c]]
  BY <1>2
<1>5. Data(x, C, b * m)
  BY <1>3, <1>4 DEF Data
<1> QED
  BY <1>3, <1>5 DEF JoinsInto, x

\* The columns of both, which agree on those that both have.
Unites(x, d, e, C, D, m) ==
    /\ Data(x, C \cup D, m)
    /\ \A c \in C : x[c] = d[c]
    /\ \A c \in D \ C : x[c] = e[c]

\* DataProto.union has the columns of both, the second's where both have one.
LEMMA UnionFacts ==
  ASSUME NEW m \in Nat, NEW C, NEW D, NEW d, NEW e, Data(d, C, m), Data(e, D, m)
  PROVE  Unites(Union(d, e), d, e, C, D, m)
<1>1. DOMAIN d = C /\ DOMAIN e = D
  BY DEF Data
<1> DEFINE x == Union(d, e)
<1>2. x = [c \in C \cup D |-> IF c \in C THEN d[c] ELSE e[c]]
  BY <1>1 DEF Union
<1> HIDE DEF x
<1>3. \A c \in C : x[c] = d[c]
  BY <1>2
<1>4. \A c \in D \ C : x[c] = e[c]
  BY <1>2
<1>5. \A c \in C \cup D : IsColumn(x[c], m)
  BY <1>3, <1>4 DEF Data
<1>6. x = [c \in C \cup D |-> x[c]]
  BY <1>2
<1> QED
  BY <1>3, <1>4, <1>5, <1>6 DEF Unites, Data, x

\* x has the rows of d, each of them times in a row.
Repeats(x, d, C, m, times) ==
    /\ Data(x, C, m * times)
    /\ \A c \in C : \A i \in 1 .. m * times : x[c][i] = d[c][(i - 1) \div times + 1]

\* repeat(interleave=True) puts the copies of a row one after the other.
LEMMA RepeatFacts ==
  ASSUME NEW m \in Nat, NEW C, NEW d, Data(d, C, m), NEW times \in Nat \ {0}
  PROVE  Repeats(Repeat(d, times), d, C, m, times)
<1> DEFINE x == Repeat(d, times)
           n == m * times
<1>1. \A c \in C : Len(d[c]) = m
  BY ColumnFacts DEF Data
<1>2. DOMAIN d = C
  BY DEF Data
<1>3. x = [c \in C |-> [i \in 1 .. n |-> d[c][(i - 1) \div times + 1]]]
  BY <1>1, <1>2 DEF Repeat
<1> HIDE DEF x, n
<1>4. ASSUME NEW c \in C
      PROVE  IsColumn(x[c], n) /\ \A i \in 1 .. n : x[c][i] = d[c][(i - 1) \div times + 1]
  <2>1. x[c] = [i \in 1 .. n |-> d[c][(i - 1) \div times + 1]]
    BY <1>3
  <2> QED
    BY <2>1 DEF IsColumn
<1>5. x = [c \in C |-> x[c]]
  BY <1>3
<1> QED
  BY <1>4, <1>5 DEF Repeats, Data, x, n

\* The rows of a batch padded to a multiple k of a divisor.
Pads(x, d, C, m, k) ==
    /\ Data(x, C, k)
    /\ \A c \in C : \A i \in 1 .. m : x[c][i] = d[c][i]

\* pad_dataproto_to_divisor adds rows until the divisor divides their number,
\* and leaves the rows that were there in front.
LEMMA PaddedFacts ==
  ASSUME NEW m \in Nat \ {0}, NEW C, C # {}, NEW d, Data(d, C, m), NEW divisor \in Nat \ {0}
  PROVE  \E q \in Nat \ {0} : q * divisor >= m /\ Pads(Padded(d, divisor), d, C, m, q * divisor)
<1> DEFINE q == CeilDiv(m, divisor)
           k == q * divisor
           f == [i \in 1 .. k |-> ((i - 1) % m) + 1]
           x == Padded(d, divisor)
<1>1. q \in Nat \ {0} /\ k \in Nat /\ k >= m
  <2>1. Pieces(m, divisor)
    BY PiecesFacts
  <2>2. q \in Nat \ {0} /\ (q - 1) * divisor + PieceSize(m, divisor, q) = m
        /\ PieceSize(m, divisor, q) \in 1 .. divisor
    BY <2>1 DEF Pieces
  <2> HIDE DEF q
  <2>3. (q - 1) * divisor + divisor = q * divisor
    BY <2>2
  <2>4. k \in Nat
    BY <2>2
  <2> QED
    BY <2>2, <2>3, <2>4
<1>2. Size(d) = m
  BY SizeFacts
<1>3. x = Select(d, f)
  <2> DEFINE p == PadSize(d, divisor)
  <2>1. p = k - m
    BY <1>2 DEF PadSize
  <2>2. m + p = k
    <3> HIDE DEF p, k
    <3> QED
      BY <1>1, <2>1
  <2>3. x = Select(d, [i \in 1 .. m + p |-> ((i - 1) % m) + 1])
    BY <1>2 DEF Padded
  <2> HIDE DEF p, k
  <2> QED
    BY <2>2, <2>3
<1> HIDE DEF q, x
<1>a. k = q * divisor
  OBVIOUS
<1> HIDE DEF k
<1>4. f \in [1 .. k -> 1 .. m] /\ \A i \in 1 .. k : i <= m => f[i] = i
  <2>1. ASSUME NEW i \in 1 .. k PROVE ((i - 1) % m) + 1 \in 1 .. m /\ (i <= m => ((i - 1) % m) + 1 = i)
    <3>1. i - 1 \in Nat
      OBVIOUS
    <3>2. (i - 1) % m \in 0 .. m - 1
      BY <3>1, Division
    <3>3. ASSUME i <= m PROVE (i - 1) % m = i - 1
      <4>1. i - 1 \in 0 .. m - 1 /\ i - 1 = 0 * m + (i - 1)
        BY <3>3
      <4> QED
        BY <3>1, <4>1, DivisionUnique
    <3> QED
      BY <3>2, <3>3
  <2> QED
    BY <2>1
<1> HIDE DEF f
<1>5. Takes(x, d, C, k, f)
  BY <1>1, <1>3, <1>4, SelectFacts
<1>6. Pads(x, d, C, m, k)
  <2>1. \A i \in 1 .. m : i \in 1 .. k /\ f[i] = i
    BY <1>1, <1>4
  <2> QED
    BY <1>5, <2>1 DEF Pads, Takes
<1> QED
  BY <1>1, <1>6, <1>a DEF x

-----------------------------------------------------------------------------
(* What the code asserts of a configuration, and what follows from it.     *)

Rows(c) == c.prompts * c.n          \* of a batch
Groups(c) == c.world \div c.sp      \* DPSize
Share(c) == Rows(c) \div Groups(c)  \* the rows that a rank is sent
GroupNo(c, r) == (r - 1) \div c.sp + 1
Leads(c, r) == (r - 1) % c.sp = 0
Mini(c) == (c.mini * c.n) \div Groups(c)

\* What holds of the numbers of every configuration, and of one that is not
\* for validation.
Sound(c) ==
    /\ c.prompts \in Nat \ {0} /\ c.n \in Nat \ {0} /\ c.workers \in Nat \ {0}
    /\ c.world \in Nat \ {0} /\ c.sp \in Nat \ {0} /\ c.micro \in Nat \ {0}
    /\ c.validate \in BOOLEAN /\ c.dynamic \in BOOLEAN
    /\ c.lengths \in SUBSET Nat /\ c.scores \in SUBSET Int
    /\ Rows(c) \in Nat \ {0} /\ Groups(c) \in Nat \ {0} /\ c.world = Groups(c) * c.sp

Trains(c) ==
    /\ \E q \in Nat \ {0} : Rows(c) = c.workers * q
    /\ \E q \in Nat \ {0} : Rows(c) = q * c.world
    /\ Share(c) \in Nat \ {0} /\ Rows(c) = Groups(c) * Share(c)
    /\ Mini(c) \in Nat \ {0}

\* Division without a remainder.
LEMMA Divides ==
  ASSUME NEW a \in Nat \ {0}, NEW b \in Nat \ {0}, (a % b) = 0
  PROVE  a \div b \in Nat \ {0} /\ a = (a \div b) * b
<1> DEFINE q == a \div b
<1>1. q \in Nat /\ a = q * b + (a % b)
  BY Division
<1> HIDE DEF q
<1>2. a = q * b
  BY <1>1
<1>3. q # 0
  BY <1>2
<1> QED
  BY <1>1, <1>2, <1>3 DEF q

\* The product of positive numbers is positive.
LEMMA ProductNotZero ==
  ASSUME NEW a \in Nat \ {0}, NEW b \in Nat \ {0}
  PROVE  a * b \in Nat \ {0}
<1>1. a * b = (a - 1) * b + b /\ (a - 1) * b \in Nat
  OBVIOUS
<1> QED
  BY <1>1

\* What ConfigsAssumption gives of every configuration: it is Sound, and if
\* it is not for validation, one that can train.
LEMMA ConfigFacts ==
  ASSUME NEW c \in Configs
  PROVE  Sound(c) /\ (~ c.validate => Trains(c))
<1>1. c \in Settings /\ Accepted(c)
  BY ConfigsAssumption
<1>2. /\ c.prompts \in Nat \ {0} /\ c.n \in Nat \ {0} /\ c.workers \in Nat \ {0}
      /\ c.world \in Nat \ {0} /\ c.sp \in Nat \ {0} /\ c.micro \in Nat \ {0}
  <2>1. /\ c.prompts \in Nat /\ c.n \in Nat /\ c.workers \in Nat
        /\ c.world \in Nat /\ c.sp \in Nat /\ c.micro \in Nat
    BY <1>1 DEF Settings
  <2>2. /\ c.prompts > 0 /\ c.n > 0 /\ c.workers > 0 /\ c.world > 0 /\ c.sp > 0 /\ c.micro > 0
    BY <1>1 DEF Accepted
  <2> QED
    BY <2>1, <2>2
<1>3. c.validate \in BOOLEAN /\ c.dynamic \in BOOLEAN /\ c.lengths \in SUBSET Nat /\ c.scores \in SUBSET Int
  BY <1>1 DEF Settings
<1> DEFINE R == Rows(c)
           G == Groups(c)
<1>4. R \in Nat \ {0}
  BY <1>2, ProductNotZero DEF Rows
<1>5. G \in Nat \ {0} /\ c.world = G * c.sp
  <2>1. (c.world % c.sp) = 0
    BY <1>1 DEF Accepted
  <2> QED
    BY <1>2, <2>1, Divides DEF Groups
<1>6. Sound(c)
  BY <1>2, <1>3, <1>4, <1>5 DEF Sound
<1>7. ASSUME ~ c.validate PROVE Trains(c)
  <2>1. /\ ((c.prompts * c.n) % c.workers) = 0
        /\ ((c.prompts * c.n) % c.world) = 0
        /\ (c.mini * c.n) \div (c.world \div c.sp) > 0
    BY <1>1, <1>7 DEF Accepted
  <2>2. (R % c.workers) = 0 /\ (R % c.world) = 0 /\ Mini(c) > 0
    BY <2>1 DEF Rows, Mini, Groups
  <2>3. Mini(c) \in Nat \ {0}
    <3> DEFINE x == c.mini * c.n
    <3>1. x \in Nat
      <4>1. c.mini \in Nat
        BY <1>1 DEF Settings
      <4> QED
        BY <1>2, <4>1
    <3> HIDE DEF x
    <3>2. x \div G \in Nat
      BY <1>5, <3>1, Division
    <3>3. Mini(c) = x \div G
      BY DEF Mini, x
    <3> QED
      BY <2>2, <3>2, <3>3
  <2> HIDE DEF R, G
  <2>4. R \div c.workers \in Nat \ {0} /\ R = (R \div c.workers) * c.workers
    BY <1>2, <1>4, <2>2, Divides
  <2>5. R \div c.world \in Nat \ {0} /\ R = (R \div c.world) * c.world
    BY <1>2, <1>4, <2>2, Divides
  <2>6. \E q \in Nat \ {0} : R = c.workers * q
    <3> DEFINE q == R \div c.workers
    <3>1. q \in Nat \ {0} /\ R = q * c.workers
      BY <2>4
    <3> HIDE DEF q
    <3>2. R = c.workers * q
      BY <1>2, <3>1
    <3> QED
      BY <3>1, <3>2
  <2>7. PICK q \in Nat \ {0} : R = q * c.world
    BY <2>5
  <2>8. R \div G \in Nat \ {0} /\ R = G * (R \div G)
    <3> DEFINE s == q * c.sp
    <3>1. s \in Nat \ {0}
      BY <1>2, ProductNotZero
    <3>2. R = s * G
      BY <1>2, <1>5, <2>7
    <3> HIDE DEF s
    <3>3. R \div G = s
      <4>1. R = s * G + 0 /\ 0 \in 0 .. G - 1
        BY <1>5, <3>1, <3>2
      <4> QED
        BY <1>4, <1>5, <3>1, <4>1, DivisionUnique
    <3> QED
      BY <1>5, <3>1, <3>2, <3>3
  <2> QED
    BY <2>3, <2>6, <2>7, <2>8 DEF Trains, Share, R, G
<1> QED
  BY <1>6, <1>7

\* The groups of the mesh: every rank is in one, and one rank of each leads it.
Mesh(c) ==
    /\ \A r \in 1 .. c.world : GroupNo(c, r) \in 1 .. Groups(c)
    /\ \A g \in 1 .. Groups(c) : \E r \in 1 .. c.world : GroupNo(c, r) = g /\ Leads(c, r)
    /\ \A r, q \in 1 .. c.world :
          Leads(c, r) /\ Leads(c, q) /\ GroupNo(c, r) = GroupNo(c, q) => r = q

\* The ranks of a group are consecutive, the first of them is its leader, and
\* every group has one.
LEMMA MeshFacts == ASSUME NEW c, Sound(c) PROVE Mesh(c)
<1> DEFINE G == Groups(c)
           b == c.sp
<1>1. G \in Nat \ {0} /\ b \in Nat \ {0} /\ c.world = G * b
  BY DEF Sound
<1> HIDE DEF G
<1>2. Places(b, G)
  BY <1>1, PlacesFacts
<1>3. /\ \A g \in 0 .. G - 1 : \A i \in 1 .. b : Place(b, g, i) \in 1 .. c.world
      /\ \A p \in 1 .. c.world : \E g \in 0 .. G - 1 : \E i \in 1 .. b : p = Place(b, g, i)
  BY <1>1, <1>2 DEF Places
<1>4. ASSUME NEW r \in 1 .. c.world, NEW g \in 0 .. G - 1, NEW i \in 1 .. b, r = Place(b, g, i)
      PROVE  (r - 1) \div b = g /\ (r - 1) % b = i - 1
  <2>1. r - 1 = g * b + (i - 1) /\ i - 1 \in 0 .. b - 1 /\ g \in Nat /\ r - 1 \in Nat
    BY <1>1, <1>4 DEF Place
  <2> DEFINE x == r - 1
  <2>2. x = g * b + (i - 1) /\ x \in Nat
    BY <2>1
  <2> HIDE DEF x
  <2>3. x \div b = g /\ x % b = i - 1
    BY <1>1, <2>1, <2>2, DivisionUnique
  <2> QED
    BY <2>3 DEF x
<1>5. ASSUME NEW r \in 1 .. c.world PROVE GroupNo(c, r) \in 1 .. G
  <2>1. PICK g \in 0 .. G - 1 : \E i \in 1 .. b : r = Place(b, g, i)
    BY <1>3
  <2>2. (r - 1) \div b = g
    BY <1>4, <2>1
  <2>3. GroupNo(c, r) = g + 1
    BY <2>2 DEF GroupNo
  <2> QED
    BY <1>1, <2>3
<1>6. ASSUME NEW g \in 1 .. G PROVE \E r \in 1 .. c.world : GroupNo(c, r) = g /\ Leads(c, r)
  <2> DEFINE r == Place(b, g - 1, 1)
  <2>1. g - 1 \in 0 .. G - 1 /\ 1 \in 1 .. b
    BY <1>1
  <2>2. r \in 1 .. c.world
    BY <1>3, <2>1
  <2>a. r = Place(b, g - 1, 1)
    OBVIOUS
  <2> HIDE DEF r
  <2>3. (r - 1) \div b = g - 1 /\ (r - 1) % b = 1 - 1
    BY <1>4, <2>1, <2>2, <2>a
  <2>4. GroupNo(c, r) = g
    BY <2>3 DEF GroupNo
  <2>5. Leads(c, r)
    BY <2>3 DEF Leads
  <2> QED
    BY <2>2, <2>4, <2>5
<1>7. ASSUME NEW r \in 1 .. c.world, NEW q \in 1 .. c.world, Leads(c, r), Leads(c, q),
             GroupNo(c, r) = GroupNo(c, q)
      PROVE  r = q
  <2>1. PICK g \in 0 .. G - 1 : \E i \in 1 .. b : r = Place(b, g, i)
    BY <1>3
  <2>2. PICK i \in 1 .. b : r = Place(b, g, i)
    BY <2>1
  <2>3. PICK h \in 0 .. G - 1 : \E j \in 1 .. b : q = Place(b, h, j)
    BY <1>3
  <2>4. PICK j \in 1 .. b : q = Place(b, h, j)
    BY <2>3
  <2>5. (r - 1) \div b = g /\ (r - 1) % b = i - 1
    BY <1>4, <2>2
  <2>6. (q - 1) \div b = h /\ (q - 1) % b = j - 1
    BY <1>4, <2>4
  <2>7. g + 1 = h + 1
    BY <1>7, <2>5, <2>6 DEF GroupNo
  <2>8. i - 1 = 0 /\ j - 1 = 0
    BY <1>7, <2>5, <2>6 DEF Leads
  <2>9. g = h /\ i = j
    BY <2>7, <2>8
  <2> QED
    BY <2>2, <2>4, <2>9
<1> QED
  BY <1>5, <1>6, <1>7 DEF Mesh, G

-----------------------------------------------------------------------------
(* Generation. *)

\* The batch that the dataloader gives: the prompts, by number.
FirstBatch(d, c) == d = [uid |-> [i \in 1 .. c.prompts |-> i]]

\* The columns after generation.
Base == {"uid", "prompt", "response", "length"}

\* The uid, the response and the length of a row go together, and no response
\* is in two rows.
Coherent(d, c) ==
    /\ \A i \in 1 .. Rows(c) : d["uid"][i] = d["response"][i][1] /\ d["length"][i] \in Nat
    /\ \A i, j \in 1 .. Rows(c) : d["response"][i] = d["response"][j] => i = j

\* What the workers are sent, q rows each: the first rows are those of the
\* batch, in their order.
Sent(ins, c, q) ==
    /\ DOMAIN ins = 1 .. c.workers /\ c.workers * q >= Rows(c)
    /\ \A w \in 1 .. c.workers :
          /\ Data(ins[w], {"prompt"}, q)
          /\ \A i \in 1 .. q : Place(q, w - 1, i) <= Rows(c)
                => ins[w]["prompt"][i] = (Place(q, w - 1, i) - 1) \div c.n + 1

\* What worker w answers: a response of its own for each prompt.
Answers(o, in, w, q) ==
    /\ Data(o, {"prompt", "response", "length"}, q)
    /\ o["prompt"] = in["prompt"]
    /\ \A i \in 1 .. q : o["response"][i] = <<in["prompt"][i], w, i>> /\ o["length"][i] \in Nat

\* The prompt of a repeated row.
LEMMA RepeatIndex ==
  ASSUME NEW a \in Nat \ {0}, NEW b \in Nat \ {0}, NEW i \in 1 .. a * b
  PROVE  (i - 1) \div b + 1 \in 1 .. a
<1>1. Places(b, a)
  BY PlacesFacts
<1>2. PICK g \in 0 .. a - 1 : \E j \in 1 .. b : i = Place(b, g, j)
  BY <1>1 DEF Places
<1>3. PICK j \in 1 .. b : i = g * b + j
  BY <1>2 DEF Place
<1> DEFINE x == i - 1
<1>4. x = g * b + (j - 1) /\ j - 1 \in 0 .. b - 1 /\ g \in Nat
  BY <1>3
<1>a. x \in Nat
  <2>1. i \in Nat /\ i >= 1
    OBVIOUS
  <2> QED
    BY <2>1
<1> HIDE DEF x
<1>5. x \div b = g
  BY <1>4, <1>a, DivisionUnique
<1>6. (i - 1) \div b = g
  BY <1>5 DEF x
<1> QED
  BY <1>6

\* The prompts, each of them n times.
LEMMA GenFacts ==
  ASSUME NEW c, Sound(c), NEW d, d = [prompt |-> [i \in 1 .. c.prompts |-> i]]
  PROVE  /\ Data(Repeat(d, c.n), {"prompt"}, Rows(c))
         /\ \A i \in 1 .. Rows(c) : Repeat(d, c.n)["prompt"][i] = (i - 1) \div c.n + 1
<1> DEFINE x == Repeat(d, c.n)
           m == c.prompts
<1>1. m \in Nat \ {0} /\ c.n \in Nat \ {0} /\ Rows(c) = m * c.n
  BY DEF Sound, Rows
<1>2. d["prompt"] = [i \in 1 .. m |-> i]
  OBVIOUS
<1>3. Data(d, {"prompt"}, m)
  BY <1>2 DEF Data, IsColumn
<1> HIDE DEF m, x
<1>4. Repeats(x, d, {"prompt"}, m, c.n)
  BY <1>1, <1>3, RepeatFacts DEF x
<1>5. ASSUME NEW i \in 1 .. Rows(c) PROVE x["prompt"][i] = (i - 1) \div c.n + 1
  <2> DEFINE j == (i - 1) \div c.n + 1
  <2>1. j \in 1 .. m
    BY <1>1, RepeatIndex
  <2>2. x["prompt"][i] = d["prompt"][j]
    BY <1>1, <1>4 DEF Repeats
  <2> HIDE DEF j
  <2>3. x["prompt"][i] = j
    BY <1>2, <2>1, <2>2
  <2> QED
    BY <2>3 DEF j
<1> QED
  BY <1>1, <1>4, <1>5 DEF Repeats, x

\* The padded prompts divide among the workers, q rows to each.
LEMMA SentFacts ==
  ASSUME cfg \in Configs
  PROVE  \E q \in Nat \ {0} : Sent(Chunk(GenBatch, cfg.workers), cfg, q)
<1> DEFINE d == [prompt |-> [i \in 1 .. cfg.prompts |-> i]]
           gen == Repeat(d, cfg.n)
           m == Rows(cfg)
           b == cfg.workers
           C == {"prompt"}
           x == GenBatch
<1>1. Sound(cfg) /\ (~ cfg.validate => Trains(cfg))
  BY ConfigFacts
<1>2. Data(gen, C, m) /\ \A i \in 1 .. m : gen["prompt"][i] = (i - 1) \div cfg.n + 1
  BY <1>1, GenFacts
<1>3. x = IF cfg.validate THEN Padded(gen, b) ELSE gen
  BY DEF GenBatch
<1>4. m \in Nat \ {0} /\ b \in Nat \ {0} /\ cfg.validate \in BOOLEAN
  BY <1>1 DEF Sound
<1> HIDE DEF gen, x, m, C
<1>c. C # {} /\ "prompt" \in C
  BY DEF C
<1>5. \E q \in Nat \ {0} : q * b >= m /\ Pads(x, gen, C, m, q * b)
  <2>1. CASE cfg.validate
    BY <1>2, <1>3, <1>4, <1>c, <2>1, PaddedFacts
  <2>2. CASE ~ cfg.validate
    <3>1. PICK q \in Nat \ {0} : m = b * q
      BY <1>1, <2>2 DEF Trains, m
    <3>2. q * b = m
      BY <1>4, <3>1
    <3>3. Pads(x, gen, C, m, m)
      BY <1>2, <1>3, <2>2 DEF Pads
    <3>4. m >= m
      BY <1>4
    <3> QED
      BY <3>2, <3>3, <3>4
  <2> QED
    BY <1>4, <2>1, <2>2
<1>6. PICK q \in Nat \ {0} : q * b >= m /\ Pads(x, gen, C, m, q * b)
  BY <1>5
<1>7. q * b = b * q
  BY <1>4
<1>8. Data(x, C, b * q) /\ \A i \in 1 .. m : x["prompt"][i] = gen["prompt"][i]
  BY <1>6, <1>7, <1>c DEF Pads
<1> DEFINE y == Chunk(x, b)
<1>9. ChunksInto(y, x, C, b, q)
  BY <1>4, <1>8, <1>c, ChunkFacts
<1> HIDE DEF y
<1>10. ASSUME NEW w \in 1 .. b
       PROVE  /\ Data(y[w], C, q)
              /\ \A i \in 1 .. q : Place(q, w - 1, i) <= m
                    => y[w]["prompt"][i] = (Place(q, w - 1, i) - 1) \div cfg.n + 1
  <2>1. Part(y[w], x, C, (w - 1) * q, q)
    BY <1>9 DEF ChunksInto
  <2>2. ASSUME NEW i \in 1 .. q, Place(q, w - 1, i) <= m
        PROVE  y[w]["prompt"][i] = (Place(q, w - 1, i) - 1) \div cfg.n + 1
    <3> DEFINE p == Place(q, w - 1, i)
    <3>1. y[w]["prompt"][i] = x["prompt"][p]
      BY <1>c, <2>1 DEF Part, Place
    <3>2. p \in 1 .. m
      <4>1. Places(q, b)
        BY <1>4, PlacesFacts
      <4>2. w - 1 \in 0 .. b - 1
        BY <1>4
      <4>3. p \in 1 .. b * q
        BY <4>1, <4>2 DEF Places
      <4>4. p <= m
        BY <2>2
      <4> HIDE DEF p
      <4> QED
        BY <1>4, <4>3, <4>4
    <3> HIDE DEF p
    <3>3. x["prompt"][p] = (p - 1) \div cfg.n + 1
      BY <1>2, <1>8, <3>2
    <3> QED
      BY <3>1, <3>3 DEF p
  <2> QED
    BY <2>1, <2>2 DEF Part
<1>11. DOMAIN y = 1 .. b /\ b * q >= m
  BY <1>6, <1>7, <1>9 DEF ChunksInto
<1>12. Sent(y, cfg, q)
  BY <1>10, <1>11 DEF Sent, C, m
<1> QED
  BY <1>12 DEF x, y

\* The answers of the workers, joined, without the padding and beside the
\* repeated prompts, are the rows of the batch: the response of a row answers
\* its own prompt.
LEMMA CollectFacts ==
  ASSUME NEW c, Sound(c), NEW q \in Nat \ {0}, NEW ins, Sent(ins, c, q),
         NEW outs, DOMAIN outs = 1 .. c.workers,
         \A w \in 1 .. c.workers : Answers(outs[w], ins[w], w, q),
         NEW d, FirstBatch(d, c), NEW x,
         x = LET output == Concat(outs)
                 unpadded == Unpadded(output, Size(output) - c.prompts * c.n)
             IN  Union(Repeat(d, c.n), unpadded)
  PROVE  Data(x, Base, Rows(c)) /\ Coherent(x, c)
<1> DEFINE m == Rows(c)
           b == c.workers
           C == {"prompt", "response", "length"}
           D == {"uid"}
           o == Concat(outs)
           u == Slice(o, 0 + 1, 0 + m)
           r == Repeat(d, c.n)
<1>1. m \in Nat \ {0} /\ b \in Nat \ {0} /\ m = c.prompts * c.n
      /\ c.prompts \in Nat \ {0} /\ c.n \in Nat \ {0}
  BY DEF Sound, Rows
<1>2. b * q >= m
  BY DEF Sent
<1>c. C # {} /\ "prompt" \in C /\ "response" \in C /\ "length" \in C /\ "uid" \notin C
      /\ D = {"uid"} /\ Base = D \cup C
  BY DEF Base
<1>3. ASSUME NEW w \in 1 .. b
      PROVE  /\ Data(outs[w], C, q) /\ outs[w]["prompt"] = ins[w]["prompt"]
             /\ \A i \in 1 .. q : outs[w]["response"][i] = <<ins[w]["prompt"][i], w, i>>
                                  /\ outs[w]["length"][i] \in Nat
  BY DEF Answers
<1>4. x = Union(r, Unpadded(o, Size(o) - c.prompts * c.n))
  OBVIOUS
<1>d. d = [uid |-> [i \in 1 .. c.prompts |-> i]] /\ DOMAIN outs = 1 .. b
  BY DEF FirstBatch
<1> HIDE DEF C, D, o, u, r, b
<1>5. JoinsInto(o, outs, C, b, q)
  BY <1>1, <1>3, <1>d, ConcatDataFacts DEF o
<1>6. b * q \in Nat
  BY <1>1
<1>7. Data(o, C, b * q) /\ Size(o) = b * q
  BY <1>5, <1>6, <1>c, SizeFacts DEF JoinsInto
<1>8. Unpadded(o, Size(o) - c.prompts * c.n) = u
  <2> DEFINE s == Size(o)
             p == c.prompts * c.n
             e == s - p
  <2>1. Unpadded(o, e) = Slice(o, 1, s - e)
    BY DEF Unpadded
  <2>2. s \in Nat /\ p = m
    BY <1>1, <1>6, <1>7
  <2> HIDE DEF s, p, m
  <2>3. s - e = m /\ 0 + 1 = 1 /\ 0 + m = m
    BY <1>1, <2>2
  <2> HIDE DEF e
  <2>4. Unpadded(o, e) = u
    BY <2>1, <2>3 DEF u
  <2> QED
    BY <2>4 DEF e, s, p
<1> HIDE DEF m
<1>9. Part(u, o, C, 0, m)
  <2>1. 0 + m <= b * q /\ 0 \in Nat /\ m \in Nat
    BY <1>1, <1>2, <1>6
  <2> QED
    BY <1>6, <1>7, <2>1, SliceFacts DEF u
<1>10. Data(u, C, m) /\ \A e \in C : \A i \in 1 .. m : u[e][i] = o[e][i]
  <2>1. \A i \in 1 .. m : 0 + i = i
    BY <1>1
  <2> QED
    BY <1>9, <2>1 DEF Part
<1>11. Data(r, D, m) /\ \A i \in 1 .. m : r["uid"][i] = (i - 1) \div c.n + 1
  <2> DEFINE k == c.prompts
  <2>1. d["uid"] = [i \in 1 .. k |-> i]
    BY <1>d
  <2>2. Data(d, D, k)
    <3>1. d = [e \in {"uid"} |-> d[e]]
      BY <1>d
    <3>2. \A e \in D : IsColumn(d[e], k)
      BY <1>c, <2>1 DEF IsColumn
    <3> QED
      BY <1>c, <3>1, <3>2 DEF Data
  <2>3. k \in Nat \ {0} /\ m = k * c.n
    BY <1>1
  <2> HIDE DEF k
  <2>4. Repeats(r, d, D, k, c.n)
    BY <1>1, <2>2, <2>3, RepeatFacts DEF r
  <2>5. ASSUME NEW i \in 1 .. m PROVE r["uid"][i] = (i - 1) \div c.n + 1
    <3> DEFINE j == (i - 1) \div c.n + 1
    <3>1. j \in 1 .. k
      BY <1>1, <2>3, RepeatIndex
    <3>2. r["uid"][i] = d["uid"][j]
      BY <1>c, <2>3, <2>4 DEF Repeats
    <3> HIDE DEF j
    <3>3. r["uid"][i] = j
      BY <2>1, <3>1, <3>2
    <3> QED
      BY <3>3 DEF j
  <2> QED
    BY <2>3, <2>4, <2>5 DEF Repeats
<1>12. Unites(x, r, u, D, C, m)
  BY <1>1, <1>4, <1>8, <1>10, <1>11, UnionFacts
<1>13. /\ Data(x, Base, m) /\ x["uid"] = r["uid"]
       /\ x["response"] = u["response"] /\ x["length"] = u["length"]
  BY <1>12, <1>c DEF Unites
<1>14. ASSUME NEW i \in 1 .. m
       PROVE  \E w \in 1 .. b : \E j \in 1 .. q :
                 /\ i = Place(q, w - 1, j)
                 /\ x["response"][i] = <<(i - 1) \div c.n + 1, w, j>>
                 /\ x["length"][i] \in Nat
  <2>1. Places(q, b)
    BY <1>1, PlacesFacts
  <2>2. i \in 1 .. b * q
    BY <1>1, <1>2, <1>6
  <2>3. PICK g \in 0 .. b - 1 : \E j \in 1 .. q : i = Place(q, g, j)
    BY <2>1, <2>2 DEF Places
  <2>4. PICK j \in 1 .. q : i = Place(q, g, j)
    BY <2>3
  <2>5. PICK w \in 1 .. b : g = w - 1
    <3>1. g + 1 \in 1 .. b /\ g = (g + 1) - 1
      BY <1>1
    <3> QED
      BY <3>1
  <2>6. i = Place(q, w - 1, j)
    BY <2>4, <2>5
  <2>7. x["response"][i] = outs[w]["response"][j] /\ x["length"][i] = outs[w]["length"][j]
    BY <1>5, <1>10, <1>13, <1>c, <2>6 DEF JoinsInto
  <2>8. ins[w]["prompt"][j] = (i - 1) \div c.n + 1
    <3>1. Place(q, w - 1, j) <= m
      BY <1>1, <2>6
    <3>2. ins[w]["prompt"][j] = (Place(q, w - 1, j) - 1) \div c.n + 1
      BY <3>1 DEF Sent, b, m
    <3> QED
      BY <2>6, <3>2
  <2> QED
    BY <1>3, <2>6, <2>7, <2>8
<1>15. \A i \in 1 .. m : x["uid"][i] = x["response"][i][1] /\ x["length"][i] \in Nat
  <2> SUFFICES ASSUME NEW i \in 1 .. m
               PROVE  x["uid"][i] = x["response"][i][1] /\ x["length"][i] \in Nat
    OBVIOUS
  <2> DEFINE v == (i - 1) \div c.n + 1
  <2>1. x["uid"][i] = v
    BY <1>11, <1>13
  <2>2. PICK w \in 1 .. b : \E j \in 1 .. q :
            x["response"][i] = <<v, w, j>> /\ x["length"][i] \in Nat
    BY <1>14
  <2> HIDE DEF v
  <2> QED
    BY <2>1, <2>2
<1>16. \A i, k \in 1 .. m : x["response"][i] = x["response"][k] => i = k
  <2> SUFFICES ASSUME NEW i \in 1 .. m, NEW k \in 1 .. m, x["response"][i] = x["response"][k]
               PROVE  i = k
    OBVIOUS
  <2> DEFINE v(h) == (h - 1) \div c.n + 1
  <2>1. PICK w \in 1 .. b : \E j \in 1 .. q :
            i = Place(q, w - 1, j) /\ x["response"][i] = <<v(i), w, j>>
    BY <1>14
  <2>2. PICK j \in 1 .. q : i = Place(q, w - 1, j) /\ x["response"][i] = <<v(i), w, j>>
    BY <2>1
  <2>3. PICK y \in 1 .. b : \E z \in 1 .. q :
            k = Place(q, y - 1, z) /\ x["response"][k] = <<v(k), y, z>>
    BY <1>14
  <2>4. PICK z \in 1 .. q : k = Place(q, y - 1, z) /\ x["response"][k] = <<v(k), y, z>>
    BY <2>3
  <2> HIDE DEF v
  <2>5. w = y /\ j = z
    BY <2>2, <2>4
  <2> QED
    BY <2>2, <2>4, <2>5
<1> QED
  BY <1>13, <1>15, <1>16 DEF Coherent, m

-----------------------------------------------------------------------------
(* Loads. *)

\* Two ways to put the same values into an order that does not decrease: none
\* of them is below the other anywhere.
LEMMA NotBelow ==
  ASSUME NEW n \in Nat, NEW w \in [1 .. n -> Nat], NEW s, Permutes(s, n), NEW t, Permutes(t, n),
         \A i, j \in 1 .. n : i < j => w[s[i]] <= w[s[j]],
         \A i, j \in 1 .. n : i < j => w[t[i]] <= w[t[j]],
         NEW e \in 1 .. n
  PROVE  ~ (w[s[e]] < w[t[e]])
<1> SUFFICES ASSUME w[s[e]] < w[t[e]] PROVE FALSE
  OBVIOUS
<1>1. /\ s \in [1 .. n -> 1 .. n] /\ t \in [1 .. n -> 1 .. n]
      /\ \A i, j \in 1 .. n : s[i] = s[j] => i = j
      /\ \A r \in 1 .. n : \E i \in 1 .. n : t[i] = r
  BY DEF Permutes
<1> DEFINE A == 1 .. e
           B == 1 .. e - 1
           f == [a \in A |-> CHOOSE b \in 1 .. n : t[b] = s[a]]
<1>2. ASSUME NEW a \in A PROVE f[a] \in B /\ t[f[a]] = s[a] /\ a \in 1 .. n
  <2> DEFINE b == f[a]
  <2>1. a \in 1 .. n /\ s[a] \in 1 .. n
    <3>1. a \in 1 .. n
      OBVIOUS
    <3> QED
      BY <1>1, <3>1
  <2>2. b \in 1 .. n /\ t[b] = s[a]
    <3>1. \E z \in 1 .. n : t[z] = s[a]
      BY <1>1, <2>1
    <3> QED
      BY <3>1
  <2> HIDE DEF b
  <2>3. w[s[a]] <= w[s[e]]
    <3>1. CASE a = e
      <4>1. w[s[e]] \in Nat
        BY <1>1
      <4> QED
        BY <3>1, <4>1
    <3>2. CASE a # e
      <4>1. a < e
        BY <3>2
      <4> QED
        BY <2>1, <4>1
    <3> QED
      BY <3>1, <3>2
  <2>4. w[t[b]] < w[t[e]]
    <3> DEFINE x == w[s[a]]
               y == w[s[e]]
               z == w[t[e]]
    <3>1. x \in Nat /\ y \in Nat /\ z \in Nat /\ x <= y /\ y < z
      BY <1>1, <2>1, <2>3
    <3> HIDE DEF x, y, z
    <3>2. x < z
      BY <3>1
    <3> QED
      BY <2>2, <3>2 DEF x, z
  <2>5. b < e
    <3> SUFFICES ASSUME ~ (b < e) PROVE FALSE
      OBVIOUS
    <3>1. b = e \/ e < b
      BY <2>2
    <3>2. w[t[e]] <= w[t[b]]
      <4>1. w[t[e]] \in Nat
        BY <1>1
      <4> QED
        BY <2>2, <3>1, <4>1
    <3>3. w[t[e]] \in Nat /\ w[t[b]] \in Nat
      BY <1>1, <2>2
    <3> QED
      BY <2>4, <3>2, <3>3
  <2>6. b \in B
    BY <2>2, <2>5
  <2> QED
    BY <2>1, <2>2, <2>6 DEF b
<1>3. f \in [A -> B]
  BY <1>2
<1> HIDE DEF f
<1>4. ASSUME NEW x \in A, NEW y \in A, f[x] = f[y] PROVE x = y
  <2>1. s[x] = s[y] /\ x \in 1 .. n /\ y \in 1 .. n
    <3> HIDE DEF A, B
    <3> QED
      BY <1>2, <1>4
  <2> HIDE DEF A
  <2> QED
    BY <1>1, <2>1
<1>5. IsFiniteSet(B) /\ Cardinality(B) = e - 1 /\ Cardinality(A) = e
  <2>1. e - 1 \in Nat /\ e \in Nat
    OBVIOUS
  <2> QED
    BY <2>1, IntervalCount
<1> HIDE DEF A, B
<1>6. Cardinality(A) <= Cardinality(B)
  BY <1>3, <1>4, <1>5, InjectionBound
<1> QED
  BY <1>5, <1>6

\* Lightest sorts the rows: it has each of them once, and the workloads do
\* not decrease.
LEMMA LightestPermutes ==
  ASSUME NEW n \in Nat, NEW w \in [1 .. n -> Nat]
  PROVE  /\ Permutes(Lightest(w, 1 .. n), n)
         /\ \A i, j \in 1 .. n : i < j => w[Lightest(w, 1 .. n)[i]] <= w[Lightest(w, 1 .. n)[j]]
<1> DEFINE N == 1 .. n
           p == Lightest(w, N)
<1>1. N \in SUBSET Nat /\ IsFiniteSet(N) /\ Cardinality(N) = n /\ \A r \in N : w[r] \in Nat
  BY IntervalCount
<1> HIDE DEF N
<1>2. /\ p \in [1 .. Cardinality(N) -> N]
      /\ \A r \in N : \E i \in 1 .. Cardinality(N) : p[i] = r
      /\ \A i, j \in 1 .. Cardinality(N) : i < j => w[p[i]] <= w[p[j]]
      /\ \A i, j \in 1 .. Cardinality(N) : p[i] = p[j] => i = j
  BY <1>1, LightestFacts
<1> HIDE DEF p
<1>3. /\ p \in [1 .. n -> 1 .. n]
      /\ \A r \in 1 .. n : \E i \in 1 .. n : p[i] = r
      /\ \A i, j \in 1 .. n : i < j => w[p[i]] <= w[p[j]]
      /\ \A i, j \in 1 .. n : p[i] = p[j] => i = j
  BY <1>1, <1>2 DEF N
<1>4. p = Lightest(w, 1 .. n)
  BY DEF p, N
<1> QED
  BY <1>3, <1>4 DEF Permutes

\* v is w in another order.
Follows(v, w, p, n) == Permutes(p, n) /\ v = [i \in 1 .. n |-> w[p[i]]]

\* The loads in order do not depend on how the rows are permuted.
LEMMA SortedSame ==
  ASSUME NEW n \in Nat, NEW w \in [1 .. n -> Nat], NEW p, NEW v, Follows(v, w, p, n),
         NEW e \in 1 .. n
  PROVE  v[Lightest(v, 1 .. n)[e]] = w[Lightest(w, 1 .. n)[e]]
<1> DEFINE t == Lightest(w, 1 .. n)
           u == Lightest(v, 1 .. n)
           s == [i \in 1 .. n |-> p[u[i]]]
<1>1. /\ p \in [1 .. n -> 1 .. n]
      /\ \A i, j \in 1 .. n : p[i] = p[j] => i = j
      /\ \A r \in 1 .. n : \E i \in 1 .. n : p[i] = r
  BY DEF Permutes, Follows
<1>2. v \in [1 .. n -> Nat] /\ \A i \in 1 .. n : v[i] = w[p[i]]
  BY <1>1 DEF Follows
<1>3. Permutes(t, n) /\ \A i, j \in 1 .. n : i < j => w[t[i]] <= w[t[j]]
  BY LightestPermutes
<1>4. Permutes(u, n) /\ \A i, j \in 1 .. n : i < j => v[u[i]] <= v[u[j]]
  BY <1>2, LightestPermutes
<1> HIDE DEF t, u
<1>5. /\ u \in [1 .. n -> 1 .. n]
      /\ \A i, j \in 1 .. n : u[i] = u[j] => i = j
      /\ \A r \in 1 .. n : \E i \in 1 .. n : u[i] = r
  BY <1>4 DEF Permutes
<1>6. \A i \in 1 .. n : w[s[i]] = v[u[i]]
  BY <1>2, <1>5
<1>7. Permutes(s, n)
  <2>1. s \in [1 .. n -> 1 .. n]
    BY <1>1, <1>5
  <2>2. \A i, j \in 1 .. n : s[i] = s[j] => i = j
    BY <1>1, <1>5
  <2>3. ASSUME NEW r \in 1 .. n PROVE \E i \in 1 .. n : s[i] = r
    <3>1. PICK j \in 1 .. n : p[j] = r
      BY <1>1
    <3>2. PICK i \in 1 .. n : u[i] = j
      BY <1>5
    <3>3. s[i] = r
      BY <3>1, <3>2
    <3> QED
      BY <3>3
  <2> QED
    BY <2>1, <2>2, <2>3 DEF Permutes
<1> HIDE DEF s
<1>8. \A i, j \in 1 .. n : i < j => w[s[i]] <= w[s[j]]
  BY <1>4, <1>6
<1>9. ~ (w[s[e]] < w[t[e]]) /\ ~ (w[t[e]] < w[s[e]])
  BY <1>3, <1>7, <1>8, NotBelow
<1>10. w[s[e]] \in Nat /\ w[t[e]] \in Nat
  BY <1>3, <1>7 DEF Permutes
<1>11. w[s[e]] = w[t[e]]
  BY <1>9, <1>10
<1> QED
  BY <1>6, <1>11 DEF t, u

\* The sequence lengths of a batch are positive, for every row has a prompt.
LEMMA SeqlensFacts ==
  ASSUME NEW n \in Nat, NEW C, "length" \in C, NEW d, Data(d, C, n),
         \A i \in 1 .. n : d["length"][i] \in Nat
  PROVE  /\ Seqlens(d) \in [1 .. n -> Nat \ {0}]
         /\ \A i \in 1 .. n : Seqlens(d)[i] = PromptLength + d["length"][i]
<1>1. Size(d) = n
  BY SizeFacts
<1>2. PromptLength \in Nat \ {0}
  BY ConfigsAssumption
<1> QED
  BY <1>1, <1>2 DEF Seqlens

\* y has the lengths of k different rows f of d.
HasLengths(y, d, f, k, n) ==
    /\ f \in [1 .. k -> 1 .. n] /\ \A i, j \in 1 .. k : f[i] = f[j] => i = j
    /\ \A i \in 1 .. k : y["length"][i] = d["length"][f[i]]

\* A batch of n rows that have lengths.
Measured(d, C, n) ==
    n \in Nat /\ "length" \in C /\ Data(d, C, n) /\ \A i \in 1 .. n : d["length"][i] \in Nat

\* The load of rows that were taken from d is the sum of theirs.
LEMMA LoadFacts ==
  ASSUME NEW n, NEW C, NEW d, Measured(d, C, n),
         NEW k, NEW E, NEW y, Measured(y, E, k),
         NEW f, HasLengths(y, d, f, k, n)
  PROVE  Total(Works(Seqlens(y))) = SumOf(Works(Seqlens(d)), Range(f))
<1> DEFINE a == Seqlens(d)
           b == Seqlens(y)
           w == Works(a)
           v == Works(b)
           K == 1 .. k
<1>h. /\ f \in [1 .. k -> 1 .. n] /\ \A i, j \in 1 .. k : f[i] = f[j] => i = j
      /\ \A i \in 1 .. k : y["length"][i] = d["length"][f[i]]
  BY DEF HasLengths
<1>n. n \in Nat /\ k \in Nat
  BY DEF Measured
<1>1. a \in [1 .. n -> Nat \ {0}] /\ \A i \in 1 .. n : a[i] = PromptLength + d["length"][i]
  BY <1>n, SeqlensFacts DEF Measured
<1>2. b \in [1 .. k -> Nat \ {0}] /\ \A i \in 1 .. k : b[i] = PromptLength + y["length"][i]
  BY <1>n, SeqlensFacts DEF Measured
<1> HIDE DEF a, b
<1>3. w \in [1 .. n -> Nat \ {0}] /\ \A i \in 1 .. n : w[i] = Workload(a[i])
  BY <1>1, <1>n, WorksType DEF Works
<1>4. v \in [1 .. k -> Nat \ {0}] /\ \A i \in 1 .. k : v[i] = Workload(b[i])
  BY <1>2, <1>n, WorksType DEF Works
<1> HIDE DEF v, w
<1>5. ASSUME NEW i \in K PROVE v[i] \in Int /\ v[i] = w[f[i]]
  <2>1. f[i] \in 1 .. n
    BY <1>h
  <2>2. b[i] = a[f[i]]
    <3>1. i \in 1 .. k
      BY DEF K
    <3>2. b[i] = PromptLength + y["length"][i] /\ y["length"][i] = d["length"][f[i]]
      BY <1>2, <1>h, <3>1
    <3>3. a[f[i]] = PromptLength + d["length"][f[i]]
      BY <1>1, <2>1
    <3> QED
      BY <3>2, <3>3
  <2> QED
    BY <1>3, <1>4, <2>1, <2>2
<1>6. IsFiniteSet(K) /\ DOMAIN v = K /\ DOMAIN f = K /\ \A i, j \in K : f[i] = f[j] => i = j
  BY <1>4, <1>h, <1>n, IntervalCount
<1> HIDE DEF K
<1>7. SumOf(w, Range(f)) = SumOf(v, K)
  <2> DEFINE R == Range(f)
  <2>1. /\ IsFiniteSet(K) /\ \A i, j \in K : f[i] = f[j] => i = j
        /\ \A i \in K : v[i] \in Int /\ v[i] = w[f[i]]
    BY <1>5, <1>6
  <2>2. \A r : r \in R <=> \E i \in K : f[i] = r
    BY <1>6 DEF Range
  <2> HIDE DEF R
  <2>3. Names(f, R, K, w, v)
    BY <2>1, <2>2 DEF Names
  <2>4. SumOf(w, R) = SumOf(v, K)
    BY <2>1, <2>3, SumReindex
  <2> QED
    BY <2>4 DEF R
<1> QED
  BY <1>6, <1>7 DEF Total, v, w, a, b

-----------------------------------------------------------------------------
(* _balance_batch. *)

\* Permuting whole rows keeps them whole.
LEMMA CoherentSelect ==
  ASSUME NEW c, NEW C, {"uid", "response", "length"} \in SUBSET C, NEW d, Coherent(d, c),
         NEW f, Permutes(f, Rows(c)), NEW x, Takes(x, d, C, Rows(c), f)
  PROVE  Coherent(x, c)
<1> DEFINE m == Rows(c)
<1>1. f \in [1 .. m -> 1 .. m] /\ \A i, j \in 1 .. m : f[i] = f[j] => i = j
  BY DEF Permutes
<1>2. ASSUME NEW i \in 1 .. m
      PROVE  /\ x["uid"][i] = d["uid"][f[i]] /\ x["response"][i] = d["response"][f[i]]
             /\ x["length"][i] = d["length"][f[i]] /\ f[i] \in 1 .. m
  BY <1>1 DEF Takes
<1>3. /\ \A i \in 1 .. m : d["uid"][i] = d["response"][i][1] /\ d["length"][i] \in Nat
      /\ \A i, j \in 1 .. m : d["response"][i] = d["response"][j] => i = j
  BY DEF Coherent
<1> HIDE DEF m
<1>4. \A i \in 1 .. m : x["uid"][i] = x["response"][i][1] /\ x["length"][i] \in Nat
  BY <1>2, <1>3
<1>5. ASSUME NEW i \in 1 .. m, NEW j \in 1 .. m, x["response"][i] = x["response"][j]
      PROVE  i = j
  <2>1. d["response"][f[i]] = d["response"][f[j]] /\ f[i] \in 1 .. m /\ f[j] \in 1 .. m
    BY <1>2, <1>5
  <2>2. f[i] = f[j]
    BY <1>3, <2>1
  <2> QED
    BY <1>1, <2>2
<1> QED
  BY <1>4, <1>5 DEF Coherent, m

\* The rows of each part in another order: the parts divide the rows as before.
Reordered(O, P, k) ==
    \A r \in 1 .. k : /\ O[r] \in Seq(Range(P[r])) /\ Len(O[r]) = Len(P[r])
                      /\ Range(O[r]) = Range(P[r])
                      /\ \A a, b \in DOMAIN O[r] : O[r][a] = O[r][b] => a = b

\* Parts whose rows are put into another order are the same parts with the
\* same loads.
LEMMA ReorderedFacts ==
  ASSUME NEW n \in Nat, NEW k \in Nat, NEW P, Partitioned(P, n, k),
         NEW O, O = [r \in 1 .. k |-> O[r]], Reordered(O, P, k)
  PROVE  Partitioned(O, n, k) /\ \A w, b : LoadGap(P, k, w, b) => LoadGap(O, k, w, b)
<1>1. /\ P \in [1 .. k -> Seq(1 .. n)]
      /\ \A i \in 1 .. k : Len(P[i]) > 0
      /\ \A i, j \in 1 .. k : \A a \in DOMAIN P[i], b \in DOMAIN P[j] :
            P[i][a] = P[j][b] => i = j /\ a = b
      /\ \A r \in 1 .. n : \E i \in 1 .. k : \E a \in DOMAIN P[i] : P[i][a] = r
  BY DEF Partitioned
<1>2. ASSUME NEW i \in 1 .. k
      PROVE  /\ O[i] \in Seq(1 .. n) /\ Len(O[i]) > 0 /\ Range(O[i]) = Range(P[i])
             /\ \A a, b \in DOMAIN O[i] : O[i][a] = O[i][b] => a = b
  <2> DEFINE T == Range(P[i])
             N == 1 .. n
  <2>1. T \in SUBSET N
    <3>1. P[i] \in Seq(N)
      BY <1>1
    <3> HIDE DEF N
    <3> QED
      BY <3>1, SeqRangeFinite
  <2>2. O[i] \in Seq(T)
    BY DEF Reordered
  <2> HIDE DEF T, N
  <2>3. O[i] \in Seq(N)
    BY <2>1, <2>2, SeqOfSubset
  <2> QED
    BY <1>1, <2>3 DEF Reordered, N
<1>3. O \in [1 .. k -> Seq(1 .. n)]
  BY <1>2
<1>4. ASSUME NEW i \in 1 .. k, NEW j \in 1 .. k, NEW a \in DOMAIN O[i], NEW b \in DOMAIN O[j],
             O[i][a] = O[j][b]
      PROVE  i = j /\ a = b
  <2> DEFINE e == O[i][a]
  <2>1. e \in Range(O[i]) /\ e \in Range(O[j])
    BY <1>4 DEF Range
  <2>2. e \in Range(P[i]) /\ e \in Range(P[j])
    BY <1>2, <2>1
  <2> HIDE DEF e
  <2>3. PICK x \in DOMAIN P[i] : P[i][x] = e
    BY <2>2 DEF Range
  <2>4. PICK y \in DOMAIN P[j] : P[j][y] = e
    BY <2>2 DEF Range
  <2>5. i = j
    BY <1>1, <2>3, <2>4
  <2> QED
    BY <1>2, <1>4, <2>5
<1>5. ASSUME NEW r \in 1 .. n PROVE \E i \in 1 .. k : \E a \in DOMAIN O[i] : O[i][a] = r
  <2>1. PICK i \in 1 .. k : \E a \in DOMAIN P[i] : P[i][a] = r
    BY <1>1
  <2>2. r \in Range(P[i])
    BY <2>1 DEF Range
  <2>3. r \in Range(O[i])
    BY <1>2, <2>2
  <2> QED
    BY <2>3 DEF Range
<1>6. Partitioned(O, n, k)
  BY <1>2, <1>3, <1>4, <1>5 DEF Partitioned
<1>7. ASSUME NEW w, NEW b, LoadGap(P, k, w, b) PROVE LoadGap(O, k, w, b)
  BY <1>2, <1>7 DEF LoadGap
<1> QED
  BY <1>6, <1>7

\* The rows of a part, the lightest at the ends.
OrderedPart(w, part) ==
    EverySecond(Lightest(w, Range(part)), 1) \o Reverse(EverySecond(Lightest(w, Range(part)), 2))

\* _balance_batch keeps the rows of a part, with the small ones at the two
\* ends.
LEMMA OrderedPartFacts ==
  ASSUME NEW n \in Nat, NEW w \in [1 .. n -> Nat], NEW p \in Seq(1 .. n), Len(p) > 0,
         \A a, b \in DOMAIN p : p[a] = p[b] => a = b
  PROVE  /\ OrderedPart(w, p) \in Seq(Range(p)) /\ Len(OrderedPart(w, p)) = Len(p)
         /\ Range(OrderedPart(w, p)) = Range(p)
         /\ \A a, b \in DOMAIN OrderedPart(w, p) :
               OrderedPart(w, p)[a] = OrderedPart(w, p)[b] => a = b
<1> DEFINE D == Range(p)
           N == 1 .. n
           k == Len(p)
           s == Lightest(w, D)
           o == EverySecond(s, 1) \o Reverse(EverySecond(s, 2))
<1>1. p \in Seq(N) /\ N \in SUBSET Nat /\ \A r \in N : w[r] \in Nat
  OBVIOUS
<1>a. k \in Nat \ {0}
  OBVIOUS
<1> HIDE DEF N
<1>2. IsFiniteSet(D) /\ D \in SUBSET N /\ Cardinality(D) = k
  BY <1>1, SeqRangeFinite, SeqRangeCount
<1> HIDE DEF D
<1>3. D \in SUBSET Nat /\ \A r \in D : w[r] \in Nat
  BY <1>1, <1>2
<1>4. /\ s \in [1 .. Cardinality(D) -> D]
      /\ \A r \in D : \E i \in 1 .. Cardinality(D) : s[i] = r
      /\ \A i, j \in 1 .. Cardinality(D) : s[i] = s[j] => i = j
  BY <1>2, <1>3, LightestFacts
<1> HIDE DEF s, k
<1>5. /\ s \in [1 .. k -> D]
      /\ \A r \in D : \E i \in 1 .. k : s[i] = r
      /\ \A i, j \in 1 .. k : s[i] = s[j] => i = j
  BY <1>2, <1>4
<1>6. Rearranged(o, s, k)
  BY <1>5, <1>a, EndsFacts
<1> HIDE DEF o
<1>7. PICK q : Permutes(q, k) /\ o = [i \in 1 .. k |-> s[q[i]]]
  BY <1>6 DEF Rearranged
<1>8. /\ \A i \in 1 .. k : q[i] \in 1 .. k /\ o[i] = s[q[i]]
      /\ \A i, j \in 1 .. k : q[i] = q[j] => i = j
      /\ \A r \in 1 .. k : \E i \in 1 .. k : q[i] = r
  BY <1>7 DEF Permutes
<1>9. o \in [1 .. k -> D]
  BY <1>5, <1>7, <1>8
<1>10. o \in Seq(D) /\ Len(o) = k /\ DOMAIN o = 1 .. k
  BY <1>9, <1>a, FunctionIsSeq
<1>11. ASSUME NEW i \in 1 .. k, NEW j \in 1 .. k, o[i] = o[j] PROVE i = j
  <2>1. s[q[i]] = s[q[j]] /\ q[i] \in 1 .. k /\ q[j] \in 1 .. k
    BY <1>8, <1>11
  <2>2. q[i] = q[j]
    BY <1>5, <2>1
  <2> QED
    BY <1>8, <2>2
<1>12. Range(o) = D
  <2>1. ASSUME NEW r \in D PROVE r \in Range(o)
    <3>1. PICK j \in 1 .. k : s[j] = r
      BY <1>5
    <3>2. PICK i \in 1 .. k : q[i] = j
      BY <1>8
    <3>3. o[i] = r
      BY <1>8, <3>1, <3>2
    <3> QED
      BY <1>10, <3>3 DEF Range
  <2>2. Range(o) \in SUBSET D
    BY <1>9, <1>10 DEF Range
  <2> QED
    BY <2>1, <2>2
<1>13. OrderedPart(w, p) = o
  BY DEF OrderedPart, o, s, D
<1> QED
  BY <1>10, <1>11, <1>12, <1>13 DEF D, k

\* LoadsAreBalanced of the balanced batch.
Load(d) == Total(Works(Seqlens(d)))
InOrderOfSize(d, i) == Works(Seqlens(d))[Lightest(Works(Seqlens(d)), DOMAIN Works(Seqlens(d)))[i]]
EvenLoads(d, c) ==
    \A p, q \in 1 .. c.world : \E g \in 1 .. Size(d) \div c.world :
        Load(Chunk(d, c.world)[p]) - Load(Chunk(d, c.world)[q])
          <= InOrderOfSize(d, g * c.world) - InOrderOfSize(d, (g - 1) * c.world + 1)

\* Each rank gets one of the balanced partitions.
LEMMA BalanceFacts ==
  ASSUME cfg \in Configs, ~ cfg.validate,
         NEW d, Data(d, Base, Rows(cfg)), Coherent(d, cfg),
         NEW x, x = Select(d, BalancedOrder(d))
  PROVE  Data(x, Base, Rows(cfg)) /\ Coherent(x, cfg) /\ EvenLoads(x, cfg)
<1> DEFINE n == Rows(cfg)
           k == cfg.world
           N == 1 .. n
           s == Seqlens(d)
           w == Works(s)
           P == BalancedPartitions(w, k, TRUE)
           O == [r \in 1 .. k |-> OrderedPart(w, P[r])]
           f == FlattenSeq(O)
<1>1. Sound(cfg) /\ Trains(cfg)
  BY ConfigFacts
<1>2. n \in Nat \ {0} /\ k \in Nat \ {0}
  BY <1>1 DEF Sound
<1>3. PICK c \in Nat \ {0} : n = c * k
  BY <1>1 DEF Trains
<1>4. k <= n
  <2>1. n = (c - 1) * k + k /\ (c - 1) * k \in Nat
    BY <1>2, <1>3
  <2> DEFINE y == (c - 1) * k
  <2>2. n = y + k /\ y \in Nat
    BY <2>1
  <2> HIDE DEF y, n, k
  <2> QED
    BY <1>2, <2>2
<1>c. "length" \in Base /\ Base # {} /\ {"uid", "response", "length"} \in SUBSET Base
  BY DEF Base
<1>5. \A i \in 1 .. n : d["length"][i] \in Nat
  BY DEF Coherent
<1>d. Data(d, Base, n) /\ Coherent(d, cfg)
  OBVIOUS
<1>6. BalancedOrder(d) = FlattenSeq([r \in DOMAIN P |-> OrderedPart(w, P[r])])
  BY DEF BalancedOrder, Works, OrderedPart
<1> HIDE DEF n, k
<1>7. s \in [1 .. n -> Nat \ {0}]
  BY <1>2, <1>5, <1>c, <1>d, SeqlensFacts
<1> HIDE DEF s
<1>8. w \in [1 .. n -> Nat \ {0}]
  BY <1>2, <1>7, WorksType
<1> HIDE DEF w, P
<1>9. Balanced(P, n, w, k, TRUE, c)
  <2>1. n \in Nat /\ c \in Nat
    BY <1>2
  <2> QED
    BY <1>2, <1>3, <1>4, <1>8, <2>1, PartitionsAreBalanced DEF P
<1>10. /\ Partitioned(P, n, k) /\ \A i \in 1 .. k : Len(P[i]) = c
       /\ \E g \in 1 .. c : LoadGap(P, k, w, w[Lightest(w, 1 .. n)[g * k]]
                                               - w[Lightest(w, 1 .. n)[(g - 1) * k + 1]])
  BY <1>9 DEF Balanced
<1>11. /\ P \in [1 .. k -> Seq(1 .. n)]
       /\ \A i \in 1 .. k : Len(P[i]) > 0
       /\ \A i, j \in 1 .. k : \A a \in DOMAIN P[i], b \in DOMAIN P[j] :
             P[i][a] = P[j][b] => i = j /\ a = b
  BY <1>10 DEF Partitioned
<1>12. Reordered(O, P, k)
  <2> SUFFICES ASSUME NEW r \in 1 .. k
               PROVE  /\ O[r] \in Seq(Range(P[r])) /\ Len(O[r]) = Len(P[r])
                      /\ Range(O[r]) = Range(P[r])
                      /\ \A a, b \in DOMAIN O[r] : O[r][a] = O[r][b] => a = b
    BY DEF Reordered
  <2> DEFINE p == P[r]
  <2>1. p \in Seq(1 .. n) /\ Len(p) > 0 /\ \A a, b \in DOMAIN p : p[a] = p[b] => a = b
    BY <1>11
  <2>2. O[r] = OrderedPart(w, p)
    OBVIOUS
  <2> HIDE DEF p, O
  <2>3. n \in Nat /\ w \in [1 .. n -> Nat]
    BY <1>2, <1>8
  <2>4. /\ OrderedPart(w, p) \in Seq(Range(p)) /\ Len(OrderedPart(w, p)) = Len(p)
        /\ Range(OrderedPart(w, p)) = Range(p)
        /\ \A a, b \in DOMAIN OrderedPart(w, p) :
              OrderedPart(w, p)[a] = OrderedPart(w, p)[b] => a = b
    BY <2>1, <2>3, OrderedPartFacts
  <2> QED
    BY <2>2, <2>4 DEF p
<1>13. O = [r \in 1 .. k |-> O[r]]
  OBVIOUS
<1>14. BalancedOrder(d) = f
  <2>1. DOMAIN P = 1 .. k
    BY <1>11
  <2> QED
    BY <1>6, <2>1
<1> HIDE DEF O
<1>15. Partitioned(O, n, k) /\ \A v, b : LoadGap(P, k, v, b) => LoadGap(O, k, v, b)
  BY <1>2, <1>10, <1>12, <1>13, ReorderedFacts
<1>16. Permutes(f, n)
  <2>1. n \in Nat
    BY <1>2
  <2> QED
    BY <1>2, <1>15, <2>1, FlattenPermutes
<1>17. ASSUME NEW r \in 1 .. k
       PROVE  Len(O[r]) = c /\ O[r] \in [1 .. c -> N] /\ \A a, b \in 1 .. c : O[r][a] = O[r][b] => a = b
  <2>1. Len(O[r]) = c
    BY <1>10, <1>12 DEF Reordered
  <2>2. O[r] \in Seq(N)
    BY <1>15 DEF Partitioned
  <2> HIDE DEF N
  <2>3. DOMAIN O[r] = 1 .. c /\ \A i \in 1 .. c : O[r][i] \in N
    BY <2>1, <2>2, SeqElement
  <2>4. O[r] \in [1 .. c -> N]
    BY <2>1, <2>2, SeqElement
  <2> QED
    BY <1>12, <2>1, <2>3, <2>4 DEF Reordered
<1>18. \A r \in 1 .. k : \A i \in 1 .. c : f[Place(c, r - 1, i)] = O[r][i]
  <2> DEFINE o == [r \in 1 .. k + 1 |-> (r - 1) * c]
             T == Seq(N)
  <2>1. o \in [1 .. k + 1 -> Nat] /\ o[1] = 0 /\ \A r \in 1 .. k : o[r] = (r - 1) * c
    BY <1>2
  <2>2. ASSUME NEW r \in 1 .. k PROVE o[r + 1] = o[r] + Len(O[r])
    <3>1. o[r + 1] = r * c /\ o[r] = (r - 1) * c
      BY <1>2
    <3>2. r * c = (r - 1) * c + c
      BY <1>2
    <3> HIDE DEF o
    <3> QED
      BY <1>17, <3>1, <3>2
  <2>3. O \in [1 .. k -> Seq(N)]
    BY <1>15 DEF Partitioned
  <2> HIDE DEF o, N
  <2>4. FlatAt(O, k, o, N)
    BY <1>2, <2>1, <2>2, <2>3, FlattenAt
  <2>5. \A r \in 1 .. k : \A i \in 1 .. Len(O[r]) : f[o[r] + i] = O[r][i]
    BY <2>4 DEF FlatAt
  <2> HIDE DEF f
  <2>6. ASSUME NEW r \in 1 .. k, NEW i \in 1 .. c PROVE f[Place(c, r - 1, i)] = O[r][i]
    <3>1. f[o[r] + i] = O[r][i]
      BY <1>17, <2>5
    <3>2. o[r] + i = Place(c, r - 1, i)
      BY <2>1 DEF Place
    <3> QED
      BY <3>1, <3>2
  <2> QED
    BY <2>6
<1> HIDE DEF f
<1>19. Takes(x, d, Base, n, f)
  <2>1. f \in [1 .. n -> 1 .. n] /\ n \in Nat
    BY <1>2, <1>16 DEF Permutes
  <2> QED
    BY <1>14, <1>d, <2>1, SelectFacts
<1>20. Data(x, Base, n)
  BY <1>19 DEF Takes
<1>21. Coherent(x, cfg)
  <2>1. Permutes(f, Rows(cfg)) /\ Takes(x, d, Base, Rows(cfg), f)
    BY <1>16, <1>19 DEF n
  <2> QED
    BY <1>c, <1>d, <2>1, CoherentSelect
<1>22. ASSUME NEW r \in 1 .. k PROVE Load(Chunk(x, k)[r]) = SumOf(w, Range(O[r]))
  <2> DEFINE y == Chunk(x, k)[r]
             e == O[r]
  <2>1. k * c = n /\ k \in Nat \ {0}
    BY <1>2, <1>3
  <2>2. ChunksInto(Chunk(x, k), x, Base, k, c)
    BY <1>20, <1>c, <2>1, ChunkFacts
  <2>3. Part(y, x, Base, (r - 1) * c, c)
    BY <2>2 DEF ChunksInto
  <2>4. ASSUME NEW i \in 1 .. c PROVE y["length"][i] = d["length"][e[i]]
    <3> DEFINE j == Place(c, r - 1, i)
    <3>1. y["length"][i] = x["length"][j]
      BY <1>c, <2>3 DEF Part, Place
    <3>2. j \in 1 .. n
      <4>1. Places(c, k) /\ r - 1 \in 0 .. k - 1
        BY <1>2, PlacesFacts
      <4>2. j \in 1 .. k * c
        BY <4>1 DEF Places
      <4> QED
        BY <2>1, <4>2
    <3>3. f[j] = e[i]
      BY <1>18
    <3> HIDE DEF j
    <3>4. x["length"][j] = d["length"][f[j]]
      BY <1>19, <1>c, <3>2 DEF Takes
    <3> QED
      BY <3>1, <3>3, <3>4
  <2>5. Data(y, Base, c) /\ e \in [1 .. c -> 1 .. n] /\ \A a, b \in 1 .. c : e[a] = e[b] => a = b
    BY <1>17, <2>3 DEF Part
  <2> HIDE DEF y, e
  <2>6. n \in Nat /\ c \in Nat
    BY <1>2
  <2>h. HasLengths(y, d, e, c, n)
    BY <2>4, <2>5 DEF HasLengths
  <2>7. Total(Works(Seqlens(y))) = SumOf(Works(Seqlens(d)), Range(e))
    <3>1. Measured(d, Base, n)
      BY <1>5, <1>c, <1>d, <2>6 DEF Measured
    <3>2. \A i \in 1 .. c : y["length"][i] \in Nat
      BY <1>5, <2>4, <2>5
    <3>3. Measured(y, Base, c)
      BY <1>c, <2>5, <2>6, <3>2 DEF Measured
    <3> QED
      BY <2>h, <3>1, <3>3, LoadFacts
  <2> QED
    BY <2>7 DEF Load, y, e, w, s
<1> DEFINE v == Works(Seqlens(x))
<1>23. v = [i \in 1 .. n |-> w[f[i]]]
  <2>1. \A i \in 1 .. n : f[i] \in 1 .. n
    BY <1>16 DEF Permutes
  <2>2. \A i \in 1 .. n : x["length"][i] = d["length"][f[i]]
    BY <1>19, <1>c DEF Takes
  <2>3. \A i \in 1 .. n : x["length"][i] \in Nat
    BY <1>21 DEF Coherent, n
  <2>4. /\ Seqlens(x) \in [1 .. n -> Nat \ {0}]
        /\ \A i \in 1 .. n : Seqlens(x)[i] = PromptLength + x["length"][i]
    BY <1>2, <1>20, <1>c, <2>3, SeqlensFacts
  <2>5. \A i \in 1 .. n : s[i] = PromptLength + d["length"][i]
    BY <1>2, <1>5, <1>c, <1>d, SeqlensFacts DEF s
  <2>6. \A i \in 1 .. n : Seqlens(x)[i] = s[f[i]]
    BY <2>1, <2>2, <2>4, <2>5
  <2>7. v = [i \in 1 .. n |-> Workload(Seqlens(x)[i])]
    BY <2>4 DEF Works
  <2>8. \A i \in 1 .. n : w[i] = Workload(s[i])
    BY <1>7 DEF w, Works
  <2> QED
    BY <2>1, <2>6, <2>7, <2>8
<1> HIDE DEF v
<1>24. ASSUME NEW i \in 1 .. n PROVE InOrderOfSize(x, i) = w[Lightest(w, 1 .. n)[i]]
  <2>1. w \in [1 .. n -> Nat] /\ n \in Nat
    BY <1>2, <1>8
  <2>2. v[Lightest(v, 1 .. n)[i]] = w[Lightest(w, 1 .. n)[i]]
    <3>1. Follows(v, w, f, n)
      BY <1>16, <1>23 DEF Follows
    <3> QED
      BY <2>1, <3>1, SortedSame
  <2>3. DOMAIN v = 1 .. n
    BY <1>23
  <2>4. InOrderOfSize(x, i) = v[Lightest(v, DOMAIN v)[i]]
    BY DEF InOrderOfSize, v
  <2> QED
    BY <2>2, <2>3, <2>4
<1>25. EvenLoads(x, cfg)
  <2>1. PICK g \in 1 .. c : LoadGap(P, k, w, w[Lightest(w, 1 .. n)[g * k]]
                                               - w[Lightest(w, 1 .. n)[(g - 1) * k + 1]])
    BY <1>10
  <2>2. g * k \in 1 .. n /\ (g - 1) * k + 1 \in 1 .. n
    <3>1. Places(k, c) /\ g - 1 \in 0 .. c - 1 /\ 1 \in 1 .. k /\ k \in 1 .. k
      BY <1>2, PlacesFacts
    <3>2. Place(k, g - 1, 1) \in 1 .. c * k /\ Place(k, g - 1, k) \in 1 .. c * k
      BY <3>1 DEF Places
    <3>3. (g - 1) * k + k = g * k
      BY <1>2
    <3> QED
      BY <1>3, <3>2, <3>3 DEF Place
  <2> DEFINE b == w[Lightest(w, 1 .. n)[g * k]] - w[Lightest(w, 1 .. n)[(g - 1) * k + 1]]
  <2>3. b = InOrderOfSize(x, g * k) - InOrderOfSize(x, (g - 1) * k + 1)
    BY <1>24, <2>2
  <2>4. LoadGap(O, k, w, b)
    BY <1>15, <2>1
  <2> HIDE DEF b
  <2>5. \A p, q \in 1 .. k : Load(Chunk(x, k)[p]) - Load(Chunk(x, k)[q]) <= b
    BY <1>22, <2>4 DEF LoadGap
  <2>6. Size(x) \div k = c
    <3>1. Size(x) = n
      BY <1>2, <1>20, <1>c, SizeFacts
    <3>2. n = c * k + 0 /\ 0 \in 0 .. k - 1 /\ n \in Nat
      BY <1>2, <1>3
    <3>3. n \div k = c
      BY <1>2, <3>2, DivisionUnique
    <3> QED
      BY <3>1, <3>3
  <2> QED
    BY <2>3, <2>5, <2>6 DEF EvenLoads, k
<1> QED
  BY <1>20, <1>21, <1>25 DEF n

-----------------------------------------------------------------------------
(* dispatch_nd_compute_dataproto, and the micro-batches of the ranks.      *)

\* Each rank is sent the rows of its group.
SharesOut(ins, d, C, c) ==
    /\ DOMAIN ins = 1 .. c.world
    /\ \A r \in 1 .. c.world : Part(ins[r], d, C, (GroupNo(c, r) - 1) * Share(c), Share(c))

\* dispatch_nd_compute_dataproto sends each rank the rows of its group.
LEMMA DispatchFacts ==
  ASSUME cfg \in Configs, ~ cfg.validate, NEW C, C # {}, NEW d, Data(d, C, Rows(cfg))
  PROVE  SharesOut(Dispatched(d), d, C, cfg)
<1> DEFINE b == Groups(cfg)
           size == Share(cfg)
           x == Chunk(d, b)
<1>1. Sound(cfg) /\ Trains(cfg)
  BY ConfigFacts
<1>2. b \in Nat \ {0} /\ size \in Nat \ {0} /\ Rows(cfg) = b * size
  BY <1>1 DEF Sound, Trains
<1>3. \A r \in 1 .. cfg.world : GroupNo(cfg, r) \in 1 .. b
  BY <1>1, MeshFacts DEF Mesh
<1>4. Dispatched(d) = [r \in 1 .. cfg.world |-> x[GroupNo(cfg, r)]]
  BY DEF Dispatched, Ranks, DPSize, DPRank, Groups, GroupNo
<1>5. Data(d, C, b * size)
  BY <1>2
<1> HIDE DEF b, size
<1>6. ChunksInto(x, d, C, b, size)
  BY <1>2, <1>5, ChunkFacts
<1>7. \A g \in 1 .. b : Part(x[g], d, C, (g - 1) * size, size)
  BY <1>6 DEF ChunksInto
<1> HIDE DEF x
<1> QED
  BY <1>3, <1>4, <1>7 DEF SharesOut, size

\* The number of micro-batches that a rank wants is between 1 and its rows.
LEMMA WantedFacts ==
  ASSUME cfg \in Configs, NEW m \in Nat \ {0}, NEW C, "length" \in C, NEW d, Data(d, C, m),
         \A i \in 1 .. m : d["length"][i] \in Nat
  PROVE  Wanted(d) \in 1 .. m
<1> DEFINE s == Seqlens(d)
           M == 1 .. m
           t == Total(s)
           l == MaxTokenLen * cfg.sp
           k == CeilDiv(t, l)
<1>1. Sound(cfg)
  BY ConfigFacts
<1>2. s \in [1 .. m -> Nat \ {0}]
  <2>1. m \in Nat
    OBVIOUS
  <2> QED
    BY <2>1, SeqlensFacts
<1>3. l \in Nat \ {0}
  <2>1. MaxTokenLen \in Nat \ {0} /\ cfg.sp \in Nat \ {0}
    BY <1>1, ConfigsAssumption DEF Sound
  <2> QED
    BY <2>1, ProductNotZero
<1>4. Wanted(d) = IF Len(s) < k THEN Len(s) ELSE k
  BY DEF Wanted, MicroBatchCount
<1> HIDE DEF s, l
<1>5. Len(s) = m /\ DOMAIN s = M
  BY <1>2, FunctionIsSeq
<1>6. t \in Nat \ {0}
  <2>1. IsFiniteSet(M) /\ 1 \in M /\ \A i \in M : s[i] \in Nat \ {0}
    BY <1>2, IntervalCount
  <2> HIDE DEF M
  <2>2. SumOf(s, M) \in Nat /\ \A i \in M : s[i] <= SumOf(s, M)
    BY <2>1, SumNat
  <2>3. t = SumOf(s, M)
    BY <1>5 DEF Total
  <2>4. s[1] \in Nat \ {0} /\ s[1] <= SumOf(s, M)
    BY <2>1, <2>2
  <2> QED
    BY <2>2, <2>3, <2>4
<1> HIDE DEF t
<1>7. k \in Nat \ {0}
  <2>1. Pieces(t, l)
    BY <1>3, <1>6, PiecesFacts
  <2> QED
    BY <2>1 DEF Pieces
<1> HIDE DEF k
<1> QED
  BY <1>4, <1>5, <1>7

\* A nonempty set of numbers up to m has a greatest one.
LEMMA GreatestOf ==
  ASSUME NEW m \in Nat, NEW W \in SUBSET (1 .. m), W # {}
  PROVE  \E x \in W : \A y \in W : x >= y
<1> DEFINE T == {t \in Nat : \E x \in W : t = m - x}
<1>1. T \in SUBSET Nat /\ T # {}
  <2>1. PICK x \in W : TRUE
    OBVIOUS
  <2>2. m - x \in Nat
    BY <2>1
  <2> QED
    BY <2>2
<1>2. \A x \in W : m - x \in T
  OBVIOUS
<1> HIDE DEF T
<1>3. PICK t \in T : \A u \in T : t <= u
  BY <1>1, LeastNat
<1>4. PICK x \in W : t = m - x
  BY <1>3 DEF T
<1>5. ASSUME NEW y \in W PROVE x >= y
  <2>1. m - x <= m - y
    BY <1>2, <1>3, <1>4
  <2> QED
    BY <2>1
<1> QED
  BY <1>5

\* The ranks have the same number k of micro-batches, which divide the m rows
\* of each among them; the ranks of a group have the very same ones.  Unless
\* they are dynamic, they have the rows in their order.
PlanOf(pl, datas, c, m, k) ==
    /\ DOMAIN pl = 1 .. c.world
    /\ \A r \in 1 .. c.world :
          /\ Partitioned(pl[r], m, k)
          /\ c.dynamic => \E i \in 1 .. m : LoadGap(pl[r], k, Works(Seqlens(datas[r])),
                                                    Works(Seqlens(datas[r]))[i])
          /\ ~ c.dynamic => FlattenSeq(pl[r]) = [i \in 1 .. m |-> i]
    /\ \A r, q \in 1 .. c.world : GroupNo(c, r) = GroupNo(c, q) => pl[r] = pl[q]

\* The rows in their order, size at a time.
Consecutive(m, size) ==
    [i \in 1 .. CeilDiv(m, size) |-> [j \in 1 .. PieceSize(m, size, i) |-> (i - 1) * size + j]]

\* Micro-batches of a fixed size divide the rows too, in their order.
LEMMA ConsecutiveFacts ==
  ASSUME NEW m \in Nat \ {0}, NEW size \in Nat \ {0}
  PROVE  /\ CeilDiv(m, size) \in Nat \ {0}
         /\ Partitioned(Consecutive(m, size), m, CeilDiv(m, size))
         /\ FlattenSeq(Consecutive(m, size)) = [i \in 1 .. m |-> i]
<1> DEFINE k == CeilDiv(m, size)
           P == Consecutive(m, size)
           z(i) == PieceSize(m, size, i)
           o == [i \in 1 .. k + 1 |-> IF i = k + 1 THEN m ELSE (i - 1) * size]
           N == 1 .. m
           f == FlattenSeq(P)
<1>1. k \in Nat \ {0} /\ \A i \in 1 .. k :
          /\ z(i) \in 1 .. size /\ (i - 1) * size + z(i) <= m /\ (i - 1) * size \in Nat
          /\ i = k => (i - 1) * size + z(i) = m
          /\ i < k => z(i) = size
  BY PiecesFacts DEF Pieces
<1>a. \A i \in 1 .. k : i * size < m => z(i) = size
  BY DEF PieceSize
<1>b. \A i \in 1 .. k : ~ (i * size < m) => z(i) = m - (i - 1) * size
  BY DEF PieceSize
<1>2. P = [i \in 1 .. k |-> [j \in 1 .. z(i) |-> (i - 1) * size + j]]
  BY DEF Consecutive
<1> HIDE DEF P, k, z
<1>3. ASSUME NEW i \in 1 .. k
      PROVE  /\ P[i] \in Seq(N) /\ Len(P[i]) = z(i) /\ DOMAIN P[i] = 1 .. z(i) /\ z(i) \in Nat \ {0}
             /\ \A j \in 1 .. z(i) : P[i][j] = (i - 1) * size + j /\ P[i][j] \in N
  <2> DEFINE a == (i - 1) * size
  <2>1. P[i] = [j \in 1 .. z(i) |-> a + j]
    BY <1>2
  <2>2. a \in Nat /\ z(i) \in Nat \ {0} /\ a + z(i) <= m
    BY <1>1
  <2> HIDE DEF a
  <2>3. \A j \in 1 .. z(i) : a + j \in 1 .. m
    BY <2>2
  <2>4. P[i] \in [1 .. z(i) -> N]
    BY <2>1, <2>3
  <2> HIDE DEF N
  <2>5. P[i] \in Seq(N) /\ Len(P[i]) = z(i) /\ DOMAIN P[i] = 1 .. z(i)
    BY <2>2, <2>4, FunctionIsSeq
  <2> QED
    BY <2>1, <2>2, <2>4, <2>5 DEF a
<1>4. /\ o \in [1 .. k + 1 -> Nat] /\ o[1] = 0 /\ o[k + 1] = m
      /\ \A i \in 1 .. k : o[i] = (i - 1) * size
  <2>1. \A i \in 1 .. k : o[i] = (i - 1) * size
    BY <1>1
  <2>2. o[k + 1] = m
    BY <1>1
  <2>3. ASSUME NEW i \in 1 .. k + 1 PROVE o[i] \in Nat
    <3>1. i = k + 1 \/ i \in 1 .. k
      BY <1>1
    <3> HIDE DEF o
    <3> QED
      BY <1>1, <2>1, <2>2, <3>1
  <2>4. o[1] = (1 - 1) * size /\ (1 - 1) * size = 0
    BY <1>1
  <2> QED
    BY <2>1, <2>2, <2>3, <2>4
<1> HIDE DEF o
<1>5. ASSUME NEW i \in 1 .. k PROVE o[i + 1] = o[i] + Len(P[i])
  <2>1. CASE i = k
    BY <1>1, <1>3, <1>4, <2>1
  <2>2. CASE i # k
    <3>1. i < k /\ i + 1 \in 1 .. k
      BY <1>1, <2>2
    <3>2. o[i + 1] = ((i + 1) - 1) * size /\ o[i] = (i - 1) * size
      BY <1>4, <3>1
    <3>3. ((i + 1) - 1) * size = (i - 1) * size + size
      OBVIOUS
    <3> QED
      BY <1>1, <1>3, <3>1, <3>2, <3>3
  <2> QED
    BY <2>1, <2>2
<1>6. P \in [1 .. k -> Seq(N)]
  BY <1>2, <1>3
<1>7. FlatAt(P, k, o, N)
  <2> HIDE DEF N
  <2> QED
    BY <1>1, <1>4, <1>5, <1>6, FlattenAt
<1>8. /\ f \in Seq(N) /\ Len(f) = m
      /\ \A i \in 1 .. k : \A j \in 1 .. Len(P[i]) : f[o[i] + j] = P[i][j]
  BY <1>4, <1>7 DEF FlatAt
<1> HIDE DEF f
<1>9. ASSUME NEW p \in 1 .. m PROVE \E i \in 1 .. k : \E j \in 1 .. z(i) : p = (i - 1) * size + j
  <2>1. Places(size, k)
    BY <1>1, PlacesFacts
  <2>2. m <= k * size
    <3>1. k \in 1 .. k
      BY <1>1
    <3>2. (k - 1) * size + z(k) = m /\ z(k) <= size /\ z(k) \in Nat
      BY <1>1, <3>1
    <3>3. (k - 1) * size + size = k * size /\ (k - 1) * size \in Int
      BY <1>1
    <3> QED
      BY <3>2, <3>3
  <2>3. p \in 1 .. k * size
    <3>1. k * size \in Nat
      BY <1>1
    <3> QED
      BY <2>2, <3>1
  <2>4. PICK g \in 0 .. k - 1 : \E j \in 1 .. size : p = Place(size, g, j)
    BY <2>1, <2>3 DEF Places
  <2>5. PICK j \in 1 .. size : p = g * size + j
    BY <2>4 DEF Place
  <2> DEFINE i == g + 1
  <2>6. i \in 1 .. k /\ i - 1 = g
    BY <1>1
  <2> HIDE DEF i
  <2>7. p = (i - 1) * size + j
    BY <2>5, <2>6
  <2>8. j \in 1 .. z(i)
    <3>1. CASE i * size < m
      BY <1>a, <2>6, <3>1
    <3>2. CASE ~ (i * size < m)
      <4>1. z(i) = m - (i - 1) * size /\ (i - 1) * size \in Nat
        BY <1>1, <1>b, <2>6, <3>2
      <4> QED
        BY <2>7, <4>1
    <3> QED
      BY <3>1, <3>2
  <2> QED
    BY <2>6, <2>7, <2>8
<1>10. f = [p \in 1 .. m |-> p]
  <2>1. f = [p \in 1 .. m |-> f[p]]
    BY <1>8, SeqElement
  <2>2. ASSUME NEW p \in 1 .. m PROVE f[p] = p
    <3>1. PICK i \in 1 .. k : \E j \in 1 .. z(i) : p = (i - 1) * size + j
      BY <1>9
    <3>2. PICK j \in 1 .. z(i) : p = (i - 1) * size + j
      BY <3>1
    <3>3. f[o[i] + j] = P[i][j]
      BY <1>3, <1>8
    <3>4. o[i] + j = p /\ P[i][j] = p
      BY <1>3, <1>4, <3>2
    <3> QED
      BY <3>3, <3>4
  <2> QED
    BY <2>1, <2>2
<1>11. ASSUME NEW i \in 1 .. k, NEW j \in 1 .. k, NEW a \in DOMAIN P[i], NEW b \in DOMAIN P[j],
              P[i][a] = P[j][b]
       PROVE  i = j /\ a = b
  <2>1. a \in 1 .. z(i) /\ b \in 1 .. z(j)
    BY <1>3
  <2>2. (i - 1) * size + a = (j - 1) * size + b
    BY <1>3, <1>11, <2>1
  <2>3. a \in 1 .. size /\ b \in 1 .. size
    <3>1. z(i) \in 1 .. size /\ z(j) \in 1 .. size
      BY <1>1
    <3> QED
      BY <2>1, <3>1
  <2>4. i - 1 \in 0 .. k - 1 /\ j - 1 \in 0 .. k - 1
    BY <1>1
  <2>5. Place(size, i - 1, a) = Place(size, j - 1, b)
    BY <2>2 DEF Place
  <2>6. Places(size, k)
    BY <1>1, PlacesFacts
  <2>7. i - 1 = j - 1 /\ a = b
    BY <2>3, <2>4, <2>5, <2>6 DEF Places
  <2> QED
    BY <2>7
<1>12. Partitioned(P, m, k)
  <2>1. \A i \in 1 .. k : Len(P[i]) > 0
    BY <1>3
  <2>2. ASSUME NEW p \in 1 .. m PROVE \E i \in 1 .. k : \E a \in DOMAIN P[i] : P[i][a] = p
    <3>1. PICK i \in 1 .. k : \E j \in 1 .. z(i) : p = (i - 1) * size + j
      BY <1>9
    <3>2. PICK j \in 1 .. z(i) : p = (i - 1) * size + j
      BY <3>1
    <3>3. j \in DOMAIN P[i] /\ P[i][j] = p
      BY <1>3, <3>2
    <3> QED
      BY <3>3
  <2> QED
    BY <1>6, <1>11, <2>1, <2>2 DEF Partitioned
<1> QED
  BY <1>1, <1>10, <1>12 DEF k, P, f

\* What the ranks have: m rows each, the same in a group.
Shared(datas, C, m, c) ==
    /\ DOMAIN datas = 1 .. c.world
    /\ \A r \in 1 .. c.world : /\ Data(datas[r], C, m)
                               /\ \A i \in 1 .. m : datas[r]["length"][i] \in Nat
    /\ \A r, q \in 1 .. c.world : GroupNo(c, r) = GroupNo(c, q) => datas[r] = datas[q]

\* The all_reduce gives every rank the same number, which its rows allow.
LEMMA AgreedFacts ==
  ASSUME cfg \in Configs, NEW m \in Nat \ {0}, NEW C, "length" \in C,
         NEW datas, Shared(datas, C, m, cfg)
  PROVE  \E k \in 1 .. m : \A r \in 1 .. cfg.world : Agreed(datas, r) = k
<1> DEFINE R == 1 .. cfg.world
           W == {Wanted(datas[q]) : q \in R}
<1>1. Sound(cfg)
  BY ConfigFacts
<1>2. \A q \in R : Wanted(datas[q]) \in 1 .. m
  BY WantedFacts DEF Shared
<1>3. 1 \in R
  BY <1>1 DEF Sound
<1>4. \A r : Agreed(datas, r) = CHOOSE k \in W : \A q \in R : k >= Wanted(datas[q])
  BY DEF Agreed, Ranks
<1> HIDE DEF R
<1>5. W \in SUBSET (1 .. m) /\ W # {}
  BY <1>2, <1>3
<1>6. \A q \in R : Wanted(datas[q]) \in W
  OBVIOUS
<1> HIDE DEF W
<1>7. PICK x \in W : \A y \in W : x >= y
  BY <1>5, GreatestOf
<1>8. \A q \in R : x >= Wanted(datas[q])
  BY <1>6, <1>7
<1> DEFINE k == CHOOSE n \in W : \A q \in R : n >= Wanted(datas[q])
<1>9. k \in W
  BY <1>8
<1>10. k \in 1 .. m /\ \A r : Agreed(datas, r) = k
  BY <1>4, <1>5, <1>9
<1> HIDE DEF k
<1> QED
  BY <1>10

\* The loop over the micro-batches is planned as PlanOf says.
LEMMA PlannedFacts ==
  ASSUME cfg \in Configs, NEW m \in Nat \ {0}, NEW C, "length" \in C,
         NEW datas, Shared(datas, C, m, cfg)
  PROVE  \E k \in Nat \ {0} : PlanOf(Planned(datas), datas, cfg, m, k)
<1> DEFINE R == 1 .. cfg.world
           pl == Planned(datas)
           s(r) == Seqlens(datas[r])
           same == \A r, q \in R : GroupNo(cfg, r) = GroupNo(cfg, q) => pl[r] = pl[q]
<1>1. Sound(cfg)
  BY ConfigFacts
<1>2. cfg.micro \in Nat \ {0}
  BY <1>1 DEF Sound
<1>3. DOMAIN pl = R
  BY DEF Planned, Ranks
<1>4. CASE cfg.dynamic
  <2>1. PICK k \in 1 .. m : \A r \in R : Agreed(datas, r) = k
    BY AgreedFacts
  <2>2. \A r \in R : pl[r] = MicroBatches(s(r), k)
    BY <1>4, <2>1 DEF Planned, Ranks
  <2> HIDE DEF pl
  <2>3. ASSUME NEW r \in R
        PROVE  Partitioned(pl[r], m, k) /\ \E i \in 1 .. m : LoadGap(pl[r], k, Works(s(r)), Works(s(r))[i])
    <3>1. m \in Nat /\ Data(datas[r], C, m) /\ \A i \in 1 .. m : datas[r]["length"][i] \in Nat
      BY DEF Shared
    <3>2. s(r) \in [1 .. m -> Nat \ {0}]
      BY <3>1, SeqlensFacts
    <3> HIDE DEF s
    <3>3. MicroBatched(MicroBatches(s(r), k), m, Works(s(r)), k)
      BY <3>2, MicroBatchesFacts
    <3> QED
      BY <2>2, <3>3 DEF MicroBatched
  <2>4. same
    <3>1. \A r, q \in R : GroupNo(cfg, r) = GroupNo(cfg, q) => datas[r] = datas[q]
      BY DEF Shared
    <3> QED
      BY <2>2, <3>1
  <2>5. PlanOf(pl, datas, cfg, m, k)
    BY <1>3, <1>4, <2>3, <2>4 DEF PlanOf
  <2>6. k \in Nat \ {0}
    OBVIOUS
  <2> QED
    BY <2>5, <2>6 DEF pl
<1>5. CASE ~ cfg.dynamic
  <2> DEFINE k == CeilDiv(m, cfg.micro)
  <2>1. ASSUME NEW r \in R PROVE pl[r] = Consecutive(m, cfg.micro)
    <3>1. Size(datas[r]) = m
      <4>1. m \in Nat /\ Data(datas[r], C, m) /\ C # {}
        BY DEF Shared
      <4> QED
        BY <4>1, SizeFacts
    <3> QED
      BY <1>5, <3>1 DEF Planned, Ranks, Consecutive, PieceSize
  <2> HIDE DEF pl
  <2>2. /\ k \in Nat \ {0} /\ Partitioned(Consecutive(m, cfg.micro), m, k)
        /\ FlattenSeq(Consecutive(m, cfg.micro)) = [i \in 1 .. m |-> i]
    BY <1>2, ConsecutiveFacts
  <2> HIDE DEF k
  <2>3. PlanOf(pl, datas, cfg, m, k)
    BY <1>3, <1>5, <2>1, <2>2 DEF PlanOf
  <2> QED
    BY <2>2, <2>3 DEF pl
<1>6. cfg.dynamic \in BOOLEAN
  BY <1>1 DEF Sound
<1> QED
  BY <1>4, <1>5, <1>6

-----------------------------------------------------------------------------
(* The inductive invariant: what holds of the batch, of the column of      *)
(* scores, of what the ranks have and of what they have trained on, in     *)
(* each phase of the driver.                                               *)

\* All columns.
Columns == Base \cup {"old_log_prob", "score", "advantage"}

\* A batch before the log-probabilities.
Plain(d, c) == Data(d, Base, Rows(c)) /\ Coherent(d, c)

\* The column that compute_reward returned.
Scores(s, d, c) ==
    /\ IsColumn(s, Rows(c))
    /\ \A i \in 1 .. Rows(c) : s[i].response = d["response"][i] /\ s[i].score \in Int

\* AdvantagesAreGroupRelative of the batch d.
WeightOf(d, c, i) == IF c.estimator = "opo" THEN d["length"][i] ELSE 1
Relative(d, c) ==
    \A p \in 1 .. c.prompts :
        LET rows == {i \in 1 .. Size(d) : d["response"][i][1] = p}
            weight == SumOf([i \in rows |-> WeightOf(d, c, i)], rows)
        IN Cardinality(rows) > 1 =>
              /\ \A i, j \in rows :
                    d["advantage"][i] - d["advantage"][j]
                      = weight * (d["score"][i].score - d["score"][j].score)
              /\ SumOf([i \in rows |-> WeightOf(d, c, i) * d["advantage"][i]], rows) = 0

\* A batch with all of its columns.
Full(d, c) ==
    /\ Data(d, Columns, Rows(c)) /\ Coherent(d, c)
    /\ d["old_log_prob"] = d["response"]
    /\ \A i \in 1 .. Rows(c) : d["score"][i].response = d["response"][i]
    /\ Relative(d, c)

\* The workers that have answered; the ranks that have returned.
Answered(outs, ins, c, q) ==
    /\ DOMAIN outs = 1 .. c.workers
    /\ \A w \in 1 .. c.workers : outs[w] = None \/ Answers(outs[w], ins[w], w, q)
Returned(outs, ins, c) ==
    /\ DOMAIN outs = 1 .. c.world
    /\ \A r \in 1 .. c.world : outs[r] = None \/ outs[r] = [old_log_prob |-> ins[r]["response"]]

\* The row of the batch before those of rank r, and how many mini-batches it has.
First(c, r) == (GroupNo(c, r) - 1) * Share(c)
Minis(c) == CeilDiv(Share(c), Mini(c))
MiniSize(c, i) == PieceSize(Share(c), Mini(c), i)

\* The mini-batches of a rank after s of them.
Remaining(x, d, c, r, s) ==
    /\ x \in Seq(Range(x)) /\ Len(x) = Minis(c) - s
    /\ \A j \in 1 .. Minis(c) - s :
          Part(x[j], d, Columns, First(c, r) + (s + j - 1) * Mini(c), MiniSize(c, s + j))
AllRemaining(ms, d, c, s) ==
    DOMAIN ms = 1 .. c.world /\ \A r \in 1 .. c.world : Remaining(ms[r], d, c, r, s)

\* No rank has trained.
Untrained(x, c) == x = [r \in 1 .. c.world |-> <<>>]

\* The ranks of a group have trained on the same responses.
TrainedAlike(x, c) ==
    /\ DOMAIN x = 1 .. c.world
    /\ \A r, q \in 1 .. c.world : GroupNo(c, r) = GroupNo(c, q) => x[r] = x[q]

\* x has the responses of the rows a + p, for the p in T, once each.
TrainedOn(x, d, a, T) ==
    /\ x \in Seq(Range(x))
    /\ \A i, j \in DOMAIN x : x[i] = x[j] => i = j
    /\ \A i \in DOMAIN x : \E p \in T : x[i] = d["response"][a + p]
    /\ \A p \in T : \E i \in DOMAIN x : x[i] = d["response"][a + p]

\* The rows of the first f micro-batches, after the first a rows.
Seen(P, f, a) == {p \in Nat : \E i \in 1 .. f : \E j \in DOMAIN P[i] : p = a + P[i][j]}

\* After s mini-batches and f micro-batches of the next one.
During(ms, pl, f, x, d, c, s) ==
    /\ AllRemaining(ms, d, c, s)
    /\ \E k \in Nat \ {0} :
          /\ PlanOf(pl, [r \in 1 .. c.world |-> Head(ms[r])], c, MiniSize(c, s + 1), k)
          /\ f \in 0 .. k
    /\ TrainedAlike(x, c)
    /\ \A r \in 1 .. c.world :
          TrainedOn(x[r], d, First(c, r), (1 .. s * Mini(c)) \cup Seen(pl[r], f, s * Mini(c)))

\* Nothing is planned, and no rank has trained.
Idle == plan = <<>> /\ Untrained(trained, cfg)

\* The phases of the driver: before generation,
AtGen == pc = "gen" /\ FirstBatch(batch, cfg) /\ Idle

\* while the workers generate,
Generating ==
    /\ pc = "generating" /\ FirstBatch(batch, cfg) /\ Idle
    /\ \E q \in Nat \ {0} : Sent(inputs, cfg, q) /\ Answered(outputs, inputs, cfg, q)

\* before _balance_batch,
AtBalance == pc = "balance" /\ ~ cfg.validate /\ Plain(batch, cfg) /\ Idle

\* before the reward function,
AtReward ==
    pc = "reward" /\ ~ cfg.validate /\ Plain(batch, cfg) /\ EvenLoads(batch, cfg) /\ Idle

\* before the log-probabilities,
AtLogProb ==
    pc = "log_prob" /\ ~ cfg.validate /\ Plain(batch, cfg) /\ Scores(reward, batch, cfg) /\ Idle

\* while the ranks compute them,
LogProbs ==
    /\ pc = "log_probs" /\ ~ cfg.validate /\ Plain(batch, cfg) /\ Scores(reward, batch, cfg)
    /\ Untrained(trained, cfg)
    /\ SharesOut(inputs, batch, Base, cfg) /\ Returned(outputs, inputs, cfg)
    /\ \E k \in Nat \ {0} : PlanOf(plan, inputs, cfg, Share(cfg), k)

\* before the advantages,
AtAdv ==
    /\ pc = "adv" /\ ~ cfg.validate
    /\ Data(batch, Base \cup {"old_log_prob"}, Rows(cfg)) /\ Coherent(batch, cfg)
    /\ batch["old_log_prob"] = batch["response"]
    /\ Scores(reward, batch, cfg) /\ Idle

\* before the update,
AtUpdate == pc = "update" /\ ~ cfg.validate /\ Full(batch, cfg) /\ Idle

\* during the update, after s mini-batches,
Updating ==
    /\ pc = "updating" /\ ~ cfg.validate /\ Full(batch, cfg)
    /\ \E s \in 0 .. Minis(cfg) - 1 : During(minis, plan, forwarded, trained, batch, cfg, s)

\* and after the iteration.
Done ==
    /\ pc = "done" /\ plan = <<>>
    /\ cfg.validate => Plain(batch, cfg)
    /\ ~ cfg.validate =>
          /\ Full(batch, cfg) /\ TrainedAlike(trained, cfg)
          /\ \A r \in 1 .. cfg.world : TrainedOn(trained[r], batch, First(cfg, r), 1 .. Share(cfg))

\* The inductive invariant.
IInv ==
    /\ cfg \in Configs
    /\ \/ AtGen \/ Generating \/ AtBalance \/ AtReward \/ AtLogProb \/ LogProbs \/ AtAdv
       \/ AtUpdate \/ Updating \/ Done

-----------------------------------------------------------------------------
(* One lemma per action. *)

\* The first state is before generation.
LEMMA InitGen == Init => AtGen
<1> SUFFICES ASSUME Init PROVE AtGen
  OBVIOUS
<1>1. pc = "gen" /\ FirstBatch(batch, cfg)
  BY DEF Init, FirstBatch
<1>2. plan = <<>> /\ trained = [r \in 1 .. cfg.world |-> <<>>]
  BY DEF Init, Ranks
<1> QED
  BY <1>1, <1>2 DEF AtGen, Idle, Untrained

\* The driver pads the prompts and sends them to the workers.
LEMMA DispatchGenerationStep ==
  ASSUME cfg \in Configs, AtGen, DispatchGeneration
  PROVE  Generating'
<1>1. PICK q \in Nat \ {0} : Sent(Chunk(GenBatch, cfg.workers), cfg, q)
  BY SentFacts
<1>2. Sent(inputs', cfg', q)
  <2>1. inputs' = Chunk(GenBatch, cfg.workers) /\ cfg' = cfg
    BY DEF DispatchGeneration
  <2> QED
    BY <1>1, <2>1
<1>3. Answered(outputs', inputs', cfg', q)
  <2>1. outputs' = [w \in 1 .. cfg.workers |-> None] /\ cfg' = cfg
    BY DEF DispatchGeneration
  <2> QED
    BY <2>1 DEF Answered
<1>4. pc' = "generating" /\ FirstBatch(batch', cfg') /\ plan' = <<>> /\ Untrained(trained', cfg')
  BY DEF DispatchGeneration, AtGen, Idle
<1> QED
  BY <1>2, <1>3, <1>4 DEF Generating, Idle

\* A worker generates the responses of its prompts.
LEMMA GenerateChunkStep ==
  ASSUME cfg \in Configs, Generating, NEW w \in DOMAIN outputs, GenerateChunk(w)
  PROVE  Generating'
<1>1. PICK q \in Nat \ {0} : Sent(inputs, cfg, q) /\ Answered(outputs, inputs, cfg, q)
  BY DEF Generating
<1> DEFINE prompt == inputs[w]["prompt"]
<1>2. PICK length \in [DOMAIN prompt -> cfg.lengths] :
            outputs' = [outputs EXCEPT ![w] =
                [prompt   |-> prompt,
                 response |-> [i \in DOMAIN prompt |-> <<prompt[i], w, i>>],
                 length   |-> length]]
  BY DEF GenerateChunk
<1> DEFINE o == [prompt   |-> prompt,
                 response |-> [i \in DOMAIN prompt |-> <<prompt[i], w, i>>],
                 length   |-> length]
<1>3. w \in 1 .. cfg.workers /\ DOMAIN outputs = 1 .. cfg.workers
  BY <1>1 DEF Answered
<1>4. Data(inputs[w], {"prompt"}, q)
  BY <1>1, <1>3 DEF Sent
<1>5. IsColumn(prompt, q)
  BY <1>4 DEF Data
<1>6. DOMAIN prompt = 1 .. q
  BY <1>5 DEF IsColumn
<1>7. cfg.lengths \in SUBSET Nat
  BY ConfigFacts DEF Sound
<1> DEFINE C == {"prompt", "response", "length"}
<1>8. o = [c \in C |-> o[c]]
  OBVIOUS
<1>9. /\ o["prompt"] = prompt /\ o["length"] = length
      /\ o["response"] = [i \in 1 .. q |-> <<prompt[i], w, i>>]
  BY <1>6
<1>10. IsColumn(o["response"], q) /\ IsColumn(o["length"], q)
  BY <1>2, <1>6, <1>9 DEF IsColumn
<1> HIDE DEF o
<1>11. Data(o, C, q)
  BY <1>5, <1>8, <1>9, <1>10 DEF Data
<1>12. Answers(o, inputs[w], w, q)
  <2>1. \A i \in 1 .. q : o["response"][i] = <<prompt[i], w, i>>
    BY <1>9
  <2>2. \A i \in 1 .. q : o["length"][i] \in Nat
    BY <1>2, <1>6, <1>7, <1>9
  <2> QED
    BY <1>9, <1>11, <2>1, <2>2 DEF Answers
<1>13. outputs' = [outputs EXCEPT ![w] = o]
  BY <1>2 DEF o
<1>14. cfg' = cfg /\ inputs' = inputs /\ pc' = pc /\ batch' = batch /\ plan' = plan /\ trained' = trained
  BY DEF GenerateChunk
<1>15. Answered(outputs', inputs, cfg, q)
  <2>1. DOMAIN outputs' = 1 .. cfg.workers
    BY <1>3, <1>13
  <2>2. ASSUME NEW v \in 1 .. cfg.workers
        PROVE  outputs'[v] = None \/ Answers(outputs'[v], inputs[v], v, q)
    <3>1. CASE v = w
      <4>1. outputs'[v] = o
        BY <1>3, <1>13, <3>1
      <4> QED
        BY <1>12, <3>1, <4>1
    <3>2. CASE v # w
      <4>1. outputs'[v] = outputs[v]
        BY <1>3, <1>13, <3>2
      <4> QED
        BY <1>1, <4>1 DEF Answered
    <3> QED
      BY <3>1, <3>2
  <2> QED
    BY <2>1, <2>2 DEF Answered
<1>16. Sent(inputs', cfg', q) /\ Answered(outputs', inputs', cfg', q)
  BY <1>1, <1>14, <1>15
<1>17. pc' = "generating" /\ FirstBatch(batch', cfg') /\ plan' = <<>> /\ Untrained(trained', cfg')
  BY <1>14 DEF Generating, Idle
<1> QED
  BY <1>16, <1>17 DEF Generating, Idle

\* The driver joins the answers, drops the padding and unites the responses
\* with the repeated prompts; a validation batch is done with that.
LEMMA CollectGenerationStep ==
  ASSUME cfg \in Configs, Generating, CollectGeneration
  PROVE  Done' \/ AtBalance'
<1>1. PICK q \in Nat \ {0} : Sent(inputs, cfg, q) /\ Answered(outputs, inputs, cfg, q)
  BY DEF Generating
<1>2. \A w \in 1 .. cfg.workers : Answers(outputs[w], inputs[w], w, q)
  <2>1. \A w \in DOMAIN outputs : outputs[w] # None
    BY DEF CollectGeneration
  <2> QED
    BY <1>1, <2>1 DEF Answered
<1>3. DOMAIN outputs = 1 .. cfg.workers
  BY <1>1 DEF Answered
<1>4. FirstBatch(batch, cfg)
  BY DEF Generating
<1> DEFINE x == LET output == Concat(outputs)
                    unpadded == Unpadded(output, Size(output) - cfg.prompts * cfg.n)
                IN  Union(Repeat(batch, cfg.n), unpadded)
<1>5. batch' = x
  BY DEF CollectGeneration
<1>6. Sound(cfg)
  BY ConfigFacts
<1> HIDE DEF x
<1>7. Data(x, Base, Rows(cfg)) /\ Coherent(x, cfg)
  <2>1. x = LET output == Concat(outputs)
                unpadded == Unpadded(output, Size(output) - cfg.prompts * cfg.n)
            IN  Union(Repeat(batch, cfg.n), unpadded)
    BY DEF x
  <2> QED
    BY <1>1, <1>2, <1>3, <1>4, <1>6, <2>1, CollectFacts
<1>8. cfg' = cfg /\ plan' = <<>> /\ Untrained(trained', cfg')
  BY DEF CollectGeneration, Generating, Idle
<1>9. Plain(batch', cfg')
  BY <1>5, <1>7, <1>8 DEF Plain
<1>10. cfg.validate \in BOOLEAN
  BY <1>6 DEF Sound
<1>11. CASE cfg.validate
  <2>1. pc' = "done"
    BY <1>11 DEF CollectGeneration
  <2> QED
    BY <1>8, <1>9, <1>11, <2>1 DEF Done
<1>12. CASE ~ cfg.validate
  <2>1. pc' = "balance"
    BY <1>12 DEF CollectGeneration
  <2> QED
    BY <1>8, <1>9, <1>12, <2>1 DEF AtBalance, Idle
<1> QED
  BY <1>10, <1>11, <1>12

\* _balance_batch reorders the whole batch, and the chunks of the ranks have
\* even loads then.
LEMMA BalanceStep ==
  ASSUME cfg \in Configs, AtBalance, Balance
  PROVE  AtReward'
<1>1. ~ cfg.validate /\ Data(batch, Base, Rows(cfg)) /\ Coherent(batch, cfg)
  BY DEF AtBalance, Plain
<1>2. batch' = Select(batch, BalancedOrder(batch)) /\ cfg' = cfg /\ pc' = "reward"
  BY DEF Balance
<1>3. plan' = <<>> /\ Untrained(trained', cfg')
  BY DEF Balance, AtBalance, Idle
<1>4. Data(batch', Base, Rows(cfg)) /\ Coherent(batch', cfg) /\ EvenLoads(batch', cfg)
  BY <1>1, <1>2, BalanceFacts
<1> QED
  BY <1>1, <1>2, <1>3, <1>4 DEF AtReward, Plain, Idle

\* compute_reward returns the scores of the rows as they now are.
LEMMA RewardStep ==
  ASSUME cfg \in Configs, AtReward, Reward
  PROVE  AtLogProb'
<1>1. ~ cfg.validate /\ Data(batch, Base, Rows(cfg))
  BY DEF AtReward, Plain
<1>2. Size(batch) = Rows(cfg)
  <2>1. Base # {}
    BY DEF Base
  <2>2. Rows(cfg) \in Nat
    BY ConfigFacts DEF Sound
  <2> QED
    BY <1>1, <2>1, <2>2, SizeFacts
<1>3. PICK score \in [1 .. Rows(cfg) -> cfg.scores] :
          reward' = [i \in 1 .. Rows(cfg) |-> [response |-> batch["response"][i], score |-> score[i]]]
  BY <1>2 DEF Reward
<1>4. cfg.scores \in SUBSET Int
  BY ConfigFacts DEF Sound
<1>5. Scores(reward', batch, cfg)
  BY <1>3, <1>4 DEF Scores, IsColumn
<1>6. cfg' = cfg /\ batch' = batch /\ pc' = "log_prob" /\ plan' = plan /\ trained' = trained
  BY DEF Reward
<1>7. Plain(batch', cfg') /\ plan' = <<>> /\ Untrained(trained', cfg') /\ Scores(reward', batch', cfg')
  BY <1>5, <1>6 DEF AtReward, Idle
<1> QED
  BY <1>1, <1>6, <1>7 DEF AtLogProb, Idle

\* The columns that every rank is sent are the same in a group.
LEMMA PartUnique ==
  ASSUME NEW d, NEW C, NEW a, NEW k, NEW x, Part(x, d, C, a, k), NEW y, Part(y, d, C, a, k)
  PROVE  x = y
<1>1. x = [c \in C |-> x[c]] /\ y = [c \in C |-> y[c]]
  BY DEF Part, Data
<1>2. ASSUME NEW c \in C PROVE x[c] = y[c]
  <2>1. x[c] = [i \in 1 .. k |-> x[c][i]] /\ y[c] = [i \in 1 .. k |-> y[c][i]]
    BY DEF Part, Data, IsColumn
  <2>2. \A i \in 1 .. k : x[c][i] = y[c][i]
    BY DEF Part
  <2> QED
    BY <2>1, <2>2
<1> QED
  BY <1>1, <1>2

\* The ranks of a group are sent the same rows.
LEMMA SharedOut ==
  ASSUME NEW c, Sound(c), Trains(c), NEW C, "length" \in C, NEW d, Coherent(d, c),
         NEW ins, SharesOut(ins, d, C, c)
  PROVE  Shared(ins, C, Share(c), c)
<1>1. DOMAIN ins = 1 .. c.world /\ \A r \in 1 .. c.world : Data(ins[r], C, Share(c))
  BY DEF SharesOut, Part
<1>2. ASSUME NEW r \in 1 .. c.world, NEW i \in 1 .. Share(c)
      PROVE  ins[r]["length"][i] \in Nat
  <2> DEFINE m == Share(c)
             b == Groups(c)
             g == GroupNo(c, r) - 1
  <2>1. b \in Nat \ {0} /\ m \in Nat \ {0} /\ Rows(c) = b * m
    BY DEF Sound, Trains
  <2>2. g \in 0 .. b - 1
    <3>1. GroupNo(c, r) \in 1 .. b
      BY MeshFacts DEF Mesh
    <3> HIDE DEF b
    <3> QED
      BY <2>1, <3>1
  <2>3. ins[r]["length"][i] = d["length"][g * m + i]
    BY DEF SharesOut, Part
  <2> HIDE DEF m, b, g
  <2>4. g * m + i \in 1 .. b * m
    <3>1. Places(m, b)
      BY <2>1, PlacesFacts
    <3>2. i \in 1 .. m
      BY DEF m
    <3>3. Place(m, g, i) \in 1 .. b * m
      BY <2>2, <3>1, <3>2 DEF Places
    <3> QED
      BY <3>3 DEF Place
  <2> QED
    BY <2>1, <2>3, <2>4 DEF Coherent
<1>3. ASSUME NEW r \in 1 .. c.world, NEW q \in 1 .. c.world, GroupNo(c, r) = GroupNo(c, q)
      PROVE  ins[r] = ins[q]
  <2>1. /\ Part(ins[r], d, C, (GroupNo(c, r) - 1) * Share(c), Share(c))
        /\ Part(ins[q], d, C, (GroupNo(c, r) - 1) * Share(c), Share(c))
    BY <1>3 DEF SharesOut
  <2> QED
    BY <2>1, PartUnique
<1> QED
  BY <1>1, <1>2, <1>3 DEF Shared

\* The driver sends the ranks their rows, and each of them makes its plan of
\* micro-batches.
LEMMA DispatchLogProbStep ==
  ASSUME cfg \in Configs, AtLogProb, DispatchLogProb
  PROVE  LogProbs'
<1>1. /\ ~ cfg.validate /\ Plain(batch, cfg) /\ Scores(reward, batch, cfg)
      /\ Untrained(trained, cfg)
  BY DEF AtLogProb, Idle
<1>2. /\ inputs' = Dispatched(batch) /\ outputs' = [r \in 1 .. cfg.world |-> None]
      /\ plan' = Planned(inputs') /\ pc' = "log_probs"
      /\ cfg' = cfg /\ batch' = batch /\ reward' = reward /\ trained' = trained
  BY DEF DispatchLogProb, Ranks
<1>3. Sound(cfg) /\ Trains(cfg)
  BY <1>1, ConfigFacts
<1>4. Base # {} /\ "length" \in Base
  BY DEF Base
<1>5. SharesOut(inputs', batch, Base, cfg)
  BY <1>1, <1>2, <1>4, DispatchFacts DEF Plain
<1>6. Shared(inputs', Base, Share(cfg), cfg)
  BY <1>1, <1>3, <1>4, <1>5, SharedOut DEF Plain
<1>7. \E k \in Nat \ {0} : PlanOf(plan', inputs', cfg, Share(cfg), k)
  <2>1. Share(cfg) \in Nat \ {0}
    BY <1>3 DEF Trains
  <2> QED
    BY <1>2, <1>4, <1>6, <2>1, PlannedFacts
<1>8. Returned(outputs', inputs', cfg)
  BY <1>2 DEF Returned
<1>9. /\ ~ cfg'.validate /\ Plain(batch', cfg') /\ Scores(reward', batch', cfg')
      /\ Untrained(trained', cfg') /\ SharesOut(inputs', batch', Base, cfg')
      /\ Returned(outputs', inputs', cfg')
      /\ \E k \in Nat \ {0} : PlanOf(plan', inputs', cfg', Share(cfg'), k)
  BY <1>1, <1>2, <1>5, <1>7, <1>8
<1> QED
  BY <1>2, <1>9 DEF LogProbs

\* The ranks compute the next micro-batch together.
LEMMA ForwardLogProbStep ==
  ASSUME cfg \in Configs, LogProbs, Forward
  PROVE  LogProbs'
<1>1. pc = "log_probs"
  BY DEF LogProbs
<1>2. /\ cfg' = cfg /\ pc' = pc /\ batch' = batch /\ reward' = reward /\ inputs' = inputs
      /\ outputs' = outputs /\ plan' = plan /\ trained' = trained
  BY <1>1 DEF Forward
<1> QED
  BY <1>2 DEF LogProbs

\* restore_dynamic_batch undoes the order of the micro-batches.
LEMMA RestoredFacts ==
  ASSUME NEW m \in Nat, NEW k \in Nat \ {0}, NEW P, Partitioned(P, m, k),
         NEW s, IsColumn(s, m), NEW t, t = [i \in 1 .. m |-> s[FlattenSeq(P)[i]]]
  PROVE  Restored(t, P) = s
<1> DEFINE f == FlattenSeq(P)
<1>1. Permutes(f, m)
  BY FlattenPermutes
<1> DEFINE v(i) == t[CHOOSE j \in DOMAIN f : f[j] = i]
<1>2. Restored(t, P) = [i \in DOMAIN t |-> v(i)]
  BY DEF Restored
<1>3. t = [i \in 1 .. m |-> s[f[i]]]
  OBVIOUS
<1> HIDE DEF f
<1>4. DOMAIN t = 1 .. m /\ DOMAIN f = 1 .. m
  BY <1>1, <1>3 DEF Permutes
<1>5. ASSUME NEW i \in 1 .. m PROVE v(i) = s[i]
  <2> DEFINE j == CHOOSE j \in DOMAIN f : f[j] = i
  <2>1. \E a \in DOMAIN f : f[a] = i
    BY <1>1, <1>4 DEF Permutes
  <2>2. j \in DOMAIN f /\ f[j] = i
    BY <2>1
  <2> HIDE DEF j
  <2>3. t[j] = s[i]
    BY <1>3, <1>4, <2>2
  <2> QED
    BY <2>3 DEF j
<1> HIDE DEF v
<1>6. Restored(t, P) = [i \in 1 .. m |-> s[i]]
  <2>1. Restored(t, P) = [i \in 1 .. m |-> v(i)]
    BY <1>2, <1>4
  <2> QED
    BY <1>5, <2>1
<1> QED
  BY <1>6 DEF IsColumn

\* A rank returns its log-probabilities in the order of its rows.
LEMMA ReturnedInOrder ==
  ASSUME NEW c, c.dynamic \in BOOLEAN, NEW m \in Nat, NEW k \in Nat \ {0},
         NEW ins, NEW C, "response" \in C, NEW pl, PlanOf(pl, ins, c, m, k),
         NEW r \in 1 .. c.world, Data(ins[r], C, m),
         NEW t, t = Select(ins[r], FlattenSeq(pl[r]))["response"]
  PROVE  (IF c.dynamic THEN Restored(t, pl[r]) ELSE t) = ins[r]["response"]
<1> DEFINE f == FlattenSeq(pl[r])
           s == ins[r]["response"]
<1>1. Partitioned(pl[r], m, k)
  BY DEF PlanOf
<1>2. Permutes(f, m)
  BY <1>1, FlattenPermutes
<1>3. t = [i \in 1 .. m |-> s[f[i]]]
  <2> HIDE DEF f
  <2>1. DOMAIN f = 1 .. m
    BY <1>2 DEF Permutes
  <2>2. DOMAIN ins[r] = C
    BY DEF Data
  <2>3. t = Select(ins[r], f)["response"]
    BY DEF f
  <2> QED
    BY <2>1, <2>2, <2>3 DEF Select
<1>4. IsColumn(s, m)
  BY DEF Data
<1>5. CASE c.dynamic
  <2>1. Restored(t, pl[r]) = s
    BY <1>1, <1>3, <1>4, RestoredFacts
  <2> QED
    BY <1>5, <2>1
<1>6. CASE ~ c.dynamic
  <2>1. f = [i \in 1 .. m |-> i]
    BY <1>6 DEF PlanOf
  <2> HIDE DEF f
  <2>2. t = [i \in 1 .. m |-> s[i]]
    BY <1>3, <2>1
  <2>3. t = s
    BY <1>4, <2>2 DEF IsColumn
  <2> QED
    BY <1>6, <2>3
<1> QED
  BY <1>5, <1>6

\* A rank that has been through its micro-batches puts the log-probabilities
\* back into the order of its rows and returns them.
LEMMA ReturnLogProbStep ==
  ASSUME cfg \in Configs, LogProbs, NEW r \in DOMAIN plan, ReturnLogProb(r)
  PROVE  LogProbs'
<1>1. /\ ~ cfg.validate /\ Plain(batch, cfg) /\ Scores(reward, batch, cfg)
      /\ Untrained(trained, cfg)
      /\ SharesOut(inputs, batch, Base, cfg) /\ Returned(outputs, inputs, cfg)
  BY DEF LogProbs
<1>2. PICK k \in Nat \ {0} : PlanOf(plan, inputs, cfg, Share(cfg), k)
  BY DEF LogProbs
<1>3. Sound(cfg) /\ Trains(cfg)
  BY <1>1, ConfigFacts
<1>4. r \in 1 .. cfg.world
  BY <1>2 DEF PlanOf
<1> DEFINE t == Select(inputs[r], FlattenSeq(plan[r]))["response"]
           u == IF cfg.dynamic THEN Restored(t, plan[r]) ELSE t
<1>5. /\ outputs' = [outputs EXCEPT ![r] = [old_log_prob |-> u]]
      /\ cfg' = cfg /\ pc' = pc /\ batch' = batch /\ reward' = reward /\ inputs' = inputs
      /\ plan' = plan /\ trained' = trained
  BY DEF ReturnLogProb
<1>6. u = inputs[r]["response"]
  <2> DEFINE m == Share(cfg)
  <2>1. Data(inputs[r], Base, m)
    BY <1>1, <1>4 DEF SharesOut, Part
  <2>2. m \in Nat /\ cfg.dynamic \in BOOLEAN /\ "response" \in Base
    BY <1>3 DEF Trains, Sound, Base
  <2>3. PlanOf(plan, inputs, cfg, m, k)
    BY <1>2
  <2> HIDE DEF m
  <2>4. t = Select(inputs[r], FlattenSeq(plan[r]))["response"]
    OBVIOUS
  <2> HIDE DEF t
  <2> QED
    BY <1>4, <2>1, <2>2, <2>3, <2>4, ReturnedInOrder
<1> HIDE DEF u
<1>7. Returned(outputs', inputs, cfg)
  <2>1. DOMAIN outputs = 1 .. cfg.world
    BY <1>1 DEF Returned
  <2>2. DOMAIN outputs' = 1 .. cfg.world
    BY <1>5, <2>1
  <2>3. ASSUME NEW q \in 1 .. cfg.world
        PROVE  outputs'[q] = None \/ outputs'[q] = [old_log_prob |-> inputs[q]["response"]]
    <3>1. CASE q = r
      BY <1>4, <1>5, <1>6, <2>1, <3>1
    <3>2. CASE q # r
      <4>1. outputs'[q] = outputs[q]
        BY <1>5, <2>1, <3>2
      <4> QED
        BY <1>1, <4>1 DEF Returned
    <3> QED
      BY <3>1, <3>2
  <2> QED
    BY <2>2, <2>3 DEF Returned
<1>8. /\ pc' = "log_probs" /\ ~ cfg'.validate /\ Plain(batch', cfg') /\ Scores(reward', batch', cfg')
      /\ Untrained(trained', cfg') /\ SharesOut(inputs', batch', Base, cfg')
      /\ Returned(outputs', inputs', cfg')
      /\ \E j \in Nat \ {0} : PlanOf(plan', inputs', cfg', Share(cfg'), j)
  <2>1. pc' = "log_probs"
    BY <1>5 DEF LogProbs
  <2> QED
    BY <1>1, <1>2, <1>5, <1>7, <2>1
<1> QED
  BY <1>8 DEF LogProbs

\* collect_nd_compute_dataproto undoes dispatch_nd_compute_dataproto.
LEMMA CollectedFacts ==
  ASSUME cfg \in Configs, ~ cfg.validate, NEW d, Data(d, Base, Rows(cfg)),
         NEW ins, SharesOut(ins, d, Base, cfg),
         NEW outs, \A r \in 1 .. cfg.world : outs[r] = [old_log_prob |-> ins[r]["response"]]
  PROVE  /\ Data(Collected(outs), {"old_log_prob"}, Rows(cfg))
         /\ Collected(outs)["old_log_prob"] = d["response"]
<1> DEFINE b == Groups(cfg)
           m == Share(cfg)
           n == Rows(cfg)
           C == {"old_log_prob"}
           ld(g) == CHOOSE r \in 1 .. cfg.world : GroupNo(cfg, r) = g /\ Leads(cfg, r)
           parts == [g \in 1 .. b |-> outs[ld(g)]]
           x == Concat(parts)
<1>1. Sound(cfg) /\ Trains(cfg)
  BY ConfigFacts
<1>2. b \in Nat \ {0} /\ m \in Nat \ {0} /\ n = b * m
  BY <1>1 DEF Sound, Trains
<1>3. Collected(outs) = x
  BY DEF Collected, DPSize, DPRank, IsCollect, Ranks, Groups, GroupNo, Leads
<1>4. \A g \in 1 .. b : ld(g) \in 1 .. cfg.world /\ GroupNo(cfg, ld(g)) = g
  BY <1>1, MeshFacts DEF Mesh
<1>5. IsColumn(d["response"], n) /\ "response" \in Base
  BY DEF Data, Base
<1>6. \A r \in 1 .. cfg.world :
          /\ IsColumn(ins[r]["response"], m)
          /\ \A i \in 1 .. m : ins[r]["response"][i] = d["response"][(GroupNo(cfg, r) - 1) * m + i]
  BY <1>5 DEF SharesOut, Part, Data
<1> HIDE DEF b, m, n, ld
<1>7. \A g \in 1 .. b : parts[g] = [old_log_prob |-> ins[ld(g)]["response"]]
  BY <1>4
<1>8. DOMAIN parts = 1 .. b
  OBVIOUS
<1> HIDE DEF parts
<1>9. \A g \in 1 .. b : Data(parts[g], C, m)
  <2> SUFFICES ASSUME NEW g \in 1 .. b PROVE Data(parts[g], C, m)
    OBVIOUS
  <2> DEFINE z == ins[ld(g)]["response"]
  <2>1. IsColumn(z, m)
    BY <1>4, <1>6
  <2>2. parts[g] = [old_log_prob |-> z]
    BY <1>7
  <2> HIDE DEF z
  <2>3. parts[g] = [c \in C |-> parts[g][c]] /\ parts[g]["old_log_prob"] = z
    BY <2>2
  <2> QED
    BY <2>1, <2>3 DEF Data
<1>10. JoinsInto(x, parts, C, b, m)
  <2> HIDE DEF C
  <2> QED
    BY <1>2, <1>8, <1>9, ConcatDataFacts
<1> HIDE DEF x
<1>11. Data(x, C, n) /\ IsColumn(x["old_log_prob"], n)
  BY <1>2, <1>10 DEF JoinsInto, Data
<1>12. ASSUME NEW p \in 1 .. n PROVE x["old_log_prob"][p] = d["response"][p]
  <2>1. Places(m, b)
    BY <1>2, PlacesFacts
  <2>2. PICK h \in 0 .. b - 1 : \E i \in 1 .. m : p = Place(m, h, i)
    BY <1>2, <2>1 DEF Places
  <2>3. PICK i \in 1 .. m : p = Place(m, h, i)
    BY <2>2
  <2> DEFINE g == h + 1
  <2>4. g \in 1 .. b /\ g - 1 = h
    BY <1>2
  <2> HIDE DEF g
  <2>5. x["old_log_prob"][Place(m, g - 1, i)] = parts[g]["old_log_prob"][i]
    BY <1>10, <2>4 DEF JoinsInto
  <2>6. parts[g]["old_log_prob"][i] = d["response"][(g - 1) * m + i]
    <3> DEFINE r == ld(g)
    <3>1. r \in 1 .. cfg.world /\ GroupNo(cfg, r) = g
      BY <1>4, <2>4
    <3>2. parts[g] = [old_log_prob |-> ins[r]["response"]]
      BY <1>7, <2>4
    <3> HIDE DEF r
    <3>3. ins[r]["response"][i] = d["response"][(GroupNo(cfg, r) - 1) * m + i]
      BY <1>6, <3>1
    <3> QED
      BY <3>1, <3>2, <3>3
  <2> QED
    BY <2>3, <2>4, <2>5, <2>6 DEF Place
<1>13. x["old_log_prob"] = d["response"]
  BY <1>5, <1>11, <1>12 DEF IsColumn
<1> QED
  BY <1>3, <1>11, <1>13 DEF n

\* The rows of a batch go together as before when it gets more columns.
LEMMA CoherentUnion ==
  ASSUME NEW c, NEW d, Coherent(d, c), NEW x, NEW C,
         {"uid", "response", "length"} \in SUBSET C, \A a \in C : x[a] = d[a]
  PROVE  Coherent(x, c)
<1>1. x["uid"] = d["uid"] /\ x["response"] = d["response"] /\ x["length"] = d["length"]
  OBVIOUS
<1> QED
  BY <1>1 DEF Coherent

\* The driver joins what the leaders of the groups returned and unites it
\* with the batch.
LEMMA CollectLogProbStep ==
  ASSUME cfg \in Configs, LogProbs, CollectLogProb
  PROVE  AtAdv'
<1>1. /\ ~ cfg.validate /\ Data(batch, Base, Rows(cfg)) /\ Coherent(batch, cfg)
      /\ Scores(reward, batch, cfg) /\ Untrained(trained, cfg)
      /\ SharesOut(inputs, batch, Base, cfg) /\ Returned(outputs, inputs, cfg)
  BY DEF LogProbs, Plain
<1>2. /\ batch' = Union(batch, Collected(outputs)) /\ pc' = "adv" /\ plan' = <<>>
      /\ cfg' = cfg /\ reward' = reward /\ trained' = trained
      /\ \A r \in 1 .. cfg.world : outputs[r] # None
  BY DEF CollectLogProb, Ranks
<1>3. \A r \in 1 .. cfg.world : outputs[r] = [old_log_prob |-> inputs[r]["response"]]
  BY <1>1, <1>2 DEF Returned
<1> DEFINE y == Collected(outputs)
           D == {"old_log_prob"}
<1>4. Data(y, D, Rows(cfg)) /\ y["old_log_prob"] = batch["response"]
  BY <1>1, <1>3, CollectedFacts
<1>5. Rows(cfg) \in Nat
  BY ConfigFacts DEF Sound
<1> HIDE DEF y, D
<1>6. Unites(batch', batch, y, Base, D, Rows(cfg))
  BY <1>1, <1>2, <1>4, <1>5, UnionFacts DEF y
<1>7. Data(batch', Base \cup {"old_log_prob"}, Rows(cfg)) /\ \A c \in Base : batch'[c] = batch[c]
  BY <1>6 DEF Unites, D
<1>8. batch'["old_log_prob"] = y["old_log_prob"]
  BY <1>6 DEF Unites, D, Base
<1>9. Coherent(batch', cfg)
  <2>1. {"uid", "response", "length"} \in SUBSET Base
    BY DEF Base
  <2> QED
    BY <1>1, <1>7, <2>1, CoherentUnion
<1>10. batch'["response"] = batch["response"]
  BY <1>7 DEF Base
<1>11. Scores(reward, batch', cfg)
  BY <1>1, <1>10 DEF Scores
<1>12. Scores(reward', batch', cfg')
  BY <1>2, <1>11
<1> QED
  BY <1>1, <1>2, <1>4, <1>7, <1>8, <1>9, <1>10, <1>12 DEF AtAdv, Idle

\* The advantage of a row of a group of several: the sum of the weights, times
\* its score, less the weighted sum of the scores.
LEMMA AdvantageOfGroup ==
  ASSUME NEW d, NEW i, NEW rows, rows = GroupOf(d, i), Cardinality(rows) > 1,
         NEW wt, wt = [j \in rows |-> Weight(d, j)],
         NEW wd, wd = [j \in rows |-> wt[j] * d["score"][j].score]
  PROVE  AdvantageOf(d, i) = SumOf(wt, rows) * d["score"][i].score - SumOf(wd, rows)
<1>1. AdvantageOf(d, i) =
        LET weight == [j \in rows |-> Weight(d, j)]
            weighted == [j \in rows |-> weight[j] * d["score"][j].score]
        IN IF Cardinality(rows) = 1 THEN d["score"][i].score
           ELSE SumOf(weight, rows) * d["score"][i].score - SumOf(weighted, rows)
  BY DEF AdvantageOf
<1>2. AdvantageOf(d, i) =
        IF Cardinality(rows) = 1 THEN d["score"][i].score
        ELSE SumOf(wt, rows) * d["score"][i].score - SumOf(wd, rows)
  BY <1>1
<1>3. Cardinality(rows) # 1
  <2> DEFINE k == Cardinality(rows)
  <2>1. k > 1
    OBVIOUS
  <2> HIDE DEF k
  <2>2. k # 1
    BY <2>1
  <2> QED
    BY <2>2 DEF k
<1> QED
  BY <1>2, <1>3

\* Scores less their weighted mean, times the weight; f weighs them again.
Weighted(S, w, s, v, f, adv) ==
    /\ \A x \in S : w[x] \in Int /\ s[x] \in Int /\ v[x] = w[x] * s[x]
    /\ \A x \in S : adv[x] = SumOf(w, S) * s[x] - SumOf(v, S)
    /\ \A x \in S : f[x] = w[x] * adv[x]
\* The deviations from a weighted mean, weighted, add up to zero.
LEMMA WeightedSum ==
  ASSUME NEW S, IsFiniteSet(S), NEW w, NEW s, NEW v, NEW f, NEW adv,
         Weighted(S, w, s, v, f, adv)
  PROVE  SumOf(f, S) = 0
<1> DEFINE W == SumOf(w, S)
           V == SumOf(v, S)
<1>0. /\ \A x \in S : w[x] \in Int /\ s[x] \in Int /\ v[x] = w[x] * s[x]
      /\ \A x \in S : f[x] = w[x] * adv[x]
  BY DEF Weighted
<1>1. \A x \in S : v[x] \in Int
  BY <1>0
<1>2. W \in Int /\ V \in Int
  BY <1>0, <1>1, SumType
<1>3. \A x \in S : adv[x] = W * s[x] - V
  BY DEF Weighted
<1> HIDE DEF W, V
<1>4. ASSUME NEW x \in S PROVE f[x] = W * v[x] + (- V) * w[x]
  <2> DEFINE a == w[x]
             b == s[x]
  <2>1. a \in Int /\ b \in Int /\ v[x] = a * b /\ f[x] = a * (W * b - V)
    BY <1>0, <1>3
  <2> HIDE DEF a, b
  <2>2. a * (W * b - V) = W * (a * b) + (- V) * a
    BY <1>2, <2>1
  <2> QED
    BY <2>1, <2>2 DEF a
<1>5. SumOf(f, S) = W * SumOf(v, S) + (- V) * SumOf(w, S)
  <2>1. -V \in Int
    BY <1>2
  <2> DEFINE u == - V
  <2>2. u \in Int /\ \A x \in S : v[x] \in Int /\ w[x] \in Int /\ f[x] = W * v[x] + u * w[x]
    BY <1>0, <1>1, <1>4, <2>1
  <2> HIDE DEF u
  <2>3. SumOf(f, S) = W * SumOf(v, S) + u * SumOf(w, S)
    BY <1>2, <2>2, SumLinear
  <2> QED
    BY <2>3 DEF u
<1>6. SumOf(f, S) = W * V + (- V) * W
  BY <1>5 DEF W, V
<1> QED
  BY <1>2, <1>6

\* compute_advantage: the advantages are relative within the group of a prompt.
LEMMA AdvantageFacts ==
  ASSUME cfg \in Configs, NEW d, Coherent(d, cfg), Size(d) = Rows(cfg),
         \A i \in 1 .. Rows(cfg) : d["score"][i].score \in Int,
         NEW x, Size(x) = Rows(cfg),
         x["response"] = d["response"], x["length"] = d["length"], x["score"] = d["score"],
         \A i \in 1 .. Rows(cfg) : x["advantage"][i] = AdvantageOf(d, i)
  PROVE  Relative(x, cfg)
<1> DEFINE n == Rows(cfg)
<1>1. n \in Nat
  BY ConfigFacts DEF Sound
<1>a. /\ \A i \in 1 .. n : d["uid"][i] = d["response"][i][1] /\ d["length"][i] \in Nat
      /\ \A i \in 1 .. n : d["score"][i].score \in Int
      /\ Size(d) = n /\ Size(x) = n
      /\ \A i \in 1 .. n : x["advantage"][i] = AdvantageOf(d, i)
  BY DEF Coherent
<1> HIDE DEF n
<1> SUFFICES ASSUME NEW p \in 1 .. cfg.prompts
             PROVE  LET rows == {i \in 1 .. Size(x) : x["response"][i][1] = p}
                        weight == SumOf([i \in rows |-> WeightOf(x, cfg, i)], rows)
                    IN Cardinality(rows) > 1 =>
                          /\ \A i, j \in rows :
                                x["advantage"][i] - x["advantage"][j]
                                  = weight * (x["score"][i].score - x["score"][j].score)
                          /\ SumOf([i \in rows |-> WeightOf(x, cfg, i) * x["advantage"][i]], rows) = 0
  BY DEF Relative
<1> DEFINE rows == {i \in 1 .. n : d["response"][i][1] = p}
           wt == [i \in rows |-> WeightOf(x, cfg, i)]
           wd == [i \in rows |-> wt[i] * d["score"][i].score]
           sc == [i \in rows |-> d["score"][i].score]
           f == [i \in rows |-> WeightOf(x, cfg, i) * x["advantage"][i]]
           W == SumOf(wt, rows)
           V == SumOf(wd, rows)
<1>2. SUFFICES ASSUME Cardinality(rows) > 1
               PROVE  /\ \A i, j \in rows :
                            x["advantage"][i] - x["advantage"][j]
                              = W * (x["score"][i].score - x["score"][j].score)
                      /\ SumOf(f, rows) = 0
  BY <1>a
<1>3. rows \in SUBSET (1 .. n) /\ IsFiniteSet(rows)
  <2>1. IsFiniteSet(1 .. n)
    BY <1>1, IntervalCount
  <2> QED
    BY <2>1, FS_Subset
<1>4. \A i \in rows : GroupOf(d, i) = rows
  BY <1>a DEF GroupOf
<1>5. \A i \in 1 .. n : Weight(d, i) = WeightOf(x, cfg, i) /\ Weight(d, i) \in Int
  BY <1>a DEF Weight, WeightOf
<1> HIDE DEF rows
<1>6. wt = [j \in rows |-> Weight(d, j)] /\ \A i \in rows : wt[i] \in Int
  BY <1>3, <1>5
<1> HIDE DEF wt
<1>7. ASSUME NEW i \in rows PROVE x["advantage"][i] = W * sc[i] - V
  <2>1. i \in 1 .. n
    BY <1>3
  <2>2. AdvantageOf(d, i) = SumOf(wt, rows) * d["score"][i].score - SumOf(wd, rows)
    <3>1. rows = GroupOf(d, i)
      BY <1>4
    <3>2. wd = [j \in rows |-> wt[j] * d["score"][j].score]
      OBVIOUS
    <3> HIDE DEF wd
    <3>3. Size(d) = n /\ Cardinality(rows) > 1
      BY <1>2, <1>a
    <3> QED
      BY <1>6, <3>1, <3>2, <3>3, AdvantageOfGroup
  <2> QED
    BY <1>a, <2>1, <2>2
<1>8. \A i \in rows : sc[i] \in Int /\ wd[i] = wt[i] * sc[i] /\ wd[i] \in Int /\ sc[i] = x["score"][i].score
  BY <1>3, <1>6, <1>a
<1>9. SumOf(f, rows) = 0
  <2> DEFINE adv == [i \in rows |-> x["advantage"][i]]
  <2>1. \A i \in rows : adv[i] = W * sc[i] - V
    BY <1>7
  <2>2. \A i \in rows : f[i] = wt[i] * adv[i]
    BY <1>3, <1>5, <1>6
  <2> HIDE DEF f, wd, sc, adv
  <2>3. Weighted(rows, wt, sc, wd, f, adv)
    BY <1>6, <1>8, <2>1, <2>2 DEF Weighted
  <2> QED
    BY <1>3, <2>3, WeightedSum
<1>10. ASSUME NEW i \in rows, NEW j \in rows
       PROVE  x["advantage"][i] - x["advantage"][j] = W * (x["score"][i].score - x["score"][j].score)
  <2> HIDE DEF wd, sc
  <2>1. W \in Int /\ V \in Int
    BY <1>3, <1>6, <1>8, SumType
  <2> HIDE DEF W, V
  <2> DEFINE a == sc[i]
             b == sc[j]
  <2>2. a \in Int /\ b \in Int /\ a = x["score"][i].score /\ b = x["score"][j].score
    BY <1>8
  <2>3. x["advantage"][i] = W * a - V /\ x["advantage"][j] = W * b - V
    BY <1>7 DEF W, V
  <2> HIDE DEF a, b
  <2>4. (W * a - V) - (W * b - V) = W * (a - b)
    BY <2>1, <2>2
  <2> QED
    BY <2>2, <2>3, <2>4
<1> QED
  BY <1>9, <1>10

\* The driver adds the scores and the advantages.
LEMMA AdvantageStep ==
  ASSUME cfg \in Configs, AtAdv, Advantage
  PROVE  AtUpdate'
<1> DEFINE n == Rows(cfg)
           C == Base \cup {"old_log_prob"}
           S == {"score"}
           A == {"advantage"}
           e == [score |-> reward]
           d == Union(batch, e)
           g == [advantage |-> [i \in 1 .. Size(d) |-> AdvantageOf(d, i)]]
<1>1. /\ ~ cfg.validate /\ Data(batch, C, n) /\ Coherent(batch, cfg)
      /\ batch["old_log_prob"] = batch["response"]
      /\ Scores(reward, batch, cfg) /\ plan = <<>> /\ Untrained(trained, cfg)
  BY DEF AtAdv, Idle
<1>2. /\ batch' = Union(d, g) /\ pc' = "update" /\ plan' = plan /\ cfg' = cfg /\ trained' = trained
  BY DEF Advantage
<1>3. n \in Nat
  BY ConfigFacts DEF Sound
<1>4. Data(e, S, n) /\ e["score"] = reward
  BY <1>1 DEF Scores, Data
<1> HIDE DEF e, n, C, S
<1>5. Unites(d, batch, e, C, S, n)
  BY <1>1, <1>3, <1>4, UnionFacts
<1> HIDE DEF d
<1>6. Data(d, C \cup S, n) /\ \A c \in C : d[c] = batch[c]
  BY <1>5 DEF Unites
<1>7. d["score"] = reward
  BY <1>4, <1>5 DEF Unites, C, S, Base
<1>8. Size(d) = n
  <2>1. C \cup S # {}
    BY DEF S
  <2> QED
    BY <1>3, <1>6, <2>1, SizeFacts
<1>9. Data(g, A, n) /\ \A i \in 1 .. n : g["advantage"][i] = AdvantageOf(d, i)
  <2> DEFINE v == [i \in 1 .. n |-> AdvantageOf(d, i)]
  <2>1. g = [advantage |-> v]
    BY <1>8
  <2>2. IsColumn(v, n) /\ \A i \in 1 .. n : v[i] = AdvantageOf(d, i)
    BY DEF IsColumn
  <2> HIDE DEF v, g
  <2>3. g = [c \in A |-> g[c]] /\ g["advantage"] = v
    BY <2>1
  <2> QED
    BY <2>2, <2>3 DEF Data
<1> HIDE DEF g, A
<1> DEFINE x == Union(d, g)
<1>10. Unites(x, d, g, C \cup S, A, n)
  BY <1>3, <1>6, <1>9, UnionFacts
<1> HIDE DEF x
<1>11. Data(x, Columns, n)
  <2>1. (C \cup S) \cup A = Columns
    BY DEF C, S, A, Columns
  <2> QED
    BY <1>10, <2>1 DEF Unites
<1>12. /\ \A c \in C : x[c] = batch[c]
       /\ x["score"] = reward
       /\ \A c \in C \cup S : x[c] = d[c]
  <2>1. \A c \in C \cup S : x[c] = d[c]
    BY <1>10 DEF Unites
  <2>2. "score" \in C \cup S
    BY DEF S
  <2> QED
    BY <1>6, <1>7, <2>1, <2>2
<1>13. x["advantage"] = g["advantage"]
  BY <1>10 DEF Unites, C, S, A, Base
<1>14. x["response"] = batch["response"] /\ x["length"] = batch["length"] /\ x["old_log_prob"] = batch["old_log_prob"]
  BY <1>12 DEF C, Base
<1>15. x["response"] = d["response"] /\ x["length"] = d["length"] /\ x["score"] = d["score"]
  BY <1>12 DEF C, S, Base
<1>16. Coherent(x, cfg) /\ Coherent(d, cfg)
  <2>1. {"uid", "response", "length"} \in SUBSET C
    BY DEF C, Base
  <2> QED
    BY <1>1, <1>6, <1>12, <2>1, CoherentUnion
<1>17. Size(x) = n
  <2>1. Columns # {}
    BY DEF Columns
  <2> QED
    BY <1>3, <1>11, <2>1, SizeFacts
<1>18. \A i \in 1 .. n : reward[i].response = batch["response"][i] /\ reward[i].score \in Int
  BY <1>1 DEF Scores, n
<1>19. Relative(x, cfg)
  <2>1. \A i \in 1 .. Rows(cfg) : d["score"][i].score \in Int
    BY <1>7, <1>18 DEF n
  <2>2. \A i \in 1 .. Rows(cfg) : x["advantage"][i] = AdvantageOf(d, i)
    BY <1>9, <1>13 DEF n
  <2>3. Size(x) = Rows(cfg) /\ Size(d) = Rows(cfg)
    BY <1>8, <1>17 DEF n
  <2> QED
    BY <1>15, <1>16, <2>1, <2>2, <2>3, AdvantageFacts
<1>20. Full(x, cfg)
  <2>1. \A i \in 1 .. Rows(cfg) : x["score"][i].response = x["response"][i]
    BY <1>12, <1>14, <1>18 DEF n
  <2>2. x["old_log_prob"] = x["response"]
    BY <1>1, <1>14
  <2>3. Data(x, Columns, Rows(cfg))
    BY <1>11 DEF n
  <2> QED
    BY <1>16, <1>19, <2>1, <2>2, <2>3 DEF Full
<1>21. Full(batch', cfg') /\ ~ cfg'.validate
  BY <1>1, <1>2, <1>20 DEF x
<1> QED
  BY <1>1, <1>2, <1>21 DEF AtUpdate, Idle

\* A part of a part is a part.
LEMMA PartOfPart ==
  ASSUME NEW C, NEW d, NEW a \in Nat, NEW m \in Nat, NEW y, Part(y, d, C, a, m),
         NEW b \in Nat, NEW k \in Nat, b + k <= m, NEW x, Part(x, y, C, b, k)
  PROVE  Part(x, d, C, a + b, k)
<1>1. ASSUME NEW c \in C, NEW i \in 1 .. k PROVE x[c][i] = d[c][(a + b) + i]
  <2>1. x[c][i] = y[c][b + i]
    BY DEF Part
  <2>2. b + i \in 1 .. m
    OBVIOUS
  <2>3. y[c][b + i] = d[c][a + (b + i)]
    BY <2>2 DEF Part
  <2>4. a + (b + i) = (a + b) + i
    OBVIOUS
  <2> QED
    BY <2>1, <2>3, <2>4
<1>2. Data(x, C, k)
  BY DEF Part
<1> QED
  BY <1>1, <1>2 DEF Part

\* Where the rows of a rank are, and how they are split into mini-batches.
MiniBatched(c) ==
    /\ Share(c) \in Nat \ {0} /\ Mini(c) \in Nat \ {0} /\ Minis(c) \in Nat \ {0}
    /\ \A r \in 1 .. c.world : First(c, r) \in Nat /\ First(c, r) + Share(c) <= Rows(c)
    /\ \A i \in 1 .. Minis(c) :
          /\ MiniSize(c, i) \in 1 .. Mini(c)
          /\ (i - 1) * Mini(c) \in Nat /\ (i - 1) * Mini(c) + MiniSize(c, i) <= Share(c)
          /\ i = Minis(c) => (i - 1) * Mini(c) + MiniSize(c, i) = Share(c)
          /\ i < Minis(c) => MiniSize(c, i) = Mini(c)

\* The mini-batches of a rank fill its share.
LEMMA MiniFacts ==
  ASSUME NEW c, Sound(c), Trains(c)
  PROVE  MiniBatched(c)
<1> DEFINE m == Share(c)
           b == Groups(c)
<1>1. b \in Nat \ {0} /\ m \in Nat \ {0} /\ Rows(c) = b * m /\ Mini(c) \in Nat \ {0}
  BY DEF Sound, Trains
<1>2. \A r \in 1 .. c.world : GroupNo(c, r) \in 1 .. b
  BY MeshFacts DEF Mesh
<1>3. Pieces(m, Mini(c))
  BY <1>1, PiecesFacts
<1>4. \A r \in 1 .. c.world : First(c, r) = (GroupNo(c, r) - 1) * m
  BY DEF First
<1> HIDE DEF b, m
<1>5. ASSUME NEW r \in 1 .. c.world PROVE First(c, r) \in Nat /\ First(c, r) + m <= Rows(c)
  <2> DEFINE g == GroupNo(c, r)
  <2>1. g \in 1 .. b /\ First(c, r) = (g - 1) * m
    BY <1>2, <1>4
  <2> HIDE DEF g
  <2>2. (g - 1) * m \in Nat /\ (g - 1) * m + m = g * m
    BY <1>1, <2>1
  <2>3. g * m <= b * m
    BY <1>1, <2>1
  <2> QED
    BY <1>1, <2>1, <2>2, <2>3
<1> QED
  BY <1>1, <1>3, <1>5 DEF MiniBatched, Pieces, Minis, MiniSize, m

\* The next mini-batches of the ranks.
Heads(ms, c) == [r \in 1 .. c.world |-> Head(ms[r])]

\* The next mini-batch of every rank, which is the same in a group.
LEMMA HeadsFacts ==
  ASSUME NEW c, Sound(c), Trains(c), NEW d, Coherent(d, c), NEW s \in 0 .. Minis(c) - 1,
         NEW ms, AllRemaining(ms, d, c, s)
  PROVE  /\ MiniSize(c, s + 1) \in Nat \ {0}
         /\ Shared(Heads(ms, c), Columns, MiniSize(c, s + 1), c)
         /\ \A r \in 1 .. c.world :
               Part(Head(ms[r]), d, Columns, First(c, r) + s * Mini(c), MiniSize(c, s + 1))
<1> DEFINE k == MiniSize(c, s + 1)
           h == Heads(ms, c)
           a == s * Mini(c)
<1>1. MiniBatched(c)
  BY MiniFacts
<1>2. s + 1 \in 1 .. Minis(c) /\ s \in Nat /\ Minis(c) \in Nat
  BY <1>1 DEF MiniBatched
<1>3. k \in Nat \ {0} /\ a \in Nat /\ a + k <= Share(c)
  <2>1. (s + 1) - 1 = s
    BY <1>2
  <2>2. /\ k \in 1 .. Mini(c) /\ ((s + 1) - 1) * Mini(c) \in Nat
        /\ ((s + 1) - 1) * Mini(c) + k <= Share(c) /\ Mini(c) \in Nat
    BY <1>1, <1>2 DEF MiniBatched
  <2> QED
    BY <2>1, <2>2
<1>4. ASSUME NEW r \in 1 .. c.world PROVE Part(Head(ms[r]), d, Columns, First(c, r) + a, k)
  <2>1. Remaining(ms[r], d, c, r, s)
    BY DEF AllRemaining
  <2>2. 1 \in 1 .. Minis(c) - s
    BY <1>2
  <2>3. Part(ms[r][1], d, Columns, First(c, r) + (s + 1 - 1) * Mini(c), MiniSize(c, s + 1))
    BY <2>1, <2>2 DEF Remaining
  <2>4. s + 1 - 1 = s
    BY <1>2
  <2>5. ms[r] \in Seq(Range(ms[r])) /\ Len(ms[r]) = Minis(c) - s
    BY <2>1 DEF Remaining
  <2>6. Head(ms[r]) = ms[r][1]
    BY <1>2, <2>5
  <2> QED
    BY <2>3, <2>4, <2>6
<1>5. DOMAIN h = 1 .. c.world /\ \A r \in 1 .. c.world : h[r] = Head(ms[r])
  BY DEF Heads
<1> HIDE DEF h, k, a
<1>6. ASSUME NEW r \in 1 .. c.world
      PROVE  Data(h[r], Columns, k) /\ \A i \in 1 .. k : h[r]["length"][i] \in Nat
  <2>1. Part(h[r], d, Columns, First(c, r) + a, k)
    BY <1>4, <1>5
  <2>2. Data(h[r], Columns, k)
    BY <2>1 DEF Part
  <2>3. ASSUME NEW i \in 1 .. k PROVE h[r]["length"][i] \in Nat
    <3>1. h[r]["length"][i] = d["length"][(First(c, r) + a) + i]
      <4>1. "length" \in Columns
        BY DEF Columns, Base
      <4> QED
        BY <2>1, <4>1 DEF Part
    <3>2. (First(c, r) + a) + i \in 1 .. Rows(c)
      <4>1. First(c, r) \in Nat /\ First(c, r) + Share(c) <= Rows(c) /\ Share(c) \in Nat /\ Rows(c) \in Nat
        BY <1>1 DEF MiniBatched, Sound
      <4> QED
        BY <1>3, <4>1
    <3> QED
      BY <3>1, <3>2 DEF Coherent
  <2> QED
    BY <2>2, <2>3
<1>7. ASSUME NEW r \in 1 .. c.world, NEW q \in 1 .. c.world, GroupNo(c, r) = GroupNo(c, q)
      PROVE  h[r] = h[q]
  <2>1. First(c, r) = First(c, q)
    BY <1>7 DEF First
  <2>2. Part(h[r], d, Columns, First(c, r) + a, k) /\ Part(h[q], d, Columns, First(c, r) + a, k)
    BY <1>4, <1>5, <2>1
  <2> QED
    BY <2>2, PartUnique
<1>8. Shared(h, Columns, k, c)
  BY <1>5, <1>6, <1>7 DEF Shared
<1> QED
  BY <1>3, <1>4, <1>8 DEF h, k, a

\* The plan for the next mini-batch.
LEMMA NextPlan ==
  ASSUME cfg \in Configs, ~ cfg.validate, NEW d, Coherent(d, cfg), NEW s \in 0 .. Minis(cfg) - 1,
         NEW ms, AllRemaining(ms, d, cfg, s)
  PROVE  \E k \in Nat \ {0} : PlanOf(Planned(Heads(ms, cfg)), Heads(ms, cfg), cfg, MiniSize(cfg, s + 1), k)
<1>1. Sound(cfg) /\ Trains(cfg)
  BY ConfigFacts
<1>2. MiniSize(cfg, s + 1) \in Nat \ {0} /\ Shared(Heads(ms, cfg), Columns, MiniSize(cfg, s + 1), cfg)
  BY <1>1, HeadsFacts
<1>3. "length" \in Columns
  BY DEF Columns, Base
<1> QED
  BY <1>2, <1>3, PlannedFacts

\* No micro-batch, no row.
LEMMA NothingSeen == ASSUME NEW P, NEW a PROVE Seen(P, 0, a) = {}
  BY DEF Seen

\* The micro-batches of a mini-batch are its rows.
LEMMA AllSeen ==
  ASSUME NEW m \in Nat, NEW k \in Nat, NEW P, Partitioned(P, m, k), NEW a \in Nat
  PROVE  (1 .. a) \cup Seen(P, k, a) = 1 .. a + m
<1>1. \A i \in 1 .. k : \A j \in DOMAIN P[i] : P[i][j] \in 1 .. m
  <2> SUFFICES ASSUME NEW i \in 1 .. k, NEW j \in DOMAIN P[i] PROVE P[i][j] \in 1 .. m
    OBVIOUS
  <2>1. P[i] \in Seq(1 .. m)
    BY DEF Partitioned
  <2> QED
    BY <2>1, SeqElement
<1>2. ASSUME NEW p \in Seen(P, k, a) PROVE p \in 1 .. a + m
  <2>1. PICK i \in 1 .. k : \E j \in DOMAIN P[i] : p = a + P[i][j]
    BY DEF Seen
  <2>2. PICK j \in DOMAIN P[i] : p = a + P[i][j]
    BY <2>1
  <2>3. P[i][j] \in 1 .. m
    BY <1>1
  <2> QED
    BY <2>2, <2>3
<1>3. ASSUME NEW p \in 1 .. a + m, p \notin 1 .. a PROVE p \in Seen(P, k, a)
  <2>1. p - a \in 1 .. m
    BY <1>3
  <2>2. PICK i \in 1 .. k : \E j \in DOMAIN P[i] : P[i][j] = p - a
    BY <2>1 DEF Partitioned
  <2>3. PICK j \in DOMAIN P[i] : P[i][j] = p - a
    BY <2>2
  <2>4. p = a + P[i][j]
    BY <2>3
  <2> QED
    BY <2>4 DEF Seen
<1>4. 1 .. a \subseteq 1 .. a + m
  OBVIOUS
<1> QED
  BY <1>2, <1>3, <1>4

\* The driver sends the ranks their rows, and each of them begins with its
\* first mini-batch.
LEMMA DispatchUpdateStep ==
  ASSUME cfg \in Configs, AtUpdate, DispatchUpdate
  PROVE  Updating'
<1> DEFINE K == Minis(cfg)
           m == Share(cfg)
           x(r) == Split(Dispatched(batch)[r], Mini(cfg))
<1>1. ~ cfg.validate /\ Full(batch, cfg) /\ trained = [r \in 1 .. cfg.world |-> <<>>]
  BY DEF AtUpdate, Idle, Untrained
<1>2. /\ minis' = [r \in 1 .. cfg.world |-> x(r)]
      /\ plan' = Planned(Heads(minis', cfg)) /\ forwarded' = 0 /\ pc' = "updating"
      /\ cfg' = cfg /\ batch' = batch /\ trained' = trained
  BY DEF DispatchUpdate, Ranks, MiniBatchSize, DPSize, Mini, Groups, Heads
<1>3. Sound(cfg) /\ Trains(cfg)
  BY <1>1, ConfigFacts
<1>4. MiniBatched(cfg)
  BY <1>3, MiniFacts
<1>5. Columns # {} /\ Data(batch, Columns, Rows(cfg)) /\ Coherent(batch, cfg)
  BY <1>1 DEF Columns, Full
<1>6. SharesOut(Dispatched(batch), batch, Columns, cfg)
  BY <1>1, <1>5, DispatchFacts
<1>7. ASSUME NEW r \in 1 .. cfg.world PROVE Remaining(x(r), batch, cfg, r, 0)
  <2> DEFINE y == Dispatched(batch)[r]
             a == First(cfg, r)
             z == x(r)
  <2>1. Part(y, batch, Columns, a, m)
    BY <1>6 DEF SharesOut, First
  <2>2. Data(y, Columns, m) /\ m \in Nat \ {0} /\ Mini(cfg) \in Nat \ {0} /\ a \in Nat
    BY <1>4, <2>1 DEF Part, MiniBatched
  <2> HIDE DEF y, m, a
  <2>3. z = Split(y, Mini(cfg))
    BY DEF y
  <2> HIDE DEF z
  <2>4. SplitsInto(z, y, Columns, m, Mini(cfg))
    BY <1>5, <2>2, <2>3, SplitFacts
  <2>5. z \in Seq(Range(z)) /\ Len(z) = K
    BY <2>4 DEF SplitsInto, Minis, m
  <2>6. ASSUME NEW j \in 1 .. K
        PROVE  Part(z[j], batch, Columns, a + (0 + j - 1) * Mini(cfg), MiniSize(cfg, 0 + j))
    <3> DEFINE b == (j - 1) * Mini(cfg)
               k == MiniSize(cfg, j)
    <3>1. Part(z[j], y, Columns, b, k)
      BY <2>4 DEF SplitsInto, Minis, MiniSize, m
    <3>2. b \in Nat /\ k \in 1 .. Mini(cfg) /\ b + k <= m /\ Mini(cfg) \in Nat
      BY <1>4 DEF MiniBatched, m
    <3>3. 0 + j = j /\ K \in Nat
      BY <1>4 DEF MiniBatched
    <3> HIDE DEF b, k
    <3>4. k \in Nat /\ m \in Nat
      BY <2>2, <3>2
    <3>5. Part(z[j], batch, Columns, a + b, k)
      BY <2>1, <2>2, <3>1, <3>2, <3>4, PartOfPart
    <3> QED
      BY <3>3, <3>5 DEF b, k
  <2>7. K - 0 = K
    BY <1>4 DEF MiniBatched
  <2>8. Remaining(z, batch, cfg, r, 0)
    BY <2>5, <2>6, <2>7 DEF Remaining, a
  <2> QED
    BY <2>8 DEF z
<1> HIDE DEF x
<1>8. AllRemaining(minis', batch, cfg, 0)
  BY <1>2, <1>7 DEF AllRemaining
<1>9. 0 \in 0 .. K - 1 /\ 0 * Mini(cfg) = 0
  BY <1>4 DEF MiniBatched
<1>10. PICK k \in Nat \ {0} : PlanOf(plan', Heads(minis', cfg), cfg, MiniSize(cfg, 0 + 1), k)
  BY <1>1, <1>2, <1>5, <1>8, <1>9, NextPlan
<1>11. TrainedAlike(trained, cfg)
  BY <1>1 DEF TrainedAlike
<1>12. ASSUME NEW r \in 1 .. cfg.world
       PROVE  TrainedOn(trained[r], batch, First(cfg, r),
                        (1 .. 0 * Mini(cfg)) \cup Seen(plan'[r], 0, 0 * Mini(cfg)))
  <2> DEFINE T == (1 .. 0 * Mini(cfg)) \cup Seen(plan'[r], 0, 0 * Mini(cfg))
  <2>1. T = {}
    BY <1>9, NothingSeen
  <2>2. trained[r] = <<>>
    BY <1>1
  <2> HIDE DEF T
  <2>3. TrainedOn(<<>>, batch, First(cfg, r), {})
    BY DEF TrainedOn
  <2> QED
    BY <2>1, <2>2, <2>3 DEF T
<1>13. During(minis', plan', 0, trained, batch, cfg, 0)
  <2>1. 0 \in 0 .. k
    OBVIOUS
  <2>2. PlanOf(plan', [r \in 1 .. cfg.world |-> Head(minis'[r])], cfg, MiniSize(cfg, 0 + 1), k)
    BY <1>10 DEF Heads
  <2> QED
    BY <1>8, <1>11, <1>12, <2>1, <2>2 DEF During
<1>14. During(minis', plan', forwarded', trained', batch', cfg', 0) /\ 0 \in 0 .. Minis(cfg') - 1
  BY <1>2, <1>9, <1>13
<1> QED
  BY <1>1, <1>2, <1>14 DEF Updating

\* y has the responses of the rows a + e[i], which are in none of the rows T.
Adds(y, e, n, d, a, T) ==
    /\ y = [i \in 1 .. n |-> d["response"][a + e[i]]]
    /\ \A i, j \in 1 .. n : e[i] = e[j] => i = j
    /\ \A i \in 1 .. n : e[i] \notin T

\* Training on the rows E, which are new, after the rows T.
LEMMA TrainMore ==
  ASSUME NEW c, NEW d, Coherent(d, c), NEW a \in Nat, NEW T, NEW E,
         \A p \in T \cup E : a + p \in 1 .. Rows(c) /\ p \in Nat,
         NEW n \in Nat, NEW e, NEW y, Adds(y, e, n, d, a, T),
         \A p : p \in E <=> \E i \in 1 .. n : e[i] = p,
         NEW x, TrainedOn(x, d, a, T)
  PROVE  TrainedOn(x \o y, d, a, T \cup E)
<1> DEFINE D == Range(x) \cup Range(y)
           k == Len(x)
           z == x \o y
           v(p) == d["response"][a + p]
<1>1. /\ x \in Seq(Range(x)) /\ y = [i \in 1 .. n |-> v(e[i])]
      /\ \A i, j \in 1 .. n : e[i] = e[j] => i = j
      /\ \A i \in 1 .. n : e[i] \notin T /\ e[i] \in E
  BY DEF TrainedOn, Adds
<1>2. /\ \A i, j \in DOMAIN x : x[i] = x[j] => i = j
      /\ \A i \in DOMAIN x : \E p \in T : x[i] = v(p)
      /\ \A p \in T : \E i \in DOMAIN x : x[i] = v(p)
  BY DEF TrainedOn
<1>3. \A p, q \in T \cup E : v(p) = v(q) => p = q
  <2> SUFFICES ASSUME NEW p \in T \cup E, NEW q \in T \cup E, v(p) = v(q) PROVE p = q
    OBVIOUS
  <2>1. a + p = a + q
    BY DEF Coherent
  <2>2. p \in Nat /\ q \in Nat
    OBVIOUS
  <2> QED
    BY <2>1, <2>2
<1> HIDE DEF v
<1>4. y \in Seq(Range(y)) /\ Len(y) = n /\ DOMAIN y = 1 .. n
  <2>1. y \in [1 .. n -> Range(y)]
    BY <1>1 DEF Range
  <2> QED
    BY <2>1, FunctionIsSeq
<1>5. x \in Seq(D) /\ y \in Seq(D)
  <2>1. Range(x) \in SUBSET D /\ Range(y) \in SUBSET D
    OBVIOUS
  <2> HIDE DEF D
  <2> QED
    BY <1>1, <1>4, <2>1, SeqOfSubset
<1>6. k \in Nat /\ DOMAIN x = 1 .. k
  BY <1>1, SeqElement
<1> HIDE DEF D, k
<1>7. /\ z \in Seq(D) /\ Len(z) = k + n /\ DOMAIN z = 1 .. k + n
      /\ \A i \in 1 .. k : z[i] = x[i]
      /\ \A i \in 1 .. n : z[k + i] = v(e[i])
      /\ \A i \in 1 .. k + n : i <= k \/ i - k \in 1 .. n
  <2>1. /\ z \in Seq(D) /\ Len(z) = k + n /\ DOMAIN z = 1 .. k + n
        /\ \A i \in 1 .. k : z[i] = x[i]
        /\ \A i \in 1 .. n : z[k + i] = y[i]
        /\ \A i \in 1 .. k + n : i <= k \/ i - k \in 1 .. n
    <3>1. /\ x \o y \in Seq(D) /\ Len(x \o y) = Len(x) + Len(y)
          /\ DOMAIN (x \o y) = 1 .. Len(x) + Len(y)
          /\ \A i \in 1 .. Len(x) : (x \o y)[i] = x[i]
          /\ \A i \in 1 .. Len(y) : (x \o y)[Len(x) + i] = y[i]
          /\ \A i \in 1 .. Len(x) + Len(y) : i <= Len(x) \/ i - Len(x) \in 1 .. Len(y)
      BY <1>5, ConcatFacts
    <3> HIDE DEF z
    <3>2. z = x \o y /\ Len(x) = k /\ Len(y) = n
      BY <1>4 DEF z, k
    <3> QED
      BY <3>1, <3>2
  <2> HIDE DEF z
  <2> QED
    BY <1>1, <2>1
<1> HIDE DEF z
<1>8. z \in Seq(Range(z))
  <2>1. k + n \in Nat
    BY <1>6
  <2> DEFINE l == k + n
  <2>2. l \in Nat /\ z \in [1 .. l -> D] /\ DOMAIN z = 1 .. l
    BY <1>7, <2>1, SeqElement
  <2> HIDE DEF l
  <2>3. z \in [1 .. l -> Range(z)]
    BY <2>2 DEF Range
  <2> QED
    BY <2>2, <2>3, FunctionIsSeq
<1>9. ASSUME NEW i \in 1 .. k + n
      PROVE  \/ i \in 1 .. k /\ z[i] = x[i] /\ \E p \in T : z[i] = v(p)
             \/ i - k \in 1 .. n /\ z[i] = v(e[i - k]) /\ ~ (i \in 1 .. k)
  <2>1. CASE i <= k
    <3>1. i \in 1 .. k
      BY <1>6, <2>1
    <3>2. z[i] = x[i]
      BY <1>7, <3>1
    <3>3. \E p \in T : x[i] = v(p)
      BY <1>2, <1>6, <3>1
    <3> QED
      BY <3>1, <3>2, <3>3
  <2>2. CASE ~ (i <= k)
    <3>1. i - k \in 1 .. n
      BY <1>7, <2>2
    <3>2. z[k + (i - k)] = v(e[i - k]) /\ k + (i - k) = i
      BY <1>6, <1>7, <3>1
    <3> QED
      BY <2>2, <3>1, <3>2
  <2> QED
    BY <2>1, <2>2
<1>10. ASSUME NEW i \in DOMAIN z PROVE \E p \in T \cup E : z[i] = v(p)
  <2>1. i \in 1 .. k + n
    BY <1>7
  <2>2. CASE \E p \in T : z[i] = v(p)
    BY <2>2
  <2>3. CASE i - k \in 1 .. n /\ z[i] = v(e[i - k])
    BY <1>1, <2>3
  <2> QED
    BY <1>9, <2>1, <2>2, <2>3
<1>11. ASSUME NEW p \in T \cup E PROVE \E i \in DOMAIN z : z[i] = v(p)
  <2>1. CASE p \in T
    <3>1. PICK i \in 1 .. k : x[i] = v(p)
      BY <1>2, <1>6, <2>1
    <3>2. i \in DOMAIN z /\ z[i] = v(p)
      BY <1>6, <1>7, <3>1
    <3> QED
      BY <3>2
  <2>2. CASE p \in E
    <3>1. PICK i \in 1 .. n : e[i] = p
      BY <2>2
    <3>2. k + i \in DOMAIN z /\ z[k + i] = v(p)
      BY <1>6, <1>7, <3>1
    <3> QED
      BY <3>2
  <2> QED
    BY <2>1, <2>2
<1>12. ASSUME NEW i \in 1 .. k + n, NEW j \in 1 .. k + n, z[i] = z[j]
       PROVE  i = j
  <2>1. CASE i \in 1 .. k /\ j \in 1 .. k
    BY <1>2, <1>6, <1>7, <1>12, <2>1
  <2>2. CASE ~ (i \in 1 .. k) /\ ~ (j \in 1 .. k)
    <3>1. i - k \in 1 .. n /\ j - k \in 1 .. n /\ v(e[i - k]) = v(e[j - k])
      BY <1>9, <1>12, <2>2
    <3>2. e[i - k] = e[j - k]
      BY <1>1, <1>3, <3>1
    <3>3. i - k = j - k
      BY <1>1, <3>1, <3>2
    <3> QED
      BY <1>6, <3>3
  <2>3. ASSUME NEW g \in 1 .. k + n, NEW h \in 1 .. k + n, z[g] = z[h], g \in 1 .. k, ~ (h \in 1 .. k)
        PROVE  FALSE
    <3>1. PICK p \in T : z[g] = v(p)
      BY <1>9, <2>3
    <3>2. h - k \in 1 .. n /\ z[h] = v(e[h - k])
      BY <1>9, <2>3
    <3>3. e[h - k] \in E /\ e[h - k] \notin T
      BY <1>1, <3>2
    <3>4. v(p) = v(e[h - k])
      BY <2>3, <3>1, <3>2
    <3>5. p = e[h - k]
      BY <1>3, <3>3, <3>4
    <3> QED
      BY <3>3, <3>5
  <2> QED
    BY <1>12, <2>1, <2>2, <2>3
<1> QED
  BY <1>7, <1>8, <1>10, <1>11, <1>12 DEF TrainedOn, v, z

\* e has the rows of the next micro-batch, which the rank has not seen.
SeenNext(P, f, a, m, e) ==
    /\ \A p : p \in Seen(P, f + 1, a) <=> p \in Seen(P, f, a) \/ \E i \in DOMAIN e : e[i] = p
    /\ \A i \in DOMAIN e : e[i] \notin (1 .. a) \cup Seen(P, f, a)
    /\ \A i, j \in DOMAIN e : e[i] = e[j] => i = j
    /\ \A i \in DOMAIN e : e[i] \in 1 .. a + m

\* The rows of one more micro-batch: none of them has been seen.
LEMMA SeenMore ==
  ASSUME NEW m \in Nat, NEW k \in Nat, NEW P, Partitioned(P, m, k), NEW f \in Nat, f + 1 <= k,
         NEW a \in Nat, NEW e, e = [i \in DOMAIN P[f + 1] |-> a + P[f + 1][i]]
  PROVE  SeenNext(P, f, a, m, e)
<1> DEFINE g == f + 1
           s == P[g]
<1>1. g \in 1 .. k /\ f < g
  OBVIOUS
<1>2. \A i \in 1 .. k : \A j \in DOMAIN P[i] : P[i][j] \in 1 .. m
  <2> SUFFICES ASSUME NEW i \in 1 .. k, NEW j \in DOMAIN P[i] PROVE P[i][j] \in 1 .. m
    OBVIOUS
  <2>1. P[i] \in Seq(1 .. m)
    BY DEF Partitioned
  <2> QED
    BY <2>1, SeqElement
<1>3. DOMAIN e = DOMAIN s /\ \A i \in DOMAIN s : e[i] = a + s[i]
  OBVIOUS
<1> HIDE DEF g
<1>4. \A i \in DOMAIN s : s[i] \in 1 .. m /\ e[i] \in 1 .. a + m /\ ~ (e[i] \in 1 .. a)
  BY <1>1, <1>2, <1>3
<1>5. ASSUME NEW i \in DOMAIN s PROVE e[i] \notin Seen(P, f, a)
  <2> SUFFICES ASSUME e[i] \in Seen(P, f, a) PROVE FALSE
    OBVIOUS
  <2>1. PICK h \in 1 .. f : \E j \in DOMAIN P[h] : e[i] = a + P[h][j]
    BY DEF Seen
  <2>2. PICK j \in DOMAIN P[h] : e[i] = a + P[h][j]
    BY <2>1
  <2>3. h \in 1 .. k /\ h # g
    BY <1>1
  <2>4. P[h][j] \in 1 .. m /\ s[i] \in 1 .. m
    BY <1>2, <1>4, <2>3
  <2>5. P[h][j] = P[g][i]
    <3> DEFINE u == P[h][j]
               w == P[g][i]
    <3>1. a + u = a + w /\ u \in Int /\ w \in Int
      BY <1>3, <2>2, <2>4
    <3> HIDE DEF u, w
    <3>2. u = w
      BY <3>1
    <3> QED
      BY <3>2 DEF u, w
  <2> QED
    BY <1>1, <2>3, <2>5 DEF Partitioned
<1>6. ASSUME NEW i \in DOMAIN s, NEW j \in DOMAIN s, e[i] = e[j] PROVE i = j
  <2>1. P[g][i] = P[g][j]
    <3> DEFINE u == P[g][i]
               w == P[g][j]
    <3>1. a + u = a + w /\ u \in Int /\ w \in Int
      BY <1>3, <1>4, <1>6
    <3> HIDE DEF u, w
    <3>2. u = w
      BY <3>1
    <3> QED
      BY <3>2 DEF u, w
  <2> QED
    BY <1>1, <2>1 DEF Partitioned
<1>7. ASSUME NEW p, p \in Seen(P, f + 1, a)
      PROVE  p \in Seen(P, f, a) \/ \E i \in DOMAIN e : e[i] = p
  <2>1. PICK h \in 1 .. f + 1 : \E j \in DOMAIN P[h] : p = a + P[h][j]
    BY <1>7 DEF Seen
  <2>2. p \in Nat
    BY <1>7 DEF Seen
  <2>3. CASE h = g
    BY <1>3, <2>1, <2>3
  <2>4. CASE h # g
    <3>1. h \in 1 .. f
      BY <2>4 DEF g
    <3> QED
      BY <2>1, <2>2, <3>1 DEF Seen
  <2> QED
    BY <2>3, <2>4
<1>8. ASSUME NEW p, p \in Seen(P, f, a) PROVE p \in Seen(P, f + 1, a)
  <2>1. PICK h \in 1 .. f : \E j \in DOMAIN P[h] : p = a + P[h][j]
    BY <1>8 DEF Seen
  <2>2. p \in Nat /\ h \in 1 .. f + 1
    BY <1>8 DEF Seen
  <2> QED
    BY <2>1, <2>2 DEF Seen
<1>9. ASSUME NEW i \in DOMAIN e PROVE e[i] \in Seen(P, f + 1, a)
  <2>1. e[i] = a + P[g][i] /\ e[i] \in Nat /\ i \in DOMAIN P[g]
    BY <1>3, <1>4
  <2>2. g \in 1 .. f + 1
    BY DEF g
  <2> QED
    BY <2>1, <2>2 DEF Seen
<1>10. \A i \in DOMAIN e : e[i] \in 1 .. a + m /\ e[i] \notin (1 .. a) \cup Seen(P, f, a)
  BY <1>3, <1>4, <1>5
<1>11. \A p : p \in Seen(P, f + 1, a) <=> p \in Seen(P, f, a) \/ \E i \in DOMAIN e : e[i] = p
  BY <1>7, <1>8, <1>9
<1>12. \A i, j \in DOMAIN e : e[i] = e[j] => i = j
  BY <1>3, <1>6
<1> QED
  BY <1>10, <1>11, <1>12 DEF SeenNext

\* A rank trains on its next micro-batch.
LEMMA TrainsMicroBatch ==
  ASSUME NEW c, NEW d, Coherent(d, c), NEW a \in Nat, NEW b \in Nat, NEW m \in Nat,
         a + (b + m) <= Rows(c), Rows(c) \in Nat,
         NEW k \in Nat, NEW P, Partitioned(P, m, k), NEW f \in Nat, f + 1 <= k,
         NEW h, Part(h, d, Columns, a + b, m),
         NEW x, TrainedOn(x, d, a, (1 .. b) \cup Seen(P, f, b))
  PROVE  TrainedOn(x \o Select(h, P[f + 1])["response"], d, a, (1 .. b) \cup Seen(P, f + 1, b))
<1> DEFINE s == P[f + 1]
           n == Len(s)
           e == [i \in DOMAIN s |-> b + s[i]]
           y == Select(h, s)["response"]
           T == (1 .. b) \cup Seen(P, f, b)
           E == {e[i] : i \in 1 .. n}
<1>1. s \in Seq(1 .. m)
  <2>1. f + 1 \in 1 .. k
    OBVIOUS
  <2> QED
    BY <2>1 DEF Partitioned
<1>2. n \in Nat /\ DOMAIN s = 1 .. n /\ \A i \in 1 .. n : s[i] \in 1 .. m
  BY <1>1, SeqElement
<1>3. /\ \A p : p \in Seen(P, f + 1, b) <=> p \in Seen(P, f, b) \/ \E i \in DOMAIN e : e[i] = p
      /\ \A i \in DOMAIN e : e[i] \notin T
      /\ \A i, j \in DOMAIN e : e[i] = e[j] => i = j
      /\ \A i \in DOMAIN e : e[i] \in 1 .. b + m
  <2>1. e = [i \in DOMAIN P[f + 1] |-> b + P[f + 1][i]]
    OBVIOUS
  <2> HIDE DEF e
  <2>2. SeenNext(P, f, b, m, e)
    BY <2>1, SeenMore
  <2> QED
    BY <2>2 DEF SeenNext
<1>4. y = [i \in 1 .. n |-> h["response"][s[i]]]
  <2>1. DOMAIN h = Columns /\ "response" \in Columns
    BY DEF Part, Data, Columns, Base
  <2> QED
    BY <1>2, <2>1 DEF Select
<1>5. DOMAIN e = 1 .. n /\ \A i \in 1 .. n : e[i] = b + s[i]
  BY <1>2
<1> HIDE DEF s, n, e, y
<1>6. ASSUME NEW i \in 1 .. n PROVE h["response"][s[i]] = d["response"][a + e[i]]
  <2>1. h["response"][s[i]] = d["response"][(a + b) + s[i]]
    <3>1. "response" \in Columns
      BY DEF Columns, Base
    <3> QED
      BY <1>2, <3>1 DEF Part
  <2>2. (a + b) + s[i] = a + (b + s[i])
    BY <1>2
  <2> QED
    BY <1>5, <2>1, <2>2
<1>7. Adds(y, e, n, d, a, T)
  <2>1. y = [i \in 1 .. n |-> d["response"][a + e[i]]]
    BY <1>4, <1>6
  <2> HIDE DEF T
  <2> QED
    BY <1>3, <1>5, <2>1 DEF Adds
<1>8. \A p : p \in E <=> \E i \in 1 .. n : e[i] = p
  OBVIOUS
<1>9. T \cup E = (1 .. b) \cup Seen(P, f + 1, b)
  BY <1>3, <1>5
<1>10. \A p \in T \cup E : a + p \in 1 .. Rows(c) /\ p \in Nat
  <2>1. \A p \in T : p \in 1 .. b + m
    <3>1. ASSUME NEW p \in Seen(P, f, b) PROVE p \in 1 .. b + m
      <4>1. PICK i \in 1 .. f : \E j \in DOMAIN P[i] : p = b + P[i][j]
        BY DEF Seen
      <4>2. PICK j \in DOMAIN P[i] : p = b + P[i][j]
        BY <4>1
      <4>3. P[i] \in Seq(1 .. m)
        <5>1. i \in 1 .. k
          OBVIOUS
        <5> QED
          BY <5>1 DEF Partitioned
      <4>4. P[i][j] \in 1 .. m
        BY <4>3, SeqElement
      <4> QED
        BY <4>2, <4>4
    <3>2. ASSUME NEW p \in 1 .. b PROVE p \in 1 .. b + m
      OBVIOUS
    <3> QED
      BY <3>1, <3>2
  <2>2. \A p \in E : p \in 1 .. b + m
    BY <1>3, <1>5
  <2> HIDE DEF T, E
  <2>3. ASSUME NEW p \in 1 .. b + m PROVE a + p \in 1 .. Rows(c) /\ p \in Nat
    OBVIOUS
  <2> QED
    BY <2>1, <2>2, <2>3
<1> HIDE DEF T, E
<1>11. TrainedOn(x, d, a, T)
  BY DEF T
<1>12. TrainedOn(x \o y, d, a, T \cup E)
  BY <1>2, <1>7, <1>8, <1>10, <1>11, TrainMore
<1> QED
  BY <1>9, <1>12 DEF y, s

\* The plan of a rank divides its rows among k micro-batches.
LEMMA PlanLength ==
  ASSUME NEW pl, NEW datas, NEW c, NEW m, NEW k \in Nat, PlanOf(pl, datas, c, m, k),
         NEW r \in 1 .. c.world
  PROVE  Partitioned(pl[r], m, k) /\ Len(pl[r]) = k /\ DOMAIN pl[r] = 1 .. k
<1>1. Partitioned(pl[r], m, k)
  BY DEF PlanOf
<1>2. pl[r] \in [1 .. k -> Seq(1 .. m)]
  BY <1>1 DEF Partitioned
<1> QED
  BY <1>1, <1>2, FunctionIsSeq

\* The ranks train on their next micro-batch together.
LEMMA ForwardUpdateStep ==
  ASSUME cfg \in Configs, Updating, Forward
  PROVE  Updating'
<1>1. pc = "updating" /\ ~ cfg.validate /\ Full(batch, cfg)
  BY DEF Updating
<1>2. PICK s \in 0 .. Minis(cfg) - 1 : During(minis, plan, forwarded, trained, batch, cfg, s)
  BY DEF Updating
<1> DEFINE m == MiniSize(cfg, s + 1)
           b == s * Mini(cfg)
           R == 1 .. cfg.world
           x == [r \in R |-> trained[r] \o Select(Head(minis[r]), plan[r][forwarded + 1])["response"]]
<1>3. /\ cfg' = cfg /\ pc' = pc /\ batch' = batch /\ minis' = minis /\ plan' = plan
      /\ forwarded' = forwarded + 1
      /\ \A r \in DOMAIN plan : forwarded < Len(plan[r])
      /\ trained' = x
  BY <1>1 DEF Forward, Ranks
<1>4. PICK k \in Nat \ {0} : PlanOf(plan, Heads(minis, cfg), cfg, m, k) /\ forwarded \in 0 .. k
  BY <1>2 DEF During, Heads
<1>5. Sound(cfg) /\ Trains(cfg) /\ MiniBatched(cfg)
  BY <1>1, ConfigFacts, MiniFacts
<1>6. Coherent(batch, cfg) /\ AllRemaining(minis, batch, cfg, s)
  BY <1>1, <1>2 DEF Full, During
<1>7. /\ m \in Nat \ {0}
      /\ \A r \in R : Part(Head(minis[r]), batch, Columns, First(cfg, r) + b, m)
  BY <1>5, <1>6, HeadsFacts
<1>8. b \in Nat /\ b + m <= Share(cfg) /\ Share(cfg) \in Nat /\ s \in Nat
  <2>1. s + 1 \in 1 .. Minis(cfg) /\ s + 1 - 1 = s
    BY <1>5 DEF MiniBatched
  <2>2. /\ (s + 1 - 1) * Mini(cfg) \in Nat
        /\ (s + 1 - 1) * Mini(cfg) + m <= Share(cfg)
    BY <1>5, <2>1 DEF MiniBatched
  <2> QED
    BY <1>5, <2>1, <2>2 DEF MiniBatched
<1> HIDE DEF m, b
<1>9. forwarded \in Nat /\ forwarded + 1 <= k
  <2>1. 1 \in R
    BY <1>5 DEF Sound
  <2>2. Len(plan[1]) = k /\ 1 \in DOMAIN plan
    <3>1. k \in Nat /\ 1 \in 1 .. cfg.world
      BY <2>1
    <3>2. DOMAIN plan = 1 .. cfg.world
      BY <1>4 DEF PlanOf
    <3>3. Len(plan[1]) = k
      BY <1>4, <3>1, PlanLength
    <3> QED
      BY <3>1, <3>2, <3>3
  <2> QED
    BY <1>3, <1>4, <2>2
<1>10. ASSUME NEW r \in R
       PROVE  TrainedOn(x[r], batch, First(cfg, r), (1 .. b) \cup Seen(plan[r], forwarded + 1, b))
  <2>1. TrainedOn(trained[r], batch, First(cfg, r), (1 .. b) \cup Seen(plan[r], forwarded, b))
    BY <1>2 DEF During, b
  <2>2. First(cfg, r) \in Nat /\ First(cfg, r) + (b + m) <= Rows(cfg) /\ Rows(cfg) \in Nat
    <3>1. First(cfg, r) \in Nat /\ First(cfg, r) + Share(cfg) <= Rows(cfg)
      BY <1>5 DEF MiniBatched
    <3>2. Rows(cfg) \in Nat
      BY <1>5 DEF Sound
    <3> QED
      BY <1>7, <1>8, <3>1, <3>2
  <2>3. k \in Nat /\ m \in Nat
    BY <1>7
  <2>4. Partitioned(plan[r], m, k)
    BY <1>4 DEF PlanOf
  <2> DEFINE a == First(cfg, r)
             h == Head(minis[r])
             P == plan[r]
  <2>5. Part(h, batch, Columns, a + b, m)
    BY <1>7
  <2>6. x[r] = trained[r] \o Select(h, P[forwarded + 1])["response"]
    OBVIOUS
  <2> HIDE DEF a, h, P, x
  <2>7. TrainedOn(trained[r] \o Select(h, P[forwarded + 1])["response"], batch, a,
                  (1 .. b) \cup Seen(P, forwarded + 1, b))
    BY <1>6, <1>8, <1>9, <2>1, <2>2, <2>3, <2>4, <2>5, TrainsMicroBatch DEF a, P
  <2> QED
    BY <2>6, <2>7 DEF a, P
<1>11. TrainedAlike(x, cfg)
  <2>1. TrainedAlike(trained, cfg)
    BY <1>2 DEF During
  <2>2. ASSUME NEW r \in R, NEW q \in R, GroupNo(cfg, r) = GroupNo(cfg, q) PROVE x[r] = x[q]
    <3>1. trained[r] = trained[q]
      BY <2>1, <2>2 DEF TrainedAlike
    <3>2. plan[r] = plan[q]
      BY <1>4, <2>2 DEF PlanOf
    <3>3. Head(minis[r]) = Head(minis[q])
      <4>1. First(cfg, r) = First(cfg, q)
        BY <2>2 DEF First
      <4> QED
        BY <1>7, <4>1, PartUnique
    <3> QED
      BY <3>1, <3>2, <3>3
  <2> QED
    BY <2>2 DEF TrainedAlike
<1>12. During(minis, plan, forwarded + 1, x, batch, cfg, s)
  <2>1. forwarded + 1 \in 0 .. k
    BY <1>9
  <2>2. PlanOf(plan, [r \in 1 .. cfg.world |-> Head(minis[r])], cfg, MiniSize(cfg, s + 1), k)
    BY <1>4 DEF Heads, m
  <2>3. \A r \in 1 .. cfg.world :
          TrainedOn(x[r], batch, First(cfg, r),
                    (1 .. s * Mini(cfg)) \cup Seen(plan[r], forwarded + 1, s * Mini(cfg)))
    BY <1>10 DEF b
  <2> HIDE DEF x
  <2> QED
    BY <1>6, <1>11, <2>1, <2>2, <2>3 DEF During
<1> HIDE DEF x
<1>13. During(minis', plan', forwarded', trained', batch', cfg', s)
  BY <1>3, <1>12
<1>14. s \in 0 .. Minis(cfg') - 1 /\ pc' = "updating" /\ ~ cfg'.validate /\ Full(batch', cfg')
  BY <1>1, <1>3
<1> QED
  BY <1>13, <1>14 DEF Updating

\* Tail, position by position.
LEMMA TailFacts ==
  ASSUME NEW S, NEW x \in Seq(S), NEW n \in Nat, Len(x) = n + 1
  PROVE  /\ Tail(x) \in Seq(Range(Tail(x))) /\ Len(Tail(x)) = n
         /\ \A i \in 1 .. n : Tail(x)[i] = x[i + 1]
<1> DEFINE t == Tail(x)
<1>1. t \in Seq(S) /\ Len(t) = n /\ \A i \in 1 .. n : t[i] = x[i + 1]
  OBVIOUS
<1> HIDE DEF t
<1>2. t \in [1 .. n -> S] /\ DOMAIN t = 1 .. n
  BY <1>1, SeqElement
<1>3. t \in [1 .. n -> Range(t)]
  BY <1>2 DEF Range
<1>4. t \in Seq(Range(t))
  BY <1>3, FunctionIsSeq
<1> QED
  BY <1>1, <1>4 DEF t

\* The rest of the mini-batches.
LEMMA RemainingTail ==
  ASSUME NEW c, MiniBatched(c), NEW d, NEW r, NEW s \in 0 .. Minis(c) - 1,
         NEW x, Remaining(x, d, c, r, s)
  PROVE  Remaining(Tail(x), d, c, r, s + 1)
<1> DEFINE n == Minis(c) - (s + 1)
           t == Tail(x)
<1>1. Minis(c) \in Nat
  BY DEF MiniBatched
<1>2. x \in Seq(Range(x)) /\ Len(x) = Minis(c) - s
  BY DEF Remaining
<1>3. n \in Nat /\ Len(x) = n + 1
  BY <1>1, <1>2
<1> HIDE DEF n
<1>4. t \in Seq(Range(t)) /\ Len(t) = n /\ \A i \in 1 .. n : t[i] = x[i + 1]
  BY <1>2, <1>3, TailFacts
<1> HIDE DEF t
<1>5. ASSUME NEW j \in 1 .. n
      PROVE  Part(t[j], d, Columns, First(c, r) + ((s + 1) + j - 1) * Mini(c), MiniSize(c, (s + 1) + j))
  <2>1. j + 1 \in 1 .. Minis(c) - s
    BY <1>1, <1>3 DEF n
  <2>2. Part(x[j + 1], d, Columns, First(c, r) + (s + (j + 1) - 1) * Mini(c), MiniSize(c, s + (j + 1)))
    BY <2>1 DEF Remaining
  <2>3. s + (j + 1) - 1 = (s + 1) + j - 1 /\ s + (j + 1) = (s + 1) + j
    OBVIOUS
  <2> QED
    BY <1>4, <2>2, <2>3
<1> QED
  BY <1>4, <1>5 DEF Remaining, n, t

\* After the micro-batches of a mini-batch a rank has trained on all of its
\* rows, and the ranks go on to the next mini-batch or have finished.
LEMMA OptimizerStepStep ==
  ASSUME cfg \in Configs, Updating, OptimizerStep
  PROVE  Updating' \/ Done'
<1>1. pc = "updating" /\ ~ cfg.validate /\ Full(batch, cfg)
  BY DEF Updating
<1>2. PICK s \in 0 .. Minis(cfg) - 1 : During(minis, plan, forwarded, trained, batch, cfg, s)
  BY DEF Updating
<1> DEFINE K == Minis(cfg)
           m == MiniSize(cfg, s + 1)
           b == s * Mini(cfg)
           R == 1 .. cfg.world
           ms == [r \in R |-> Tail(minis[r])]
<1>3. /\ cfg' = cfg /\ batch' = batch /\ minis' = ms /\ forwarded' = 0 /\ trained' = trained
      /\ \A r \in R : forwarded = Len(plan[r])
      /\ IF \E r \in R : ms[r] = <<>>
         THEN plan' = <<>> /\ pc' = "done"
         ELSE plan' = Planned(Heads(ms, cfg)) /\ pc' = pc
  BY DEF OptimizerStep, Ranks, Heads
<1>4. PICK k \in Nat \ {0} : PlanOf(plan, Heads(minis, cfg), cfg, m, k) /\ forwarded \in 0 .. k
  BY <1>2 DEF During, Heads
<1>5. Sound(cfg) /\ Trains(cfg) /\ MiniBatched(cfg)
  BY <1>1, ConfigFacts, MiniFacts
<1>6. Coherent(batch, cfg) /\ AllRemaining(minis, batch, cfg, s)
  BY <1>1, <1>2 DEF Full, During
<1>7. 1 \in R
  BY <1>5 DEF Sound
<1>8. /\ s \in Nat /\ K \in Nat /\ m \in Nat /\ b \in Nat
      /\ s + 1 = K => b + m = Share(cfg)
      /\ s + 1 < K => m = Mini(cfg)
      /\ s + 1 \in 1 .. K
  <2>1. s + 1 \in 1 .. K /\ s + 1 - 1 = s /\ K \in Nat /\ s \in Nat
    BY <1>5 DEF MiniBatched
  <2>2. /\ m \in 1 .. Mini(cfg) /\ Mini(cfg) \in Nat /\ (s + 1 - 1) * Mini(cfg) \in Nat
        /\ s + 1 = K => (s + 1 - 1) * Mini(cfg) + m = Share(cfg)
        /\ s + 1 < K => m = Mini(cfg)
    BY <1>5, <2>1 DEF MiniBatched
  <2> QED
    BY <2>1, <2>2
<1>9. ASSUME NEW r \in R PROVE TrainedOn(trained[r], batch, First(cfg, r), 1 .. b + m)
  <2>1. TrainedOn(trained[r], batch, First(cfg, r), (1 .. b) \cup Seen(plan[r], forwarded, b))
    BY <1>2 DEF During
  <2>2. k \in Nat
    OBVIOUS
  <2>3. Partitioned(plan[r], m, k) /\ Len(plan[r]) = k
    <3> HIDE DEF m
    <3> QED
      BY <1>4, <2>2, PlanLength
  <2>4. forwarded = k
    BY <1>3, <2>3
  <2> HIDE DEF m, b
  <2>5. (1 .. b) \cup Seen(plan[r], k, b) = 1 .. b + m
    BY <1>8, <2>2, <2>3, AllSeen
  <2> QED
    BY <2>1, <2>4, <2>5
<1>10. ASSUME NEW r \in R PROVE Remaining(ms[r], batch, cfg, r, s + 1)
  <2>1. Remaining(minis[r], batch, cfg, r, s)
    BY <1>6 DEF AllRemaining
  <2>2. Remaining(Tail(minis[r]), batch, cfg, r, s + 1)
    BY <1>5, <2>1, RemainingTail
  <2> QED
    BY <2>2
<1>11. DOMAIN ms = R
  OBVIOUS
<1> HIDE DEF ms, m, b
<1>12. AllRemaining(ms, batch, cfg, s + 1)
  BY <1>10, <1>11 DEF AllRemaining
<1>13. \A r \in R : ms[r] \in Seq(Range(ms[r])) /\ Len(ms[r]) = K - (s + 1)
  BY <1>10 DEF Remaining
<1>14. TrainedAlike(trained, cfg)
  BY <1>2 DEF During
<1>15. CASE s + 1 = K
  <2>1. ms[1] \in Seq(Range(ms[1])) /\ Len(ms[1]) = 0
    BY <1>7, <1>8, <1>13, <1>15
  <2>2. ms[1] = <<>>
    BY <2>1
  <2>3. plan' = <<>> /\ pc' = "done"
    BY <1>3, <1>7, <2>2
  <2>4. \A r \in R : TrainedOn(trained[r], batch, First(cfg, r), 1 .. Share(cfg))
    BY <1>8, <1>9, <1>15
  <2>5. /\ Full(batch', cfg') /\ TrainedAlike(trained', cfg') /\ ~ cfg'.validate
        /\ \A r \in 1 .. cfg'.world : TrainedOn(trained'[r], batch', First(cfg', r), 1 .. Share(cfg'))
    BY <1>1, <1>3, <1>14, <2>4
  <2> QED
    BY <2>3, <2>5 DEF Done
<1>16. CASE s + 1 # K
  <2> DEFINE z == s + 1
  <2>1. z < K /\ z \in 0 .. K - 1 /\ m = Mini(cfg)
    BY <1>8, <1>16
  <2>2. ASSUME NEW r \in R PROVE ms[r] # <<>>
    <3>1. Len(ms[r]) = K - z
      BY <1>13
    <3>2. K - z # 0
      BY <1>8, <2>1
    <3>3. Len(<<>>) = 0
      OBVIOUS
    <3> QED
      BY <3>1, <3>2, <3>3
  <2>3. plan' = Planned(Heads(ms, cfg)) /\ pc' = pc
    BY <1>3, <2>2
  <2> DEFINE a == z * Mini(cfg)
  <2>4. a = b + m
    BY <1>5, <1>8, <2>1 DEF b, MiniBatched
  <2> HIDE DEF z, K
  <2>5. \E j \in Nat \ {0} : PlanOf(plan', Heads(ms, cfg), cfg, MiniSize(cfg, z + 1), j)
    BY <1>1, <1>6, <1>12, <2>1, <2>3, NextPlan DEF z, K
  <2>6. PICK j \in Nat \ {0} : PlanOf(plan', [r \in 1 .. cfg.world |-> Head(ms[r])], cfg, MiniSize(cfg, z + 1), j)
    BY <2>5 DEF Heads
  <2>7. 0 \in 0 .. j
    OBVIOUS
  <2>8. ASSUME NEW r \in R
        PROVE  TrainedOn(trained[r], batch, First(cfg, r), (1 .. a) \cup Seen(plan'[r], 0, a))
    <3>1. (1 .. a) \cup Seen(plan'[r], 0, a) = 1 .. b + m
      BY <2>4, NothingSeen
    <3> QED
      BY <1>9, <3>1
  <2>9. During(ms, plan', 0, trained, batch, cfg, z)
    BY <1>12, <1>14, <2>6, <2>7, <2>8 DEF During, z
  <2>10. During(minis', plan', forwarded', trained', batch', cfg', z)
    BY <1>3, <2>9
  <2>11. z \in 0 .. Minis(cfg') - 1 /\ pc' = "updating" /\ ~ cfg'.validate /\ Full(batch', cfg')
    BY <1>1, <1>3, <2>1, <2>3 DEF K
  <2> QED
    BY <2>10, <2>11 DEF Updating
<1> QED
  BY <1>15, <1>16

\* The program counter tells the phase.
LEMMA PhaseOf ==
  ASSUME IInv
  PROVE  /\ pc = "gen" => AtGen
         /\ pc = "generating" => Generating
         /\ pc = "balance" => AtBalance
         /\ pc = "reward" => AtReward
         /\ pc = "log_prob" => AtLogProb
         /\ pc = "log_probs" => LogProbs
         /\ pc = "adv" => AtAdv
         /\ pc = "update" => AtUpdate
         /\ pc = "updating" => Updating
         /\ pc = "done" => Done
BY DEF IInv, AtGen, Generating, AtBalance, AtReward, AtLogProb, LogProbs, AtAdv, AtUpdate,
       Updating, Done

\* No step changes the configuration.
LEMMA ConfigStays == ASSUME Next PROVE cfg' = cfg
BY DEF Next, DispatchGeneration, GenerateChunk, CollectGeneration, Balance, Reward,
       DispatchLogProb, Forward, ReturnLogProb, CollectLogProb, Advantage, DispatchUpdate,
       OptimizerStep, Finished, vars

\* Every step keeps the inductive invariant: one lemma above for each action.
LEMMA IInvStep == IInv /\ [Next]_vars => IInv'
<1> SUFFICES ASSUME IInv, [Next]_vars PROVE IInv'
  OBVIOUS
<1>1. cfg \in Configs
  BY DEF IInv
<1>2. CASE UNCHANGED vars
  <2>1. /\ cfg' = cfg /\ pc' = pc /\ batch' = batch /\ reward' = reward /\ inputs' = inputs
        /\ outputs' = outputs /\ minis' = minis /\ plan' = plan /\ forwarded' = forwarded
        /\ trained' = trained
    BY <1>2 DEF vars
  <2> QED
    BY <2>1 DEF IInv, AtGen, Generating, AtBalance, AtReward, AtLogProb, LogProbs, AtAdv,
                AtUpdate, Updating, Done, Idle
<1>3. CASE Next
  <2> USE <1>1, PhaseOf
  <2>0. cfg' \in Configs
    BY <1>3, ConfigStays
  <2>1. CASE DispatchGeneration
    <3>1. AtGen
      BY <2>1 DEF DispatchGeneration
    <3> QED
      BY <2>0, <2>1, <3>1, DispatchGenerationStep DEF IInv
  <2>2. CASE \E w \in DOMAIN outputs : GenerateChunk(w)
    <3>1. PICK w \in DOMAIN outputs : GenerateChunk(w)
      BY <2>2
    <3>2. Generating
      BY <3>1 DEF GenerateChunk
    <3>3. Generating'
      BY <3>1, <3>2, GenerateChunkStep
    <3> QED
      BY <2>0, <3>3 DEF IInv
  <2>3. CASE CollectGeneration
    <3>1. Generating
      BY <2>3 DEF CollectGeneration
    <3>2. Done' \/ AtBalance'
      BY <2>3, <3>1, CollectGenerationStep
    <3> QED
      BY <2>0, <3>2 DEF IInv
  <2>4. CASE Balance
    <3>1. AtBalance
      BY <2>4 DEF Balance
    <3> QED
      BY <2>0, <2>4, <3>1, BalanceStep DEF IInv
  <2>5. CASE Reward
    <3>1. AtReward
      BY <2>5 DEF Reward
    <3> QED
      BY <2>0, <2>5, <3>1, RewardStep DEF IInv
  <2>6. CASE DispatchLogProb
    <3>1. AtLogProb
      BY <2>6 DEF DispatchLogProb
    <3> QED
      BY <2>0, <2>6, <3>1, DispatchLogProbStep DEF IInv
  <2>7. CASE Forward
    <3>1. LogProbs \/ Updating
      BY <2>7 DEF Forward
    <3>2. LogProbs' \/ Updating'
      BY <2>7, <3>1, ForwardLogProbStep, ForwardUpdateStep
    <3> QED
      BY <2>0, <3>2 DEF IInv
  <2>8. CASE \E r \in DOMAIN plan : ReturnLogProb(r)
    <3>1. PICK r \in DOMAIN plan : ReturnLogProb(r)
      BY <2>8
    <3>2. LogProbs
      BY <3>1 DEF ReturnLogProb
    <3>3. LogProbs'
      BY <3>1, <3>2, ReturnLogProbStep
    <3> QED
      BY <2>0, <3>3 DEF IInv
  <2>9. CASE CollectLogProb
    <3>1. LogProbs
      BY <2>9 DEF CollectLogProb
    <3> QED
      BY <2>0, <2>9, <3>1, CollectLogProbStep DEF IInv
  <2>10. CASE Advantage
    <3>1. AtAdv
      BY <2>10 DEF Advantage
    <3> QED
      BY <2>0, <2>10, <3>1, AdvantageStep DEF IInv
  <2>11. CASE DispatchUpdate
    <3>1. AtUpdate
      BY <2>11 DEF DispatchUpdate
    <3> QED
      BY <2>0, <2>11, <3>1, DispatchUpdateStep DEF IInv
  <2>12. CASE OptimizerStep
    <3>1. Updating
      BY <2>12 DEF OptimizerStep
    <3>2. Updating' \/ Done'
      BY <2>12, <3>1, OptimizerStepStep
    <3> QED
      BY <2>0, <3>2 DEF IInv
  <2>13. CASE Finished
    <3>1. UNCHANGED vars
      BY <2>13 DEF Finished
    <3> QED
      BY <1>2, <3>1
  <2> QED
    BY <1>3, <2>1, <2>2, <2>3, <2>4, <2>5, <2>6, <2>7, <2>8, <2>9, <2>10, <2>11, <2>12, <2>13
       DEF Next
<1> QED
  BY <1>2, <1>3

\* It holds at first.
LEMMA IInvInit == Init => IInv
<1> SUFFICES ASSUME Init PROVE IInv
  OBVIOUS
<1>1. cfg \in Configs
  BY DEF Init
<1> QED
  BY <1>1, InitGen DEF IInv

\* The phases in which the batch has responses.
LEMMA BatchOf ==
  ASSUME IInv
  PROVE  \/ FirstBatch(batch, cfg)
         \/ Plain(batch, cfg)
         \/ /\ Data(batch, Base \cup {"old_log_prob"}, Rows(cfg)) /\ Coherent(batch, cfg)
            /\ batch["old_log_prob"] = batch["response"]
         \/ Full(batch, cfg)
<1>1. cfg.validate \in BOOLEAN
  BY ConfigFacts DEF IInv, Sound
<1> QED
  BY <1>1 DEF IInv, AtGen, Generating, AtBalance, AtReward, AtLogProb, LogProbs, AtAdv, AtUpdate,
              Updating, Done

\* A batch of coherent rows whose log-probabilities and scores are those of
\* their responses is what RowsStayTogether asks for.
LEMMA RowsFacts ==
  ASSUME cfg \in Configs, NEW C, "response" \in C, Data(batch, C, Rows(cfg)), Coherent(batch, cfg),
         "old_log_prob" \in C => batch["old_log_prob"] = batch["response"],
         "score" \in C => \A i \in 1 .. Rows(cfg) : batch["score"][i].response = batch["response"][i]
  PROVE  RowsStayTogether
<1> DEFINE n == Rows(cfg)
<1>1. n \in Nat
  BY ConfigFacts DEF Sound
<1>2. Data(batch, C, n) /\ C # {}
  OBVIOUS
<1> HIDE DEF n
<1>3. Size(batch) = n
  BY <1>1, <1>2, SizeFacts
<1>4. DOMAIN batch = C
  BY <1>2 DEF Data
<1>5. /\ \A i \in 1 .. n : batch["uid"][i] = batch["response"][i][1]
      /\ \A i, j \in 1 .. n : batch["response"][i] = batch["response"][j] => i = j
  BY DEF Coherent, n
<1>6. "score" \in C => \A i \in 1 .. n : batch["score"][i].response = batch["response"][i]
  BY DEF n
<1> QED
  BY <1>3, <1>4, <1>5, <1>6 DEF RowsStayTogether

\* The inductive invariant implies each of the five invariants of the run.
\* First the rows of the batch.
LEMMA IInvRows == ASSUME IInv PROVE RowsStayTogether
<1>1. cfg \in Configs
  BY DEF IInv
<1>2. CASE FirstBatch(batch, cfg)
  <2>1. DOMAIN batch = {"uid"}
    BY <1>2 DEF FirstBatch
  <2> QED
    BY <2>1 DEF RowsStayTogether
<1>3. CASE Plain(batch, cfg)
  <2>1. "response" \in Base /\ "old_log_prob" \notin Base /\ "score" \notin Base
    BY DEF Base
  <2> QED
    BY <1>1, <1>3, <2>1, RowsFacts DEF Plain
<1>4. CASE /\ Data(batch, Base \cup {"old_log_prob"}, Rows(cfg)) /\ Coherent(batch, cfg)
           /\ batch["old_log_prob"] = batch["response"]
  <2> DEFINE C == Base \cup {"old_log_prob"}
  <2>1. "response" \in C /\ "score" \notin C
    BY DEF Base
  <2>2. Data(batch, C, Rows(cfg))
    BY <1>4
  <2> HIDE DEF C
  <2> QED
    BY <1>1, <1>4, <2>1, <2>2, RowsFacts
<1>5. CASE Full(batch, cfg)
  <2>1. "response" \in Columns
    BY DEF Columns, Base
  <2> QED
    BY <1>1, <1>5, <2>1, RowsFacts DEF Full
<1> QED
  BY <1>2, <1>3, <1>4, <1>5, BatchOf

\* The advantages, once they are there.
LEMMA IInvAdvantages == ASSUME IInv PROVE AdvantagesAreGroupRelative
<1>1. CASE "advantage" \notin DOMAIN batch
  BY <1>1 DEF AdvantagesAreGroupRelative
<1>2. CASE "advantage" \in DOMAIN batch
  <2>1. ~ FirstBatch(batch, cfg)
    <3> SUFFICES ASSUME FirstBatch(batch, cfg) PROVE FALSE
      OBVIOUS
    <3>1. DOMAIN batch = {"uid"}
      BY DEF FirstBatch
    <3> QED
      BY <1>2, <3>1
  <2>2. ~ Data(batch, Base, Rows(cfg)) /\ ~ Data(batch, Base \cup {"old_log_prob"}, Rows(cfg))
    <3>1. "advantage" \notin Base /\ "advantage" \notin Base \cup {"old_log_prob"}
      BY DEF Base
    <3>2. ASSUME NEW C, Data(batch, C, Rows(cfg)) PROVE DOMAIN batch = C
      BY <3>2 DEF Data
    <3> QED
      BY <1>2, <3>1, <3>2
  <2>3. Relative(batch, cfg)
    BY <2>1, <2>2, BatchOf DEF Plain, Full
  <2>4. \A i : Weight(batch, i) = WeightOf(batch, cfg, i)
    BY DEF Weight, WeightOf
  <2>5. AdvantagesAreGroupRelative
    BY <2>3 DEF Relative, AdvantagesAreGroupRelative, Weight, WeightOf
  <2> QED
    BY <2>5
<1> QED
  BY <1>1, <1>2

\* Ranks that have a plan have as many micro-batches each, and those of a
\* group have the same ones.
LEMMA AgreeFacts ==
  ASSUME NEW datas, NEW m, NEW k \in Nat \ {0}, PlanOf(plan, datas, cfg, m, k)
  PROVE  MicroBatchesAgree
<1>1. DOMAIN plan = 1 .. cfg.world
  BY DEF PlanOf
<1>2. k \in Nat
  OBVIOUS
<1>3. \A r \in 1 .. cfg.world : Partitioned(plan[r], m, k) /\ Len(plan[r]) = k /\ DOMAIN plan[r] = 1 .. k
  BY <1>2, PlanLength
<1>4. ASSUME NEW r \in 1 .. cfg.world, NEW i \in DOMAIN plan[r] PROVE plan[r][i] # <<>>
  <2>1. Len(plan[r][i]) > 0
    <3>1. Partitioned(plan[r], m, k) /\ i \in 1 .. k
      BY <1>3
    <3> QED
      BY <3>1 DEF Partitioned
  <2>2. Len(<<>>) = 0
    OBVIOUS
  <2> QED
    BY <2>1, <2>2
<1>5. \A r, q \in 1 .. cfg.world : DPRank(r) = DPRank(q) => plan[r] = plan[q]
  BY DEF PlanOf, DPRank, GroupNo
<1> QED
  BY <1>1, <1>3, <1>4, <1>5 DEF MicroBatchesAgree

\* The micro-batches of the ranks.
LEMMA IInvAgree == ASSUME IInv PROVE MicroBatchesAgree
<1>1. CASE plan = <<>>
  BY <1>1 DEF MicroBatchesAgree
<1>2. CASE LogProbs
  BY <1>2, AgreeFacts DEF LogProbs
<1>3. CASE Updating
  <2>1. PICK s \in 0 .. Minis(cfg) - 1 : During(minis, plan, forwarded, trained, batch, cfg, s)
    BY <1>3 DEF Updating
  <2>2. \E k \in Nat \ {0} :
          PlanOf(plan, [r \in 1 .. cfg.world |-> Head(minis[r])], cfg, MiniSize(cfg, s + 1), k)
    BY <2>1 DEF During
  <2> QED
    BY <2>2, AgreeFacts
<1> QED
  BY <1>1, <1>2, <1>3
     DEF IInv, AtGen, Generating, AtBalance, AtReward, AtLogProb, AtAdv, AtUpdate, Done, Idle

\* The load of a micro-batch is the sum of the loads of its rows.
LEMMA MicroBatchLoad ==
  ASSUME NEW m \in Nat, NEW C, "length" \in C, NEW d, Data(d, C, m),
         \A i \in 1 .. m : d["length"][i] \in Nat,
         NEW k \in Nat, NEW P, Partitioned(P, m, k), NEW i \in 1 .. k
  PROVE  Load(Select(d, P[i])) = SumOf(Works(Seqlens(d)), Range(P[i]))
<1> DEFINE f == P[i]
           n == Len(f)
           x == Select(d, f)
<1>1. f \in Seq(1 .. m)
  BY DEF Partitioned
<1>2. n \in Nat /\ f \in [1 .. n -> 1 .. m]
  BY <1>1, SeqElement
<1>3. \A a, b \in DOMAIN f : f[a] = f[b] => a = b
  BY DEF Partitioned
<1>4. DOMAIN f = 1 .. n
  BY <1>1, SeqElement
<1> HIDE DEF f, n
<1>5. Takes(x, d, C, n, f)
  BY <1>2, SelectFacts
<1> HIDE DEF x
<1>6. Data(x, C, n)
  BY <1>5 DEF Takes
<1>7. HasLengths(x, d, f, n, m)
  BY <1>2, <1>3, <1>4, <1>5 DEF HasLengths, Takes
<1>8. Total(Works(Seqlens(x))) = SumOf(Works(Seqlens(d)), Range(f))
  <2>1. Measured(d, C, m)
    BY DEF Measured
  <2>2. \A j \in 1 .. n : x["length"][j] \in Nat
    BY <1>2, <1>7 DEF HasLengths
  <2>3. Measured(x, C, n)
    BY <1>2, <1>6, <2>2 DEF Measured
  <2> QED
    BY <1>7, <2>1, <2>3, LoadFacts
<1> QED
  BY <1>8 DEF Load, x, f

\* The loads of the dynamic micro-batches of a rank.
LEMMA MicroBatchLoads ==
  ASSUME cfg \in Configs, LogProbs, cfg.dynamic, NEW r \in 1 .. cfg.world
  PROVE  \A i, j \in DOMAIN plan[r] : \E seqlen \in Range(Seqlens(inputs[r])) :
            Load(Select(inputs[r], plan[r][i])) - Load(Select(inputs[r], plan[r][j]))
              <= Workload(seqlen)
<1> DEFINE m == Share(cfg)
           d == inputs[r]
           w == Works(Seqlens(d))
           P == plan[r]
<1>1. PICK k \in Nat \ {0} : PlanOf(plan, inputs, cfg, m, k)
  BY DEF LogProbs
<1>2. Sound(cfg) /\ Trains(cfg)
  BY ConfigFacts DEF LogProbs
<1>3. m \in Nat /\ k \in Nat /\ "length" \in Base
  BY <1>2 DEF Trains, Base
<1>4. Partitioned(P, m, k) /\ DOMAIN P = 1 .. k
  BY <1>1, <1>3, PlanLength
<1>5. PICK e \in 1 .. m : LoadGap(P, k, w, w[e])
  BY <1>1 DEF PlanOf
<1>6. Data(d, Base, m) /\ \A i \in 1 .. m : d["length"][i] \in Nat
  <2>1. Shared(inputs, Base, m, cfg)
    BY <1>2, <1>3, SharedOut DEF LogProbs, Plain
  <2> QED
    BY <2>1 DEF Shared
<1> HIDE DEF m, d, w, P
<1>7. Seqlens(d) \in [1 .. m -> Nat \ {0}]
  BY <1>3, <1>6, SeqlensFacts
<1>8. Seqlens(d)[e] \in Range(Seqlens(d)) /\ w[e] = Workload(Seqlens(d)[e])
  BY <1>7 DEF w, Works, Range
<1>9. \A i \in 1 .. k : Load(Select(d, P[i])) = SumOf(w, Range(P[i]))
  BY <1>3, <1>4, <1>6, MicroBatchLoad DEF w
<1>10. \A i, j \in 1 .. k : Load(Select(d, P[i])) - Load(Select(d, P[j])) <= Workload(Seqlens(d)[e])
  BY <1>5, <1>8, <1>9 DEF LoadGap
<1> QED
  BY <1>4, <1>8, <1>10 DEF d, P

\* The loads of the ranks and of their micro-batches.
LEMMA IInvLoads == ASSUME IInv PROVE LoadsAreBalanced
<1>1. cfg \in Configs
  BY DEF IInv
<1>2. ASSUME pc = "reward"
      PROVE  \A p, q \in 1 .. cfg.world : \E g \in 1 .. Size(batch) \div cfg.world :
                Load(Chunk(batch, cfg.world)[p]) - Load(Chunk(batch, cfg.world)[q])
                  <= InOrderOfSize(batch, g * cfg.world)
                       - InOrderOfSize(batch, (g - 1) * cfg.world + 1)
  <2>1. EvenLoads(batch, cfg)
    BY <1>2, PhaseOf DEF AtReward
  <2> QED
    BY <2>1 DEF EvenLoads
<1>3. ASSUME pc = "log_probs", cfg.dynamic
      PROVE  \A r \in 1 .. cfg.world : \A i, j \in DOMAIN plan[r] :
                \E seqlen \in Range(Seqlens(inputs[r])) :
                   Load(Select(inputs[r], plan[r][i])) - Load(Select(inputs[r], plan[r][j]))
                     <= Workload(seqlen)
  BY <1>1, <1>3, PhaseOf, MicroBatchLoads
<1> QED
  BY <1>2, <1>3 DEF LoadsAreBalanced, Load, Works, InOrderOfSize, Ranks

\* A response of the batch is in the sequence of the rank that leads its group,
\* once, and in that of no other leader.
LEMMA TrainsOnce ==
  ASSUME cfg \in Configs, Full(batch, cfg), ~ cfg.validate, TrainedAlike(trained, cfg),
         \A r \in 1 .. cfg.world : TrainedOn(trained[r], batch, First(cfg, r), 1 .. Share(cfg)),
         NEW i \in 1 .. Rows(cfg)
  PROVE  Cardinality({p \in (1 .. cfg.world) \X (1 .. Rows(cfg)) :
            /\ IsCollect(p[1]) /\ p[2] \in DOMAIN trained[p[1]]
            /\ trained[p[1]][p[2]] = batch["response"][i]}) = 1
<1> DEFINE R == 1 .. cfg.world
           n == Rows(cfg)
           m == Share(cfg)
           b == Groups(cfg)
           v(p) == batch["response"][p]
           Q == {p \in R \X (1 .. n) : /\ IsCollect(p[1]) /\ p[2] \in DOMAIN trained[p[1]]
                                       /\ trained[p[1]][p[2]] = v(i)}
<1>1. Sound(cfg) /\ Trains(cfg) /\ MiniBatched(cfg)
  BY ConfigFacts, MiniFacts
<1>2. /\ b \in Nat \ {0} /\ m \in Nat \ {0} /\ n = b * m /\ n \in Nat /\ m <= n
  <2>1. b \in Nat \ {0} /\ m \in Nat \ {0} /\ n = b * m /\ n \in Nat
    BY <1>1 DEF Sound, Trains
  <2> HIDE DEF b, m, n
  <2>2. m <= b * m
    BY <2>1
  <2> QED
    BY <2>1, <2>2
<1>3. \A p, q \in 1 .. n : v(p) = v(q) => p = q
  BY DEF Full, Coherent
<1>4. Mesh(cfg)
  BY <1>1, MeshFacts
<1>5. \A r \in R : First(cfg, r) = (GroupNo(cfg, r) - 1) * m /\ GroupNo(cfg, r) \in 1 .. b
  BY <1>4 DEF First, Mesh
<1>6. \A r \in R : IsCollect(r) <=> Leads(cfg, r)
  BY DEF IsCollect, Leads
<1>7. Places(m, b)
  BY <1>2, PlacesFacts
<1>8. ASSUME NEW r \in R
      PROVE  /\ trained[r] \in Seq(Range(trained[r]))
             /\ \A x, y \in DOMAIN trained[r] : trained[r][x] = trained[r][y] => x = y
             /\ \A x \in DOMAIN trained[r] : \E p \in 1 .. m : trained[r][x] = v(First(cfg, r) + p)
             /\ \A p \in 1 .. m : \E x \in DOMAIN trained[r] : trained[r][x] = v(First(cfg, r) + p)
  BY DEF TrainedOn
<1>9. \A r \in R : \A p \in 1 .. m : First(cfg, r) + p = Place(m, GroupNo(cfg, r) - 1, p)
                                     /\ First(cfg, r) + p \in 1 .. n
  <2> SUFFICES ASSUME NEW r \in R, NEW p \in 1 .. m
               PROVE  First(cfg, r) + p = Place(m, GroupNo(cfg, r) - 1, p) /\ First(cfg, r) + p \in 1 .. n
    OBVIOUS
  <2>1. First(cfg, r) + p = Place(m, GroupNo(cfg, r) - 1, p)
    BY <1>5 DEF Place
  <2>2. GroupNo(cfg, r) - 1 \in 0 .. b - 1
    <3> DEFINE g == GroupNo(cfg, r)
    <3>1. g \in 1 .. b /\ b \in Nat
      BY <1>2, <1>5
    <3> HIDE DEF g, b
    <3> QED
      BY <3>1 DEF g
  <2> HIDE DEF m, b, n
  <2>3. Place(m, GroupNo(cfg, r) - 1, p) \in 1 .. b * m
    BY <1>7, <2>2 DEF Places
  <2> QED
    BY <1>2, <2>1, <2>3
<1> HIDE DEF v, n, m, b
\* Its group and place there, and the leader of the group.
<1>10. PICK h \in 0 .. b - 1 : \E a \in 1 .. m : i = Place(m, h, a)
  <2>1. i \in 1 .. b * m
    BY <1>2 DEF n
  <2> QED
    BY <1>7, <2>1 DEF Places
<1>11. PICK a \in 1 .. m : i = Place(m, h, a)
  BY <1>10
<1>12. h + 1 \in 1 .. b
  BY <1>2
<1>13. PICK r \in R : GroupNo(cfg, r) = h + 1 /\ Leads(cfg, r)
  BY <1>4, <1>12 DEF Mesh, b
<1>14. First(cfg, r) + a = i
  <2>1. GroupNo(cfg, r) - 1 = h
    BY <1>13
  <2> QED
    BY <1>9, <1>11, <1>13, <2>1
<1>15. PICK j \in DOMAIN trained[r] : trained[r][j] = v(i)
  BY <1>8, <1>13, <1>14
\* The sequence has no more elements than the batch.
<1>16. \A q \in R : DOMAIN trained[q] \subseteq 1 .. n
  <2> SUFFICES ASSUME NEW q \in R PROVE DOMAIN trained[q] \subseteq 1 .. n
    OBVIOUS
  <2> DEFINE s == trained[q]
             l == Len(s)
             f == [x \in 1 .. l |-> CHOOSE p \in 1 .. m : s[x] = v(First(cfg, q) + p)]
  <2>1. l \in Nat /\ DOMAIN s = 1 .. l
    BY <1>8, SeqElement
  <2>2. \A x \in 1 .. l : f[x] \in 1 .. m /\ s[x] = v(First(cfg, q) + f[x])
    <3> SUFFICES ASSUME NEW x \in 1 .. l
                 PROVE  f[x] \in 1 .. m /\ s[x] = v(First(cfg, q) + f[x])
      OBVIOUS
    <3> DEFINE c == CHOOSE p \in 1 .. m : s[x] = v(First(cfg, q) + p)
    <3>1. \E p \in 1 .. m : s[x] = v(First(cfg, q) + p)
      BY <1>8, <2>1
    <3>2. c \in 1 .. m /\ s[x] = v(First(cfg, q) + c)
      BY <3>1
    <3>3. f[x] = c
      OBVIOUS
    <3> QED
      BY <3>2, <3>3
  <2>3. f \in [1 .. l -> 1 .. m]
    BY <2>2
  <2>4. \A x, y \in 1 .. l : f[x] = f[y] => x = y
    <3> SUFFICES ASSUME NEW x \in 1 .. l, NEW y \in 1 .. l, f[x] = f[y] PROVE x = y
      OBVIOUS
    <3> HIDE DEF f, l
    <3>1. s[x] = s[y]
      BY <2>2
    <3>2. x \in DOMAIN s /\ y \in DOMAIN s
      BY <2>1
    <3> QED
      BY <1>8, <3>1, <3>2
  <2> HIDE DEF f, l
  <2>5. IsFiniteSet(1 .. m) /\ Cardinality(1 .. m) = m /\ Cardinality(1 .. l) = l
    BY <1>2, <2>1, IntervalCount
  <2>6. Cardinality(1 .. l) <= Cardinality(1 .. m)
    BY <2>3, <2>4, <2>5, InjectionBound
  <2>7. l <= n
    BY <1>2, <2>1, <2>5, <2>6
  <2> QED
    BY <1>2, <2>1, <2>7
<1>17. <<r, j>> \in Q
  <2>1. IsCollect(r)
    BY <1>6, <1>13
  <2>2. j \in 1 .. n
    BY <1>13, <1>15, <1>16
  <2> QED
    BY <1>13, <1>15, <2>1, <2>2
<1>18. ASSUME NEW q \in R, NEW x \in DOMAIN trained[q], Leads(cfg, q), trained[q][x] = v(i)
       PROVE  q = r /\ x = j
  <2>1. PICK p \in 1 .. m : trained[q][x] = v(First(cfg, q) + p)
    BY <1>8
  <2>2. v(First(cfg, q) + p) = v(i)
    BY <1>18, <2>1
  <2>3. First(cfg, q) + p = i
    <3>1. First(cfg, q) + p \in 1 .. n /\ i \in 1 .. n
      BY <1>9 DEF n
    <3> QED
      BY <1>3, <2>2, <3>1 DEF v
  <2>4. Place(m, GroupNo(cfg, q) - 1, p) = Place(m, h, a)
    BY <1>9, <1>11, <2>3
  <2>5. GroupNo(cfg, q) - 1 \in 0 .. b - 1
    BY <1>2, <1>5
  <2>6. GroupNo(cfg, q) - 1 = h
    BY <1>7, <2>4, <2>5 DEF Places
  <2>7. GroupNo(cfg, q) = GroupNo(cfg, r)
    <3>1. GroupNo(cfg, q) \in Int
      BY <1>5
    <3> QED
      BY <1>13, <2>6, <3>1
  <2>8. q = r
    BY <1>4, <1>13, <1>18, <2>7 DEF Mesh
  <2> QED
    BY <1>8, <1>15, <1>18, <2>8
<1>19. \A z \in Q : z = <<r, j>>
  <2> SUFFICES ASSUME NEW z \in Q PROVE z = <<r, j>>
    OBVIOUS
  <2>1. /\ z = <<z[1], z[2]>> /\ z[1] \in R /\ IsCollect(z[1])
        /\ z[2] \in DOMAIN trained[z[1]] /\ trained[z[1]][z[2]] = v(i)
    OBVIOUS
  <2>2. Leads(cfg, z[1])
    BY <1>6, <2>1
  <2>3. z[1] = r /\ z[2] = j
    BY <1>18, <2>1, <2>2
  <2> QED
    BY <2>1, <2>3
<1>20. Q = {<<r, j>>}
  <2> HIDE DEF Q
  <2> QED
    BY <1>17, <1>19
<1> HIDE DEF Q
<1>21. Cardinality(Q) = 1
  BY <1>20, FS_Singleton
<1> QED
  BY <1>21 DEF Q, n, v

\* What the ranks have trained on at the end.
LEMMA IInvTrainsOnce == ASSUME IInv PROVE EveryRowTrainsOnce
<1> SUFFICES ASSUME pc = "done", ~ cfg.validate
             PROVE  /\ \A r, q \in 1 .. cfg.world : DPRank(r) = DPRank(q) => trained[r] = trained[q]
                    /\ \A i \in 1 .. Size(batch) :
                          Cardinality({p \in (1 .. cfg.world) \X (1 .. Size(batch)) :
                              /\ IsCollect(p[1]) /\ p[2] \in DOMAIN trained[p[1]]
                              /\ trained[p[1]][p[2]] = batch["response"][i]}) = 1
  BY DEF EveryRowTrainsOnce, Ranks
<1>1. cfg \in Configs
  BY DEF IInv
<1>2. /\ Full(batch, cfg) /\ TrainedAlike(trained, cfg)
      /\ \A r \in 1 .. cfg.world : TrainedOn(trained[r], batch, First(cfg, r), 1 .. Share(cfg))
  BY PhaseOf DEF Done
<1>3. Size(batch) = Rows(cfg)
  <2>1. Columns # {}
    BY DEF Columns
  <2>2. Rows(cfg) \in Nat
    BY <1>1, ConfigFacts DEF Sound
  <2>3. Data(batch, Columns, Rows(cfg))
    BY <1>2 DEF Full
  <2> QED
    BY <2>1, <2>2, <2>3, SizeFacts
<1>4. \A r, q \in 1 .. cfg.world : DPRank(r) = DPRank(q) => trained[r] = trained[q]
  BY <1>2 DEF TrainedAlike, DPRank, GroupNo
<1> QED
  BY <1>1, <1>2, <1>3, <1>4, TrainsOnce

-----------------------------------------------------------------------------
\* The inductive invariant is one.
LEMMA Invariance == Spec => []IInv
<1>1. Init => IInv
  BY IInvInit
<1>2. IInv /\ [Next]_vars => IInv'
  BY IInvStep
<1> QED
  BY <1>1, <1>2, PTL DEF Spec

\* In every configuration and every order of the workers' answers, what was
\* generated, scored and computed for a row stays with that row: through the
\* padding, the chunks, the repetition, the reordering by _balance_batch, the
\* micro-batches and the way back.
THEOREM RowsStay == Spec => []RowsStayTogether
<1>1. IInv => RowsStayTogether
  BY IInvRows
<1> QED
  BY <1>1, Invariance, PTL

\* The ranks go through as many micro-batches each, which their collectives
\* need, and the ranks of one data-parallel group through the same ones.
THEOREM RanksAgree == Spec => []MicroBatchesAgree
<1>1. IInv => MicroBatchesAgree
  BY IInvAgree
<1> QED
  BY <1>1, Invariance, PTL

\* Two responses to a prompt have advantages that differ as their scores do,
\* and the weighted advantages of a group add up to zero.
THEOREM AdvantagesRelative == Spec => []AdvantagesAreGroupRelative
<1>1. IInv => AdvantagesAreGroupRelative
  BY IInvAdvantages
<1> QED
  BY <1>1, Invariance, PTL

\* The loads of the ranks differ by no more than two neighbouring workloads,
\* and those of the dynamic micro-batches of a rank by no more than one
\* workload.
THEOREM LoadsBalanced == Spec => []LoadsAreBalanced
<1>1. IInv => LoadsAreBalanced
  BY IInvLoads
<1> QED
  BY <1>1, Invariance, PTL

\* When an iteration is over, the ranks of a group have trained on the same
\* responses, and each row of the batch has been trained on by the ranks of
\* one group, once.
THEOREM RowsTrainOnce == Spec => []EveryRowTrainsOnce
<1>1. IInv => EveryRowTrainsOnce
  BY IInvTrainsOnce
<1> QED
  BY <1>1, Invariance, PTL

=============================================================================
