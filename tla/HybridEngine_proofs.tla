------------------------- MODULE HybridEngine_proofs -------------------------
(***************************************************************************)
(* The invariants of HybridEngine, for every set of ranks, every number of *)
(* steps and every set of configurations.                                  *)
(*                                                                         *)
(* Every program takes its steps in one order (Place), and so do the calls *)
(* of an iteration (CallPlace): the invariants say, from the set of steps  *)
(* that are left (Left), what has been done and what is still to come.     *)
(* SafeInv holds with every setting; CurrentInv with those that work as    *)
(* documented.                                                             *)
(***************************************************************************)
EXTENDS HybridEngine, TLAPS

(***************************************************************************)
(* Sequences of names in order.  A program and an iteration are            *)
(* concatenations of parts that may be missing; place says where a name    *)
(* stands, 0 stands for names that may be repeated.                        *)
(***************************************************************************)
Before(place, x, y) == place[x] < place[y] \/ (place[x] = 0 /\ place[y] = 0)

Ordered(place, s) ==
    /\ s \in Seq(DOMAIN place)
    /\ \A i, j \in DOMAIN s : i < j => Before(place, s[i], s[j])

Contents(s) == {s[i] : i \in DOMAIN s}

\* s is in order, has the contents S, and they stand from lo to hi
Block(place, s, S, lo, hi) ==
    /\ Ordered(place, s) /\ Contents(s) = S
    /\ \A x \in S : lo <= place[x] /\ place[x] <= hi

Opt(b, x) == IF b THEN {x} ELSE {}

-----------------------------------------------------------------------------
(* The steps of a rank, in the order in which they occur in every program. *)
Work == {"gather", "compute", "update", "save", "load"}
StepNames ==
    Work \cup {"load_params", "load_optimizer", "offload_params", "offload_optimizer",
               "build_rollout", "resume_weights", "update_base", "update_weights",
               "resume_kv", "to_gen_states", "generate", "release", "to_torch_states"}

Place == [s \in StepNames |->
    CASE s = "load_params"       -> 1
      [] s = "load_optimizer"    -> 2
      [] s \in Work              -> 3
      [] s = "offload_params"    -> 4
      [] s = "offload_optimizer" -> 5
      [] s = "build_rollout"     -> 6
      [] s = "resume_weights"    -> 7
      [] s = "update_base"       -> 8
      [] s = "update_weights"    -> 9
      [] s = "resume_kv"         -> 10
      [] s = "to_gen_states"     -> 11
      [] s = "generate"          -> 12
      [] s = "release"           -> 13
      [] s = "to_torch_states"   -> 14]

RolloutSteps ==
    Opt(cfg.offload, "load_params") \cup {"gather"} \cup Opt(cfg.offload, "offload_params")
    \cup Opt(cfg.free_cache, "resume_weights") \cup Opt(cfg.lora /\ cfg.level2, "update_base")
    \cup {"update_weights"} \cup Opt(cfg.free_cache, "resume_kv") \cup {"to_gen_states"}

TrainerSteps == Opt(cfg.free_cache, "release") \cup {"to_torch_states"}

WithParamsSteps(s) ==
    Opt(cfg.offload, "load_params") \cup {s} \cup Opt(cfg.offload, "offload_params")

\* the steps of a call
StepsOf(c) ==
    CASE c = "init_model" ->
            Opt(cfg.offload, "offload_params") \cup Opt(cfg.offload, "offload_optimizer")
            \cup {"build_rollout"} \cup (IF cfg.async THEN {} ELSE TrainerSteps)
      [] c = "load_checkpoint" ->
            (IF cfg.resumed THEN WithParamsSteps("load") ELSE Opt(cfg.offload, "offload_params"))
            \cup Opt(cfg.offload, "offload_optimizer")
      [] c = "generate_sequences" -> RolloutSteps \cup {"generate"} \cup TrainerSteps
      [] c = "wake_up"            -> RolloutSteps
      [] c = "generate"           -> {"generate"}
      [] c = "sleep"              -> TrainerSteps
      [] c = "compute_log_prob"   -> WithParamsSteps("compute")
      [] c = "ref_log_prob"       -> IF cfg.lora THEN WithParamsSteps("compute") ELSE {}
      [] c = "update_actor"       ->
            Opt(cfg.offload, "load_params") \cup Opt(cfg.offload, "load_optimizer")
            \cup {"update"} \cup Opt(cfg.offload, "offload_params")
            \cup Opt(cfg.offload, "offload_optimizer")
      [] c = "save_checkpoint"    -> WithParamsSteps("save")
      [] OTHER                    -> {}

Left(r) == Contents(todo[r])

-----------------------------------------------------------------------------
(* The calls of the driver.  With free_cache a call leaves the engine awake *)
(* exactly if the next one needs it awake.                                  *)
FreeCalls == {"init_model", "load_checkpoint", "generate_sequences", "wake_up", "generate",
              "sleep", "save_checkpoint"}
CallNames ==
    FreeCalls \cup {"new_batch", "compute_log_prob", "prepare_ref_inputs", "ref_log_prob",
                    "base_ref_log_prob", "base_log_prob", "update_actor"}

CallPlace == [c \in CallNames |->
    CASE c \in FreeCalls           -> 0
      [] c = "new_batch"           -> 1
      [] c = "compute_log_prob"    -> 2
      [] c = "prepare_ref_inputs"  -> 3
      [] c = "ref_log_prob"        -> 4
      [] c = "base_ref_log_prob"   -> 5
      [] c = "base_log_prob"       -> 6
      [] c = "update_actor"        -> 7]

NeedsEngine == {"generate", "sleep"}
Generations == {"wake_up", "generate_sequences"}

\* init_model comes first, load_checkpoint last; with free_cache the engine is
\* woken before generate and put to sleep after it
Chained(s) ==
    \A i \in DOMAIN s :
        /\ s[i] = "init_model" => i = 1
        /\ s[i] = "load_checkpoint" => i = Len(s)
        /\ s[i] \in {"generate", "sleep", "wake_up"} => cfg.async
        /\ s[i] \in {"sleep", "wake_up"} => cfg.free_cache
        /\ s[i] = "generate_sequences" => ~cfg.async
        /\ cfg.free_cache =>
             /\ s[i] = "wake_up" <=> (i < Len(s) /\ s[i + 1] = "generate")
             /\ s[i] = "generate" \/ (s[i] = "init_model" /\ cfg.async)
                   <=> (i < Len(s) /\ s[i + 1] = "sleep")

NextIs(S) == calls # <<>> /\ Head(calls) \in S
Starting == NextIs({"init_model"})
ToCall == Contents(calls)

-----------------------------------------------------------------------------
(* The invariant. *)
Types ==
    /\ cfg \in Configs
    /\ actor \in [Ranks -> [version : Nat, params : {"gpu", "cpu"}, optimizer : {"gpu", "cpu"},
                            gathered : Nat, base_sync_done : BOOLEAN]]
    /\ engine \in [Ranks -> [weights_awake : BOOLEAN, kv_awake : BOOLEAN,
                             base : {"none", "junk", "good"}, version : Nat]]
    /\ random \in [Ranks -> [device : Nat \X Nat, torch : Nat \X Nat, gen : Nat \X Nat]]
    /\ DOMAIN todo = Ranks /\ DOMAIN prefix = Ranks
    /\ batch \in [ref_inputs : BOOLEAN, old : {"none", "actor", "ref"}, version : Int,
                  ref : {"none", "actor", "ref"}, base : {"none", "actor", "ref"},
                  base_ref : {"none", "actor", "ref"}]

OrderInv ==
    /\ \A r \in Ranks : Ordered(Place, todo[r])
    /\ Ordered(CallPlace, calls) /\ Chained(calls)

\* what is left belongs to one program, and comes in the right state of the engine
LeftOf(r) ==
    /\ Left(r) # {} => ~Starting
    /\ "build_rollout" \in Left(r) => Left(r) \cap {"to_gen_states", "resume_kv", "generate"} = {}
    /\ "resume_kv" \in Left(r) => "to_gen_states" \in Left(r)
    /\ "to_gen_states" \in Left(r) =>
          "to_torch_states" \in Left(r)
          \/ (cfg.async /\ ("resume_kv" \in Left(r) \/ engine[r].kv_awake))
    /\ "generate" \in Left(r) => "to_torch_states" \in Left(r) \/ (cfg.async /\ engine[r].kv_awake)
    /\ "release" \in Left(r) => "to_torch_states" \in Left(r) /\ cfg.free_cache
    /\ Left(r) \cap {"update", "load"} # {} =>
         /\ calls = <<>>
         /\ Left(r) \cap {"build_rollout", "resume_kv", "to_gen_states", "generate", "release",
                         "to_torch_states"} = {}
    /\ cfg.free_cache
       /\ Left(r) \cap {"update", "load", "offload_params", "offload_optimizer"} # {} =>
          ~engine[r].kv_awake

\* whether the KV cache will be there at the end of the call
WillBeAwake(r) ==
    /\ "release" \notin Left(r)
    /\ "resume_kv" \in Left(r) \/ "build_rollout" \in Left(r) \/ engine[r].kv_awake

EngineOf(r) ==
    /\ cfg.free_cache => (WillBeAwake(r) <=> NextIs(NeedsEngine))
    /\ ~cfg.free_cache => engine[r].kv_awake \/ Starting \/ "build_rollout" \in Left(r)

Unused(r) ==
    /\ ~engine[r].kv_awake /\ ~engine[r].weights_awake /\ engine[r].base = "none"
    /\ actor[r].version = 0 /\ prefix[r] = {}
    /\ random[r].device = <<0, 0>> /\ random[r].torch = <<0, 0>> /\ random[r].gen = <<0, 0>>

StartOf(r) == Starting \/ "build_rollout" \in Left(r) => Unused(r)

\* the device holds the random state of the generation
Generating(r) ==
    /\ "to_torch_states" \in Left(r) \/ (cfg.async /\ engine[r].kv_awake)
    /\ "to_gen_states" \notin Left(r)

RandomOf(r) ==
    (cfg.async => cfg.free_cache) =>
        IF Generating(r) THEN random[r].torch = <<0, actor[r].version>>
                         ELSE random[r].device = <<0, actor[r].version>>

MemoryOf(r) ==
    /\ Left(r) \cap Work # {} => "load_params" \in Left(r) \/ actor[r].params = "gpu"
    /\ "update" \in Left(r) => "load_optimizer" \in Left(r) \/ actor[r].optimizer = "gpu"
    /\ cfg.offload /\ ~Starting =>
         /\ "load_params" \in Left(r) \/ actor[r].params = "gpu" => "offload_params" \in Left(r)
         /\ "load_optimizer" \in Left(r) \/ actor[r].optimizer = "gpu" =>
               "offload_optimizer" \in Left(r)
    /\ ~cfg.offload => /\ actor[r].params = "gpu" /\ actor[r].optimizer = "gpu"
                       /\ Left(r) \cap {"offload_params", "offload_optimizer"} = {}

\* the version of the actor at the end of the call
FinalVersion(r) ==
    IF "load" \in Left(r) THEN 1
    ELSE IF "update" \in Left(r) THEN actor[r].version + 1 ELSE actor[r].version

RankInv(r) == LeftOf(r) /\ EngineOf(r) /\ StartOf(r) /\ RandomOf(r) /\ MemoryOf(r)

VersionInv == \A r, q \in Ranks : FinalVersion(r) = FinalVersion(q)

-----------------------------------------------------------------------------
RefInputs == IF cfg.ref_inputs THEN "ref" ELSE "actor"

\* the batch of an iteration that will update the actor: every column is still to
\* be computed or is what it should be
PlanInv ==
    "new_batch" \in ToCall =>
        /\ {"compute_log_prob", "ref_log_prob"} \subseteq ToCall
        /\ "prepare_ref_inputs" \in ToCall <=> cfg.ref_inputs
        /\ cfg.base => {"base_ref_log_prob", "base_log_prob"} \subseteq ToCall

Updates(r) == "update_actor" \in ToCall \/ "update" \in Left(r)

BatchOf(r) ==
    "new_batch" \notin ToCall /\ Updates(r) =>
        /\ "prepare_ref_inputs" \in ToCall => cfg.ref_inputs /\ ~batch.ref_inputs
        /\ "prepare_ref_inputs" \notin ToCall => batch.ref_inputs = cfg.ref_inputs
        /\ "compute_log_prob" \in ToCall => ("prepare_ref_inputs" \in ToCall <=> cfg.ref_inputs)
        /\ "compute_log_prob" \notin ToCall => batch.old = "actor" /\ batch.version = actor[r].version
        /\ "ref_log_prob" \notin ToCall => batch.ref = RefInputs
        /\ cfg.base /\ "base_ref_log_prob" \notin ToCall => batch.base_ref = RefInputs
        /\ cfg.base /\ "base_log_prob" \notin ToCall => batch.base = "actor"

-----------------------------------------------------------------------------
(* With the settings that work as documented. *)
WorksAsDocumented ==
    \A c \in Configs : (c.async \/ c.prefix => c.free_cache) /\ ~(c.lora /\ c.dummy /\ c.resumed)

\* the engine is awake when it generates and asleep when the trainer runs
AwakeOf(r) ==
    /\ engine[r].kv_awake => engine[r].weights_awake
    /\ "resume_kv" \in Left(r) => "resume_weights" \in Left(r) \/ engine[r].weights_awake
    /\ "generate" \in Left(r) => "resume_kv" \in Left(r) \/ engine[r].kv_awake
    /\ "to_torch_states" \in Left(r) /\ cfg.free_cache => ~WillBeAwake(r)
    /\ Starting \/ "build_rollout" \in Left(r) \/ engine[r].base # "none"

\* dummy weights and weights put to sleep at level 2 are replaced before they are used
BaseOf(r) ==
    /\ Starting \/ "build_rollout" \in Left(r) => actor[r].base_sync_done = ~cfg.dummy
    /\ "build_rollout" \in Left(r) => ~NextIs({"generate"})
    /\ "update_weights" \in Left(r) => "to_gen_states" \in Left(r)
    /\ ~cfg.level2 /\ actor[r].base_sync_done => engine[r].base # "junk"
    /\ "update_weights" \in Left(r) /\ cfg.lora /\ cfg.level2 =>
          "update_base" \in Left(r) \/ engine[r].base = "good"
    /\ "to_gen_states" \in Left(r) => "update_weights" \in Left(r) \/ engine[r].base = "good"
    /\ "generate" \in Left(r) \/ NextIs({"generate"}) =>
          "to_gen_states" \in Left(r) \/ engine[r].base = "good"

\* the actor's version reaches the engine; as long as a LoRA actor has sent its base
\* only, its adapter has not been trained
SentOf(r) ==
    /\ "update_weights" \in Left(r) => "gather" \in Left(r) \/ actor[r].gathered = actor[r].version
    /\ "to_gen_states" \in Left(r) =>
          "update_weights" \in Left(r) \/ engine[r].version = actor[r].version
    /\ "generate" \in Left(r) \/ NextIs({"generate"}) =>
          "to_gen_states" \in Left(r) \/ engine[r].version = actor[r].version
    /\ ~actor[r].base_sync_done => cfg.dummy
    /\ cfg.lora /\ ~actor[r].base_sync_done =>
         /\ actor[r].version = 0 /\ engine[r].version = 0
         /\ Left(r) \cap {"update", "load"} = {}
         /\ "update_actor" \in ToCall =>
               ToCall \cap Generations # {} \/ "to_gen_states" \in Left(r)

\* the prefix cache is of the actor's version
PrefixOf(r) ==
    /\ {"generate", "release"} \subseteq Left(r) => ~cfg.async
    /\ prefix[r] # {} =>
         /\ cfg.prefix /\ engine[r].kv_awake /\ prefix[r] = {actor[r].version}
         /\ "release" \in Left(r) => ~cfg.async

CurrentOf(r) == AwakeOf(r) /\ BaseOf(r) /\ SentOf(r) /\ PrefixOf(r)

\* the random state of the generation, now and at the end of the call
GenState(r) == IF Generating(r) THEN random[r].device ELSE random[r].gen

FinalGen(r) ==
    IF "generate" \in Left(r) THEN <<GenState(r)[1] + 1, GenState(r)[2]>> ELSE GenState(r)

GenInv == \A r, q \in Ranks : FinalGen(r) = FinalGen(q)

-----------------------------------------------------------------------------
(* Sequences. *)

LEMMA EmptyBlock ==
    ASSUME NEW place, NEW lo, NEW hi
    PROVE  Block(place, <<>>, {}, lo, hi)
BY DEF Block, Ordered, Contents

LEMMA OneBlock ==
    ASSUME NEW place, place \in [DOMAIN place -> Nat], NEW x \in DOMAIN place
    PROVE  Block(place, <<x>>, {x}, place[x], place[x])
<1>1. /\ <<x>> \in Seq(DOMAIN place) /\ DOMAIN <<x>> = {1} /\ <<x>>[1] = x
      /\ place[x] \in Nat
  OBVIOUS
<1>2. Contents(<<x>>) = {x}
  BY <1>1 DEF Contents
<1>3. QED
  BY <1>1, <1>2 DEF Block, Ordered

LEMMA OptBlock ==
    ASSUME NEW place, place \in [DOMAIN place -> Nat], NEW x \in DOMAIN place, NEW b \in BOOLEAN
    PROVE  Block(place, If(b, x), Opt(b, x), place[x], place[x])
<1>1. CASE b
  BY <1>1, OneBlock DEF If, Opt
<1>2. CASE ~b
  BY <1>2, EmptyBlock DEF If, Opt
<1>3. QED
  BY <1>1, <1>2

LEMMA CatValues ==
    ASSUME NEW S, NEW a \in Seq(S), NEW b \in Seq(S)
    PROVE  /\ a \o b \in Seq(S) /\ Len(a) \in Nat /\ Len(b) \in Nat
           /\ Len(a \o b) = Len(a) + Len(b)
           /\ DOMAIN a = 1 .. Len(a) /\ DOMAIN b = 1 .. Len(b)
           /\ DOMAIN (a \o b) = 1 .. Len(a) + Len(b)
           /\ \A i \in DOMAIN a : (a \o b)[i] = a[i] /\ i \in DOMAIN (a \o b)
           /\ \A i \in DOMAIN b : (a \o b)[i + Len(a)] = b[i] /\ i + Len(a) \in DOMAIN (a \o b)
<1>1. /\ a \o b \in Seq(S) /\ Len(a) \in Nat /\ Len(b) \in Nat
      /\ Len(a \o b) = Len(a) + Len(b)
      /\ DOMAIN a = 1 .. Len(a) /\ DOMAIN b = 1 .. Len(b)
      /\ DOMAIN (a \o b) = 1 .. Len(a) + Len(b)
  OBVIOUS
<1>2. ASSUME NEW i \in DOMAIN a
      PROVE  (a \o b)[i] = a[i] /\ i \in DOMAIN (a \o b)
  <2>1. i \in Nat /\ 1 <= i /\ i <= Len(a)
    BY <1>1
  <2>2. i \in 1 .. Len(a) + Len(b)
    BY <1>1, <2>1
  <2>3. (a \o b)[i] = a[i]
    BY <2>1
  <2>4. QED
    BY <1>1, <2>2, <2>3
<1>3. ASSUME NEW i \in DOMAIN b
      PROVE  (a \o b)[i + Len(a)] = b[i] /\ i + Len(a) \in DOMAIN (a \o b)
  <2>1. i \in Nat /\ 1 <= i /\ i <= Len(b)
    BY <1>1
  <2>2. i + Len(a) \in 1 .. Len(a) + Len(b)
    BY <1>1, <2>1
  <2>3. (a \o b)[i + Len(a)] = b[i]
    BY <2>1
  <2>4. QED
    BY <1>1, <2>2, <2>3
<1>4. QED
  BY <1>1, <1>2, <1>3

LEMMA CatBlock ==
    ASSUME NEW place, place \in [DOMAIN place -> Nat],
           NEW a, NEW S, NEW lo \in Nat, NEW m \in Nat, Block(place, a, S, lo, m),
           NEW b, NEW T, NEW n \in Nat, NEW hi \in Nat, Block(place, b, T, n, hi),
           lo <= n, m <= hi, m < n \/ m = 0
    PROVE  Block(place, a \o b, S \cup T, lo, hi)
<1>0. a \in Seq(DOMAIN place) /\ b \in Seq(DOMAIN place)
  BY DEF Block, Ordered
<1>1. /\ a \o b \in Seq(DOMAIN place) /\ Len(a) \in Nat /\ Len(b) \in Nat
      /\ Len(a \o b) = Len(a) + Len(b)
      /\ DOMAIN a = 1 .. Len(a) /\ DOMAIN b = 1 .. Len(b)
      /\ DOMAIN (a \o b) = 1 .. Len(a) + Len(b)
  BY <1>0, CatValues
<1>2. /\ \A i \in DOMAIN a : (a \o b)[i] = a[i] /\ i \in DOMAIN (a \o b)
      /\ \A i \in DOMAIN b : (a \o b)[i + Len(a)] = b[i] /\ i + Len(a) \in DOMAIN (a \o b)
  BY <1>0, CatValues
<1>3. \A i \in DOMAIN (a \o b) :
          \/ i \in DOMAIN a
          \/ i > Len(a) /\ i - Len(a) \in DOMAIN b /\ i = (i - Len(a)) + Len(a)
  BY <1>1
<1>4. Contents(a) = S /\ Contents(b) = T
  BY DEF Block
<1>5. Contents(a \o b) \subseteq S \cup T
  BY <1>2, <1>3, <1>4 DEF Contents
<1>6. S \cup T \subseteq Contents(a \o b)
  BY <1>2, <1>4 DEF Contents
<1>7. /\ \A x \in S : place[x] \in Nat /\ lo <= place[x] /\ place[x] <= m
      /\ \A x \in T : place[x] \in Nat /\ n <= place[x] /\ place[x] <= hi
  <2>1. S \subseteq DOMAIN place /\ T \subseteq DOMAIN place
    BY <1>0, <1>4 DEF Contents
  <2>2. QED
    BY <2>1 DEF Block
<1>8. \A x \in S \cup T : lo <= place[x] /\ place[x] <= hi
  BY <1>7
<1>9. ASSUME NEW i \in DOMAIN (a \o b), NEW j \in DOMAIN (a \o b), i < j
      PROVE  Before(place, (a \o b)[i], (a \o b)[j])
  <2>1. i \in Nat /\ j \in Nat
    BY <1>1
  <2>2. CASE j \in DOMAIN a
    <3>1. i \in DOMAIN a
      BY <1>1, <1>9, <2>1, <2>2
    <3>2. Before(place, a[i], a[j])
      BY <1>9, <2>2, <3>1 DEF Block, Ordered
    <3>3. QED
      BY <1>2, <2>2, <3>1, <3>2
  <2>3. CASE i \in DOMAIN a /\ j \notin DOMAIN a
    <3>1. a[i] \in S /\ b[j - Len(a)] \in T
      BY <1>3, <1>4, <2>3 DEF Contents
    <3>2. (a \o b)[i] = a[i] /\ (a \o b)[j] = b[j - Len(a)]
      BY <1>2, <1>3, <2>3
    <3>3. ASSUME NEW x \in S, NEW y \in T
          PROVE  Before(place, x, y)
      <4>1. place[x] \in Nat /\ place[y] \in Nat /\ place[x] <= m /\ n <= place[y]
        BY <1>7
      <4>2. place[x] < place[y] \/ (place[x] = 0 /\ place[y] = 0)
        BY <4>1
      <4>3. QED
        BY <4>2 DEF Before
    <3>4. QED
      BY <3>1, <3>2, <3>3
  <2>4. CASE i \notin DOMAIN a /\ j \notin DOMAIN a
    <3>1. PICK k \in DOMAIN b : k = i - Len(a) /\ (a \o b)[i] = b[k]
      BY <1>2, <1>3, <2>4
    <3>2. PICK l \in DOMAIN b : l = j - Len(a) /\ (a \o b)[j] = b[l]
      BY <1>2, <1>3, <2>4
    <3>3. k < l
      BY <1>1, <1>9, <2>1, <3>1, <3>2
    <3>4. QED
      BY <3>1, <3>2, <3>3 DEF Block, Ordered
  <2>5. QED
    BY <1>3, <2>2, <2>3, <2>4
<1>10. QED
  BY <1>1, <1>4, <1>5, <1>6, <1>8, <1>9 DEF Block, Ordered

LEMMA WiderBlock ==
    ASSUME NEW place, place \in [DOMAIN place -> Nat], NEW s, NEW S,
           NEW lo \in Nat, NEW hi \in Nat, NEW l \in Nat, NEW h \in Nat,
           Block(place, s, S, lo, hi), l <= lo, hi <= h
    PROVE  Block(place, s, S, l, h)
<1>1. S \subseteq DOMAIN place
  BY DEF Block, Ordered, Contents
<1>2. \A x \in S : place[x] \in Nat /\ lo <= place[x] /\ place[x] <= hi
  BY <1>1 DEF Block
<1>3. QED
  BY <1>2 DEF Block

\* the head stands before what is left
LEMMA TailOrdered ==
    ASSUME NEW place, place \in [DOMAIN place -> Nat], NEW s, Ordered(place, s), s # <<>>
    PROVE  /\ Ordered(place, Tail(s)) /\ Head(s) \in DOMAIN place
           /\ Contents(s) = {Head(s)} \cup Contents(Tail(s))
           /\ \A x \in Contents(Tail(s)) : x \in DOMAIN place /\ Before(place, Head(s), x)
<1>1. /\ s \in Seq(DOMAIN place) /\ Len(s) \in Nat /\ Len(s) >= 1 /\ DOMAIN s = 1 .. Len(s)
      /\ Head(s) = s[1] /\ Tail(s) \in Seq(DOMAIN place) /\ Len(Tail(s)) = Len(s) - 1
      /\ DOMAIN Tail(s) = 1 .. Len(s) - 1
  BY DEF Ordered
<1>2. \A i \in DOMAIN Tail(s) : Tail(s)[i] = s[i + 1] /\ i + 1 \in DOMAIN s /\ 1 < i + 1 /\ i \in Nat
  BY <1>1
<1>3. \A i \in DOMAIN s : i = 1 \/ (i - 1 \in DOMAIN Tail(s) /\ (i - 1) + 1 = i)
  BY <1>1
<1>4. Contents(s) = {Head(s)} \cup Contents(Tail(s))
  BY <1>1, <1>2, <1>3 DEF Contents
<1>5. \A x \in Contents(Tail(s)) : x \in DOMAIN place /\ Before(place, Head(s), x)
  <2>1. ASSUME NEW i \in DOMAIN Tail(s)
        PROVE  Tail(s)[i] \in DOMAIN place /\ Before(place, Head(s), Tail(s)[i])
    <3>1. 1 \in DOMAIN s /\ i + 1 \in DOMAIN s /\ 1 < i + 1 /\ Tail(s)[i] = s[i + 1]
      BY <1>1, <1>2
    <3>2. Before(place, s[1], s[i + 1])
      BY <3>1 DEF Ordered
    <3>3. s[i + 1] \in DOMAIN place
      BY <1>1, <3>1
    <3>4. QED
      BY <1>1, <3>1, <3>2, <3>3
  <2>2. QED
    BY <2>1 DEF Contents
<1>6. Ordered(place, Tail(s))
  <2>1. ASSUME NEW i \in DOMAIN Tail(s), NEW j \in DOMAIN Tail(s), i < j
        PROVE  Before(place, Tail(s)[i], Tail(s)[j])
    <3>1. i + 1 < j + 1
      BY <1>2, <2>1
    <3>2. QED
      BY <1>2, <3>1 DEF Ordered
  <2>2. QED
    BY <1>1, <2>1 DEF Ordered
<1>7. QED
  BY <1>1, <1>4, <1>5, <1>6

LEMMA Pair ==
    ASSUME NEW x, NEW y
    PROVE  <<x>> \o <<y>> = <<x, y>>
<1> DEFINE s == <<x>> \o <<y>>
<1>1. s \in Seq({x, y}) /\ Len(s) = 2 /\ s[1] = x /\ s[2] = y
  OBVIOUS
<1> HIDE DEF s
<1>2. s = [i \in 1 .. 2 |-> s[i]]
  BY <1>1
<1>3. <<x, y>> = [i \in 1 .. 2 |-> <<x, y>>[i]]
  OBVIOUS
<1>4. s = <<x, y>>
  BY <1>1, <1>2, <1>3
<1>5. QED
  BY <1>4 DEF s

LEMMA Triple ==
    ASSUME NEW x, NEW y, NEW z
    PROVE  <<x>> \o <<y>> \o <<z>> = <<x, y, z>>
<1> DEFINE s == <<x, y>> \o <<z>>
<1>1. s \in Seq({x, y, z}) /\ Len(s) = 3 /\ s[1] = x /\ s[2] = y /\ s[3] = z
  OBVIOUS
<1> HIDE DEF s
<1>2. s = [i \in 1 .. 3 |-> s[i]]
  BY <1>1
<1>3. <<x, y, z>> = [i \in 1 .. 3 |-> <<x, y, z>>[i]]
  OBVIOUS
<1>4. s = <<x, y, z>>
  BY <1>1, <1>2, <1>3
<1>5. QED
  BY <1>4, Pair DEF s

LEMMA Neutral ==
    ASSUME NEW x
    PROVE  <<x>> \o <<>> = <<x>> /\ <<>> \o <<x>> = <<x>>
OBVIOUS

-----------------------------------------------------------------------------
(* Every program is a block. *)

LEMMA PlaceValues ==
    /\ Place \in [DOMAIN Place -> Nat] /\ DOMAIN Place = StepNames
    /\ "load_params" \in StepNames /\ Place["load_params"] = 1
    /\ "load_optimizer" \in StepNames /\ Place["load_optimizer"] = 2
    /\ "gather" \in StepNames /\ Place["gather"] = 3
    /\ "compute" \in StepNames /\ Place["compute"] = 3
    /\ "update" \in StepNames /\ Place["update"] = 3
    /\ "save" \in StepNames /\ Place["save"] = 3
    /\ "load" \in StepNames /\ Place["load"] = 3
    /\ "offload_params" \in StepNames /\ Place["offload_params"] = 4
    /\ "offload_optimizer" \in StepNames /\ Place["offload_optimizer"] = 5
    /\ "build_rollout" \in StepNames /\ Place["build_rollout"] = 6
    /\ "resume_weights" \in StepNames /\ Place["resume_weights"] = 7
    /\ "update_base" \in StepNames /\ Place["update_base"] = 8
    /\ "update_weights" \in StepNames /\ Place["update_weights"] = 9
    /\ "resume_kv" \in StepNames /\ Place["resume_kv"] = 10
    /\ "to_gen_states" \in StepNames /\ Place["to_gen_states"] = 11
    /\ "generate" \in StepNames /\ Place["generate"] = 12
    /\ "release" \in StepNames /\ Place["release"] = 13
    /\ "to_torch_states" \in StepNames /\ Place["to_torch_states"] = 14
BY DEF Place, StepNames, Work

LEMMA CallValues ==
    /\ CallPlace \in [DOMAIN CallPlace -> Nat] /\ DOMAIN CallPlace = CallNames
    /\ "init_model" \in CallNames /\ CallPlace["init_model"] = 0
    /\ "load_checkpoint" \in CallNames /\ CallPlace["load_checkpoint"] = 0
    /\ "generate_sequences" \in CallNames /\ CallPlace["generate_sequences"] = 0
    /\ "wake_up" \in CallNames /\ CallPlace["wake_up"] = 0
    /\ "generate" \in CallNames /\ CallPlace["generate"] = 0
    /\ "sleep" \in CallNames /\ CallPlace["sleep"] = 0
    /\ "save_checkpoint" \in CallNames /\ CallPlace["save_checkpoint"] = 0
    /\ "new_batch" \in CallNames /\ CallPlace["new_batch"] = 1
    /\ "compute_log_prob" \in CallNames /\ CallPlace["compute_log_prob"] = 2
    /\ "prepare_ref_inputs" \in CallNames /\ CallPlace["prepare_ref_inputs"] = 3
    /\ "ref_log_prob" \in CallNames /\ CallPlace["ref_log_prob"] = 4
    /\ "base_ref_log_prob" \in CallNames /\ CallPlace["base_ref_log_prob"] = 5
    /\ "base_log_prob" \in CallNames /\ CallPlace["base_log_prob"] = 6
    /\ "update_actor" \in CallNames /\ CallPlace["update_actor"] = 7
BY DEF CallPlace, CallNames, FreeCalls

LEMMA Switches ==
    ASSUME cfg \in Settings
    PROVE  /\ {cfg.async, cfg.free_cache, cfg.prefix, cfg.offload, cfg.lora, cfg.dummy, cfg.level2,
               cfg.resumed, cfg.remax, cfg.ref_inputs, cfg.base} \subseteq BOOLEAN
           /\ (cfg.lora /\ cfg.level2) \in BOOLEAN
BY DEF Settings

LEMMA RolloutBlock ==
    ASSUME cfg \in Settings
    PROVE  Block(Place, RolloutMode, RolloutSteps, 1, 11)
<1> DEFINE s1 == If(cfg.offload, "load_params") \o <<"gather">>
           S1 == Opt(cfg.offload, "load_params") \cup {"gather"}
           s2 == s1 \o If(cfg.offload, "offload_params")
           S2 == S1 \cup Opt(cfg.offload, "offload_params")
           s3 == s2 \o If(cfg.free_cache, "resume_weights")
           S3 == S2 \cup Opt(cfg.free_cache, "resume_weights")
           s4 == s3 \o If(cfg.lora /\ cfg.level2, "update_base")
           S4 == S3 \cup Opt(cfg.lora /\ cfg.level2, "update_base")
           s5 == s4 \o <<"update_weights">>
           S5 == S4 \cup {"update_weights"}
           s6 == s5 \o If(cfg.free_cache, "resume_kv")
           S6 == S5 \cup Opt(cfg.free_cache, "resume_kv")
           s7 == s6 \o <<"to_gen_states">>
           S7 == S6 \cup {"to_gen_states"}
<1>1. Block(Place, If(cfg.offload, "load_params"), Opt(cfg.offload, "load_params"), 1, 1)
  BY OptBlock, PlaceValues, Switches
<1>2. Block(Place, <<"gather">>, {"gather"}, 3, 3)
  BY OneBlock, PlaceValues
<1>3. Block(Place, s1, S1, 1, 3)
  BY <1>1, <1>2, CatBlock, PlaceValues
<1>4. Block(Place, If(cfg.offload, "offload_params"), Opt(cfg.offload, "offload_params"), 4, 4)
  BY OptBlock, PlaceValues, Switches
<1>5. Block(Place, s2, S2, 1, 4)
  BY <1>3, <1>4, CatBlock, PlaceValues
<1>6. Block(Place, If(cfg.free_cache, "resume_weights"), Opt(cfg.free_cache, "resume_weights"), 7, 7)
  BY OptBlock, PlaceValues, Switches
<1>7. Block(Place, s3, S3, 1, 7)
  BY <1>5, <1>6, CatBlock, PlaceValues
<1>8. Block(Place, If(cfg.lora /\ cfg.level2, "update_base"), Opt(cfg.lora /\ cfg.level2, "update_base"), 8, 8)
  BY OptBlock, PlaceValues, Switches
<1>9. Block(Place, s4, S4, 1, 8)
  BY <1>7, <1>8, CatBlock, PlaceValues
<1>10. Block(Place, <<"update_weights">>, {"update_weights"}, 9, 9)
  BY OneBlock, PlaceValues
<1>11. Block(Place, s5, S5, 1, 9)
  BY <1>9, <1>10, CatBlock, PlaceValues
<1>12. Block(Place, If(cfg.free_cache, "resume_kv"), Opt(cfg.free_cache, "resume_kv"), 10, 10)
  BY OptBlock, PlaceValues, Switches
<1>13. Block(Place, s6, S6, 1, 10)
  BY <1>11, <1>12, CatBlock, PlaceValues
<1>14. Block(Place, <<"to_gen_states">>, {"to_gen_states"}, 11, 11)
  BY OneBlock, PlaceValues
<1>15. Block(Place, s7, S7, 1, 11)
  BY <1>13, <1>14, CatBlock, PlaceValues
<1>16. QED
  BY <1>15 DEF RolloutMode, RolloutSteps

LEMMA TrainerBlock ==
    ASSUME cfg \in Settings
    PROVE  Block(Place, TrainerMode, TrainerSteps, 13, 14)
<1> DEFINE s1 == If(cfg.free_cache, "release") \o <<"to_torch_states">>
           S1 == Opt(cfg.free_cache, "release") \cup {"to_torch_states"}
<1>1. Block(Place, If(cfg.free_cache, "release"), Opt(cfg.free_cache, "release"), 13, 13)
  BY OptBlock, PlaceValues, Switches
<1>2. Block(Place, <<"to_torch_states">>, {"to_torch_states"}, 14, 14)
  BY OneBlock, PlaceValues
<1>3. Block(Place, s1, S1, 13, 14)
  BY <1>1, <1>2, CatBlock, PlaceValues
<1>4. QED
  BY <1>3 DEF TrainerMode, TrainerSteps

LEMMA WithParamsBlock ==
    ASSUME cfg \in Settings, NEW x \in {"load", "compute", "save"}
    PROVE  Block(Place, WithParams(x), WithParamsSteps(x), 1, 4)
<1> DEFINE s1 == If(cfg.offload, "load_params") \o <<x>>
           S1 == Opt(cfg.offload, "load_params") \cup {x}
           s2 == s1 \o If(cfg.offload, "offload_params")
           S2 == S1 \cup Opt(cfg.offload, "offload_params")
<1>1. Block(Place, If(cfg.offload, "load_params"), Opt(cfg.offload, "load_params"), 1, 1)
  BY OptBlock, PlaceValues, Switches
<1>2. Block(Place, <<x>>, {x}, 3, 3)
  BY OneBlock, PlaceValues
<1>3. Block(Place, s1, S1, 1, 3)
  BY <1>1, <1>2, CatBlock, PlaceValues
<1>4. Block(Place, If(cfg.offload, "offload_params"), Opt(cfg.offload, "offload_params"), 4, 4)
  BY OptBlock, PlaceValues, Switches
<1>5. Block(Place, s2, S2, 1, 4)
  BY <1>3, <1>4, CatBlock, PlaceValues
<1>6. QED
  BY <1>5 DEF WithParams, WithParamsSteps

LEMMA UpdateBlock ==
    ASSUME cfg \in Settings
    PROVE  Block(Place, UpdateActor, StepsOf("update_actor"), 1, 5)
<1> DEFINE s1 == If(cfg.offload, "load_params") \o If(cfg.offload, "load_optimizer")
           S1 == Opt(cfg.offload, "load_params") \cup Opt(cfg.offload, "load_optimizer")
           s2 == s1 \o <<"update">>
           S2 == S1 \cup {"update"}
           s3 == s2 \o If(cfg.offload, "offload_params")
           S3 == S2 \cup Opt(cfg.offload, "offload_params")
           s4 == s3 \o If(cfg.offload, "offload_optimizer")
           S4 == S3 \cup Opt(cfg.offload, "offload_optimizer")
<1>1. Block(Place, If(cfg.offload, "load_params"), Opt(cfg.offload, "load_params"), 1, 1)
  BY OptBlock, PlaceValues, Switches
<1>2. Block(Place, If(cfg.offload, "load_optimizer"), Opt(cfg.offload, "load_optimizer"), 2, 2)
  BY OptBlock, PlaceValues, Switches
<1>3. Block(Place, s1, S1, 1, 2)
  BY <1>1, <1>2, CatBlock, PlaceValues
<1>4. Block(Place, <<"update">>, {"update"}, 3, 3)
  BY OneBlock, PlaceValues
<1>5. Block(Place, s2, S2, 1, 3)
  BY <1>3, <1>4, CatBlock, PlaceValues
<1>6. Block(Place, If(cfg.offload, "offload_params"), Opt(cfg.offload, "offload_params"), 4, 4)
  BY OptBlock, PlaceValues, Switches
<1>7. Block(Place, s3, S3, 1, 4)
  BY <1>5, <1>6, CatBlock, PlaceValues
<1>8. Block(Place, If(cfg.offload, "offload_optimizer"), Opt(cfg.offload, "offload_optimizer"), 5, 5)
  BY OptBlock, PlaceValues, Switches
<1>9. Block(Place, s4, S4, 1, 5)
  BY <1>7, <1>8, CatBlock, PlaceValues
<1>10. QED
  BY <1>9 DEF UpdateActor, StepsOf

LEMMA GenerateBlock ==
    ASSUME cfg \in Settings
    PROVE  Block(Place, RolloutMode \o <<"generate">> \o TrainerMode, StepsOf("generate_sequences"), 1, 14)
<1> DEFINE s1 == RolloutMode \o <<"generate">>
           S1 == RolloutSteps \cup {"generate"}
           s2 == s1 \o TrainerMode
           S2 == S1 \cup TrainerSteps
<1>1. Block(Place, RolloutMode, RolloutSteps, 1, 11)
  BY RolloutBlock
<1>2. Block(Place, <<"generate">>, {"generate"}, 12, 12)
  BY OneBlock, PlaceValues
<1>3. Block(Place, s1, S1, 1, 12)
  BY <1>1, <1>2, CatBlock, PlaceValues
<1>4. Block(Place, TrainerMode, TrainerSteps, 13, 14)
  BY TrainerBlock
<1>5. Block(Place, s2, S2, 1, 14)
  BY <1>3, <1>4, CatBlock, PlaceValues
<1>6. QED
  BY <1>5 DEF StepsOf

LEMMA InitBlock ==
    ASSUME cfg \in Settings
    PROVE  Block(Place, InitModel, StepsOf("init_model"), 4, 14)
<1> DEFINE t == IF cfg.async THEN <<>> ELSE TrainerMode
           T == IF cfg.async THEN {} ELSE TrainerSteps
           s1 == If(cfg.offload, "offload_params") \o If(cfg.offload, "offload_optimizer")
           S1 == Opt(cfg.offload, "offload_params") \cup Opt(cfg.offload, "offload_optimizer")
           s2 == s1 \o <<"build_rollout">>
           S2 == S1 \cup {"build_rollout"}
           s3 == s2 \o t
           S3 == S2 \cup T
<1>0. Block(Place, t, T, 13, 14)
  <2>1. CASE cfg.async
    BY <2>1, EmptyBlock
  <2>2. CASE ~cfg.async
    BY <2>2, TrainerBlock
  <2>3. QED
    BY <2>1, <2>2
<1> HIDE DEF t, T
<1>1. Block(Place, If(cfg.offload, "offload_params"), Opt(cfg.offload, "offload_params"), 4, 4)
  BY OptBlock, PlaceValues, Switches
<1>2. Block(Place, If(cfg.offload, "offload_optimizer"), Opt(cfg.offload, "offload_optimizer"), 5, 5)
  BY OptBlock, PlaceValues, Switches
<1>3. Block(Place, s1, S1, 4, 5)
  BY <1>1, <1>2, CatBlock, PlaceValues
<1>4. Block(Place, <<"build_rollout">>, {"build_rollout"}, 6, 6)
  BY OneBlock, PlaceValues
<1>5. Block(Place, s2, S2, 4, 6)
  BY <1>3, <1>4, CatBlock, PlaceValues
<1>6. Block(Place, t, T, 13, 14)
  BY <1>0
<1>7. Block(Place, s3, S3, 4, 14)
  BY <1>5, <1>6, CatBlock, PlaceValues
<1>8. QED
  BY <1>7 DEF t, T, InitModel, StepsOf

LEMMA CheckpointBlock ==
    ASSUME cfg \in Settings
    PROVE  Block(Place, LoadCheckpoint, StepsOf("load_checkpoint"), 1, 5)
<1> DEFINE p == IF cfg.resumed THEN WithParams("load") ELSE If(cfg.offload, "offload_params")
           S == IF cfg.resumed THEN WithParamsSteps("load") ELSE Opt(cfg.offload, "offload_params")
           s1 == p \o If(cfg.offload, "offload_optimizer")
           S1 == S \cup Opt(cfg.offload, "offload_optimizer")
<1>0. Block(Place, p, S, 1, 4)
  <2>1. CASE cfg.resumed
    BY <2>1, WithParamsBlock
  <2>2. CASE ~cfg.resumed
    BY <2>2, OptBlock, WiderBlock, PlaceValues, Switches
  <2>3. QED
    BY <2>1, <2>2
<1> HIDE DEF p, S
<1>1. Block(Place, p, S, 1, 4)
  BY <1>0
<1>2. Block(Place, If(cfg.offload, "offload_optimizer"), Opt(cfg.offload, "offload_optimizer"), 5, 5)
  BY OptBlock, PlaceValues, Switches
<1>3. Block(Place, s1, S1, 1, 5)
  BY <1>1, <1>2, CatBlock, PlaceValues
<1>4. LoadCheckpoint = s1 /\ StepsOf("load_checkpoint") = S1
  BY Switches DEF LoadCheckpoint, StepsOf, p, S
<1>5. QED
  BY <1>3, <1>4

LEMMA ProgramBlock ==
    ASSUME cfg \in Settings, NEW c \in CallNames
    PROVE  Block(Place, Program(c), StepsOf(c), 1, 14)
<1> USE PlaceValues, WiderBlock
<1>1. CASE c = "init_model"
  BY <1>1, InitBlock DEF Program
<1>2. CASE c = "load_checkpoint"
  BY <1>2, CheckpointBlock DEF Program
<1>3. CASE c = "generate_sequences"
  BY <1>3, GenerateBlock DEF Program
<1>4. CASE c = "wake_up"
  BY <1>4, RolloutBlock DEF Program, StepsOf
<1>5. CASE c = "generate"
  BY <1>5, OneBlock DEF Program, StepsOf
<1>6. CASE c = "sleep"
  BY <1>6, TrainerBlock DEF Program, StepsOf
<1>7. CASE c = "compute_log_prob"
  BY <1>7, WithParamsBlock DEF Program, StepsOf
<1>8. CASE c = "ref_log_prob"
  <2>1. CASE cfg.lora
    BY <1>8, <2>1, WithParamsBlock DEF Program, StepsOf
  <2>2. CASE ~cfg.lora
    BY <1>8, <2>2, EmptyBlock DEF Program, StepsOf
  <2>3. QED
    BY <2>1, <2>2
<1>9. CASE c = "update_actor"
  BY <1>9, UpdateBlock DEF Program
<1>10. CASE c = "save_checkpoint"
  BY <1>10, WithParamsBlock DEF Program, StepsOf
<1>11. CASE c \in {"new_batch", "prepare_ref_inputs", "base_ref_log_prob", "base_log_prob"}
  BY <1>11, EmptyBlock DEF Program, StepsOf
<1>12. QED
  BY <1>1, <1>2, <1>3, <1>4, <1>5, <1>6, <1>7, <1>8, <1>9, <1>10, <1>11 DEF CallNames, FreeCalls

-----------------------------------------------------------------------------
(* The step of a rank takes a name off its program and has these effects. *)
Effect(r, s) ==
    /\ actor'[r].params = IF s = "load_params" THEN "gpu"
                          ELSE IF s = "offload_params" THEN "cpu" ELSE actor[r].params
    /\ actor'[r].optimizer = IF s = "load_optimizer" THEN "gpu"
                             ELSE IF s = "offload_optimizer" THEN "cpu" ELSE actor[r].optimizer
    /\ actor'[r].version = IF s = "update" THEN actor[r].version + 1
                           ELSE IF s = "load" THEN 1 ELSE actor[r].version
    /\ actor'[r].gathered = IF s = "gather" THEN actor[r].version ELSE actor[r].gathered
    /\ actor'[r].base_sync_done = (s = "to_gen_states" \/ actor[r].base_sync_done)
    /\ engine'[r].kv_awake =
          (s \in {"build_rollout", "resume_kv"} \/ (s # "release" /\ engine[r].kv_awake))
    /\ engine'[r].weights_awake =
          (s \in {"build_rollout", "resume_weights"} \/ (s # "release" /\ engine[r].weights_awake))
    /\ engine'[r].base = CASE s = "build_rollout" -> (IF cfg.dummy THEN "junk" ELSE "good")
                           [] s = "update_base" -> "good"
                           [] s = "update_weights" ->
                                (IF cfg.lora /\ actor[r].base_sync_done THEN engine[r].base ELSE "good")
                           [] s = "release" -> (IF cfg.level2 THEN "junk" ELSE engine[r].base)
                           [] OTHER -> engine[r].base
    /\ engine'[r].version = CASE s = "build_rollout" -> 0
                              [] s = "update_weights" ->
                                   (IF cfg.lora /\ ~actor[r].base_sync_done
                                    THEN engine[r].version ELSE actor[r].gathered)
                              [] OTHER -> engine[r].version
    /\ prefix'[r] = CASE s = "generate" ->
                           (IF cfg.prefix THEN prefix[r] \cup {engine[r].version} ELSE prefix[r])
                      [] s = "release" -> (IF cfg.async THEN prefix[r] ELSE {})
                      [] OTHER -> prefix[r]
    /\ random'[r].device = CASE s = "to_gen_states" -> random[r].gen
                             [] s = "to_torch_states" -> random[r].torch
                             [] s = "generate" -> <<random[r].device[1] + 1, random[r].device[2]>>
                             [] s = "update" -> <<random[r].device[1], random[r].device[2] + 1>>
                             [] s = "load" -> <<0, 1>>
                             [] OTHER -> random[r].device
    /\ random'[r].torch = IF s \in {"build_rollout", "to_gen_states"}
                          THEN random[r].device ELSE random[r].torch
    /\ random'[r].gen = IF s = "build_rollout" THEN <<0, 0>>
                        ELSE IF s = "to_torch_states" THEN random[r].device ELSE random[r].gen
    /\ \A q \in Ranks : q # r => /\ actor'[q] = actor[q] /\ engine'[q] = engine[q]
                                 /\ prefix'[q] = prefix[q] /\ random'[q] = random[q]

\* The random states a step leaves alone or moves around, and the two it uses.
LEMMA Used ==
    ASSUME NEW p \in Nat \X Nat
    PROVE  /\ [p EXCEPT ![1] = @ + 1] = <<p[1] + 1, p[2]>>
           /\ [p EXCEPT ![2] = @ + 1] = <<p[1], p[2] + 1>>
           /\ p[1] \in Nat /\ p[2] \in Nat
           /\ <<p[1] + 1, p[2]>> \in Nat \X Nat /\ <<p[1], p[2] + 1>> \in Nat \X Nat
OBVIOUS

LEMMA Effects ==
    ASSUME Types, NEW r \in Ranks, RankNext(r)
    PROVE  Types' /\ \E s \in StepNames : Step(r, s) /\ Effect(r, s)
<1> USE DEF Step, driverVars, workerVars, Collective
<1>a. /\ actor[r] \in [version : Nat, params : {"gpu", "cpu"}, optimizer : {"gpu", "cpu"},
                       gathered : Nat, base_sync_done : BOOLEAN]
      /\ engine[r] \in [weights_awake : BOOLEAN, kv_awake : BOOLEAN,
                        base : {"none", "junk", "good"}, version : Nat]
      /\ random[r] \in [device : Nat \X Nat, torch : Nat \X Nat, gen : Nat \X Nat]
      /\ random[r].device \in Nat \X Nat
  BY DEF Types
<1>b. ASSUME NEW p \in Nat \X Nat
      PROVE  [random EXCEPT ![r].device = p]
                \in [Ranks -> [device : Nat \X Nat, torch : Nat \X Nat, gen : Nat \X Nat]]
  BY <1>a DEF Types
<1>c. ASSUME NEW n \in Nat
      PROVE  [actor EXCEPT ![r].version = n]
                \in [Ranks -> [version : Nat, params : {"gpu", "cpu"}, optimizer : {"gpu", "cpu"},
                               gathered : Nat, base_sync_done : BOOLEAN]]
  BY <1>a DEF Types
<1>1. CASE LoadParams(r)
  <2>1. Types'
    BY <1>a, <1>1 DEF LoadParams, Types
  <2>2. Effect(r, "load_params")
    BY <1>a, <1>1 DEF LoadParams, Types, Effect
  <2>3. QED
    BY <1>1, <2>1, <2>2 DEF LoadParams, StepNames, Work
<1>2. CASE OffloadParams(r)
  <2>1. Types'
    BY <1>a, <1>2 DEF OffloadParams, Types
  <2>2. Effect(r, "offload_params")
    BY <1>a, <1>2 DEF OffloadParams, Types, Effect
  <2>3. QED
    BY <1>2, <2>1, <2>2 DEF OffloadParams, StepNames, Work
<1>3. CASE LoadOptimizer(r)
  <2>1. Types'
    BY <1>a, <1>3 DEF LoadOptimizer, Types
  <2>2. Effect(r, "load_optimizer")
    BY <1>a, <1>3 DEF LoadOptimizer, Types, Effect
  <2>3. QED
    BY <1>3, <2>1, <2>2 DEF LoadOptimizer, StepNames, Work
<1>4. CASE OffloadOptimizer(r)
  <2>1. Types'
    BY <1>a, <1>4 DEF OffloadOptimizer, Types
  <2>2. Effect(r, "offload_optimizer")
    BY <1>a, <1>4 DEF OffloadOptimizer, Types, Effect
  <2>3. QED
    BY <1>4, <2>1, <2>2 DEF OffloadOptimizer, StepNames, Work
<1>5. CASE BuildRollout(r)
  <2>1. Types'
    BY <1>a, <1>5 DEF BuildRollout, Types
  <2>2. Effect(r, "build_rollout")
    BY <1>a, <1>5 DEF BuildRollout, Types, Effect
  <2>3. QED
    BY <1>5, <2>1, <2>2 DEF BuildRollout, StepNames, Work
<1>6. CASE Gather(r)
  <2>1. Types'
    BY <1>a, <1>6 DEF Gather, Types
  <2>2. Effect(r, "gather")
    BY <1>a, <1>6 DEF Gather, Types, Effect
  <2>3. QED
    BY <1>6, <2>1, <2>2 DEF Gather, StepNames, Work
<1>7. CASE ResumeWeights(r)
  <2>1. Types'
    BY <1>a, <1>7 DEF ResumeWeights, Types
  <2>2. Effect(r, "resume_weights")
    BY <1>a, <1>7 DEF ResumeWeights, Types, Effect
  <2>3. QED
    BY <1>7, <2>1, <2>2 DEF ResumeWeights, StepNames, Work
<1>8. CASE ResumeKV(r)
  <2>1. Types'
    BY <1>a, <1>8 DEF ResumeKV, Types
  <2>2. Effect(r, "resume_kv")
    BY <1>a, <1>8 DEF ResumeKV, Types, Effect
  <2>3. QED
    BY <1>8, <2>1, <2>2 DEF ResumeKV, StepNames, Work
<1>9. CASE UpdateBase(r)
  <2>1. Types'
    BY <1>a, <1>9 DEF UpdateBase, Types
  <2>2. Effect(r, "update_base")
    BY <1>a, <1>9 DEF UpdateBase, Types, Effect
  <2>3. QED
    BY <1>9, <2>1, <2>2 DEF UpdateBase, StepNames, Work
<1>10. CASE UpdateWeights(r)
  <2>1. Types'
    <3>1. engine' \in [Ranks -> [weights_awake : BOOLEAN, kv_awake : BOOLEAN,
                                base : {"none", "junk", "good"}, version : Nat]]
      BY <1>a, <1>10 DEF UpdateWeights, Types
    <3>2. UNCHANGED <<actor, prefix, random, cfg, batch>> /\ DOMAIN todo' = Ranks
      BY <1>10 DEF UpdateWeights, Types
    <3>3. QED
      BY <3>1, <3>2 DEF Types
  <2>2. Effect(r, "update_weights")
    BY <1>a, <1>10 DEF UpdateWeights, Types, Effect
  <2>3. QED
    BY <1>10, <2>1, <2>2 DEF UpdateWeights, StepNames, Work
<1>11. CASE ToGenStates(r)
  <2>1. Types'
    BY <1>a, <1>11 DEF ToGenStates, Types
  <2>2. Effect(r, "to_gen_states")
    BY <1>a, <1>11 DEF ToGenStates, Types, Effect
  <2>3. QED
    BY <1>11, <2>1, <2>2 DEF ToGenStates, StepNames, Work
<1>12. CASE Generate(r)
  <2> DEFINE state == <<random[r].device[1] + 1, random[r].device[2]>>
  <2>1. random' = [random EXCEPT ![r].device = state]
    BY <1>a, <1>12, Used DEF Generate
  <2>2. state \in Nat \X Nat
    BY <1>a, Used
  <2>3. Effect(r, "generate")
    <3>1. /\ random'[r].device = state
          /\ random'[r].torch = random[r].torch /\ random'[r].gen = random[r].gen
          /\ \A q \in Ranks : q # r => random'[q] = random[q]
      BY <1>a, <2>1 DEF Types
    <3>2. QED
      BY <1>a, <1>12, <3>1 DEF Generate, Types, Effect
  <2> HIDE DEF state
  <2>4. random' \in [Ranks -> [device : Nat \X Nat, torch : Nat \X Nat, gen : Nat \X Nat]]
    BY <1>b, <2>1, <2>2
  <2>5. Types'
    BY <1>a, <1>12, <2>4 DEF Generate, Types
  <2>6. QED
    BY <1>12, <2>3, <2>5 DEF Generate, StepNames, Work
<1>13. CASE Release(r)
  <2>1. Types'
    <3>1. engine' \in [Ranks -> [weights_awake : BOOLEAN, kv_awake : BOOLEAN,
                                base : {"none", "junk", "good"}, version : Nat]]
      BY <1>a, <1>13 DEF Release, Types
    <3>2. UNCHANGED <<actor, random, cfg, batch>> /\ DOMAIN todo' = Ranks /\ DOMAIN prefix' = Ranks
      BY <1>13 DEF Release, Types
    <3>3. QED
      BY <3>1, <3>2 DEF Types
  <2>2. Effect(r, "release")
    BY <1>a, <1>13 DEF Release, Types, Effect
  <2>3. QED
    BY <1>13, <2>1, <2>2 DEF Release, StepNames, Work
<1>14. CASE ToTorchStates(r)
  <2>1. Types'
    BY <1>a, <1>14 DEF ToTorchStates, Types
  <2>2. Effect(r, "to_torch_states")
    BY <1>a, <1>14 DEF ToTorchStates, Types, Effect
  <2>3. QED
    BY <1>14, <2>1, <2>2 DEF ToTorchStates, StepNames, Work
<1>15. CASE Compute(r)
  <2>1. Types'
    BY <1>a, <1>15 DEF Compute, Types
  <2>2. PICK s \in {"compute", "save"} : Step(r, s)
    BY <1>15 DEF Compute
  <2>3. Effect(r, s)
    BY <1>a, <1>15, <2>2 DEF Compute, Types, Effect
  <2>4. QED
    BY <2>1, <2>2, <2>3 DEF StepNames, Work
<1>16. CASE Update(r)
  <2> DEFINE state == <<random[r].device[1], random[r].device[2] + 1>>
  <2>1. random' = [random EXCEPT ![r].device = state]
    BY <1>a, <1>16, Used DEF Update
  <2>2. state \in Nat \X Nat
    BY <1>a, Used
  <2>3. Effect(r, "update")
    <3>1. /\ random'[r].device = state
          /\ random'[r].torch = random[r].torch /\ random'[r].gen = random[r].gen
          /\ \A q \in Ranks : q # r => random'[q] = random[q]
      BY <1>a, <2>1 DEF Types
    <3>2. QED
      BY <1>a, <1>16, <3>1 DEF Update, Types, Effect
  <2> HIDE DEF state
  <2>4. random' \in [Ranks -> [device : Nat \X Nat, torch : Nat \X Nat, gen : Nat \X Nat]]
    BY <1>b, <2>1, <2>2
  <2>5. actor' \in [Ranks -> [version : Nat, params : {"gpu", "cpu"}, optimizer : {"gpu", "cpu"},
                             gathered : Nat, base_sync_done : BOOLEAN]]
    <3>1. actor' = [actor EXCEPT ![r].version = actor[r].version + 1]
      BY <1>16 DEF Update
    <3>2. actor[r].version + 1 \in Nat
      BY <1>a
    <3>3. QED
      BY <1>c, <3>1, <3>2
  <2>6. UNCHANGED <<engine, prefix, cfg, batch>> /\ DOMAIN todo' = Ranks
    BY <1>16 DEF Update, Types
  <2>7. Types'
    BY <2>4, <2>5, <2>6 DEF Types
  <2>8. QED
    BY <1>16, <2>3, <2>7 DEF Update, StepNames, Work
<1>17. CASE Load(r)
  <2>1. Types'
    BY <1>a, <1>17 DEF Load, Types
  <2>2. Effect(r, "load")
    BY <1>a, <1>17 DEF Load, Types, Effect
  <2>3. QED
    BY <1>17, <2>1, <2>2 DEF Load, StepNames, Work
<1>18. QED
  BY <1>1, <1>2, <1>3, <1>4, <1>5, <1>6, <1>7, <1>8, <1>9, <1>10, <1>11, <1>12, <1>13, <1>14,
     <1>15, <1>16, <1>17 DEF RankNext

\* What is left stands behind the step that was taken.
LEMMA StepFacts ==
    ASSUME OrderInv, NEW r \in Ranks, NEW s \in StepNames, DOMAIN todo = Ranks, Step(r, s)
    PROVE  /\ OrderInv'
           /\ Left(r) = {s} \cup Left(r)' /\ s \notin Left(r)'
           /\ \A t \in Left(r)' : t \in StepNames /\ Place[s] < Place[t]
           /\ \A q \in Ranks : q # r => Left(q)' = Left(q)
           /\ UNCHANGED <<cfg, calls, batch>>
<1>1. /\ todo[r] # <<>> /\ Head(todo[r]) = s /\ todo'[r] = Tail(todo[r])
      /\ \A q \in Ranks : q # r => todo'[q] = todo[q]
      /\ UNCHANGED <<cfg, calls, batch>>
  BY DEF Step, driverVars
<1>2. Ordered(Place, todo[r])
  BY DEF OrderInv
<1>3. /\ Ordered(Place, Tail(todo[r]))
      /\ Contents(todo[r]) = {s} \cup Contents(Tail(todo[r]))
      /\ \A x \in Contents(Tail(todo[r])) : x \in StepNames /\ Before(Place, s, x)
  BY <1>1, <1>2, TailOrdered, PlaceValues
<1>4. /\ Contents(todo'[r]) = Contents(Tail(todo[r]))
      /\ \A q \in Ranks : q # r => Contents(todo'[q]) = Contents(todo[q])
  BY <1>1
<1>5. \A t \in StepNames : Place[t] \in Nat /\ Place[t] # 0
  BY PlaceValues DEF StepNames, Work
<1>6. \A t \in Contents(todo'[r]) : t \in StepNames /\ Place[s] < Place[t]
  BY <1>3, <1>4, <1>5 DEF Before
<1>7. s \notin Contents(todo'[r])
  BY <1>5, <1>6
<1>8. OrderInv'
  BY <1>1, <1>3 DEF OrderInv, Chained
<1>9. QED
  BY <1>1, <1>3, <1>4, <1>6, <1>7, <1>8 DEF Left

LEMMA OthersKeep ==
    ASSUME NEW r \in Ranks, NEW q \in Ranks, Left(q)' = Left(q), UNCHANGED <<cfg, calls, batch>>,
           actor'[q] = actor[q], engine'[q] = engine[q], prefix'[q] = prefix[q],
           random'[q] = random[q]
    PROVE  /\ RankInv(q) => RankInv(q)'
           /\ BatchOf(q) => BatchOf(q)'
           /\ FinalVersion(q)' = FinalVersion(q)
<1>1. RankInv(q) => RankInv(q)'
  BY DEF RankInv, LeftOf, EngineOf, StartOf, RandomOf, MemoryOf, WillBeAwake, NextIs, Starting, Unused,
         Generating
<1>2. BatchOf(q) => BatchOf(q)'
  BY DEF BatchOf, Updates, RefInputs, ToCall
<1>3. FinalVersion(q)' = FinalVersion(q)
  BY DEF FinalVersion
<1>4. QED
  BY <1>1, <1>2, <1>3

\* A step of a rank preserves what is said of that rank.
LEMMA RankStep ==
    ASSUME Types, NEW r \in Ranks, RankInv(r), NEW s \in StepNames, Effect(r, s),
           Left(r) = {s} \cup Left(r)', s \notin Left(r)',
           \A t \in Left(r)' : t \in StepNames /\ Place[s] < Place[t],
           UNCHANGED <<cfg, calls, batch>>
    PROVE  RankInv(r)' /\ FinalVersion(r)' = FinalVersion(r)
<1> USE PlaceValues
<1>0. /\ s \in Left(r) /\ ~Starting /\ (Starting' <=> Starting)
      /\ NextIs(NeedsEngine)' <=> NextIs(NeedsEngine)
  BY DEF RankInv, LeftOf, Starting, NextIs, NeedsEngine
<1>a. /\ actor[r].version \in Nat /\ cfg \in Settings
      /\ engine[r].kv_awake \in BOOLEAN /\ engine'[r].kv_awake \in BOOLEAN
  BY ConfigsAssumption DEF Types, Effect
<1>b. engine'[r].kv_awake <=> (s \in {"build_rollout", "resume_kv"} \/ (s # "release" /\ engine[r].kv_awake))
  BY DEF Effect
<1>c. /\ \A x \in Left(r) : x = s \/ x \in Left(r)'
      /\ \A x \in Left(r)' : x \in Left(r) /\ x # s
  OBVIOUS
<1>d. /\ s = "to_torch_states" => Left(r)' = {}
      /\ s = "release" => Left(r)' \subseteq {"to_torch_states"}
      /\ s = "generate" => Left(r)' \subseteq {"release", "to_torch_states"}
      /\ s = "to_gen_states" => Left(r)' \subseteq {"generate", "release", "to_torch_states"}
      /\ s = "resume_kv" =>
            Left(r)' \subseteq {"to_gen_states", "generate", "release", "to_torch_states"}
      /\ s \in {"resume_weights", "update_base", "update_weights"} =>
            Left(r)' \subseteq {"update_base", "update_weights", "resume_kv", "to_gen_states",
                                "generate", "release", "to_torch_states"}
      /\ s = "build_rollout" =>
            Left(r)' \cap (Work \cup {"load_params", "load_optimizer", "offload_params",
                                      "offload_optimizer", "build_rollout"}) = {}
      /\ s \in Work => Left(r)' \cap (Work \cup {"load_params", "load_optimizer"}) = {}
  BY DEF StepNames, Work
<1> HIDE PlaceValues
<1>1. LeftOf(r)'
  <2> USE <1>0, <1>b, <1>c, <1>d DEF RankInv, LeftOf
  <2>1. (Left(r) # {} => ~Starting)'
    OBVIOUS
  <2>2. ("build_rollout" \in Left(r) => Left(r) \cap {"to_gen_states", "resume_kv", "generate"} = {})'
    OBVIOUS
  <2>3. ("resume_kv" \in Left(r) => "to_gen_states" \in Left(r))'
    OBVIOUS
  <2>4. ("to_gen_states" \in Left(r) =>
              "to_torch_states" \in Left(r)
              \/ (cfg.async /\ ("resume_kv" \in Left(r) \/ engine[r].kv_awake)))'
    OBVIOUS
  <2>5. ("generate" \in Left(r) => "to_torch_states" \in Left(r) \/ (cfg.async /\ engine[r].kv_awake))'
    OBVIOUS
  <2>6. ("release" \in Left(r) => "to_torch_states" \in Left(r) /\ cfg.free_cache)'
    OBVIOUS
  <2>7. (Left(r) \cap {"update", "load"} # {} =>
             /\ calls = <<>>
             /\ Left(r) \cap {"build_rollout", "resume_kv", "to_gen_states", "generate", "release",
                             "to_torch_states"} = {})'
    OBVIOUS
  <2>8. (cfg.free_cache
           /\ Left(r) \cap {"update", "load", "offload_params", "offload_optimizer"} # {} =>
              ~engine[r].kv_awake)'
    OBVIOUS
  <2>9. QED
    BY <2>1, <2>2, <2>3, <2>4, <2>5, <2>6, <2>7, <2>8
<1>2. EngineOf(r)'
  BY <1>0, <1>a, <1>b, <1>c, <1>d DEF RankInv, LeftOf, EngineOf, WillBeAwake
<1>3. StartOf(r)'
  BY <1>0, <1>a, <1>c, <1>d DEF RankInv, LeftOf, StartOf, Unused, Effect
<1>4. RandomOf(r)'
  BY <1>0, <1>a, <1>c, <1>d DEF RankInv, LeftOf, StartOf, RandomOf, Generating, Unused, Effect
<1>5. MemoryOf(r)'
  BY <1>0, <1>a, PlaceValues DEF RankInv, MemoryOf, Effect, Work
<1>6. FinalVersion(r)' = FinalVersion(r)
  BY <1>0, <1>a, PlaceValues DEF FinalVersion, Effect
<1>7. QED
  BY <1>1, <1>2, <1>3, <1>4, <1>5, <1>6 DEF RankInv

SafeInv ==
    /\ Types /\ OrderInv /\ VersionInv /\ PlanInv
    /\ \A r \in Ranks : RankInv(r) /\ BatchOf(r)

LEMMA NothingInNothing == Contents(<<>>) = {}
BY DEF Contents

LEMMA RankKeepsSafe ==
    ASSUME SafeInv, NEW r \in Ranks, RankNext(r)
    PROVE  SafeInv'
<1>1. PICK s \in StepNames : Step(r, s) /\ Effect(r, s)
  BY Effects DEF SafeInv
<1>2. Types'
  BY Effects DEF SafeInv
<1>3. /\ OrderInv'
      /\ Left(r) = {s} \cup Left(r)' /\ s \notin Left(r)'
      /\ \A t \in Left(r)' : t \in StepNames /\ Place[s] < Place[t]
      /\ \A q \in Ranks : q # r => Left(q)' = Left(q)
      /\ UNCHANGED <<cfg, calls, batch>>
  BY <1>1, StepFacts DEF SafeInv, Types
<1>4. RankInv(r)' /\ FinalVersion(r)' = FinalVersion(r)
  BY <1>1, <1>3, RankStep DEF SafeInv
<1>5. BatchOf(r)'
  <2>1. CASE s \in {"update", "load"}
    <3>1. calls = <<>>
      BY <1>3, <2>1 DEF SafeInv, RankInv, LeftOf
    <3>2. "update" \notin Left(r)'
      BY <1>3, <2>1, PlaceValues
    <3>3. ~Updates(r)'
      BY <1>3, <3>1, <3>2, NothingInNothing DEF Updates, ToCall
    <3>4. QED
      BY <3>3 DEF BatchOf
  <2>2. CASE s \notin {"update", "load"}
    <3>1. actor'[r].version = actor[r].version /\ (Updates(r)' => Updates(r))
      BY <1>1, <1>3, <2>2 DEF Effect, Updates, ToCall
    <3>2. QED
      BY <1>3, <3>1 DEF SafeInv, BatchOf, RefInputs, ToCall
  <2>3. QED
    BY <2>1, <2>2
<1>6. \A q \in Ranks : q # r => RankInv(q)' /\ BatchOf(q)' /\ FinalVersion(q)' = FinalVersion(q)
  BY <1>1, <1>3, OthersKeep DEF SafeInv, Effect
<1>7. VersionInv'
  BY <1>4, <1>6 DEF SafeInv, VersionInv
<1>8. PlanInv'
  BY <1>3 DEF SafeInv, PlanInv, ToCall
<1>9. QED
  BY <1>2, <1>3, <1>4, <1>5, <1>6, <1>7, <1>8 DEF SafeInv

-----------------------------------------------------------------------------
(* The calls of the driver. *)

LEMMA IdleIsEmpty ==
    ASSUME OrderInv, NEW r \in Ranks
    PROVE  todo[r] = <<>> <=> Left(r) = {}
<1>1. todo[r] \in Seq(DOMAIN Place)
  BY DEF OrderInv, Ordered
<1>2. CASE todo[r] = <<>>
  BY <1>2, NothingInNothing DEF Left
<1>3. CASE todo[r] # <<>>
  <2>1. 1 \in DOMAIN todo[r]
    BY <1>1, <1>3
  <2>2. QED
    BY <1>3, <2>1 DEF Left, Contents
<1>4. QED
  BY <1>2, <1>3

\* What a call finds and what it leaves.
LEMMA IssueFacts ==
    ASSUME Types, OrderInv, NEW c, Issue(c)
    PROVE  /\ c \in CallNames /\ OrderInv'
           /\ \A r \in Ranks : Left(r) = {} /\ Left(r)' = StepsOf(c)
           /\ DOMAIN todo' = Ranks /\ UNCHANGED cfg
           /\ calls # <<>> /\ Head(calls) = c
           /\ ToCall = {c} \cup ToCall'
           /\ \A x \in ToCall' : x \in CallNames /\ Before(CallPlace, c, x)
           /\ c \in {"generate", "sleep", "wake_up"} => cfg.async
           /\ c \in {"sleep", "wake_up"} => cfg.free_cache
           /\ c = "generate_sequences" => ~cfg.async
           /\ c = "load_checkpoint" => calls' = <<>>
           /\ ~Starting'
           /\ cfg.free_cache =>
                /\ NextIs({"generate"})' <=> c = "wake_up"
                /\ NextIs({"sleep"})' <=> (c = "generate" \/ (c = "init_model" /\ cfg.async))
<1>1. /\ calls # <<>> /\ Head(calls) = c /\ calls' = Tail(calls)
      /\ todo' = [r \in Ranks |-> Program(c)] /\ UNCHANGED cfg
      /\ \A r \in Ranks : todo[r] = <<>>
  BY DEF Issue, Idle
<1>2. Ordered(CallPlace, calls) /\ Chained(calls)
  BY DEF OrderInv
<1>3. /\ Ordered(CallPlace, calls') /\ c \in CallNames
      /\ ToCall = {c} \cup ToCall'
      /\ \A x \in ToCall' : x \in CallNames /\ Before(CallPlace, c, x)
  <2>1. /\ Ordered(CallPlace, Tail(calls)) /\ c \in CallNames
        /\ Contents(calls) = {c} \cup Contents(Tail(calls))
        /\ \A x \in Contents(Tail(calls)) : x \in CallNames /\ Before(CallPlace, c, x)
    BY <1>1, <1>2, TailOrdered, CallValues
  <2>2. QED
    BY <1>1, <2>1 DEF ToCall
<1>4. /\ calls \in Seq(CallNames) /\ 1 \in DOMAIN calls /\ calls[1] = c
      /\ Len(calls) \in Nat /\ Len(calls') = Len(calls) - 1
      /\ DOMAIN calls' = 1 .. Len(calls) - 1
      /\ \A i \in DOMAIN calls' : /\ i \in Nat /\ i # 0 /\ i + 1 \in DOMAIN calls /\ i + 1 # 1
                                  /\ calls'[i] = calls[i + 1]
                                  /\ i + 1 = Len(calls) <=> i = Len(calls')
                                  /\ i + 1 < Len(calls) <=> i < Len(calls')
                                  /\ i < Len(calls') => /\ i + 1 \in DOMAIN calls'
                                                        /\ calls'[i + 1] = calls[(i + 1) + 1]
      /\ calls' # <<>> => 1 < Len(calls) /\ Head(calls') = calls[1 + 1] /\ 1 \in DOMAIN calls'
      /\ 1 < Len(calls) => calls' # <<>>
      /\ 1 = Len(calls) => calls' = <<>>
  <2>1. /\ calls \in Seq(CallNames) /\ Len(calls) \in Nat /\ Len(calls) >= 1 /\ calls[1] = c
        /\ DOMAIN calls = 1 .. Len(calls)
    BY <1>1, <1>2, CallValues DEF Ordered
  <2>2. /\ calls' \in Seq(CallNames) /\ Len(calls') = Len(calls) - 1
        /\ DOMAIN calls' = 1 .. Len(calls) - 1
        /\ \A i \in 1 .. Len(calls) - 1 : calls'[i] = calls[i + 1]
    BY <1>1, <2>1
  <2>3. /\ calls' # <<>> => Len(calls') >= 1 /\ Head(calls') = calls'[1]
        /\ Len(calls') >= 1 => calls' # <<>>
        /\ Len(calls') = 0 => calls' = <<>>
    BY <2>2
  <2> HIDE <1>1, <1>2
  <2>4. ASSUME NEW i \in DOMAIN calls'
        PROVE  /\ i \in Nat /\ i # 0 /\ i + 1 \in DOMAIN calls /\ i + 1 # 1
               /\ calls'[i] = calls[i + 1]
               /\ i + 1 = Len(calls) <=> i = Len(calls')
               /\ i + 1 < Len(calls) <=> i < Len(calls')
               /\ i < Len(calls') => /\ i + 1 \in DOMAIN calls'
                                     /\ calls'[i + 1] = calls[(i + 1) + 1]
    <3>1. i \in 1 .. Len(calls) - 1 /\ i \in Nat
      BY <2>1, <2>2
    <3>2. i < Len(calls') => i + 1 \in 1 .. Len(calls) - 1
      BY <2>1, <2>2, <3>1
    <3>3. /\ i # 0 /\ i + 1 \in DOMAIN calls /\ i + 1 # 1
          /\ i + 1 = Len(calls) <=> i = Len(calls')
          /\ i + 1 < Len(calls) <=> i < Len(calls')
      BY <2>1, <2>2, <3>1
    <3>4. QED
      BY <2>2, <3>1, <3>2, <3>3
  <2>5. QED
    BY <2>1, <2>2, <2>3, <2>4
<1>5. Chained(calls')
  BY <1>1, <1>2, <1>4 DEF Chained
<1>6. \A r \in Ranks : Left(r) = {} /\ Ordered(Place, todo'[r]) /\ Contents(todo'[r]) = StepsOf(c)
  BY <1>1, <1>3, ProgramBlock, IdleIsEmpty, ConfigsAssumption DEF Types, Block
<1>7. OrderInv'
  BY <1>1, <1>3, <1>5, <1>6 DEF OrderInv, Chained
<1>8. \A r \in Ranks : Left(r)' = StepsOf(c)
  BY <1>6 DEF Left
<1>9. /\ c \in {"generate", "sleep", "wake_up"} => cfg.async
      /\ c \in {"sleep", "wake_up"} => cfg.free_cache
      /\ c = "generate_sequences" => ~cfg.async
      /\ c = "load_checkpoint" => calls' = <<>>
  BY <1>2, <1>4 DEF Chained
<1>10. ~Starting'
  BY <1>2, <1>4 DEF Chained, Starting, NextIs
<1>11. cfg.free_cache =>
          /\ NextIs({"generate"})' <=> c = "wake_up"
          /\ NextIs({"sleep"})' <=> (c = "generate" \/ (c = "init_model" /\ cfg.async))
  BY <1>2, <1>4 DEF Chained, NextIs
<1>12. QED
  BY <1>1, <1>3, <1>6, <1>7, <1>8, <1>9, <1>10, <1>11

\* Which steps a call has.
NeedsParams(c) ==
    \/ c \in {"generate_sequences", "wake_up", "compute_log_prob", "update_actor", "save_checkpoint"}
    \/ c = "load_checkpoint" /\ cfg.resumed
    \/ c = "ref_log_prob" /\ cfg.lora

EndsInTrainerMode(c) == c \in {"generate_sequences", "sleep"} \/ (c = "init_model" /\ ~cfg.async)

Members(S, c) ==
    /\ "load_params" \in S <=> (cfg.offload /\ NeedsParams(c))
    /\ "load_optimizer" \in S <=> (cfg.offload /\ c = "update_actor")
    /\ S \cap Work # {} <=> NeedsParams(c)
    /\ "gather" \in S <=> c \in Generations
    /\ "update" \in S <=> c = "update_actor"
    /\ "load" \in S <=> (c = "load_checkpoint" /\ cfg.resumed)
    /\ "offload_params" \in S <=>
          (cfg.offload /\ (NeedsParams(c) \/ c \in {"init_model", "load_checkpoint"}))
    /\ "offload_optimizer" \in S <=>
          (cfg.offload /\ c \in {"init_model", "load_checkpoint", "update_actor"})
    /\ "build_rollout" \in S <=> c = "init_model"
    /\ "resume_weights" \in S <=> (c \in Generations /\ cfg.free_cache)
    /\ "update_base" \in S <=> (c \in Generations /\ cfg.lora /\ cfg.level2)
    /\ "update_weights" \in S <=> c \in Generations
    /\ "resume_kv" \in S <=> (c \in Generations /\ cfg.free_cache)
    /\ "to_gen_states" \in S <=> c \in Generations
    /\ "generate" \in S <=> c \in {"generate_sequences", "generate"}
    /\ "release" \in S <=> (cfg.free_cache /\ EndsInTrainerMode(c))
    /\ "to_torch_states" \in S <=> EndsInTrainerMode(c)

LEMMA StepsOfCall ==
    ASSUME cfg \in Settings, NEW c \in CallNames
    PROVE  Members(StepsOf(c), c)
<1> USE DEF StepsOf, RolloutSteps, TrainerSteps, WithParamsSteps, Opt, Work, Generations,
            NeedsParams, EndsInTrainerMode, Members
<1>1. CASE c \in {"generate_sequences", "wake_up"}
  BY <1>1
<1>2. CASE c \in {"init_model", "load_checkpoint"}
  <2>1. CASE c = "init_model"
    BY <2>1
  <2>2. CASE c = "load_checkpoint"
    BY <2>2
  <2>3. QED
    BY <1>2, <2>1, <2>2
<1>3. CASE c \in {"generate", "sleep"}
  BY <1>3
<1>4. CASE c \in {"compute_log_prob", "ref_log_prob", "update_actor", "save_checkpoint"}
  BY <1>4
<1>5. CASE c \in {"new_batch", "prepare_ref_inputs", "base_ref_log_prob", "base_log_prob"}
  BY <1>5
<1>6. QED
  BY <1>1, <1>2, <1>3, <1>4, <1>5 DEF CallNames, FreeCalls

\* A call begins in the right state of every rank.
LEMMA CallKeepsRanks ==
    ASSUME SafeInv, NEW c, Issue(c), UNCHANGED <<actor, engine, random>>,
           \A r \in Ranks : prefix'[r] \in {prefix[r], {}}
    PROVE  (\A r \in Ranks : RankInv(r)') /\ VersionInv' /\ OrderInv'
<1>1. /\ c \in CallNames /\ OrderInv'
      /\ \A r \in Ranks : Left(r) = {} /\ Left(r)' = StepsOf(c)
      /\ UNCHANGED cfg /\ calls # <<>> /\ Head(calls) = c /\ ~Starting'
      /\ ToCall = {c} \cup ToCall'
      /\ \A x \in ToCall' : x \in CallNames /\ Before(CallPlace, c, x)
  BY IssueFacts DEF SafeInv
<1>2. /\ c \in {"generate", "sleep", "wake_up"} => cfg.async
      /\ c \in {"sleep", "wake_up"} => cfg.free_cache
      /\ c = "generate_sequences" => ~cfg.async
      /\ c \in {"load_checkpoint", "update_actor"} => calls' = <<>>
      /\ cfg.free_cache => (NextIs(NeedsEngine)' <=> \/ c \in {"wake_up", "generate"}
                                                     \/ c = "init_model" /\ cfg.async)
  <2>1. /\ c \in {"generate", "sleep", "wake_up"} => cfg.async
        /\ c \in {"sleep", "wake_up"} => cfg.free_cache
        /\ c = "generate_sequences" => ~cfg.async
        /\ c = "load_checkpoint" => calls' = <<>>
        /\ cfg.free_cache =>
                /\ NextIs({"generate"})' <=> c = "wake_up"
                /\ NextIs({"sleep"})' <=> (c = "generate" \/ (c = "init_model" /\ cfg.async))
    BY IssueFacts DEF SafeInv
  <2>2. NextIs(NeedsEngine)' <=> (NextIs({"generate"})' \/ NextIs({"sleep"})')
    BY DEF NextIs, NeedsEngine
  <2>3. ASSUME c = "update_actor", calls' # <<>>
        PROVE  FALSE
    <3>1. PICK x : x \in ToCall'
      <4>1. calls' \in Seq(CallNames)
        BY <1>1, CallValues DEF OrderInv, Ordered
      <4>2. 1 \in DOMAIN calls'
        BY <2>3, <4>1
      <4>3. QED
        BY <4>2 DEF ToCall, Contents
    <3>2. x \in CallNames /\ Before(CallPlace, "update_actor", x)
      BY <1>1, <2>3, <3>1
    <3>3. QED
      BY <3>2, CallValues DEF Before, CallNames, FreeCalls
  <2>4. QED
    BY <2>1, <2>2, <2>3
<1>3. ASSUME NEW r \in Ranks
      PROVE  RankInv(r)'
  <2>1. Left(r) = {} /\ Members(Left(r)', c)
    BY <1>1, StepsOfCall, ConfigsAssumption DEF SafeInv, Types
  <2>2. /\ Starting <=> c = "init_model"
        /\ NextIs(NeedsEngine) <=> c \in {"generate", "sleep"}
    BY <1>1 DEF Starting, NextIs, NeedsEngine
  <2>3. /\ actor'[r] = actor[r] /\ engine'[r] = engine[r] /\ random'[r] = random[r]
        /\ prefix'[r] \in {prefix[r], {}} /\ cfg \in Settings
    BY ConfigsAssumption DEF SafeInv, Types
  <2>4. LeftOf(r) /\ EngineOf(r) /\ StartOf(r) /\ RandomOf(r) /\ MemoryOf(r)
    BY DEF SafeInv, RankInv
  <2>5. cfg.free_cache => (engine[r].kv_awake <=> c \in {"generate", "sleep"})
    BY <2>1, <2>2, <2>4 DEF EngineOf, WillBeAwake
  <2>6. ~cfg.free_cache => engine[r].kv_awake \/ c = "init_model"
    BY <2>1, <2>2, <2>4 DEF EngineOf
  <2>7. c = "init_model" => Unused(r)
    BY <2>2, <2>4 DEF StartOf
  <2>8. LeftOf(r)'
    BY <1>1, <1>2, <2>1, <2>3, <2>5, <2>6, <2>7
       DEF LeftOf, Members, Generations, EndsInTrainerMode, NeedsParams, Unused
  <2>9. EngineOf(r)'
    BY <1>1, <1>2, <2>1, <2>3, <2>5, <2>6, <2>7
       DEF EngineOf, WillBeAwake, Members, Generations, EndsInTrainerMode
  <2>10. StartOf(r)'
    BY <1>1, <2>1, <2>3, <2>7 DEF StartOf, Members, Unused
  <2>11. RandomOf(r)'
    BY <1>1, <1>2, <2>1, <2>3, <2>4, <2>5, <2>6, <2>7
       DEF RandomOf, Generating, Members, Generations, EndsInTrainerMode, Unused
  <2>12. MemoryOf(r)'
    BY <1>1, <2>1, <2>2, <2>3, <2>4 DEF MemoryOf, Members, NeedsParams
  <2>13. QED
    BY <2>8, <2>9, <2>10, <2>11, <2>12 DEF RankInv
<1>4. VersionInv'
  <2>1. \A r \in Ranks : Members(Left(r)', c) /\ Left(r) = {} /\ actor'[r] = actor[r]
    BY <1>1, StepsOfCall, ConfigsAssumption DEF SafeInv, Types
  <2>2. \A r, q \in Ranks : actor[r].version = actor[q].version
    BY <2>1 DEF SafeInv, VersionInv, FinalVersion
  <2>3. QED
    BY <1>1, <2>1, <2>2 DEF VersionInv, FinalVersion, Members
<1>5. QED
  BY <1>1, <1>3, <1>4

Columns == {"new_batch", "compute_log_prob", "prepare_ref_inputs", "ref_log_prob",
            "base_ref_log_prob", "base_log_prob"}

\* What a call leaves of the plan of the iteration.
LEMMA CallKeepsPlan ==
    ASSUME SafeInv, NEW c, Issue(c)
    PROVE  /\ PlanInv'
           /\ ToCall = {c} \cup ToCall'
           /\ \A x \in Columns : x \in ToCall' => CallPlace[c] < CallPlace[x]
           /\ UNCHANGED cfg /\ c \in CallNames
           /\ \A r \in Ranks : Updates(r)' => Updates(r)
           /\ cfg \in Settings
<1>1. /\ c \in CallNames /\ UNCHANGED cfg
      /\ ToCall = {c} \cup ToCall'
      /\ \A x \in ToCall' : x \in CallNames /\ Before(CallPlace, c, x)
      /\ \A r \in Ranks : Left(r)' = StepsOf(c)
  BY IssueFacts DEF SafeInv
<1>2. cfg \in Settings
  BY ConfigsAssumption DEF SafeInv, Types
<1>3. \A x \in Columns : x \in ToCall' => CallPlace[c] < CallPlace[x]
  BY <1>1, CallValues DEF Before, Columns
<1>4. PlanInv'
  <2>1. ASSUME "new_batch" \in ToCall'
        PROVE  c \notin Columns
    BY <1>3, <2>1, CallValues DEF Columns
  <2>2. QED
    BY <1>1, <2>1 DEF SafeInv, PlanInv, Columns
<1>5. \A r \in Ranks : Updates(r)' => Updates(r)
  BY <1>1, <1>2, StepsOfCall DEF Updates, Members
<1>6. QED
  BY <1>1, <1>2, <1>3, <1>4, <1>5

LEMMA BatchFields ==
    ASSUME Types
    PROVE  /\ batch.ref_inputs \in BOOLEAN /\ cfg.ref_inputs \in BOOLEAN
           /\ Inputs \in {"actor", "ref"}
BY ConfigsAssumption DEF Types, Inputs, Settings

\* Every column is computed from the inputs it is compared on.
LEMMA CallKeepsBatch ==
    ASSUME SafeInv, NEW r \in Ranks,
           \/ CallWorkers \/ CallSleep \/ NewBatch \/ CallComputeLogProb \/ PrepareRefInputs
           \/ CallRefLogProb \/ CallBaseRefLogProb \/ CallBaseLogProb
    PROVE  BatchOf(r)'
<1> USE CallValues DEF Columns, BatchOf, RefInputs
<1>a. BatchOf(r) /\ batch.ref_inputs \in BOOLEAN /\ cfg.ref_inputs \in BOOLEAN
  BY BatchFields DEF SafeInv
<1>b. batch \in [ref_inputs : BOOLEAN, old : {"none", "actor", "ref"}, version : Int,
                 ref : {"none", "actor", "ref"}, base : {"none", "actor", "ref"},
                 base_ref : {"none", "actor", "ref"}]
  BY DEF SafeInv, Types
<1>1. CASE CallWorkers \/ CallSleep
  <2>1. PICK c \in CallNames \ Columns : Issue(c) /\ UNCHANGED <<batch, actor>>
    BY <1>1 DEF CallWorkers, CallSleep, workerVars, CallNames, FreeCalls
  <2>2. QED
    BY <1>a, <2>1, CallKeepsPlan
<1>2. CASE NewBatch
  <2>1. PlanInv /\ batch' = NoBatch /\ Issue("new_batch")
    BY <1>2 DEF NewBatch, SafeInv
  <2>2. /\ ToCall = {"new_batch"} \cup ToCall' /\ UNCHANGED cfg
        /\ \A x \in Columns : x \in ToCall => x = "new_batch" \/ x \in ToCall'
        /\ cfg.base \in BOOLEAN /\ "new_batch" \in ToCall
    BY <2>1, CallKeepsPlan DEF Settings
  <2>3. /\ {"compute_log_prob", "ref_log_prob"} \subseteq ToCall'
        /\ "prepare_ref_inputs" \in ToCall' <=> cfg.ref_inputs
        /\ cfg.base => {"base_ref_log_prob", "base_log_prob"} \subseteq ToCall'
    BY <2>1, <2>2 DEF PlanInv
  <2>4. QED
    BY <1>a, <2>1, <2>2, <2>3 DEF NoBatch
<1>3. CASE CallComputeLogProb
  <2>1. PICK q \in Ranks : batch' = [batch EXCEPT !.old = Inputs, !.version = actor[q].version]
    BY <1>3 DEF CallComputeLogProb
  <2>2. Issue("compute_log_prob") /\ actor' = actor
    BY <1>3 DEF CallComputeLogProb, workerVars
  <2>3. actor[q].version = actor[r].version
    <3>1. Left(r) = {} /\ Left(q) = {}
      BY <2>2, IssueFacts DEF SafeInv
    <3>2. QED
      BY <3>1 DEF SafeInv, VersionInv, FinalVersion
  <2>4. QED
    BY <1>a, <1>b, <2>1, <2>2, <2>3, CallKeepsPlan DEF Inputs
<1>4. CASE PrepareRefInputs
  <2>1. /\ Issue("prepare_ref_inputs") /\ actor' = actor
        /\ batch' = [batch EXCEPT !.ref_inputs = TRUE]
    BY <1>4 DEF PrepareRefInputs, workerVars
  <2>2. /\ ToCall = {"prepare_ref_inputs"} \cup ToCall' /\ UNCHANGED cfg /\ (Updates(r)' => Updates(r))
        /\ \A x \in Columns : x \in ToCall => x = "prepare_ref_inputs" \/ x \in ToCall'
        /\ {"new_batch", "compute_log_prob", "prepare_ref_inputs"} \cap ToCall' = {}
    BY <2>1, CallKeepsPlan
  <2>3. /\ batch'.ref_inputs = TRUE /\ batch'.old = batch.old /\ batch'.version = batch.version
        /\ batch'.ref = batch.ref /\ batch'.base_ref = batch.base_ref /\ batch'.base = batch.base
    BY <1>b, <2>1
  <2>4. "new_batch" \notin ToCall' /\ Updates(r)' => cfg.ref_inputs = TRUE
    BY <1>a, <2>2
  <2>5. QED
    BY <1>a, <2>1, <2>2, <2>3, <2>4
<1>5. CASE CallRefLogProb
  <2>1. /\ Issue("ref_log_prob") /\ actor' = actor
        /\ batch' = [batch EXCEPT !.ref = Inputs]
    BY <1>5 DEF CallRefLogProb, workerVars
  <2>2. QED
    BY <1>a, <1>b, <2>1, CallKeepsPlan DEF Inputs
<1>6. CASE CallBaseRefLogProb
  <2>1. /\ Issue("base_ref_log_prob") /\ actor' = actor
        /\ batch' = [batch EXCEPT !.base_ref = Inputs]
    BY <1>6 DEF CallBaseRefLogProb, workerVars
  <2>2. QED
    BY <1>a, <1>b, <2>1, CallKeepsPlan DEF Inputs
<1>7. CASE CallBaseLogProb
  <2>1. /\ Issue("base_log_prob") /\ actor' = actor
        /\ batch' = [batch EXCEPT !.base = "actor"]
    BY <1>7 DEF CallBaseLogProb, workerVars
  <2>2. QED
    BY <1>a, <1>b, <2>1, CallKeepsPlan
<1>8. QED
  BY <1>1, <1>2, <1>3, <1>4, <1>5, <1>6, <1>7

-----------------------------------------------------------------------------
(* The calls of an iteration. *)
EngineCalls == {"init_model", "load_checkpoint", "generate_sequences", "wake_up", "generate", "sleep"}

\* s can follow and precede other calls
Fits(s) ==
    /\ s \in Seq(CallNames) /\ Chained(s)
    /\ Contents(s) \cap {"init_model", "load_checkpoint"} = {}
    /\ cfg.free_cache /\ s # <<>> => Head(s) \notin NeedsEngine

FitBlock(s, S, lo, hi) == Block(CallPlace, s, S, lo, hi) /\ Fits(s)

LEMMA QuietFits ==
    ASSUME NEW s \in Seq(CallNames), Contents(s) \cap EngineCalls = {}
    PROVE  Fits(s)
<1>1. \A i \in DOMAIN s : s[i] \notin EngineCalls
  BY DEF Contents
<1>2. \A i \in DOMAIN s : i < Len(s) => i + 1 \in DOMAIN s
  OBVIOUS
<1>3. Chained(s)
  BY <1>1, <1>2 DEF Chained, EngineCalls
<1>4. s # <<>> => Head(s) = s[1] /\ 1 \in DOMAIN s
  OBVIOUS
<1>5. QED
  BY <1>1, <1>3, <1>4 DEF Fits, EngineCalls, NeedsEngine

LEMMA OptFits ==
    ASSUME NEW x \in CallNames \ EngineCalls, NEW b \in BOOLEAN
    PROVE  FitBlock(If(b, x), Opt(b, x), CallPlace[x], CallPlace[x])
<1>1. Block(CallPlace, If(b, x), Opt(b, x), CallPlace[x], CallPlace[x])
  BY OptBlock, CallValues
<1>2. QED
  BY <1>1, QuietFits, CallValues DEF FitBlock, Block, Ordered, Opt

LEMMA OneFits ==
    ASSUME NEW x \in CallNames \ EngineCalls
    PROVE  FitBlock(<<x>>, {x}, CallPlace[x], CallPlace[x])
<1>1. Block(CallPlace, <<x>>, {x}, CallPlace[x], CallPlace[x])
  BY OneBlock, CallValues
<1>2. QED
  BY <1>1, QuietFits, CallValues DEF FitBlock, Block, Ordered

LEMMA NoneFits ==
    ASSUME NEW lo, NEW hi
    PROVE  FitBlock(<<>>, {}, lo, hi)
BY EmptyBlock DEF FitBlock, Fits, Chained, Contents

LEMMA CatFits ==
    ASSUME NEW lo \in Nat, NEW m \in Nat, NEW a, NEW S, FitBlock(a, S, lo, m),
           NEW n \in Nat, NEW hi \in Nat, NEW b, NEW T, FitBlock(b, T, n, hi),
           lo <= n, m <= hi, m < n \/ m = 0
    PROVE  FitBlock(a \o b, S \cup T, lo, hi)
<1>1. Block(CallPlace, a \o b, S \cup T, lo, hi)
  BY CatBlock, CallValues DEF FitBlock
<1>2. /\ a \in Seq(CallNames) /\ b \in Seq(CallNames) /\ a \o b \in Seq(CallNames)
      /\ Len(a) \in Nat /\ Len(b) \in Nat /\ Len(a \o b) = Len(a) + Len(b)
      /\ DOMAIN a = 1 .. Len(a) /\ DOMAIN b = 1 .. Len(b)
      /\ DOMAIN (a \o b) = 1 .. Len(a) + Len(b)
      /\ \A i \in DOMAIN a : (a \o b)[i] = a[i]
      /\ \A i \in DOMAIN b : (a \o b)[i + Len(a)] = b[i]
  <2>1. a \in Seq(CallNames) /\ b \in Seq(CallNames)
    BY DEF FitBlock, Fits
  <2>2. QED
    BY <2>1, CatValues
<1>3. Contents(a) = S /\ Contents(b) = T /\ Contents(a \o b) = S \cup T
  BY <1>1 DEF FitBlock, Block
<1>4. Contents(a \o b) \cap {"init_model", "load_checkpoint"} = {}
  BY <1>3 DEF FitBlock, Fits
<1>5. cfg.free_cache /\ a \o b # <<>> => Head(a \o b) \notin NeedsEngine
  <2>1. CASE a = <<>>
    BY <1>2, <2>1 DEF FitBlock, Fits
  <2>2. CASE a # <<>>
    <3>1. Head(a \o b) = Head(a)
      BY <1>2, <2>2
    <3>2. QED
      BY <2>2, <3>1 DEF FitBlock, Fits
  <2>3. QED
    BY <2>1, <2>2
<1>6. Chained(a \o b)
  <2> SUFFICES ASSUME NEW i \in DOMAIN (a \o b)
               PROVE  LET s == a \o b
                      IN  /\ s[i] = "init_model" => i = 1
                          /\ s[i] = "load_checkpoint" => i = Len(s)
                          /\ s[i] \in {"generate", "sleep", "wake_up"} => cfg.async
                          /\ s[i] \in {"sleep", "wake_up"} => cfg.free_cache
                          /\ s[i] = "generate_sequences" => ~cfg.async
                          /\ cfg.free_cache =>
                               /\ s[i] = "wake_up" <=> (i < Len(s) /\ s[i + 1] = "generate")
                               /\ s[i] = "generate" \/ (s[i] = "init_model" /\ cfg.async)
                                     <=> (i < Len(s) /\ s[i + 1] = "sleep")
    BY DEF Chained
  <2>1. (a \o b)[i] \notin {"init_model", "load_checkpoint"}
    BY <1>4 DEF Contents
  <2>2. CASE i \in DOMAIN a /\ i < Len(a)
    <3>1. /\ i + 1 \in DOMAIN a /\ i < Len(a \o b)
          /\ (a \o b)[i] = a[i] /\ (a \o b)[i + 1] = a[i + 1]
      BY <1>2, <2>2
    <3>2. QED
      BY <2>1, <2>2, <3>1 DEF FitBlock, Fits, Chained
  <2>3. CASE i = Len(a)
    <3>1. i \in DOMAIN a /\ (a \o b)[i] = a[i]
      BY <1>2, <2>3
    <3>2. cfg.free_cache => a[i] \notin {"wake_up", "generate"}
      BY <1>2, <2>3, <3>1 DEF FitBlock, Fits, Chained
    <3>3. i < Len(a \o b) => b # <<>> /\ (a \o b)[i + 1] = Head(b)
      <4>1. i < Len(a \o b) => 1 \in DOMAIN b /\ b # <<>>
        BY <1>2, <2>3
      <4>2. b # <<>> => Head(b) = b[1]
        BY <1>2
      <4>3. 1 \in DOMAIN b => (a \o b)[1 + Len(a)] = b[1] /\ 1 + Len(a) = i + 1
        BY <1>2, <2>3
      <4>4. QED
        BY <4>1, <4>2, <4>3
    <3>4. cfg.free_cache /\ i < Len(a \o b) => (a \o b)[i + 1] \notin {"generate", "sleep"}
      BY <3>3 DEF FitBlock, Fits, NeedsEngine
    <3>5. QED
      BY <2>1, <3>1, <3>2, <3>4 DEF FitBlock, Fits, Chained
  <2>4. CASE i > Len(a)
    <3>1. PICK k \in DOMAIN b : i = k + Len(a)
      <4>1. i - Len(a) \in DOMAIN b /\ i = (i - Len(a)) + Len(a)
        BY <1>2, <2>4
      <4>2. QED
        BY <4>1
    <3>2. /\ (a \o b)[i] = b[k]
          /\ i < Len(a \o b) <=> k < Len(b)
          /\ k < Len(b) => k + 1 \in DOMAIN b /\ i + 1 = (k + 1) + Len(a)
      <4>1. k \in Nat /\ 1 <= k /\ k <= Len(b) /\ Len(a) \in Nat /\ Len(b) \in Nat
            /\ Len(a \o b) = Len(a) + Len(b) /\ DOMAIN b = 1 .. Len(b)
        BY <1>2
      <4>2. (a \o b)[i] = b[k]
        BY <1>2, <3>1
      <4>3. QED
        BY <3>1, <4>1, <4>2
    <3>3. ASSUME k < Len(b)
          PROVE  (a \o b)[i + 1] = b[k + 1]
      <4>1. k + 1 \in DOMAIN b /\ i + 1 = (k + 1) + Len(a)
        BY <3>2, <3>3
      <4>2. (a \o b)[(k + 1) + Len(a)] = b[k + 1]
        BY <1>2, <4>1
      <4>3. QED
        BY <4>1, <4>2
    <3>4. Chained(b)
      BY DEF FitBlock, Fits
    <3>5. /\ b[k] \in {"generate", "sleep", "wake_up"} => cfg.async
          /\ b[k] \in {"sleep", "wake_up"} => cfg.free_cache
          /\ b[k] = "generate_sequences" => ~cfg.async
          /\ cfg.free_cache =>
               /\ b[k] = "wake_up" <=> (k < Len(b) /\ b[k + 1] = "generate")
               /\ b[k] = "generate" \/ (b[k] = "init_model" /\ cfg.async)
                     <=> (k < Len(b) /\ b[k + 1] = "sleep")
      BY <3>4 DEF Chained
    <3>6. QED
      BY <2>1, <3>2, <3>3, <3>5
  <2>5. QED
    BY <1>2, <2>2, <2>3, <2>4
<1>7. QED
  BY <1>1, <1>2, <1>4, <1>5, <1>6 DEF FitBlock, Fits

LEMMA FreeBlock ==
    ASSUME NEW s \in Seq(FreeCalls)
    PROVE  Block(CallPlace, s, Contents(s), 0, 0)
<1>1. \A x \in FreeCalls : x \in CallNames /\ CallPlace[x] = 0
  BY CallValues DEF FreeCalls
<1>2. \A i \in DOMAIN s : s[i] \in FreeCalls
  OBVIOUS
<1>3. s \in Seq(CallNames)
  BY <1>1
<1>4. QED
  BY <1>1, <1>2, <1>3, CallValues DEF Block, Ordered, Before, Contents

LEMMA GenerationFits ==
    ASSUME cfg \in Settings
    PROVE  /\ FitBlock(Generation, Contents(Generation), 0, 0)
           /\ (cfg.async => cfg.free_cache) => Contents(Generation) \cap Generations # {}
<1>1. CASE ~cfg.async
  <2> DEFINE s == <<"generate_sequences">>
  <2>1. Generation = s
    BY <1>1 DEF Generation
  <2>2. s \in Seq(FreeCalls) /\ Len(s) = 1 /\ DOMAIN s = {1} /\ s[1] = "generate_sequences" /\ Head(s) = s[1]
    BY DEF FreeCalls
  <2> HIDE DEF s
  <2>3. s \in Seq(CallNames)
    BY <2>2 DEF CallNames
  <2>4. Contents(s) = {"generate_sequences"}
    BY <2>2 DEF Contents
  <2>5. Fits(s)
    BY <1>1, <2>2, <2>3, <2>4 DEF Fits, Chained, NeedsEngine
  <2>6. QED
    BY <2>1, <2>2, <2>4, <2>5, FreeBlock DEF FitBlock, Generations
<1>2. CASE cfg.async /\ cfg.free_cache
  <2> DEFINE s == <<"wake_up", "generate", "sleep">>
  <2>1. Generation = s
    BY <1>2, Triple DEF Generation, If
  <2>2. /\ s \in Seq(FreeCalls) /\ Len(s) = 3 /\ DOMAIN s = {1, 2, 3}
        /\ s[1] = "wake_up" /\ s[2] = "generate" /\ s[3] = "sleep" /\ Head(s) = s[1]
    BY DEF FreeCalls
  <2> HIDE DEF s
  <2>3. s \in Seq(CallNames)
    BY <2>2 DEF CallNames
  <2>4. Contents(s) = {"wake_up", "generate", "sleep"}
    BY <2>2 DEF Contents
  <2>5. Chained(s)
    BY <1>2, <2>2 DEF Chained
  <2>6. Fits(s)
    BY <1>2, <2>2, <2>3, <2>4, <2>5 DEF Fits, NeedsEngine
  <2>7. QED
    BY <2>1, <2>2, <2>4, <2>6, FreeBlock DEF FitBlock, Generations
<1>3. CASE cfg.async /\ ~cfg.free_cache
  <2> DEFINE s == <<"generate">>
  <2>1. Generation = s
    BY <1>3, Neutral DEF Generation, If
  <2>2. s \in Seq(FreeCalls) /\ Len(s) = 1 /\ DOMAIN s = {1} /\ s[1] = "generate" /\ Head(s) = s[1]
    BY DEF FreeCalls
  <2> HIDE DEF s
  <2>3. s \in Seq(CallNames)
    BY <2>2 DEF CallNames
  <2>4. Contents(s) = {"generate"}
    BY <2>2 DEF Contents
  <2>5. Fits(s)
    BY <1>3, <2>2, <2>3, <2>4 DEF Fits, Chained, NeedsEngine
  <2>6. QED
    BY <1>3, <2>1, <2>2, <2>4, <2>5, FreeBlock DEF FitBlock
<1>4. QED
  BY <1>1, <1>2, <1>3

LEMMA StartUpFacts ==
    ASSUME cfg \in Settings
    PROVE  /\ Ordered(CallPlace, StartUp) /\ Chained(StartUp)
           /\ StartUp # <<>> /\ Head(StartUp) = "init_model"
           /\ Contents(StartUp) \subseteq FreeCalls
<1>1. CASE cfg.async /\ cfg.free_cache
  <2> DEFINE s == <<"init_model", "sleep", "load_checkpoint">>
  <2>1. StartUp = s
    BY <1>1, Triple DEF StartUp, If
  <2>2. /\ s \in Seq(FreeCalls) /\ Len(s) = 3 /\ DOMAIN s = {1, 2, 3}
        /\ s[1] = "init_model" /\ s[2] = "sleep" /\ s[3] = "load_checkpoint" /\ Head(s) = s[1] /\ s # <<>>
    BY DEF FreeCalls
  <2> HIDE DEF s
  <2>3. Chained(s)
    BY <1>1, <2>2 DEF Chained
  <2>4. QED
    BY <2>1, <2>2, <2>3, FreeBlock DEF Block, Contents
<1>2. CASE ~(cfg.async /\ cfg.free_cache)
  <2> DEFINE s == <<"init_model", "load_checkpoint">>
  <2>1. StartUp = s
    BY <1>2, Neutral, Pair DEF StartUp, If
  <2>2. /\ s \in Seq(FreeCalls) /\ Len(s) = 2 /\ DOMAIN s = {1, 2}
        /\ s[1] = "init_model" /\ s[2] = "load_checkpoint" /\ Head(s) = s[1] /\ s # <<>>
    BY DEF FreeCalls
  <2> HIDE DEF s
  <2>3. Chained(s)
    BY <1>2, <2>2 DEF Chained
  <2>4. QED
    BY <2>1, <2>2, <2>3, FreeBlock DEF Block, Contents
<1>3. QED
  BY <1>1, <1>2

\* The calls of the batch, behind those of the generation.
LEMMA IterationFits ==
    ASSUME cfg \in Settings, NEW n
    PROVE  \E S : /\ FitBlock(Iteration(n), S, 0, 7)
                  /\ {"new_batch", "compute_log_prob", "ref_log_prob"} \subseteq S
                  /\ "prepare_ref_inputs" \in S <=> cfg.ref_inputs
                  /\ cfg.base => {"base_ref_log_prob", "base_log_prob"} \subseteq S
                  /\ (cfg.async => cfg.free_cache) => S \cap Generations # {}
<1> DEFINE G  == Contents(Generation)
           g2 == IF cfg.remax THEN Generation ELSE <<>>
           G2 == IF cfg.remax THEN G ELSE {}
           s1 == Generation \o g2
           s2 == s1 \o <<"new_batch", "compute_log_prob">>
           s3 == s2 \o If(cfg.ref_inputs, "prepare_ref_inputs")
           s4 == s3 \o <<"ref_log_prob">>
           s5 == s4 \o If(cfg.base, "base_ref_log_prob")
           s6 == s5 \o If(cfg.base, "base_log_prob")
           s7 == s6 \o If(CriticWarmup <= n, "update_actor")
           S2 == (G \cup G2) \cup ({"new_batch"} \cup {"compute_log_prob"})
           S4 == (S2 \cup Opt(cfg.ref_inputs, "prepare_ref_inputs")) \cup {"ref_log_prob"}
           S6 == (S4 \cup Opt(cfg.base, "base_ref_log_prob")) \cup Opt(cfg.base, "base_log_prob")
           S7 == S6 \cup Opt(CriticWarmup <= n, "update_actor")
<1>1. FitBlock(Generation, G, 0, 0)
  BY GenerationFits
<1>2. FitBlock(g2, G2, 0, 0)
  <2>1. CASE cfg.remax
    BY <1>1, <2>1
  <2>2. CASE ~cfg.remax
    BY <2>2, NoneFits
  <2>3. QED
    BY <2>1, <2>2
<1>3. (cfg.async => cfg.free_cache) => G \cap Generations # {}
  BY GenerationFits
<1> HIDE DEF G, g2, G2
<1>4. FitBlock(s1, G \cup G2, 0, 0)
  BY <1>1, <1>2, CatFits
<1> HIDE DEF s1
<1>5. FitBlock(<<"new_batch", "compute_log_prob">>, {"new_batch"} \cup {"compute_log_prob"}, 1, 2)
  <2>1. FitBlock(<<"new_batch">>, {"new_batch"}, 1, 1)
    BY OneFits, CallValues DEF EngineCalls
  <2>2. FitBlock(<<"compute_log_prob">>, {"compute_log_prob"}, 2, 2)
    BY OneFits, CallValues DEF EngineCalls
  <2>3. <<"new_batch">> \o <<"compute_log_prob">> = <<"new_batch", "compute_log_prob">>
    BY Pair
  <2>4. FitBlock(<<"new_batch">> \o <<"compute_log_prob">>, {"new_batch"} \cup {"compute_log_prob"}, 1, 2)
    BY <2>1, <2>2, CatFits
  <2>5. QED
    BY <2>3, <2>4
<1>6. FitBlock(s2, S2, 0, 2)
  BY <1>4, <1>5, CatFits
<1> HIDE DEF s2, S2
<1>7. FitBlock(s4, S4, 0, 4)
  <2>1. FitBlock(If(cfg.ref_inputs, "prepare_ref_inputs"), Opt(cfg.ref_inputs, "prepare_ref_inputs"), 3, 3)
    BY OptFits, CallValues, Switches DEF EngineCalls
  <2>2. FitBlock(s3, S2 \cup Opt(cfg.ref_inputs, "prepare_ref_inputs"), 0, 3)
    BY <1>6, <2>1, CatFits
  <2>3. FitBlock(<<"ref_log_prob">>, {"ref_log_prob"}, 4, 4)
    BY OneFits, CallValues DEF EngineCalls
  <2> HIDE DEF s3
  <2>4. QED
    BY <2>2, <2>3, CatFits
<1> HIDE DEF s4, S4
<1>8. FitBlock(s6, S6, 0, 6)
  <2>1. FitBlock(If(cfg.base, "base_ref_log_prob"), Opt(cfg.base, "base_ref_log_prob"), 5, 5)
    BY OptFits, CallValues, Switches DEF EngineCalls
  <2>2. FitBlock(s5, S4 \cup Opt(cfg.base, "base_ref_log_prob"), 0, 5)
    BY <1>7, <2>1, CatFits
  <2>3. FitBlock(If(cfg.base, "base_log_prob"), Opt(cfg.base, "base_log_prob"), 6, 6)
    BY OptFits, CallValues, Switches DEF EngineCalls
  <2> HIDE DEF s5
  <2>4. QED
    BY <2>2, <2>3, CatFits
<1> HIDE DEF s6, S6
<1>9. FitBlock(s7, S7, 0, 7)
  <2>1. FitBlock(If(CriticWarmup <= n, "update_actor"), Opt(CriticWarmup <= n, "update_actor"), 7, 7)
    <3>1. CASE CriticWarmup <= n
      BY <3>1, OneFits, CallValues DEF EngineCalls, If, Opt
    <3>2. CASE ~(CriticWarmup <= n)
      BY <3>2, NoneFits DEF If, Opt
    <3>3. QED
      BY <3>1, <3>2
  <2>2. QED
    BY <1>8, <2>1, CatFits
<1>10. Iteration(n) = s7
  BY DEF Iteration, s1, s2, s3, s4, s5, s6, g2
<1>11. /\ {"new_batch", "compute_log_prob", "ref_log_prob"} \subseteq S7
       /\ cfg.base => {"base_ref_log_prob", "base_log_prob"} \subseteq S7
       /\ (cfg.async => cfg.free_cache) => S7 \cap Generations # {}
  BY <1>3, Switches DEF S2, S4, S6, Opt
<1>12. "prepare_ref_inputs" \in S7 <=> cfg.ref_inputs
  <2>1. "prepare_ref_inputs" \notin G \cup G2
    BY <1>4, CallValues DEF FitBlock, Block
  <2>2. QED
    BY <2>1, Switches DEF S2, S4, S6, Opt
<1>13. QED
  BY <1>9, <1>10, <1>11, <1>12

LEMMA NextStepFacts ==
    ASSUME Types, NextStep
    PROVE  /\ calls = <<>> /\ UNCHANGED <<cfg, batch, todo, workerVars>>
           /\ Ordered(CallPlace, calls') /\ Chained(calls')
           /\ ~Starting' /\ (cfg.free_cache => ~NextIs(NeedsEngine)')
           /\ "new_batch" \in ToCall' =>
                 /\ {"compute_log_prob", "ref_log_prob"} \subseteq ToCall'
                 /\ "prepare_ref_inputs" \in ToCall' <=> cfg.ref_inputs
                 /\ cfg.base => {"base_ref_log_prob", "base_log_prob"} \subseteq ToCall'
           /\ "update_actor" \in ToCall' =>
                 /\ "new_batch" \in ToCall'
                 /\ (cfg.async => cfg.free_cache) => ToCall' \cap Generations # {}
<1>1. /\ calls = <<>> /\ UNCHANGED <<cfg, batch, todo, workerVars>> /\ cfg \in Settings
  BY ConfigsAssumption DEF NextStep, Types
<1>2. PICK validate \in BOOLEAN, save \in BOOLEAN :
          calls' = (IF validate THEN Generation ELSE <<>>)
                   \o If(save /\ global_steps > 0, "save_checkpoint")
                   \o (IF global_steps < TotalSteps THEN Iteration(global_steps + 1) ELSE <<>>)
  BY DEF NextStep
<1> DEFINE v == IF validate THEN Generation ELSE <<>>
           w == If(save /\ global_steps > 0, "save_checkpoint")
           i == IF global_steps < TotalSteps THEN Iteration(global_steps + 1) ELSE <<>>
           f == v \o w
<1>3. PICK V : FitBlock(v, V, 0, 0)
  <2>1. CASE validate
    BY <1>1, <2>1, GenerationFits
  <2>2. CASE ~validate
    BY <2>2, NoneFits
  <2>3. QED
    BY <2>1, <2>2
<1>4. PICK W : FitBlock(w, W, 0, 0)
  <2>1. CASE save /\ global_steps > 0
    BY <2>1, OneFits, CallValues DEF If, EngineCalls
  <2>2. CASE ~(save /\ global_steps > 0)
    BY <2>2, NoneFits DEF If
  <2>3. QED
    BY <2>1, <2>2
<1>5. PICK I : /\ FitBlock(i, I, 0, 7)
               /\ I = {} \/ /\ {"new_batch", "compute_log_prob", "ref_log_prob"} \subseteq I
                            /\ "prepare_ref_inputs" \in I <=> cfg.ref_inputs
                            /\ cfg.base => {"base_ref_log_prob", "base_log_prob"} \subseteq I
                            /\ (cfg.async => cfg.free_cache) => I \cap Generations # {}
  <2>1. CASE global_steps < TotalSteps
    BY <1>1, <2>1, IterationFits
  <2>2. CASE ~(global_steps < TotalSteps)
    BY <2>2, NoneFits
  <2>3. QED
    BY <2>1, <2>2
<1>6. calls' = f \o i
  BY <1>2
<1> HIDE DEF v, w, i
<1>7. PICK F : FitBlock(f, F, 0, 0)
  <2>1. FitBlock(v \o w, V \cup W, 0, 0)
    BY <1>3, <1>4, CatFits
  <2>2. QED
    BY <2>1
<1> HIDE DEF f
<1>8. FitBlock(calls', F \cup I, 0, 7)
  BY <1>5, <1>6, <1>7, CatFits
<1>9. ToCall' = F \cup I
  BY <1>8 DEF FitBlock, Block, ToCall
<1>10. "new_batch" \notin F /\ "update_actor" \notin F /\ "prepare_ref_inputs" \notin F
  BY <1>7, CallValues DEF FitBlock, Block
<1>11. Ordered(CallPlace, calls') /\ Chained(calls')
  BY <1>8 DEF FitBlock, Block, Fits
<1>12. ~Starting' /\ (cfg.free_cache => ~NextIs(NeedsEngine)')
  <2>1. calls' # <<>> => Head(calls') = calls'[1] /\ 1 \in DOMAIN calls'
    BY <1>8 DEF FitBlock, Fits
  <2>2. calls' # <<>> => Head(calls') # "init_model"
    BY <1>8, <2>1 DEF FitBlock, Fits, Contents
  <2>3. ~Starting'
    BY <2>2 DEF Starting, NextIs
  <2>4. cfg.free_cache => ~NextIs(NeedsEngine)'
    BY <1>8 DEF FitBlock, Fits, NextIs, NeedsEngine
  <2>5. QED
    BY <2>3, <2>4
<1>13. QED
  BY <1>1, <1>5, <1>9, <1>10, <1>11, <1>12

LEMMA NextStepKeepsSafe ==
    ASSUME SafeInv, NextStep
    PROVE  SafeInv'
<1>1. /\ calls = <<>> /\ UNCHANGED <<cfg, batch, todo, workerVars>>
      /\ Ordered(CallPlace, calls') /\ Chained(calls')
      /\ ~Starting' /\ (cfg.free_cache => ~NextIs(NeedsEngine)')
      /\ "update_actor" \in ToCall' => "new_batch" \in ToCall'
  BY NextStepFacts DEF SafeInv
<1>2. UNCHANGED <<cfg, batch, todo, actor, engine, prefix, random>> /\ ~Starting /\ ~NextIs(NeedsEngine)
  BY <1>1 DEF workerVars, Starting, NextIs
<1>3. Types'
  BY <1>2 DEF SafeInv, Types
<1>4. OrderInv'
  BY <1>1, <1>2 DEF SafeInv, OrderInv, Chained
<1>5. ASSUME NEW r \in Ranks
      PROVE  /\ Left(r) = {} /\ Left(r)' = {} /\ RankInv(r)' /\ BatchOf(r)'
             /\ FinalVersion(r)' = FinalVersion(r)
  <2>1. Left(r) = {} /\ Left(r)' = {}
    <3>1. todo[r] = <<>>
      BY DEF NextStep, Idle
    <3>2. QED
      BY <1>2, <3>1, NothingInNothing DEF Left
  <2>2. RankInv(r)
    BY DEF SafeInv
  <2>3. LeftOf(r)' /\ StartOf(r)'
    BY <1>1, <2>1 DEF LeftOf, StartOf
  <2>4. EngineOf(r)'
    BY <1>1, <1>2, <2>1, <2>2 DEF RankInv, EngineOf, WillBeAwake
  <2>5. RandomOf(r)'
    BY <1>2, <2>1, <2>2 DEF RankInv, RandomOf, Generating
  <2>6. MemoryOf(r)'
    BY <1>1, <1>2, <2>1, <2>2 DEF RankInv, MemoryOf
  <2>7. BatchOf(r)'
    BY <1>1, <2>1 DEF BatchOf, Updates
  <2>8. FinalVersion(r)' = FinalVersion(r)
    BY <1>2, <2>1 DEF FinalVersion
  <2>9. QED
    BY <2>1, <2>3, <2>4, <2>5, <2>6, <2>7, <2>8 DEF RankInv
<1>6. VersionInv'
  BY <1>5 DEF SafeInv, VersionInv
<1>7. PlanInv'
  BY <1>1, NextStepFacts DEF SafeInv, PlanInv
<1>8. QED
  BY <1>3, <1>4, <1>5, <1>6, <1>7 DEF SafeInv

LEMMA CallKeepsSafe ==
    ASSUME SafeInv,
           \/ CallWorkers \/ CallSleep \/ NewBatch \/ CallComputeLogProb \/ PrepareRefInputs
           \/ CallRefLogProb \/ CallBaseRefLogProb \/ CallBaseLogProb
    PROVE  SafeInv'
<1>1. PICK c : /\ Issue(c) /\ UNCHANGED <<actor, engine, random>>
               /\ prefix' = prefix \/ prefix' = [r \in Ranks |-> {}]
  BY DEF CallWorkers, CallSleep, NewBatch, CallComputeLogProb, PrepareRefInputs, CallRefLogProb,
         CallBaseRefLogProb, CallBaseLogProb, workerVars
<1>2. DOMAIN todo' = Ranks /\ UNCHANGED cfg
  BY <1>1 DEF Issue
<1>3. batch' \in [ref_inputs : BOOLEAN, old : {"none", "actor", "ref"}, version : Int,
                  ref : {"none", "actor", "ref"}, base : {"none", "actor", "ref"},
                  base_ref : {"none", "actor", "ref"}]
  <2>1. /\ batch \in [ref_inputs : BOOLEAN, old : {"none", "actor", "ref"}, version : Int,
                      ref : {"none", "actor", "ref"}, base : {"none", "actor", "ref"},
                      base_ref : {"none", "actor", "ref"}]
        /\ Inputs \in {"actor", "ref"} /\ \A r \in Ranks : actor[r].version \in Int
    BY BatchFields DEF SafeInv, Types
  <2>2. CASE CallWorkers \/ CallSleep
    BY <2>1, <2>2 DEF CallWorkers, CallSleep
  <2>3. CASE NewBatch
    BY <2>3 DEF NewBatch, NoBatch
  <2>4. CASE CallComputeLogProb
    BY <2>1, <2>4 DEF CallComputeLogProb
  <2>5. CASE PrepareRefInputs
    BY <2>1, <2>5 DEF PrepareRefInputs
  <2>6. CASE CallRefLogProb
    BY <2>1, <2>6 DEF CallRefLogProb
  <2>7. CASE CallBaseRefLogProb
    BY <2>1, <2>7 DEF CallBaseRefLogProb
  <2>8. CASE CallBaseLogProb
    BY <2>1, <2>8 DEF CallBaseLogProb
  <2>9. QED
    BY <2>2, <2>3, <2>4, <2>5, <2>6, <2>7, <2>8
<1>4. Types'
  BY <1>1, <1>2, <1>3 DEF SafeInv, Types
<1>5. (\A r \in Ranks : RankInv(r)') /\ VersionInv' /\ OrderInv'
  BY <1>1, CallKeepsRanks DEF SafeInv, Types
<1>6. PlanInv'
  BY <1>1, CallKeepsPlan
<1>7. \A r \in Ranks : BatchOf(r)'
  BY CallKeepsBatch
<1>8. QED
  BY <1>4, <1>5, <1>6, <1>7 DEF SafeInv

LEMMA InitIsSafe == Init => SafeInv
<1> SUFFICES ASSUME Init PROVE SafeInv
  OBVIOUS
<1>1. /\ cfg \in Settings /\ Ordered(CallPlace, StartUp) /\ Chained(StartUp)
      /\ StartUp # <<>> /\ Head(StartUp) = "init_model"
      /\ Contents(StartUp) \subseteq FreeCalls
  BY ConfigsAssumption, StartUpFacts DEF Init
<1>2. Types
  BY <1>1 DEF Init, Types, NoBatch, Settings
<1>3. Starting /\ ~NextIs(NeedsEngine) /\ ToCall \cap Columns = {} /\ "update_actor" \notin ToCall
  BY <1>1 DEF Init, Starting, NextIs, NeedsEngine, ToCall, FreeCalls, Columns
<1>4. \A r \in Ranks : Left(r) = {} /\ Ordered(Place, todo[r])
  BY EmptyBlock, NothingInNothing DEF Init, Left, Block
<1>5. OrderInv
  BY <1>1, <1>4 DEF Init, OrderInv
<1>6. ASSUME NEW r \in Ranks
      PROVE  RankInv(r) /\ BatchOf(r) /\ FinalVersion(r) = 0
  <2>1. Unused(r) /\ actor[r].params = "gpu" /\ actor[r].optimizer = "gpu"
    BY DEF Init, Unused
  <2>2. LeftOf(r) /\ StartOf(r) /\ EngineOf(r) /\ MemoryOf(r)
    BY <1>3, <1>4, <2>1 DEF LeftOf, StartOf, EngineOf, MemoryOf, WillBeAwake, Unused
  <2>3. RandomOf(r)
    BY <1>4, <2>1 DEF RandomOf, Unused
  <2>4. BatchOf(r) /\ FinalVersion(r) = 0
    BY <1>3, <1>4, <2>1 DEF BatchOf, Updates, FinalVersion, Unused
  <2>5. QED
    BY <2>2, <2>3, <2>4 DEF RankInv
<1>7. VersionInv /\ PlanInv
  BY <1>3, <1>6 DEF VersionInv, PlanInv, Columns
<1>8. QED
  BY <1>2, <1>5, <1>6, <1>7 DEF SafeInv

LEMMA StepKeepsSafe == SafeInv /\ [Next]_vars => SafeInv'
<1> SUFFICES ASSUME SafeInv, [Next]_vars PROVE SafeInv'
  OBVIOUS
<1>1. CASE UNCHANGED vars
  BY <1>1 DEF vars, driverVars, workerVars, SafeInv, Types, OrderInv, Chained, VersionInv, FinalVersion,
              PlanInv, ToCall, RankInv, BatchOf, Updates, RefInputs, Left, LeftOf, EngineOf, StartOf, RandomOf,
              MemoryOf, Starting, NextIs, WillBeAwake, Unused, Generating
<1>2. CASE Finished
  BY <1>1, <1>2 DEF Finished
<1>3. CASE NextStep
  BY <1>3, NextStepKeepsSafe
<1>4. ASSUME NEW r \in Ranks, RankNext(r)
      PROVE  SafeInv'
  BY <1>4, RankKeepsSafe
<1>5. QED
  BY <1>1, <1>2, <1>3, <1>4, CallKeepsSafe DEF Next, DriverNext

\* The invariant of every setting.
THEOREM AlwaysSafe == Spec => []SafeInv
BY InitIsSafe, StepKeepsSafe, PTL DEF Spec

-----------------------------------------------------------------------------
(* What follows for every setting. *)

LEMMA AboutLeft ==
    ASSUME OrderInv, NEW r \in Ranks, NEW s, About(r, {s})
    PROVE  s \in Left(r) /\ \A t \in Left(r) : t = s \/ Place[s] < Place[t]
<1>1. todo[r] # <<>> /\ Head(todo[r]) = s /\ Ordered(Place, todo[r])
  BY DEF About, OrderInv
<1>2. /\ s \in StepNames /\ Contents(todo[r]) = {s} \cup Contents(Tail(todo[r]))
      /\ \A x \in Contents(Tail(todo[r])) : x \in StepNames /\ Before(Place, s, x)
  BY <1>1, TailOrdered, PlaceValues
<1>3. \A x \in StepNames : Place[x] # 0
  BY PlaceValues DEF StepNames, Work
<1>4. QED
  BY <1>2, <1>3 DEF Before, Left

\* Between calls with the engine asleep the trainer's random state has been used
\* by every update and by nothing else.
THEOREM OwnRandomState == Spec => []TrainingRandomIsItsOwn
<1>1. SafeInv => TrainingRandomIsItsOwn
  <2> SUFFICES ASSUME SafeInv, NEW r \in Ranks, todo[r] = <<>>, ~engine[r].kv_awake
               PROVE  random[r].device = <<0, actor[r].version>>
    BY DEF TrainingRandomIsItsOwn
  <2>1. Left(r) = {} /\ EngineOf(r) /\ StartOf(r) /\ RandomOf(r)
    BY IdleIsEmpty DEF SafeInv, RankInv
  <2>2. CASE cfg.free_cache
    BY <2>1, <2>2 DEF RandomOf, Generating
  <2>3. CASE ~cfg.free_cache
    BY <2>1, <2>3 DEF EngineOf, StartOf, Unused
  <2>4. QED
    BY <2>2, <2>3
<1>2. QED
  BY AlwaysSafe, <1>1, PTL

\* Weights are on the GPU when they are used, and with offloading at no other
\* time than a call, and never together with the KV cache.
THEOREM SharedMemory == Spec => []MemoryIsShared
<1>1. SafeInv => MemoryIsShared
  <2> SUFFICES ASSUME SafeInv, NEW r \in Ranks
               PROVE  /\ About(r, {"gather", "compute", "update", "save", "load"}) =>
                            actor[r].params = "gpu"
                      /\ About(r, {"update"}) => actor[r].optimizer = "gpu"
                      /\ cfg.offload /\ cfg.free_cache /\ engine[r].kv_awake =>
                            actor[r].params = "cpu" /\ actor[r].optimizer = "cpu"
                      /\ cfg.offload /\ todo[r] = <<>> /\ engine[r].base # "none" =>
                            actor[r].params = "cpu" /\ actor[r].optimizer = "cpu"
    BY DEF MemoryIsShared
  <2>1. OrderInv /\ LeftOf(r) /\ StartOf(r) /\ MemoryOf(r)
    BY DEF SafeInv, RankInv
  <2>2. actor[r].params \in {"gpu", "cpu"} /\ actor[r].optimizer \in {"gpu", "cpu"}
    BY DEF SafeInv, Types
  <2>3. ASSUME NEW s \in {"gather", "compute", "update", "save", "load"}, About(r, {s})
        PROVE  actor[r].params = "gpu" /\ (s = "update" => actor[r].optimizer = "gpu")
    BY <2>1, <2>3, AboutLeft, PlaceValues DEF MemoryOf, Work
  <2>4. About(r, {"gather", "compute", "update", "save", "load"}) => actor[r].params = "gpu"
    BY <2>3 DEF About
  <2>5. About(r, {"update"}) => actor[r].optimizer = "gpu"
    BY <2>3
  <2>6. cfg.offload /\ cfg.free_cache /\ engine[r].kv_awake =>
            actor[r].params = "cpu" /\ actor[r].optimizer = "cpu"
    BY <2>1, <2>2 DEF MemoryOf, LeftOf, StartOf, Unused
  <2>7. cfg.offload /\ todo[r] = <<>> /\ engine[r].base # "none" =>
            actor[r].params = "cpu" /\ actor[r].optimizer = "cpu"
    BY <2>1, <2>2, IdleIsEmpty DEF MemoryOf, StartOf, Unused
  <2>8. QED
    BY <2>4, <2>5, <2>6, <2>7
<1>2. QED
  BY AlwaysSafe, <1>1, PTL

\* The actor is trained on log-probabilities of the weights being updated; those
\* subtracted from one another are on the same inputs, unless one of them is the
\* reference's, which may have inputs of its own.
THEOREM MatchingLogProbs == Spec => []LogProbsMatch
<1>1. SafeInv => LogProbsMatch
  <2> SUFFICES ASSUME SafeInv, NEW r \in Ranks, About(r, {"update"})
               PROVE  /\ batch.old = "actor" /\ batch.version = actor[r].version
                      /\ batch.ref = IF cfg.ref_inputs THEN "ref" ELSE "actor"
                      /\ cfg.base => batch.base_ref = batch.ref
                      /\ \A corrected \in BOOLEAN : \A pair \in Subtracted(corrected) :
                            \/ batch[pair[1]] = batch[pair[2]]
                            \/ cfg.ref_inputs /\ "ref" \in {pair[1], pair[2]}
    BY DEF LogProbsMatch
  <2>1. "update" \in Left(r)
    BY AboutLeft DEF SafeInv
  <2>2. ToCall = {}
    BY <2>1, NothingInNothing DEF SafeInv, RankInv, LeftOf, ToCall
  <2>3. /\ batch.old = "actor" /\ batch.version = actor[r].version
        /\ batch.ref = IF cfg.ref_inputs THEN "ref" ELSE "actor"
        /\ cfg.base => batch.base_ref = batch.ref /\ batch.base = "actor"
    BY <2>1, <2>2 DEF SafeInv, BatchOf, Updates, RefInputs
  <2>4. ASSUME NEW corrected \in BOOLEAN, NEW pair \in Subtracted(corrected)
        PROVE  \/ batch[pair[1]] = batch[pair[2]]
               \/ cfg.ref_inputs /\ "ref" \in {pair[1], pair[2]}
    <3>1. \/ pair = <<"old", "base">> /\ cfg.base
          \/ pair = <<"ref", "base">> /\ cfg.base
          \/ pair = <<"old", "ref">>
      BY DEF Subtracted
    <3>2. CASE pair = <<"old", "base">> /\ cfg.base
      BY <2>3, <3>2
    <3>3. CASE pair = <<"ref", "base">> /\ cfg.base
      BY <2>3, <3>3
    <3>4. CASE pair = <<"old", "ref">>
      BY <2>3, <3>4
    <3>5. QED
      BY <3>1, <3>2, <3>3, <3>4
  <2>5. QED
    BY <2>3, <2>4
<1>2. QED
  BY AlwaysSafe, <1>1, PTL

-----------------------------------------------------------------------------
(* What follows for the settings that work as documented. *)
CurrentInv == GenInv /\ \A r \in Ranks : CurrentOf(r)

LEMMA OthersStayCurrent ==
    ASSUME NEW q \in Ranks, Left(q)' = Left(q), UNCHANGED <<cfg, calls, batch>>,
           actor'[q] = actor[q], engine'[q] = engine[q], prefix'[q] = prefix[q],
           random'[q] = random[q], CurrentOf(q)
    PROVE  CurrentOf(q)' /\ FinalGen(q)' = FinalGen(q)
<1>1. AwakeOf(q)' /\ PrefixOf(q)'
  BY DEF CurrentOf, AwakeOf, PrefixOf, WillBeAwake, Starting, NextIs
<1>2. BaseOf(q)'
  BY DEF CurrentOf, BaseOf, Starting, NextIs
<1>3. SentOf(q)'
  BY DEF CurrentOf, SentOf, NextIs, ToCall
<1>4. FinalGen(q)' = FinalGen(q)
  BY DEF FinalGen, GenState, Generating
<1>5. QED
  BY <1>1, <1>2, <1>3, <1>4 DEF CurrentOf

LEMMA CurrentStep ==
    ASSUME Types, OrderInv, NEW r \in Ranks, RankInv(r), CurrentOf(r), WorksAsDocumented,
           NEW s \in StepNames, Effect(r, s),
           Left(r) = {s} \cup Left(r)', s \notin Left(r)',
           \A t \in Left(r)' : t \in StepNames /\ Place[s] < Place[t],
           UNCHANGED <<cfg, calls, batch>>
    PROVE  CurrentOf(r)' /\ FinalGen(r)' = FinalGen(r)
<1>0. /\ s \in Left(r) /\ ~Starting /\ ~Starting'
      /\ NextIs({"generate"})' <=> NextIs({"generate"})
      /\ ToCall' = ToCall /\ UNCHANGED <<cfg, calls>>
  BY DEF RankInv, LeftOf, Starting, NextIs, ToCall
<1>a. /\ actor[r].version \in Nat /\ cfg \in Settings
      /\ engine[r].kv_awake \in BOOLEAN /\ engine'[r].kv_awake \in BOOLEAN
      /\ engine[r].weights_awake \in BOOLEAN /\ actor[r].base_sync_done \in BOOLEAN
      /\ engine[r].base \in {"none", "junk", "good"}
      /\ cfg.async \/ cfg.prefix => cfg.free_cache
      /\ ~(cfg.lora /\ cfg.dummy /\ cfg.resumed)
  BY ConfigsAssumption DEF Types, Effect, WorksAsDocumented
<1>b. NextIs({"generate"}) => cfg.async /\ cfg.free_cache
  <2>1. NextIs({"generate"}) => calls[1] = "generate" /\ 1 \in DOMAIN calls
    BY CallValues DEF OrderInv, Ordered, NextIs
  <2>2. QED
    BY <1>a, <2>1 DEF OrderInv, Chained
<1>c. /\ \A x \in Left(r) : x = s \/ x \in Left(r)'
      /\ \A x \in Left(r)' : x \in Left(r) /\ x # s
  OBVIOUS
<1>d. /\ s = "to_torch_states" => Left(r)' = {}
      /\ s = "release" => Left(r)' \subseteq {"to_torch_states"}
      /\ s = "generate" => Left(r)' \subseteq {"release", "to_torch_states"}
      /\ s = "to_gen_states" => Left(r)' \subseteq {"generate", "release", "to_torch_states"}
      /\ s = "resume_kv" =>
            Left(r)' \subseteq {"to_gen_states", "generate", "release", "to_torch_states"}
      /\ s = "update_weights" =>
            Left(r)' \subseteq {"resume_kv", "to_gen_states", "generate", "release", "to_torch_states"}
      /\ s = "update_base" =>
            Left(r)' \subseteq {"update_weights", "resume_kv", "to_gen_states", "generate", "release",
                               "to_torch_states"}
      /\ s = "resume_weights" =>
            Left(r)' \subseteq {"update_base", "update_weights", "resume_kv", "to_gen_states",
                               "generate", "release", "to_torch_states"}
      /\ s = "build_rollout" =>
            Left(r)' \cap (Work \cup {"load_params", "load_optimizer", "offload_params",
                                      "offload_optimizer", "build_rollout"}) = {}
      /\ s \in Work => Left(r)' \cap (Work \cup {"load_params", "load_optimizer"}) = {}
  BY PlaceValues DEF StepNames, Work
<1>e. LeftOf(r) /\ EngineOf(r) /\ StartOf(r) /\ AwakeOf(r) /\ BaseOf(r) /\ SentOf(r) /\ PrefixOf(r)
  BY DEF RankInv, CurrentOf
<1>f. /\ engine'[r].kv_awake <=>
            (s \in {"build_rollout", "resume_kv"} \/ (s # "release" /\ engine[r].kv_awake))
      /\ engine'[r].weights_awake <=>
            (s \in {"build_rollout", "resume_weights"} \/ (s # "release" /\ engine[r].weights_awake))
      /\ actor'[r].base_sync_done <=> (s = "to_gen_states" \/ actor[r].base_sync_done)
      /\ s # "to_gen_states" => actor'[r].base_sync_done = actor[r].base_sync_done
      /\ NextIs({"generate"}) => NextIs(NeedsEngine)
      /\ cfg.async \in BOOLEAN /\ cfg.free_cache \in BOOLEAN /\ cfg.lora \in BOOLEAN
      /\ cfg.dummy \in BOOLEAN /\ cfg.level2 \in BOOLEAN
  BY <1>a DEF Effect, Settings, NextIs, NeedsEngine
<1>g. engine'[r].base = CASE s = "build_rollout" -> (IF cfg.dummy THEN "junk" ELSE "good")
                           [] s = "update_base" -> "good"
                           [] s = "update_weights" ->
                                (IF cfg.lora /\ actor[r].base_sync_done THEN engine[r].base ELSE "good")
                           [] s = "release" -> (IF cfg.level2 THEN "junk" ELSE engine[r].base)
                           [] OTHER -> engine[r].base
  BY DEF Effect
<1>h. /\ s = "build_rollout" => engine'[r].base = IF cfg.dummy THEN "junk" ELSE "good"
      /\ s = "update_base" => engine'[r].base = "good"
      /\ s = "update_weights" =>
            engine'[r].base = IF cfg.lora /\ actor[r].base_sync_done THEN engine[r].base ELSE "good"
      /\ s = "release" => engine'[r].base = IF cfg.level2 THEN "junk" ELSE engine[r].base
      /\ s \notin {"build_rollout", "update_base", "update_weights", "release"} =>
            engine'[r].base = engine[r].base
  BY <1>g
<1>i. /\ engine'[r].version = IF s = "build_rollout" THEN 0
                              ELSE IF s = "update_weights"
                              THEN IF cfg.lora /\ ~actor[r].base_sync_done
                                   THEN engine[r].version ELSE actor[r].gathered
                              ELSE engine[r].version
      /\ actor'[r].version = IF s = "update" THEN actor[r].version + 1
                             ELSE IF s = "load" THEN 1 ELSE actor[r].version
      /\ actor'[r].gathered = IF s = "gather" THEN actor[r].version ELSE actor[r].gathered
  BY DEF Effect
<1>1. AwakeOf(r)'
  <2> USE <1>0, <1>c, <1>d, <1>e, <1>f
  <2>1. (engine[r].kv_awake => engine[r].weights_awake)'
    BY DEF AwakeOf
  <2>2. ("resume_kv" \in Left(r) => "resume_weights" \in Left(r) \/ engine[r].weights_awake)'
    BY DEF AwakeOf
  <2>3. ("generate" \in Left(r) => "resume_kv" \in Left(r) \/ engine[r].kv_awake)'
    BY DEF AwakeOf, LeftOf
  <2>4. ("to_torch_states" \in Left(r) /\ cfg.free_cache => ~WillBeAwake(r))'
    BY DEF AwakeOf, LeftOf, WillBeAwake
  <2>5. (Starting \/ "build_rollout" \in Left(r) \/ engine[r].base # "none")'
    BY <1>h DEF AwakeOf
  <2>6. QED
    BY <2>1, <2>2, <2>3, <2>4, <2>5 DEF AwakeOf
<1>2. BaseOf(r)'
  <2> USE <1>0, <1>a, <1>b, <1>c, <1>d, <1>e, <1>f, <1>h
  <2>1. (Starting \/ "build_rollout" \in Left(r) => actor[r].base_sync_done = ~cfg.dummy)'
    BY DEF BaseOf, LeftOf
  <2>2. ("build_rollout" \in Left(r) => ~NextIs({"generate"}))'
    BY DEF BaseOf
  <2>3. ("update_weights" \in Left(r) => "to_gen_states" \in Left(r))'
    BY DEF BaseOf
  <2>4. (~cfg.level2 /\ actor[r].base_sync_done => engine[r].base # "junk")'
    BY DEF BaseOf
  <2>5. ("update_weights" \in Left(r) /\ cfg.lora /\ cfg.level2 =>
          "update_base" \in Left(r) \/ engine[r].base = "good")'
    BY DEF BaseOf, LeftOf
  <2>6. ("to_gen_states" \in Left(r) => "update_weights" \in Left(r) \/ engine[r].base = "good")'
    BY DEF BaseOf, AwakeOf, LeftOf
  <2>7. ("generate" \in Left(r) \/ NextIs({"generate"}) =>
          "to_gen_states" \in Left(r) \/ engine[r].base = "good")'
    BY DEF BaseOf, EngineOf, WillBeAwake, LeftOf
  <2>8. QED
    BY <2>1, <2>2, <2>3, <2>4, <2>5, <2>6, <2>7 DEF BaseOf
<1>3. SentOf(r)'
  <2> USE <1>0, <1>a, <1>b, <1>c, <1>d, <1>e, <1>f, <1>i
  <2>0. s \in {"update", "load"} =>
            /\ "update_weights" \notin Left(r) /\ "to_gen_states" \notin Left(r)
            /\ "generate" \notin Left(r) /\ ~NextIs({"generate"})
    BY DEF LeftOf, BaseOf, NextIs
  <2>1. ("update_weights" \in Left(r) => "gather" \in Left(r) \/ actor[r].gathered = actor[r].version)'
    BY <2>0 DEF SentOf
  <2>2. ("to_gen_states" \in Left(r) =>
          "update_weights" \in Left(r) \/ engine[r].version = actor[r].version)'
    BY <2>0 DEF SentOf, LeftOf
  <2>3. ("generate" \in Left(r) \/ NextIs({"generate"}) =>
          "to_gen_states" \in Left(r) \/ engine[r].version = actor[r].version)'
    BY <2>0 DEF SentOf, BaseOf, LeftOf
  <2>4. (~actor[r].base_sync_done => cfg.dummy)'
    BY DEF SentOf
  <2>5. (cfg.lora /\ ~actor[r].base_sync_done =>
         /\ actor[r].version = 0 /\ engine[r].version = 0
         /\ Left(r) \cap {"update", "load"} = {}
         /\ "update_actor" \in ToCall =>
               ToCall \cap Generations # {} \/ "to_gen_states" \in Left(r))'
    BY DEF SentOf
  <2>6. QED
    BY <2>1, <2>2, <2>3, <2>4, <2>5 DEF SentOf
<1>4. PrefixOf(r)'
  BY <1>0, <1>a, <1>c, <1>d, <1>e DEF AwakeOf, SentOf, PrefixOf, LeftOf, StartOf, Unused, Effect
<1>5. FinalGen(r)' = FinalGen(r)
  BY <1>0, <1>a, <1>c, <1>d, <1>e
     DEF AwakeOf, LeftOf, StartOf, Unused, WillBeAwake, FinalGen, GenState, Generating, Effect
<1>6. QED
  BY <1>1, <1>2, <1>3, <1>4, <1>5 DEF CurrentOf


LEMMA RankKeepsCurrent ==
    ASSUME WorksAsDocumented, SafeInv, CurrentInv, NEW r \in Ranks, RankNext(r)
    PROVE  CurrentInv'
<1>1. PICK s \in StepNames : Step(r, s) /\ Effect(r, s)
  BY Effects DEF SafeInv
<1>2. /\ Left(r) = {s} \cup Left(r)' /\ s \notin Left(r)'
      /\ \A t \in Left(r)' : t \in StepNames /\ Place[s] < Place[t]
      /\ \A q \in Ranks : q # r => Left(q)' = Left(q)
      /\ UNCHANGED <<cfg, calls, batch>>
  BY <1>1, StepFacts DEF SafeInv, Types
<1>3. CurrentOf(r)' /\ FinalGen(r)' = FinalGen(r)
  BY <1>1, <1>2, CurrentStep DEF SafeInv, CurrentInv
<1>4. \A q \in Ranks : q # r => CurrentOf(q)' /\ FinalGen(q)' = FinalGen(q)
  BY <1>1, <1>2, OthersStayCurrent DEF CurrentInv, Effect
<1>5. \A q \in Ranks : CurrentOf(q)' /\ FinalGen(q)' = FinalGen(q)
  BY <1>3, <1>4
<1>6. QED
  BY <1>5 DEF CurrentInv, GenInv

\* A call of the driver finds the ranks as the calls before it left them.
LEMMA CallKeepsCurrent ==
    ASSUME WorksAsDocumented, SafeInv, CurrentInv, NEW c, Issue(c), UNCHANGED <<actor, engine, random>>,
           prefix' = IF c = "sleep" THEN [r \in Ranks |-> {}] ELSE prefix
    PROVE  CurrentInv'
<1>1. /\ c \in CallNames /\ OrderInv'
      /\ \A r \in Ranks : Left(r) = {} /\ Left(r)' = StepsOf(c)
      /\ UNCHANGED cfg /\ calls # <<>> /\ Head(calls) = c /\ ~Starting'
      /\ ToCall = {c} \cup ToCall'
      /\ \A x \in ToCall' : x \in CallNames /\ Before(CallPlace, c, x)
      /\ c \in {"generate", "sleep", "wake_up"} => cfg.async
      /\ c \in {"sleep", "wake_up"} => cfg.free_cache
      /\ c = "generate_sequences" => ~cfg.async
  BY IssueFacts DEF SafeInv
<1>2. /\ cfg \in Settings /\ (cfg.async => cfg.free_cache)
      /\ ~(cfg.lora /\ cfg.dummy /\ cfg.resumed)
  BY ConfigsAssumption DEF SafeInv, Types, WorksAsDocumented
<1>3. NextIs({"generate"})' => c = "wake_up"
  <2>1. NextIs({"generate"})' => cfg.async
    <3>1. NextIs({"generate"})' => 1 \in DOMAIN calls' /\ calls'[1] = "generate"
      BY <1>1, CallValues DEF OrderInv, Ordered, NextIs
    <3>2. QED
      BY <1>1, <3>1 DEF OrderInv, Chained
  <2>2. QED
    BY <1>2, <2>1, IssueFacts DEF SafeInv
<1>4. c = "update_actor" => ToCall \cap Generations = {}
  <2>1. ASSUME c = "update_actor", NEW x \in ToCall'
        PROVE  FALSE
    BY <1>1, <2>1, CallValues DEF Before, CallNames, FreeCalls
  <2>2. QED
    BY <1>1, <2>1 DEF Generations
<1>5. ASSUME NEW r \in Ranks
      PROVE  /\ CurrentOf(r)'
             /\ FinalGen(r)' = IF c \in {"generate_sequences", "generate"}
                               THEN <<FinalGen(r)[1] + 1, FinalGen(r)[2]>> ELSE FinalGen(r)
  <2>1. /\ Left(r) = {} /\ Members(Left(r)', c)
        /\ actor'[r] = actor[r] /\ engine'[r] = engine[r] /\ random'[r] = random[r]
        /\ prefix'[r] = IF c = "sleep" THEN {} ELSE prefix[r]
    BY <1>1, <1>2, StepsOfCall
  <2>2. /\ Starting <=> c = "init_model"
        /\ NextIs({"generate"}) <=> c = "generate"
        /\ NextIs(NeedsEngine) <=> c \in {"generate", "sleep"}
    BY <1>1 DEF Starting, NextIs, NeedsEngine
  <2>3. /\ LeftOf(r) /\ EngineOf(r) /\ StartOf(r)
        /\ AwakeOf(r) /\ BaseOf(r) /\ SentOf(r) /\ PrefixOf(r)
    BY DEF SafeInv, RankInv, CurrentInv, CurrentOf
  <2>4. /\ cfg.free_cache => (engine[r].kv_awake <=> c \in {"generate", "sleep"})
        /\ ~cfg.free_cache => engine[r].kv_awake \/ c = "init_model"
        /\ c = "init_model" => Unused(r)
    BY <2>1, <2>2, <2>3 DEF EngineOf, WillBeAwake, StartOf
  <2>5. AwakeOf(r)'
    BY <1>1, <2>1, <2>2, <2>3, <2>4
       DEF AwakeOf, WillBeAwake, Members, Generations, EndsInTrainerMode
  <2>6. BaseOf(r)'
    BY <1>1, <1>3, <2>1, <2>2, <2>3 DEF BaseOf, Members, Generations
  <2>7. SentOf(r)'
    <3>1. cfg.lora /\ ~actor[r].base_sync_done => Left(r)' \cap {"update", "load"} = {}
      BY <1>2, <1>4, <2>1, <2>3, <1>1 DEF SentOf, Members
    <3>2. cfg.lora /\ ~actor[r].base_sync_done /\ "update_actor" \in ToCall' =>
              ToCall' \cap Generations # {} \/ "to_gen_states" \in Left(r)'
      BY <1>1, <2>1, <2>3 DEF SentOf, Members
    <3>3. QED
      BY <1>1, <1>3, <2>1, <2>2, <2>3, <3>1, <3>2 DEF SentOf, Members, Generations
  <2>8. PrefixOf(r)'
    BY <1>1, <2>1, <2>2, <2>3, <2>4 DEF PrefixOf, Members, EndsInTrainerMode, Unused
  <2>9. GenState(r)' = GenState(r)
    BY <1>1, <1>2, <2>1, <2>2, <2>4
       DEF GenState, Generating, Members, Generations, EndsInTrainerMode, Unused
  <2>10. QED
    BY <2>1, <2>5, <2>6, <2>7, <2>8, <2>9 DEF CurrentOf, FinalGen, Members
<1>6. GenInv'
  BY <1>5 DEF CurrentInv, GenInv
<1>7. QED
  BY <1>5, <1>6 DEF CurrentInv

LEMMA NextStepKeepsCurrent ==
    ASSUME WorksAsDocumented, SafeInv, CurrentInv, NextStep
    PROVE  CurrentInv'
<1>1. /\ calls = <<>> /\ UNCHANGED <<cfg, batch, todo, actor, engine, prefix, random>>
      /\ Ordered(CallPlace, calls') /\ Chained(calls')
      /\ ~Starting' /\ (cfg.free_cache => ~NextIs(NeedsEngine)')
      /\ "update_actor" \in ToCall' /\ (cfg.async => cfg.free_cache) => ToCall' \cap Generations # {}
  BY NextStepFacts DEF SafeInv, workerVars
<1>2. /\ ~Starting /\ ~NextIs({"generate"}) /\ (cfg.async => cfg.free_cache)
      /\ cfg \in Settings
  BY <1>1, ConfigsAssumption DEF SafeInv, Types, WorksAsDocumented, Starting, NextIs
<1>3. ~NextIs({"generate"})'
  <2>1. NextIs({"generate"})' => 1 \in DOMAIN calls' /\ calls'[1] = "generate"
    BY <1>1, CallValues DEF Ordered, NextIs
  <2>2. NextIs({"generate"})' => cfg.async
    BY <1>1, <2>1 DEF Chained
  <2>3. NextIs({"generate"})' => NextIs(NeedsEngine)'
    BY DEF NextIs, NeedsEngine
  <2>4. QED
    BY <1>1, <1>2, <2>2, <2>3
<1>4. ASSUME NEW r \in Ranks
      PROVE  CurrentOf(r)' /\ FinalGen(r)' = FinalGen(r)
  <2>1. Left(r) = {} /\ Left(r)' = {}
    <3>1. todo[r] = <<>>
      BY DEF NextStep, Idle
    <3>2. QED
      BY <1>1, <3>1, NothingInNothing DEF Left
  <2>2. AwakeOf(r) /\ BaseOf(r) /\ SentOf(r) /\ PrefixOf(r)
    BY DEF CurrentInv, CurrentOf
  <2>3. AwakeOf(r)' /\ PrefixOf(r)'
    BY <1>1, <1>2, <2>1, <2>2 DEF AwakeOf, PrefixOf, WillBeAwake
  <2>4. BaseOf(r)'
    BY <1>1, <1>3, <2>1, <2>2 DEF BaseOf
  <2>5. SentOf(r)'
    BY <1>1, <1>2, <1>3, <2>1, <2>2 DEF SentOf
  <2>6. FinalGen(r)' = FinalGen(r)
    BY <1>1, <2>1 DEF FinalGen, GenState, Generating
  <2>7. QED
    BY <2>3, <2>4, <2>5, <2>6 DEF CurrentOf
<1>5. QED
  BY <1>4 DEF CurrentInv, GenInv

LEMMA InitIsCurrent == Init => CurrentInv
<1> SUFFICES ASSUME Init PROVE CurrentInv
  OBVIOUS
<1>1. /\ cfg \in Settings /\ StartUp # <<>> /\ Head(StartUp) = "init_model"
      /\ Contents(StartUp) \subseteq FreeCalls
  BY ConfigsAssumption, StartUpFacts DEF Init
<1>2. Starting /\ ~NextIs({"generate"}) /\ "update_actor" \notin ToCall
  BY <1>1 DEF Init, Starting, NextIs, ToCall, FreeCalls
<1>3. ASSUME NEW r \in Ranks
      PROVE  CurrentOf(r) /\ FinalGen(r) = <<0, 0>>
  <2>1. Left(r) = {} /\ Unused(r) /\ actor[r].base_sync_done = ~cfg.dummy /\ engine[r].version = 0
    BY NothingInNothing DEF Init, Left, Unused
  <2>2. AwakeOf(r) /\ BaseOf(r) /\ PrefixOf(r)
    BY <1>2, <2>1 DEF AwakeOf, BaseOf, PrefixOf, WillBeAwake, Unused
  <2>3. SentOf(r)
    BY <1>1, <1>2, <2>1 DEF SentOf, Unused, Settings
  <2>4. FinalGen(r) = <<0, 0>>
    BY <2>1 DEF FinalGen, GenState, Generating, Unused
  <2>5. QED
    BY <2>2, <2>3, <2>4 DEF CurrentOf
<1>4. QED
  BY <1>3 DEF CurrentInv, GenInv

LEMMA StepKeepsCurrent ==
    ASSUME WorksAsDocumented, SafeInv, CurrentInv, [Next]_vars
    PROVE  CurrentInv'
<1>1. CASE UNCHANGED vars
  <2>1. \A r \in Ranks : CurrentOf(r)' /\ FinalGen(r)' = FinalGen(r)
    BY <1>1, OthersStayCurrent DEF vars, driverVars, workerVars, CurrentInv, Left
  <2>2. QED
    BY <2>1 DEF CurrentInv, GenInv
<1>2. CASE Finished
  <2>1. \A r \in Ranks : CurrentOf(r)' /\ FinalGen(r)' = FinalGen(r)
    BY <1>2, OthersStayCurrent DEF Finished, vars, driverVars, workerVars, CurrentInv, Left
  <2>2. QED
    BY <2>1 DEF CurrentInv, GenInv
<1>3. CASE NextStep
  BY <1>3, NextStepKeepsCurrent
<1>4. ASSUME NEW r \in Ranks, RankNext(r)
      PROVE  CurrentInv'
  BY <1>4, RankKeepsCurrent
<1>5. CASE CallSleep
  BY <1>5, CallKeepsCurrent DEF CallSleep
<1>6. CASE CallWorkers \/ NewBatch \/ CallComputeLogProb \/ PrepareRefInputs
           \/ CallRefLogProb \/ CallBaseRefLogProb \/ CallBaseLogProb
  <2>1. PICK c : Issue(c) /\ c # "sleep" /\ UNCHANGED workerVars
    BY <1>6 DEF CallWorkers, NewBatch, CallComputeLogProb, PrepareRefInputs, CallRefLogProb,
                CallBaseRefLogProb, CallBaseLogProb
  <2>2. QED
    BY <2>1, CallKeepsCurrent DEF workerVars
<1>7. QED
  BY <1>1, <1>2, <1>3, <1>4, <1>5, <1>6 DEF Next, DriverNext

\* With the settings that work as documented, a rank that is about to generate has
\* an awake engine that holds exactly the actor's weights, nothing cached from older
\* ones, and the same random state as the other ranks.
THEOREM CurrentGeneration ==
    ASSUME WorksAsDocumented
    PROVE  Spec => []GenerationIsCurrent
<1>1. SafeInv /\ CurrentInv => GenerationIsCurrent
  <2> SUFFICES ASSUME SafeInv, CurrentInv, NEW r \in Ranks, NEW q \in Ranks,
                      About(r, {"generate"}), About(q, {"generate"})
               PROVE  /\ engine[r].weights_awake /\ engine[r].kv_awake
                      /\ engine[r].base = "good"
                      /\ engine[r].version = actor[q].version
                      /\ prefix[r] \subseteq {actor[q].version}
                      /\ random[r].device = random[q].device
    BY DEF GenerationIsCurrent
  <2>1. ASSUME NEW p \in {r, q}
        PROVE  /\ "generate" \in Left(p)
               /\ Left(p) \cap {"to_gen_states", "resume_kv", "update", "load"} = {}
    BY AboutLeft, PlaceValues DEF SafeInv, Work
  <2>2. AwakeOf(r) /\ BaseOf(r) /\ SentOf(r) /\ PrefixOf(r)
    BY DEF CurrentInv, CurrentOf
  <2>3. actor[r].version = actor[q].version
    BY <2>1 DEF SafeInv, VersionInv, FinalVersion
  <2>4. engine[r].weights_awake /\ engine[r].kv_awake /\ engine[r].base = "good"
        /\ engine[r].version = actor[r].version /\ prefix[r] \subseteq {actor[r].version}
    BY <2>1, <2>2 DEF AwakeOf, BaseOf, SentOf, PrefixOf
  <2>5. ASSUME NEW p \in {r, q}
        PROVE  /\ FinalGen(p) = <<random[p].device[1] + 1, random[p].device[2]>>
               /\ random[p].device \in Nat \X Nat
    BY <2>1 DEF SafeInv, Types, RankInv, LeftOf, Generating, GenState, FinalGen
  <2>6. <<random[r].device[1] + 1, random[r].device[2]>>
            = <<random[q].device[1] + 1, random[q].device[2]>>
    BY <2>5 DEF CurrentInv, GenInv
  <2>7. random[r].device = random[q].device
    BY <2>5, <2>6
  <2>8. QED
    BY <2>3, <2>4, <2>7
<1>2. SafeInv /\ CurrentInv /\ [Next]_vars => CurrentInv'
  BY StepKeepsCurrent
<1>3. QED
  BY AlwaysSafe, InitIsCurrent, <1>1, <1>2, PTL DEF Spec
=============================================================================
