---------------------------- MODULE ShrinkStrategies ----------------------------
(***************************************************************************)
(* The shrink strategies of merge_and_shrink/: shrink_bisimulation, and    *)
(* shrink_fh and shrink_random on top of shrink_bucket_based; the limits   *)
(* on the sizes of factors (utils.cc, merge_and_shrink_algorithm.cc).      *)
(*                                                                         *)
(* A strategy returns an equivalence relation for a factor and a target    *)
(* size.  Which one depends on numbers of groups and on random choices     *)
(* that are left open here: the operators give the set of the partitions   *)
(* that can come out.                                                      *)
(***************************************************************************)
EXTENDS FactoredTransitionSystem

(* handle_shrink_limit_options_defaults, -1 standing for options not given. *)
ShrinkLimits(max_states, max_before, threshold) ==
    LET max1 == IF max_states # -1 THEN max_states
                ELSE IF max_before = -1 THEN 50000
                ELSE IF max_before <= INF \div max_before
                THEN max_before * max_before ELSE INF
        before == IF max_before = -1 \/ max_before > max1 THEN max1 ELSE max_before
    IN  [max_states |-> max1,
         max_states_before_merge |-> before,
         shrink_threshold_before_merge |->
            IF threshold = -1 \/ threshold > max1 THEN max1 ELSE threshold]

SquareRoot(n) == CHOOSE r \in 0 .. n : r * r <= n /\ n \div (r + 1) < r + 1

(* Mutation of ShrinkSizes: the balanced size is rounded up. *)
ShrinkSizesRoundingUp(size1, size2, limits) ==
    LET new1 == Min({size1, limits.max_states_before_merge})
        new2 == Min({size2, limits.max_states_before_merge})
        balanced == SquareRoot(limits.max_states) + 1
    IN  IF new1 <= limits.max_states \div new2 THEN <<new1, new2>>
        ELSE IF new1 <= balanced THEN <<new1, limits.max_states \div new1>>
        ELSE IF new2 <= balanced THEN <<limits.max_states \div new2, new2>>
        ELSE <<balanced, balanced>>

(* compute_shrink_sizes *)
ShrinkSizes(size1, size2, limits) ==
    LET new1 == Min({size1, limits.max_states_before_merge})
        new2 == Min({size2, limits.max_states_before_merge})
        balanced == SquareRoot(limits.max_states)
    IN  IF new1 <= limits.max_states \div new2 THEN <<new1, new2>>
        ELSE IF new1 <= balanced THEN <<new1, limits.max_states \div new1>>
        ELSE IF new2 <= balanced THEN <<limits.max_states \div new2, new2>>
        ELSE <<balanced, balanced>>
-------------------------------------------------------------------------------
(* Bisimulation.  Goal states make one layer, the others one per goal      *)
(* distance; layers are split in this order.                               *)
LayerOf(f, s) == IF s \in f.goals THEN -1 ELSE f.h[s]

Layers(f) ==
    LET layers == {LayerOf(f, s) : s \in StatesOf(f)}
    IN  Ordered(layers, {x \in layers \X layers : x[1] < x[2]})

InLayer(f, layer) == {s \in StatesOf(f) : LayerOf(f, s) = layer}

(* initialize_groups *)
InitialGroups(f) == {InLayer(f, layer) : layer \in {LayerOf(f, s) : s \in StatesOf(f)}}

BlockOf(partition, s) == CHOOSE b \in partition : s \in b

(* compute_signatures: pairs of a state and its signature.  Greedy          *)
(* bisimulation looks only at transitions on cheapest paths to the goal.    *)
Signatures(f, partition, greedy) ==
    LET Counts(x, e) ==
            greedy => INF \notin {f.h[e[1]], f.h[e[2]]} /\ f.h[e[2]] + x.cost = f.h[e[1]]
        entries == UNION {{<<e[1], <<x.labels, BlockOf(partition, e[2])>>>> :
                            e \in {y \in x.transitions : Counts(x, y)}} : x \in f.groups}
    IN  {<<s, {y[2] : y \in {x \in entries : x[1] = s}}>> : s \in StatesOf(f)}

(* The classes of a block whose states have the same signature. *)
ClassesOf(block, sig) ==
    LET mine == {x \in sig : x[1] \in block}
    IN  {{x[1] : x \in {y \in mine : y[2] = v}} : v \in {x[2] : x \in mine}}

LeastState(class) == CHOOSE s \in class : \A x \in class : s <= x

(* When the groups reach the target size the code stops at once.  The last  *)
(* new group then gets only the first of its states, and the others stay   *)
(* where they were.  Blocks are split one after the other, each keeping    *)
(* one class; in which order is left open.                                 *)
SplitsUpTo(blocks, sig, num_new) ==
    LET classes == UNION {ClassesOf(b, sig) : b \in blocks}
        Of(b, chosen) == {c \in chosen : c \subseteq b}
        Partial(b, chosen) == /\ Of(b, chosen) # {}
                              /\ Cardinality(Of(b, chosen)) < Cardinality(ClassesOf(b, sig)) - 1
        InTurn(chosen, last) ==
            /\ \A b \in blocks : ClassesOf(b, sig) \ chosen # {}
            /\ \A b \in blocks : Partial(b, chosen) => last \subseteq b
        Result(chosen, last) ==
            LET NewGroup(c) == IF c = last THEN {LeastState(c)} ELSE c
                new == {NewGroup(c) : c \in chosen}
            IN  new \cup {b \ UNION new : b \in blocks}
    IN  {Result(x[1], x[2]) :
            x \in {y \in kSubset(num_new, classes) \X classes :
                        y[2] \in y[1] /\ InTurn(y[1], y[2])}}

(* One layer: w is a record of the partition so far, whether it is stable, *)
(* and whether the rounds end. *)
SplitLayer(f, sig, layer, target, at_limit, w) ==
    LET blocks == {b \in w.partition : b \subseteq InLayer(f, layer)}
        others == w.partition \ blocks
        classes == UNION {ClassesOf(b, sig) : b \in blocks}
        num_after == Cardinality(others) + Cardinality(classes)
        num_new == target - Cardinality(w.partition)
    IN  IF w.stop THEN {w}
        ELSE IF at_limit = "RETURN" /\ num_after > target THEN {[w EXCEPT !.stop = TRUE]}
        ELSE IF classes = blocks THEN {w}
        ELSE IF num_after < target
        THEN {[w EXCEPT !.partition = others \cup classes, !.stable = FALSE]}
        ELSE {[partition |-> others \cup split, stable |-> FALSE, stop |-> TRUE] :
                    split \in SplitsUpTo(blocks, sig, num_new)}

(* One round, layer after layer. *)
SplitRound(f, greedy, target, at_limit, w) ==
    LET sig == Signatures(f, w.partition, greedy)
        layers == Layers(f)
        split[i \in 0 .. Len(layers)] ==
            IF i = 0 THEN {[w EXCEPT !.stable = TRUE]}
            ELSE UNION {SplitLayer(f, sig, layers[i], target, at_limit, x) : x \in split[i - 1]}
    IN  split[Len(layers)]

(* ShrinkBisimulation::compute_equivalence_relation *)
Bisimulations(f, greedy, at_limit, target) ==
    LET Ended(w) == w.stable \/ w.stop \/ Cardinality(w.partition) >= target
        rounds[n \in 0 .. f.size + 1] ==
            IF n = 0
            THEN {[partition |-> InitialGroups(f), stable |-> FALSE, stop |-> FALSE]}
            ELSE UNION {IF Ended(w) THEN {w}
                        ELSE SplitRound(f, greedy, target, at_limit, w) :
                            w \in rounds[n - 1]}
    IN  {w.partition : w \in rounds[f.size + 1]}

(* The partitions of a set into a number of nonempty sets. *)
Partitions(set, num) ==
    LET Block(map, i) == {x \in set : map[x] = i}
    IN  {{Block(map, i) : i \in 1 .. num} :
            map \in {m \in [set -> 1 .. num] : Range(m) = 1 .. num}}
-------------------------------------------------------------------------------
(* ShrinkFH: the buckets by f and then h, each from high or from low; states *)
(* that are dead have the highest f.                                         *)
FOf(f, s) == IF INF \in {f.g[s], f.h[s]} THEN INF ELSE f.g[s] + f.h[s]

FHBuckets(f, f_high, h_high) ==
    LET keys == {<<FOf(f, s), f.h[s]>> : s \in StatesOf(f)}
        Before(high, a, b) == IF high THEN a > b ELSE a < b
        order == Ordered(keys, {x \in keys \X keys :
                    \/ Before(f_high, x[1][1], x[2][1])
                    \/ x[1][1] = x[2][1] /\ Before(h_high, x[1][2], x[2][2])})
    IN  [i \in DOMAIN order |-> {s \in StatesOf(f) : <<FOf(f, s), f.h[s]>> = order[i]}]

(* ShrinkRandom: one bucket. *)
RandomBuckets(f) == <<StatesOf(f)>>

(* One bucket of ShrinkBucketBased::compute_abstraction: what can be made  *)
(* of it, given the relation so far (a sequence of classes), the states    *)
(* still to come and the number of buckets left.                           *)
BucketInto(bucket, relation, to_come, buckets_left, target) ==
    LET remaining == target - Len(relation)
        budget == remaining - to_come
    IN  CASE budget >= Cardinality(bucket) ->
                {relation \o AsSequence({{s} : s \in bucket})}
          [] budget < Cardinality(bucket) /\ budget > 1 ->
                {relation \o AsSequence(p) : p \in Partitions(bucket, budget)}
          [] OTHER ->
                IF remaining >= buckets_left \/ relation = <<>>
                THEN {Append(relation, bucket)}
                ELSE {[relation EXCEPT ![Len(relation)] = @ \cup bucket]}

BucketAbstractions(buckets, target) ==
    LET ToCome(i) == Cardinality(UNION {buckets[j] : j \in {x \in DOMAIN buckets : x > i}})
        made[i \in 0 .. Len(buckets)] ==
            IF i = 0 THEN {<<>>}
            ELSE UNION {BucketInto(buckets[i], relation, ToCome(i),
                                   Len(buckets) - i + 1, target) : relation \in made[i - 1]}
    IN  made[Len(buckets)]
-------------------------------------------------------------------------------
(* The strategies.  Each is a record of a name and its options. *)
RequiresInitDistances(strategy) == strategy.name = "fh"
RequiresGoalDistances(strategy) == strategy.name \in {"fh", "bisimulation"}

EquivalenceRelations(f, strategy, target) ==
    CASE strategy.name = "bisimulation" ->
            {AsSequence(p) : p \in Bisimulations(f, strategy.greedy, strategy.at_limit, target)}
      [] strategy.name = "fh" ->
            BucketAbstractions(FHBuckets(f, strategy.f_high, strategy.h_high), target)
      [] OTHER -> BucketAbstractions(RandomBuckets(f), target)

(* shrink_factor: a factor above the target size or the threshold is       *)
(* shrunk, if the strategy finds anything to combine.                      *)
ShrunkFactors(f, strategy, target, limits) ==
    IF f.size <= Min({target, limits.shrink_threshold_before_merge}) THEN {f}
    ELSE {ApplyAbstraction(f, relation) :
            relation \in EquivalenceRelations(f, strategy, target)}
===============================================================================
