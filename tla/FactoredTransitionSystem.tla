------------------------ MODULE FactoredTransitionSystem ------------------------
(***************************************************************************)
(* The factors of merge-and-shrink and what is done to them: fts_factory,  *)
(* transition_system, label_equivalence_relation, labels, distances,       *)
(* merge_and_shrink_representation and factored_transition_system, with    *)
(* label_reduction on top (all in merge_and_shrink/).                      *)
(*                                                                         *)
(* A factor is a record                                                    *)
(*   size, init, goals   states 0 .. size - 1; init may be PRUNED_STATE    *)
(*   groups              records of labels, cost and transitions, the      *)
(*                       labels of a group being locally equivalent        *)
(*   g, h                init and goal distances, or NotComputed           *)
(*   value               what the representation makes of a task state     *)
(*   domain_size         of the representation                             *)
(* and a factored transition system one of                                 *)
(*   labels      the costs of all labels there ever were, REDUCED for      *)
(*               labels that are gone                                      *)
(*   factors     the factors that are active, by their index               *)
(*   label_of    history: the label that stands for an operator            *)
(***************************************************************************)
EXTENDS FDRTask

INF == 2147483647
PRUNED_STATE == -1
REDUCED == -1
NotComputed == <<>>

(* The elements of a set, none after one that it is to come before.        *)
Ordered(set, before) ==
    LET First(rest) == CHOOSE x \in rest : \A y \in rest : <<y, x>> \notin before
        left[n \in 0 .. Cardinality(set)] ==
            IF n = 0 THEN set ELSE LET rest == left[n - 1] IN rest \ {First(rest)}
    IN  [n \in 1 .. Cardinality(set) |-> First(left[n - 1])]

(* In some order; the names of new states and labels follow it.            *)
AsSequence(set) == Ordered(set, {})

StatesOf(f) == 0 .. f.size - 1

CurrentLabels(labels) == {l \in DOMAIN labels : labels[l] # REDUCED}

GroupCost(labels, members) == Min({labels[l] : l \in members})

(* TransitionSystem::compute_locally_equivalent_labels *)
LocallyEquivalent(groups) ==
    LET Same(tr) == {x \in groups : x.transitions = tr}
    IN  {[labels |-> UNION {x.labels : x \in Same(tr)},
          cost |-> Min({x.cost : x \in Same(tr)}),
          transitions |-> tr] : tr \in {x.transitions : x \in groups}}
-------------------------------------------------------------------------------
(* Distances: Dijkstra's algorithm from the sources along the edges, which *)
(* are triples <<from, to, cost>>.  A record of the distances so far and of *)
(* the states that were not taken from the queue; one round takes the next. *)
Relaxed(cost, edges, u) ==
    [s \in DOMAIN cost |->
        Min({cost[s]} \cup {cost[u] + e[3] : e \in {x \in edges : x[1] = u /\ x[2] = s}})]

TakeNext(edges, w) ==
    LET queue == {s \in w.open : w.cost[s] < INF}
        u == CHOOSE s \in queue : \A x \in queue : w.cost[s] <= w.cost[x]
    IN  IF queue = {} THEN w
        ELSE [cost |-> Relaxed(w.cost, edges, u), open |-> w.open \ {u}]

LeastCosts(size, sources, edges) ==
    LET start == [cost |-> [s \in 0 .. size - 1 |-> IF s \in sources THEN 0 ELSE INF],
                  open |-> 0 .. size - 1]
        rounds[n \in 0 .. size] == IF n = 0 THEN start ELSE TakeNext(edges, rounds[n - 1])
    IN  rounds[size].cost

(* Mutation of IsUnitCost: some operators have cost 1. *)
HasUnitCost(f) == \E x \in f.groups : x.cost = 1

IsUnitCost(f) == \A x \in f.groups : x.cost = 1

(* Breadth-first search counts edges, Dijkstra's adds up the costs of groups. *)
Edges(f) ==
    {<<p[2][1], p[2][2], IF IsUnitCost(f) THEN 1 ELSE p[1].cost>> :
        p \in UNION {{x} \X x.transitions : x \in f.groups}}

InitDistances(f) == LeastCosts(f.size, {f.init} \ {PRUNED_STATE}, Edges(f))

GoalDistances(f) ==
    LeastCosts(f.size, f.goals, {<<e[2], e[1], e[3]>> : e \in Edges(f)})

ComputeDistances(f, compute_init, compute_goal) ==
    [f EXCEPT !.g = IF compute_init THEN InitDistances(f) ELSE @,
              !.h = IF compute_goal THEN GoalDistances(f) ELSE @]

IsSolvable(f) ==
    /\ f.init # PRUNED_STATE
    /\ f.h # NotComputed => f.h[f.init] # INF

IsTotal(f) == \A s \in DOMAIN f.value : f.value[s] # PRUNED_STATE

(* is_factor_trivial *)
IsTrivial(f) == IsTotal(f) /\ f.goals = StatesOf(f)
-------------------------------------------------------------------------------
(* FTSFactory.  The transitions of operator o on variable v: an effect may *)
(* trigger where its condition on v itself allows that, and may fail to    *)
(* trigger unless that condition is all it has.                            *)
ConditionOn(cond, v) == {c[2] : c \in {x \in cond : x[1] = v}}

(* Mutation of EffectTransitions: every effect triggers where it may. *)
TriggeredTransitions(t, v, o, e) ==
    LET pre == ConditionOn(t.operators[o].pre, v)
        before == IF pre = {} THEN 0 .. t.domains[v] - 1 ELSE pre
    IN  {<<d, e.val>> : d \in {x \in before : ConditionOn(e.cond, v) \subseteq {x}}}

EffectTransitions(t, v, o, e) ==
    LET pre == ConditionOn(t.operators[o].pre, v)
        before == IF pre = {} THEN 0 .. t.domains[v] - 1 ELSE pre
        own == ConditionOn(e.cond, v)
        elsewhere == \E c \in e.cond : c[1] # v
    IN  {<<d, e.val>> : d \in {x \in before : own \subseteq {x}}}
            \cup {<<d, d>> : d \in {x \in before :
                                e.cond # {} /\ (elsewhere \/ x \notin own)}}

(* build_transitions_for_operator *)
AtomicTransitions(t, v, o) ==
    LET effects == {e \in t.operators[o].effects : e.var = v}
    IN  IF effects # {} THEN UNION {EffectTransitions(t, v, o, e) : e \in effects}
        ELSE {<<d, d>> : d \in ConditionOn(t.operators[o].pre, v)}

IsRelevant(t, v, o) ==
    \/ \E e \in t.operators[o].effects : e.var = v
    \/ ConditionOn(t.operators[o].pre, v) # {}

(* Labels that are not relevant loop everywhere and form one more group. *)
AtomicGroups(t, labels, v) ==
    LET relevant == {o \in Ops(t) : IsRelevant(t, v, o)}
        Group(members, transitions) ==
            [labels |-> members, cost |-> GroupCost(labels, members),
             transitions |-> transitions]
        Same(o) == {x \in relevant : AtomicTransitions(t, v, x) = AtomicTransitions(t, v, o)}
    IN  {Group(Same(o), AtomicTransitions(t, v, o)) : o \in relevant}
            \cup (IF relevant = Ops(t) THEN {}
                  ELSE {Group(Ops(t) \ relevant,
                              {<<d, d>> : d \in 0 .. t.domains[v] - 1})})

AtomicFactor(t, labels, v) ==
    [size |-> t.domains[v],
     init |-> t.init[v],
     goals |-> LET goal == ConditionOn(t.goal, v)
               IN  IF goal = {} THEN 0 .. t.domains[v] - 1 ELSE goal,
     groups |-> AtomicGroups(t, labels, v),
     g |-> NotComputed, h |-> NotComputed,
     value |-> [s \in States(t) |-> s[v]],
     domain_size |-> t.domains[v]]

CreateFTS(t, compute_init, compute_goal) ==
    LET labels == [o \in Ops(t) |-> t.operators[o].cost]
    IN  [labels |-> labels,
         factors |-> [v \in Vars(t) |->
            ComputeDistances(AtomicFactor(t, labels, v), compute_init, compute_goal)],
         label_of |-> [o \in Ops(t) |-> o]]
-------------------------------------------------------------------------------

(* Labels are equivalent in the product when they are in both factors, or *)
(* when they are dead in it.                                              *)
MergedGroups(labels, f1, f2) ==
    LET Product(x, y) == {<<p[1][1] * f2.size + p[2][1], p[1][2] * f2.size + p[2][2]>> :
                            p \in x.transitions \X y.transitions}
        Group(members, transitions) ==
            [labels |-> members, cost |-> GroupCost(labels, members),
             transitions |-> transitions]
        buckets == {p \in f1.groups \X f2.groups : p[1].labels \cap p[2].labels # {}}
        alive == {p \in buckets : p[1].transitions # {} /\ p[2].transitions # {}}
        dead_labels == UNION {p[1].labels \cap p[2].labels : p \in buckets \ alive}
    IN  {Group(p[1].labels \cap p[2].labels, Product(p[1], p[2])) : p \in alive}
            \cup (IF dead_labels = {} THEN {} ELSE {Group(dead_labels, {})})

(* TransitionSystem::merge with MergeAndShrinkRepresentationMerge, whose *)
(* table counts through the domains of its children.                      *)
MergeFactors(labels, f1, f2) ==
    [size |-> f1.size * f2.size,
     init |-> f1.init * f2.size + f2.init,
     goals |-> {s1 * f2.size + s2 : s1 \in f1.goals, s2 \in f2.goals},
     groups |-> MergedGroups(labels, f1, f2),
     g |-> NotComputed, h |-> NotComputed,
     value |-> [s \in DOMAIN f1.value |->
        IF PRUNED_STATE \in {f1.value[s], f2.value[s]} THEN PRUNED_STATE
        ELSE f1.value[s] * f2.domain_size + f2.value[s]],
     domain_size |-> f1.domain_size * f2.domain_size]
-------------------------------------------------------------------------------
(* An abstraction is a sequence of sets of states, its equivalence classes; *)
(* states in none of them are pruned.                                       *)
AbstractionMapping(f, classes) ==
    [s \in StatesOf(f) |->
        IF \E i \in DOMAIN classes : s \in classes[i]
        THEN (CHOOSE i \in DOMAIN classes : s \in classes[i]) - 1
        ELSE PRUNED_STATE]

(* Mutation of MustRecompute: only goal distances are compared. *)
GoalDistancesDiffer(f, classes) ==
    \E i \in DOMAIN classes : \E s1, s2 \in classes[i] :
        f.h # NotComputed /\ f.h[s1] # f.h[s2]

(* Distances::apply_abstraction: the distances can be taken over when they *)
(* are the same in every class.                                            *)
MustRecompute(f, classes) ==
    \E i \in DOMAIN classes : \E s1, s2 \in classes[i] :
        \/ f.g # NotComputed /\ f.g[s1] # f.g[s2]
        \/ f.h # NotComputed /\ f.h[s1] # f.h[s2]

DistancesAfter(f, classes, transformed) ==
    LET Kept(d) == IF d = NotComputed THEN d
                   ELSE [s \in StatesOf(transformed) |->
                            d[CHOOSE old \in classes[s + 1] : TRUE]]
    IN  IF MustRecompute(f, classes)
        THEN ComputeDistances(transformed, f.g # NotComputed, f.h # NotComputed)
        ELSE [transformed EXCEPT !.g = Kept(f.g), !.h = Kept(f.h)]

(* TransitionSystem::apply_abstraction. *)
AbstractTransitionSystem(f, classes) ==
    LET mapping == AbstractionMapping(f, classes)
        Image(tr) == {<<mapping[e[1]], mapping[e[2]]>> :
                        e \in {x \in tr : PRUNED_STATE \notin {mapping[x[1]], mapping[x[2]]}}}
    IN  [f EXCEPT
            !.size = Len(classes),
            !.goals = {s \in 0 .. Len(classes) - 1 : classes[s + 1] \cap f.goals # {}},
            !.groups = LocallyEquivalent({[x EXCEPT !.transitions = Image(@)] :
                                            x \in f.groups}),
            !.init = mapping[f.init]]

(* apply_abstraction_to_lookup_table *)
AbstractRepresentation(f, mapping) ==
    LET value == [s \in DOMAIN f.value |->
                    IF f.value[s] = PRUNED_STATE THEN PRUNED_STATE ELSE mapping[f.value[s]]]
    IN  [f EXCEPT !.value = value,
                  !.domain_size = Max({0} \cup {value[s] + 1 : s \in DOMAIN value})]

(* FactoredTransitionSystem::apply_abstraction *)
ApplyAbstraction(f, classes) ==
    IF Len(classes) = f.size THEN f
    ELSE DistancesAfter(f, classes,
            AbstractRepresentation(AbstractTransitionSystem(f, classes),
                                   AbstractionMapping(f, classes)))

(* prune_step: the equivalence relation it applies. *)
KeptStates(f, prune_unreachable, prune_irrelevant) ==
    LET kept == {s \in StatesOf(f) : /\ prune_unreachable => f.g[s] # INF
                                     /\ prune_irrelevant => f.h[s] # INF}
    IN  AsSequence({{s} : s \in kept})
-------------------------------------------------------------------------------
(* Label reduction.  A mapping is a sequence of sets of labels; the i-th   *)
(* becomes the label i places after the last one.                          *)
OldLabels(mapping) == UNION {mapping[i] : i \in DOMAIN mapping}

(* Labels::reduce_labels, for the whole mapping. *)
ReducedLabels(labels, mapping) ==
    [l \in 1 .. Len(labels) + Len(mapping) |->
        IF l > Len(labels) THEN GroupCost(labels, mapping[l - Len(labels)])
        ELSE IF l \in OldLabels(mapping) THEN REDUCED ELSE labels[l]]

(* Where the labels of every i-th set are from one group of the factor. *)
ReduceEquivalent(f, labels, mapping) ==
    LET new == ReducedLabels(labels, mapping)
        NewIn(x) == {Len(labels) + i : i \in {j \in DOMAIN mapping : mapping[j] \subseteq x.labels}}
    IN  [f EXCEPT !.groups =
            {[x EXCEPT !.labels = (@ \ OldLabels(mapping)) \cup NewIn(x),
                       !.cost = Min({@} \cup {new[l] : l \in NewIn(x)})] : x \in f.groups}]

(* Where they need not be: a new label gets the transitions of them all. *)
ReduceArbitrary(f, labels, mapping) ==
    LET new == ReducedLabels(labels, mapping)
        Touched(set) == {x \in f.groups : x.labels \cap set # {}}
        Left(x) == x.labels \ OldLabels(mapping)
        remaining ==
            {[x EXCEPT !.labels = Left(x), !.cost = GroupCost(new, Left(x))] :
                x \in {y \in Touched(OldLabels(mapping)) : Left(y) # {}}}
        added ==
            {[labels |-> {Len(labels) + i}, cost |-> new[Len(labels) + i],
              transitions |-> UNION {x.transitions : x \in Touched(mapping[i])}] :
                i \in DOMAIN mapping}
    IN  [f EXCEPT !.groups = LocallyEquivalent(
            (f.groups \ Touched(OldLabels(mapping))) \cup remaining \cup added)]

(* FactoredTransitionSystem::apply_label_mapping *)
ApplyLabelMapping(fts, mapping, combinable_index) ==
    [labels |-> ReducedLabels(fts.labels, mapping),
     factors |-> [i \in DOMAIN fts.factors |->
        IF i = combinable_index THEN ReduceArbitrary(fts.factors[i], fts.labels, mapping)
        ELSE ReduceEquivalent(fts.factors[i], fts.labels, mapping)],
     label_of |-> [o \in DOMAIN fts.label_of |->
        LET new == {i \in DOMAIN mapping : fts.label_of[o] \in mapping[i]}
        IN  IF new = {} THEN fts.label_of[o] ELSE Len(fts.labels) + Min(new)]]

(* compute_combinable_equivalence_relation: labels that are equivalent in *)
(* all factors but the given one.                                         *)
Combinable(fts, index, l1, l2) ==
    \A i \in DOMAIN fts.factors \ {index} :
        \A x \in fts.factors[i].groups : l1 \in x.labels <=> l2 \in x.labels

(* Mutation of LabelMapping: the costs of the labels may differ. *)
LabelMappingAcrossCosts(fts, index) ==
    LET Block(l) == {x \in CurrentLabels(fts.labels) : Combinable(fts, index, l, x)}
    IN  AsSequence({b \in {Block(l) : l \in CurrentLabels(fts.labels)} : Cardinality(b) > 1})

(* compute_label_mapping *)
LabelMapping(fts, index) ==
    LET Block(l) == {x \in CurrentLabels(fts.labels) :
                        /\ Combinable(fts, index, l, x)
                        /\ fts.labels[x] = fts.labels[l]}
    IN  AsSequence({b \in {Block(l) : l \in CurrentLabels(fts.labels)} : Cardinality(b) > 1})

(* One attempt to reduce labels for the given index, active or not. *)
ReduceFor(fts, index) ==
    IF index \notin DOMAIN fts.factors \/ LabelMapping(fts, index) = <<>> THEN fts
    ELSE ApplyLabelMapping(fts, LabelMapping(fts, index), index)

(* LabelReduction::initialize: every index a factor of the task can have, in *)
(* the regular order, the reverse one, or, by default, in a random one.      *)
IsSystemOrder(task, order) ==
    LET max_transition_system_count == 2 * Len(task.domains) - 1
    IN  /\ order \in [1 .. max_transition_system_count -> 1 .. max_transition_system_count]
        /\ IsInjective(order)

(* ALL_TRANSITION_SYSTEMS and its variant with a fixpoint go through the     *)
(* indices up to num in that order, once, or until num of them in a row gave   *)
(* nothing; one that was reduced for counts as the first of these.           *)
Visit(run, i, num) ==
    IF run.unsuccessful = num THEN run
    ELSE LET reduced == ReduceFor(run.fts, i)
         IN  [fts |-> reduced,
              unsuccessful |-> IF reduced = run.fts THEN run.unsuccessful + 1 ELSE 1]

ReduceInOrder(fts, order, num, times) ==
    LET indices == SelectSeq(order, LAMBDA i : i <= num)
        Index(n) == indices[1 + ((n - 1) % num)]
        visits[n \in 0 .. num * times] ==
            IF n = 0 THEN [fts |-> fts, unsuccessful |-> 0]
            ELSE Visit(visits[n - 1], Index(n), num)
    IN  visits[num * times].fts

(* LabelReduction::reduce, for the indices up to num that factors have so far. *)
Reduce(fts, method, order, merge_indices, num) ==
    CASE method = "TWO_TRANSITION_SYSTEMS" ->
            ReduceFor(ReduceFor(fts, merge_indices[1]), merge_indices[2])
      [] method = "ALL_TRANSITION_SYSTEMS" -> ReduceInOrder(fts, order, num, 1)
      [] OTHER -> ReduceInOrder(fts, order, num, Len(fts.labels) + 2)
===============================================================================
