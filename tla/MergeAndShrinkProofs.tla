-------------------------- MODULE MergeAndShrinkProofs --------------------------
(***************************************************************************)
(* Whatever merge-and-shrink does to the factors, they stay abstractions   *)
(* of the task and their distances lower bounds; so the heuristic is       *)
(* admissible for every task, every option and every order of merges, and  *)
(* whenever the loop is stopped.                                           *)
(***************************************************************************)
EXTENDS MergeAndShrink, TaskLemmas

(* States that plans go through: reachable, and with a path to the goal. *)
IsReachable(t, s) == \E x \in PathEnds(t, OperatorCosts(t), t.init) : x[1] = s

OnPlan(t, s) ==
    /\ IsReachable(t, s)
    /\ \E y \in PathEnds(t, OperatorCosts(t), s) : IsGoalState(t, y[1])

(* A factor is well formed; the table of the representation has one entry  *)
(* per state, each the value of some state of the task.                    *)
IsRecord(f) ==
    f = [size |-> f.size, init |-> f.init, goals |-> f.goals, groups |-> f.groups,
         g |-> f.g, h |-> f.h, value |-> f.value, domain_size |-> f.domain_size]

AreGroups(size, groups) ==
    \A x \in groups :
        /\ x = [labels |-> x.labels, cost |-> x.cost, transitions |-> x.transitions]
        /\ x.cost \in Nat
        /\ x.transitions \subseteq (0 .. size - 1) \X (0 .. size - 1)

IsSystem(f) ==
    /\ f.size \in Nat
    /\ f.init \in StatesOf(f) \cup {PRUNED_STATE}
    /\ f.goals \subseteq StatesOf(f)
    /\ AreGroups(f.size, f.groups)

Represents(t, f) ==
    /\ f.domain_size = f.size
    /\ f.value \in [States(t) -> StatesOf(f) \cup {PRUNED_STATE}]
    /\ \A d \in StatesOf(f) : \E s \in States(t) : f.value[s] = d

IsFactor(t, f) == IsRecord(f) /\ IsSystem(f) /\ Represents(t, f)

(* It is an abstraction: it has the initial state, the goal states and the *)
(* steps between the states that are not pruned, and none on a plan is.    *)
Alive(f, s) == f.value[s] # PRUNED_STATE

Abstracts(t, label_of, f) ==
    /\ f.init = f.value[t.init]
    /\ \A s \in States(t) :
        /\ Alive(f, s) /\ IsGoalState(t, s) => f.value[s] \in f.goals
        /\ OnPlan(t, s) => Alive(f, s)
        /\ \A o \in Ops(t) :
            LET next == ReferenceSuccessor(t, o, s)
            IN  IsApplicable(t, o, s) /\ Alive(f, s) /\ Alive(f, next) =>
                    \E x \in f.groups : /\ label_of[o] \in x.labels
                                        /\ <<f.value[s], f.value[next]>> \in x.transitions

(* Groups have labels that are in use and cost no more than any of them. *)
CostsFit(labels, f) ==
    \A x \in f.groups : \A l \in x.labels :
        l \in CurrentLabels(labels) /\ labels[l] \in Nat /\ x.cost <= labels[l]

(* The distances are consistent with the transitions: no transition makes  *)
(* up for less than it costs.                                              *)
IsGoalBound(f, h) ==
    /\ h \in [StatesOf(f) -> 0 .. INF]
    /\ \A d \in f.goals : h[d] = 0
    /\ \A x \in f.groups : \A e \in x.transitions : h[e[1]] <= h[e[2]] + x.cost

IsInitBound(f, g) ==
    /\ g \in [StatesOf(f) -> 0 .. INF]
    /\ f.init # PRUNED_STATE => g[f.init] = 0
    /\ \A x \in f.groups : \A e \in x.transitions : g[e[2]] <= g[e[1]] + x.cost

AreBounds(f) ==
    /\ f.g # NotComputed => IsInitBound(f, f.g)
    /\ f.h # NotComputed => IsGoalBound(f, f.h)

GoodFactor(t, labels, label_of, f) ==
    /\ IsFactor(t, f)
    /\ Abstracts(t, label_of, f)
    /\ CostsFit(labels, f)
    /\ AreBounds(f)

HasDistances(init, goal, f) ==
    f.size # 0 => (init => f.g # NotComputed) /\ (goal => f.h # NotComputed)

(* The labels in use carry the costs of the operators they stand for. *)
LabelsFit(t, labels, label_of) ==
    /\ labels \in Seq(Nat \cup {REDUCED})
    /\ label_of = [o \in Ops(t) |-> label_of[o]]
    /\ \A o \in Ops(t) : /\ label_of[o] \in CurrentLabels(labels)
                         /\ labels[label_of[o]] = t.operators[o].cost

(* Factors look at different variables. *)
Agree(vs, s1, s2) == \A v \in vs : s1[v] = s2[v]

LooksAt(t, f, vs) ==
    \A s1, s2 \in States(t) : Agree(vs, s1, s2) => f.value[s1] = f.value[s2]

Independent(t, factors) ==
    \E vars_of \in [DOMAIN factors -> SUBSET Vars(t)] :
        /\ \A i, j \in DOMAIN factors : i # j => vars_of[i] \cap vars_of[j] = {}
        /\ \A i \in DOMAIN factors : LooksAt(t, factors[i], vars_of[i])

GoodFTS(t, init, goal, sys) ==
    /\ sys = [labels |-> sys.labels, factors |-> sys.factors, label_of |-> sys.label_of]
    /\ sys.factors = [i \in DOMAIN sys.factors |-> sys.factors[i]]
    /\ LabelsFit(t, sys.labels, sys.label_of)
    /\ \A i \in DOMAIN sys.factors :
        /\ GoodFactor(t, sys.labels, sys.label_of, sys.factors[i])
        /\ HasDistances(init, goal, sys.factors[i])
    /\ Independent(t, sys.factors)

(* Two factors that are merged next are of sizes that the limits allow.     *)
SizesFit(f1, f2) ==
    /\ f1.size <= limits.max_states_before_merge /\ f2.size <= limits.max_states_before_merge
    /\ f1.size * f2.size <= limits.max_states

Merging == {"reduce_before_shrinking", "shrink", "reduce_before_merging", "merge"}

IInv ==
    /\ input \in Inputs
    /\ GoodFTS(task, compute_init_distances, compute_goal_distances, fts)
    /\ num_indices \in Nat /\ DOMAIN fts.factors \subseteq 1 .. num_indices
    /\ pc \notin {"extract", "done"} =>
            \A i \in DOMAIN fts.factors : fts.factors[i].init # PRUNED_STATE
    /\ pc = "prune_atomic" => index \in 1 .. num_indices /\ DOMAIN fts.factors = 1 .. num_indices
    /\ pc \in Merging =>
            \E i, j \in DOMAIN fts.factors :
                /\ i # j /\ merge_indices = <<i, j>>
                /\ pc \in {"reduce_before_merging", "merge"} /\ input.strategy.name # "bisimulation"
                        => SizesFit(fts.factors[i], fts.factors[j])
    /\ pc = "prune" =>
            /\ index \in DOMAIN fts.factors
            /\ input.strategy.name # "bisimulation" => fts.factors[index].size <= limits.max_states
    /\ pc = "done" => \A f \in kept : /\ GoodFactor(task, fts.labels, fts.label_of, f)
                                      /\ HasDistances(FALSE, TRUE, f)
-------------------------------------------------------------------------------
(* A finite set without one of its members.                                *)
LEMMA WithoutOne ==
    ASSUME NEW S, IsFiniteSet(S), NEW x \in S
    PROVE  IsFiniteSet(S \ {x}) /\ Cardinality(S \ {x}) = Cardinality(S) - 1
BY FS_RemoveElement

(* Any states of a factor are finitely many.                               *)
LEMMA SomeStatesAreFinite ==
    ASSUME NEW size \in Nat, NEW S, S \subseteq 0 .. size - 1
    PROVE  IsFiniteSet(S) /\ Cardinality(S) \in Nat
<1>1. IsFiniteSet(0 .. size - 1)
    BY FS_Interval
<1>2. IsFiniteSet(S)
    BY <1>1, FS_Subset
<1> QED
    BY <1>2, FS_CardinalityType

(* The elements of a finite set in a sequence: it has them all.            *)
HasFirsts(S, before) ==
    \A T \in SUBSET S : T # {} => \E x \in T : \A y \in T : <<y, x>> \notin before

(* Whatever the order.                                                     *)
LEMMA OrderedParts ==
    ASSUME NEW S, IsFiniteSet(S), NEW before, HasFirsts(S, before)
    PROVE  /\ Cardinality(S) \in Nat
           /\ Ordered(S, before) \in Seq(S) /\ Len(Ordered(S, before)) = Cardinality(S)
           /\ DOMAIN Ordered(S, before) = 1 .. Cardinality(S)
           /\ \A x \in S : \E n \in 1 .. Cardinality(S) : Ordered(S, before)[n] = x
           /\ \A i, j \in 1 .. Cardinality(S) : i # j => Ordered(S, before)[i] # Ordered(S, before)[j]
<1> DEFINE N == Cardinality(S)
           First(rest) == CHOOSE x \in rest : \A y \in rest : <<y, x>> \notin before
           Rest(rest) == rest \ {First(rest)}
           left == CHOOSE g : g = [n \in 0 .. N |-> IF n = 0 THEN S ELSE Rest(g[n - 1])]
           D == SUBSET S
           F == [y \in D \X Nat |-> Rest(y[1])]
           q == [n \in 1 .. N |-> First(left[n - 1])]
<1>1. N \in Nat
    BY FS_CardinalityType
<1>2. Ordered(S, before) = q
    BY DEF Ordered
<1>3. PICK g \in [0 .. N -> D] : g[0] = S /\ \A n \in 1 .. N : g[n] = F[<<g[n - 1], n>>]
    <2>1. F \in Steps(D) /\ S \in D
        BY DEF Steps
    <2>2. Iterations(D, S, N, F) # {}
        <3> HIDE DEF F, D, N
        <3> QED
            BY <1>1, <2>1, IterationExists
    <2> HIDE DEF F, D, N
    <2> QED
        BY <2>2 DEF Iterations
<1>4. ASSUME NEW n \in 1 .. N
      PROVE  n - 1 \in 0 .. N /\ n \in 0 .. N /\ g[n] = Rest(g[n - 1])
    <2>1. n - 1 \in 0 .. N /\ n \in Nat /\ n \in 0 .. N
        BY <1>1
    <2>2. <<g[n - 1], n>> \in D \X Nat
        BY <1>3, <2>1
    <2> HIDE DEF Rest, D
    <2> QED
        BY <1>3, <2>1, <2>2
<1>5. g = [n \in 0 .. N |-> IF n = 0 THEN S ELSE Rest(g[n - 1])]
    <2>1. \A n \in 0 .. N : n = 0 \/ n \in 1 .. N
        BY <1>1
    <2> HIDE DEF Rest, D, N, F
    <2> QED
        BY <1>3, <1>4, <2>1
<1>6. left = [n \in 0 .. N |-> IF n = 0 THEN S ELSE Rest(left[n - 1])]
    <2> HIDE DEF Rest, N
    <2> QED
        BY <1>5
<1> HIDE DEF left
<1>7. left[0] = S /\ \A n \in 1 .. N : left[n] = Rest(left[n - 1])
    <2>1. 0 \in 0 .. N /\ \A n \in 1 .. N : n \in 0 .. N /\ n # 0
        BY <1>1
    <2> HIDE DEF Rest, N
    <2> QED
        BY <1>6, <2>1
<1>8. ASSUME NEW rest \in D, rest # {}
      PROVE  First(rest) \in rest
    BY <1>8 DEF HasFirsts
<1> PICK Sized : Sized = {n \in 0 .. N : left[n] \in D /\ Cardinality(left[n]) = N - n}
    OBVIOUS
<1>9. \A n \in 0 .. N : n \in Sized
    <2>1. 0 \in Sized
        BY <1>1, <1>7
    <2>2. ASSUME NEW n \in 1 .. N, n - 1 \in Sized
          PROVE  n \in Sized
        <3>1. /\ left[n - 1] \in D /\ Cardinality(left[n - 1]) = N - (n - 1)
              /\ N - (n - 1) # 0 /\ N - (n - 1) - 1 = N - n
            BY <1>1, <2>2
        <3>2. left[n - 1] # {} /\ IsFiniteSet(left[n - 1])
            BY <3>1, FS_EmptySet, FS_Subset
        <3>3. First(left[n - 1]) \in left[n - 1]
            <4> HIDE DEF First, D
            <4> QED
                BY <1>8, <3>1, <3>2
        <3>4. Cardinality(left[n - 1] \ {First(left[n - 1])}) = Cardinality(left[n - 1]) - 1
            <4> HIDE DEF First
            <4> QED
                BY ONLY <3>2, <3>3, WithoutOne
        <3>5. left[n] = left[n - 1] \ {First(left[n - 1])}
            BY <1>7
        <3>6. left[n] \in D /\ n \in 0 .. N
            BY <3>1, <3>5
        <3> HIDE DEF First, D
        <3> QED
            BY <3>1, <3>4, <3>5, <3>6
    <2> HIDE DEF N, D
    <2> QED
        BY <1>1, <2>1, <2>2, UpTo
<1>10. ASSUME NEW n \in 1 .. N
       PROVE  q[n] = First(left[n - 1]) /\ q[n] \in left[n - 1] /\ left[n - 1] \subseteq S
    <2>1. n - 1 \in 0 .. N /\ N - (n - 1) # 0
        BY <1>1
    <2>2. left[n - 1] \in D /\ Cardinality(left[n - 1]) # 0
        BY <1>9, <2>1
    <2>3. left[n - 1] # {}
        BY <2>2, FS_EmptySet
    <2>4. First(left[n - 1]) \in left[n - 1]
        <3> HIDE DEF First, D
        <3> QED
            BY <1>8, <2>2, <2>3
    <2> QED
        BY <2>2, <2>4
<1>11. ASSUME NEW x \in S
       PROVE  \E n \in 1 .. N : q[n] = x
    <2> SUFFICES ASSUME \A n \in 1 .. N : q[n] # x
                 PROVE  FALSE
        OBVIOUS
    <2> PICK Has : Has = {n \in 0 .. N : x \in left[n]}
        OBVIOUS
    <2>1. 0 \in Has
        BY <1>1, <1>7
    <2>2. ASSUME NEW n \in 1 .. N, n - 1 \in Has
          PROVE  n \in Has
        <3>1. left[n] = left[n - 1] \ {First(left[n - 1])} /\ n \in 0 .. N
            BY <1>4, <1>7
        <3>2. First(left[n - 1]) # x
            BY <1>10
        <3> HIDE DEF First
        <3> QED
            BY <2>2, <3>1, <3>2
    <2>3. N \in Has
        <3>1. N \in 0 .. N
            BY <1>1
        <3> HIDE DEF N, q
        <3> QED
            BY <1>1, <2>1, <2>2, <3>1, UpTo
    <2>4. Cardinality(left[N]) = 0 /\ left[N] \in SUBSET S
        BY <1>1, <1>9, <2>3
    <2>5. left[N] = {}
        <3>1. IsFiniteSet(left[N])
            BY <2>4, FS_Subset
        <3> QED
            BY <2>4, <3>1, FS_EmptySet
    <2> QED
        BY <2>3, <2>5
<1>12. q \in [1 .. N -> S]
    BY <1>10
<1>13. q \in Seq(S) /\ Len(q) = N /\ DOMAIN q = 1 .. N
    <2> HIDE DEF q, N
    <2> QED
        BY <1>1, <1>12, LenProperties, SeqDef
<1>14. \A i, j \in 1 .. N : i # j => q[i] # q[j]
    <2>1. IsFiniteSet(1 .. N) /\ Cardinality(1 .. N) = N
        BY <1>1, FS_Interval
    <2>2. q \in Surjection(1 .. N, S)
        <3> HIDE DEF q, N
        <3> QED
            BY <1>11, <1>12 DEF Surjection
    <2>3. q \in Injection(1 .. N, S)
        <3> HIDE DEF q
        <3> QED
            BY <2>1, <2>2, FS_SurjSameCardinalityImpliesInj
    <2> HIDE DEF q, N
    <2> QED
        BY <2>3 DEF Injection, IsInjective
<1> QED
    BY <1>1, <1>2, <1>11, <1>13, <1>14

(* In particular without an order.                                         *)
LEMMA SequenceParts ==
    ASSUME NEW S, IsFiniteSet(S)
    PROVE  /\ Cardinality(S) \in Nat
           /\ AsSequence(S) \in Seq(S) /\ Len(AsSequence(S)) = Cardinality(S)
           /\ DOMAIN AsSequence(S) = 1 .. Cardinality(S)
           /\ \A x \in S : \E n \in 1 .. Cardinality(S) : AsSequence(S)[n] = x
           /\ \A i, j \in 1 .. Cardinality(S) : i # j => AsSequence(S)[i] # AsSequence(S)[j]
<1>1. HasFirsts(S, {})
    BY DEF HasFirsts
<1>2. AsSequence(S) = Ordered(S, {})
    BY DEF AsSequence
<1> PICK q, none : q = Ordered(S, none) /\ none = {}
    OBVIOUS
<1>3. /\ Cardinality(S) \in Nat
      /\ q \in Seq(S) /\ Len(q) = Cardinality(S)
      /\ DOMAIN q = 1 .. Cardinality(S)
      /\ \A x \in S : \E n \in 1 .. Cardinality(S) : q[n] = x
      /\ \A i, j \in 1 .. Cardinality(S) : i # j => q[i] # q[j]
    BY <1>1, OrderedParts
<1> QED
    BY <1>2, <1>3
-------------------------------------------------------------------------------
(* Distances.  INF is a number.                                            *)
LEMMA InfIsNumber == INF \in Nat /\ 0 < INF
BY DEF INF

(* What Dijkstra's algorithm returns gives the sources no cost and is      *)
(* consistent with the edges.                                              *)
ConsistentDistances(size, sources, edges, d) ==
    /\ d \in [0 .. size - 1 -> 0 .. INF]
    /\ \A s \in sources : d[s] = 0
    /\ \A e \in edges : d[e[2]] <= d[e[1]] + e[3]

AreEdges(size, edges) ==
    \A e \in edges : e[1] \in 0 .. size - 1 /\ e[2] \in 0 .. size - 1 /\ e[3] \in Nat

(* One more state: costs only get smaller, and only by way of that state.  *)
LEMMA RelaxedParts ==
    ASSUME NEW size \in Nat, NEW edges, AreEdges(size, edges),
           NEW cost \in [0 .. size - 1 -> 0 .. INF], NEW u \in 0 .. size - 1
    PROVE  /\ Relaxed(cost, edges, u) \in [0 .. size - 1 -> 0 .. INF]
           /\ \A s \in 0 .. size - 1 :
                /\ Relaxed(cost, edges, u)[s] <= cost[s]
                /\ Relaxed(cost, edges, u)[s] = cost[s] \/ Relaxed(cost, edges, u)[s] >= cost[u]
                /\ \A e \in edges : e[1] = u /\ e[2] = s =>
                        Relaxed(cost, edges, u)[s] <= cost[u] + e[3]
<1> DEFINE Ways(s) == {cost[u] + e[3] : e \in {x \in edges : x[1] = u /\ x[2] = s}}
           new == Relaxed(cost, edges, u)
<1>1. INF \in Nat /\ cost[u] \in Nat
    BY InfIsNumber
<1>2. new = [s \in 0 .. size - 1 |-> Min({cost[s]} \cup Ways(s))]
    BY DEF Relaxed
<1>3. ASSUME NEW s \in 0 .. size - 1
      PROVE  /\ new[s] \in 0 .. INF /\ new[s] <= cost[s]
             /\ new[s] = cost[s] \/ new[s] >= cost[u]
             /\ \A e \in edges : e[1] = u /\ e[2] = s => new[s] <= cost[u] + e[3]
    <2>1. cost[s] \in Nat /\ cost[s] <= INF
        BY <1>1
    <2>2. \A n \in Ways(s) : n \in Nat /\ n >= cost[u]
        BY <1>1 DEF AreEdges
    <2> PICK set : set = {cost[s]} \cup Ways(s)
        OBVIOUS
    <2>3. new[s] = Min(set)
        BY <1>2
    <2>4. set \in SUBSET Nat /\ cost[s] \in set
        BY <2>1, <2>2
    <2>5. Min(set) \in set /\ Min(set) \in Nat /\ \A n \in set : Min(set) <= n
        BY <2>4, MinIsMember
    <2>6. \A e \in edges : e[1] = u /\ e[2] = s => cost[u] + e[3] \in set
        OBVIOUS
    <2>7. Min(set) = cost[s] \/ Min(set) \in Ways(s)
        BY <2>5
    <2> HIDE DEF new, Ways
    <2>8. new[s] \in Nat /\ new[s] <= cost[s] /\ (new[s] = cost[s] \/ new[s] >= cost[u])
        BY <2>2, <2>3, <2>4, <2>5, <2>7
    <2>9. \A e \in edges : e[1] = u /\ e[2] = s => new[s] <= cost[u] + e[3]
        BY <2>3, <2>5, <2>6
    <2>10. new[s] \in 0 .. INF
        BY <1>1, <2>1, <2>8
    <2> QED
        BY <2>8, <2>9, <2>10
<1>4. new \in [0 .. size - 1 -> 0 .. INF]
    <2> HIDE DEF new
    <2>1. new = [s \in 0 .. size - 1 |-> new[s]]
        BY <1>2
    <2> QED
        BY <1>3, <2>1
<1> QED
    BY <1>3, <1>4

(* What holds of the search between two rounds: the states taken from the  *)
(* queue are closer than the others, and their edges are accounted for.    *)
Searches(size) == [cost : [0 .. size - 1 -> 0 .. INF], open : SUBSET (0 .. size - 1)]

SearchOK(size, sources, edges, w) ==
    /\ \A s \in sources : w.cost[s] = 0
    /\ \A e \in edges : e[1] \notin w.open => w.cost[e[2]] <= w.cost[e[1]] + e[3]
    /\ \A s \in (0 .. size - 1) \ w.open : \A x \in w.open : w.cost[s] <= w.cost[x]

GoodSearches(size, sources, edges) ==
    {w \in Searches(size) : SearchOK(size, sources, edges, w)}

(* A round takes a state from the queue, if there is one, and keeps this.  *)
IsTaken(w, after) ==
    \/ after = w /\ \A s \in w.open : w.cost[s] = INF
    \/ \E u \in w.open : after.open = w.open \ {u}

(* TakeNext keeps what is known of the search, and makes such a round.     *)
LEMMA RoundTakesNext ==
    ASSUME NEW size \in Nat, NEW sources, sources \subseteq 0 .. size - 1,
           NEW edges, AreEdges(size, edges), NEW w \in GoodSearches(size, sources, edges)
    PROVE  /\ TakeNext(edges, w) \in GoodSearches(size, sources, edges)
           /\ IsTaken(w, TakeNext(edges, w))
<1> DEFINE queue == {s \in w.open : w.cost[s] < INF}
           u == CHOOSE s \in queue : \A x \in queue : w.cost[s] <= w.cost[x]
           after == [cost |-> Relaxed(w.cost, edges, u), open |-> w.open \ {u}]
<1> USE DEF GoodSearches
<1>1. /\ INF \in Nat /\ w.open \subseteq 0 .. size - 1
      /\ w.cost \in [0 .. size - 1 -> 0 .. INF]
      /\ \A s \in 0 .. size - 1 : w.cost[s] \in Nat /\ w.cost[s] <= INF
    BY InfIsNumber DEF Searches
<1>2. TakeNext(edges, w) = IF queue = {} THEN w ELSE after
    BY DEF TakeNext
<1>3. CASE queue = {}
    <2>1. \A s \in w.open : w.cost[s] = INF
        BY <1>1, <1>3
    <2> QED
        BY <1>2, <1>3, <2>1 DEF IsTaken
<1>4. CASE queue # {}
    <2> DEFINE Costs == {w.cost[s] : s \in queue}
    <2>1. Costs \in SUBSET Nat /\ Costs # {}
        BY <1>1, <1>4
    <2>2. PICK c \in Costs : \A d \in Costs : c <= d
        <3> HIDE DEF Costs
        <3> QED
            BY <2>1, SmallestNumber
    <2>3. \E s \in queue : \A x \in queue : w.cost[s] <= w.cost[x]
        BY <2>2
    <2>4. u \in queue /\ \A x \in queue : w.cost[u] <= w.cost[x]
        <3> HIDE DEF queue
        <3> QED
            BY <2>3
    <2> HIDE DEF u
    <2> PICK cost : cost = Relaxed(w.cost, edges, u)
        OBVIOUS
    <2>5. /\ u \in w.open /\ u \in 0 .. size - 1 /\ w.cost[u] \in Nat
          /\ \A x \in w.open : w.cost[u] <= w.cost[x]
        BY <1>1, <2>4
    <2>6. /\ cost \in [0 .. size - 1 -> 0 .. INF]
          /\ \A s \in 0 .. size - 1 :
                /\ cost[s] \in Nat /\ cost[s] <= w.cost[s]
                /\ cost[s] = w.cost[s] \/ cost[s] >= w.cost[u]
                /\ \A e \in edges : e[1] = u /\ e[2] = s => cost[s] <= w.cost[u] + e[3]
        <3>1. w.cost \in [0 .. size - 1 -> 0 .. INF] /\ u \in 0 .. size - 1
            BY <1>1, <2>5
        <3>2. /\ cost \in [0 .. size - 1 -> 0 .. INF]
              /\ \A s \in 0 .. size - 1 :
                    /\ cost[s] <= w.cost[s]
                    /\ cost[s] = w.cost[s] \/ cost[s] >= w.cost[u]
                    /\ \A e \in edges : e[1] = u /\ e[2] = s => cost[s] <= w.cost[u] + e[3]
            BY ONLY <3>1, RelaxedParts, size \in Nat, AreEdges(size, edges),
                    cost = Relaxed(w.cost, edges, u)
        <3>3. \A s \in 0 .. size - 1 : cost[s] \in 0 .. INF
            BY <3>2
        <3>4. \A s \in 0 .. size - 1 : cost[s] \in Nat
            BY <1>1, <3>3
        <3> QED
            BY <3>2, <3>4
    <2>7. after = [cost |-> cost, open |-> w.open \ {u}]
        OBVIOUS
    <2> HIDE DEF after, queue
    <2>8. after \in Searches(size)
        BY <1>1, <2>6, <2>7 DEF Searches
    <2>9. ASSUME NEW s \in 0 .. size - 1, s \notin w.open \ {u}
          PROVE  cost[s] = w.cost[s] /\ w.cost[s] <= w.cost[u]
        <3>1. w.cost[s] <= w.cost[u]
            <4>1. CASE s = u
                BY <2>5, <4>1
            <4>2. CASE s \notin w.open
                BY <2>5, <2>9, <4>2 DEF SearchOK
            <4> QED
                BY <2>9, <4>1, <4>2
        <3>2. cost[s] \in Nat /\ cost[s] <= w.cost[s] /\ w.cost[s] \in Nat
            BY <1>1, <2>6, <2>9
        <3>3. cost[s] = w.cost[s] \/ cost[s] >= w.cost[u]
            BY <2>6, <2>9
        <3> QED
            BY <2>5, <3>1, <3>2, <3>3
    <2>10. \A s \in sources : cost[s] = 0
        <3>1. \A s \in sources : s \in 0 .. size - 1 /\ w.cost[s] = 0
            BY DEF SearchOK
        <3> QED
            BY <2>6, <3>1
    <2>11. ASSUME NEW e \in edges, e[1] \notin w.open \ {u}
           PROVE  cost[e[2]] <= cost[e[1]] + e[3]
        <3>1. e[1] \in 0 .. size - 1 /\ e[2] \in 0 .. size - 1 /\ e[3] \in Nat
            BY DEF AreEdges
        <3>2. cost[e[1]] = w.cost[e[1]]
            BY <2>9, <2>11, <3>1
        <3>3. CASE e[1] = u
            BY <2>6, <3>1, <3>2, <3>3
        <3>4. CASE e[1] \notin w.open
            <4>1. w.cost[e[2]] <= w.cost[e[1]] + e[3]
                BY <3>4 DEF SearchOK
            <4>2. cost[e[2]] <= w.cost[e[2]]
                BY <2>6, <3>1
            <4>3. cost[e[2]] \in Nat /\ w.cost[e[2]] \in Nat /\ w.cost[e[1]] \in Nat
                BY <1>1, <2>6, <3>1
            <4> QED
                BY <3>1, <3>2, <4>1, <4>2, <4>3
        <3> QED
            BY <2>11, <3>3, <3>4
    <2>12. ASSUME NEW s \in (0 .. size - 1) \ (w.open \ {u}), NEW x \in w.open \ {u}
           PROVE  cost[s] <= cost[x]
        <3>1. cost[s] = w.cost[s] /\ w.cost[s] <= w.cost[u]
            BY <2>9
        <3>2. x \in 0 .. size - 1 /\ w.cost[u] <= w.cost[x]
            BY <1>1, <2>5
        <3>3. cost[x] = w.cost[x] \/ cost[x] >= w.cost[u]
            BY <2>6, <3>2
        <3>4. cost[x] \in Nat /\ w.cost[x] \in Nat /\ w.cost[s] \in Nat
            BY <1>1, <2>6, <3>2
        <3> QED
            BY <2>5, <3>1, <3>2, <3>3, <3>4
    <2>13. SearchOK(size, sources, edges, after)
        BY <2>7, <2>10, <2>11, <2>12 DEF SearchOK
    <2>14. TakeNext(edges, w) = after /\ after.open = w.open \ {u}
        BY <1>2, <1>4, <2>7
    <2> QED
        BY <2>5, <2>8, <2>13, <2>14 DEF IsTaken
<1> QED
    BY <1>3, <1>4

(* So after as many rounds as there are states the queue is empty.         *)
LEMMA LeastCostsBound ==
    ASSUME NEW size \in Nat, NEW sources, sources \subseteq 0 .. size - 1,
           NEW edges, AreEdges(size, edges)
    PROVE  ConsistentDistances(size, sources, edges, LeastCosts(size, sources, edges))
<1> DEFINE start == [cost |-> [s \in 0 .. size - 1 |-> IF s \in sources THEN 0 ELSE INF],
                     open |-> 0 .. size - 1]
           Round(w) == TakeNext(edges, w)
           rounds == CHOOSE g : g = [n \in 0 .. size |-> IF n = 0 THEN start ELSE Round(g[n - 1])]
           D == GoodSearches(size, sources, edges)
           F == [y \in D \X Nat |-> Round(y[1])]
<1>1. LeastCosts(size, sources, edges) = rounds[size].cost
    BY DEF LeastCosts
<1>2. start \in D
    <2>1. start \in Searches(size)
        BY InfIsNumber DEF Searches
    <2>2. SearchOK(size, sources, edges, start)
        BY DEF SearchOK, AreEdges
    <2> QED
        BY <2>1, <2>2 DEF GoodSearches
<1>3. ASSUME NEW w \in D
      PROVE  Round(w) \in D /\ IsTaken(w, Round(w))
    BY RoundTakesNext
<1>4. PICK g \in [0 .. size -> D] : g[0] = start /\ \A n \in 1 .. size : g[n] = F[<<g[n - 1], n>>]
    <2>1. F \in Steps(D)
        <3> HIDE DEF D, Round
        <3> QED
            BY <1>3 DEF Steps
    <2>2. Iterations(D, start, size, F) # {}
        <3> HIDE DEF F, D, start
        <3> QED
            BY <1>2, <2>1, IterationExists
    <2> HIDE DEF F, D, start
    <2> QED
        BY <2>2 DEF Iterations
<1> HIDE DEF start, D
<1>5. g = [n \in 0 .. size |-> IF n = 0 THEN start ELSE Round(g[n - 1])]
    <2>1. ASSUME NEW n \in 1 .. size
          PROVE  g[n] = Round(g[n - 1])
        <3>1. <<g[n - 1], n>> \in D \X Nat
            BY <1>4
        <3> HIDE DEF Round
        <3> QED
            BY <1>4, <3>1
    <2>2. \A n \in 0 .. size : n = 0 \/ n \in 1 .. size
        OBVIOUS
    <2> HIDE DEF Round, F
    <2> QED
        BY <1>4, <2>1, <2>2
<1>6. rounds = [n \in 0 .. size |-> IF n = 0 THEN start ELSE Round(rounds[n - 1])]
    <2> HIDE DEF Round
    <2> QED
        BY <1>5
<1> HIDE DEF rounds
<1>7. rounds[0] = start /\ \A n \in 1 .. size : rounds[n] = Round(rounds[n - 1])
    <2>1. 0 \in 0 .. size /\ \A n \in 1 .. size : n \in 0 .. size /\ n # 0
        OBVIOUS
    <2> HIDE DEF Round
    <2> QED
        BY <1>6, <2>1
<1> DEFINE AtEnd(w) == \A s \in w.open : w.cost[s] = INF
<1> PICK Fine : Fine = {n \in 0 .. size : /\ rounds[n] \in D
                                          /\ AtEnd(rounds[n]) \/ Cardinality(rounds[n].open) = size - n}
    OBVIOUS
<1>8. \A n \in 0 .. size : n \in Fine
    <2>1. 0 \in Fine
        <3>1. Cardinality(start.open) = size - 0
            <4>1. start.open = 0 .. size - 1
                BY DEF start
            <4>2. Cardinality(0 .. size - 1) = size - 0
                BY FS_Interval
            <4> QED
                BY <4>1, <4>2
        <3> QED
            BY <1>2, <1>7, <3>1
    <2>2. ASSUME NEW n \in 1 .. size, n - 1 \in Fine
          PROVE  n \in Fine
        <3> PICK w : w = rounds[n - 1]
            OBVIOUS
        <3>1. /\ w \in D /\ rounds[n] = Round(w) /\ n \in 0 .. size
              /\ AtEnd(w) \/ Cardinality(w.open) = size - (n - 1)
            BY <1>7, <2>2
        <3>2. Round(w) \in D
            BY <1>3, <3>1
        <3>3. CASE Round(w) = w /\ AtEnd(w)
            BY <3>1, <3>2, <3>3
        <3>4. CASE \E u \in w.open : Round(w).open = w.open \ {u}
            <4>1. PICK u \in w.open : Round(w).open = w.open \ {u}
                BY <3>4
            <4>2. w.open \subseteq 0 .. size - 1
                BY <3>1 DEF D, GoodSearches, Searches
            <4>3. IsFiniteSet(w.open)
                BY ONLY <4>2, SomeStatesAreFinite, size \in Nat
            <4>4. Cardinality(w.open \ {u}) = Cardinality(w.open) - 1
                BY ONLY <4>1, <4>3, WithoutOne
            <4>5. CASE Cardinality(w.open) = size - (n - 1)
                <5>1. size - (n - 1) - 1 = size - n
                    OBVIOUS
                <5> HIDE DEF Round
                <5> QED
                    BY <3>1, <3>2, <4>1, <4>4, <4>5, <5>1
            <4>6. CASE AtEnd(w)
                <5>1. Round(w) = w
                    <6>1. \A s \in w.open : ~(w.cost[s] < INF)
                        BY <4>6, InfIsNumber
                    <6>2. {s \in w.open : w.cost[s] < INF} = {}
                        BY <6>1
                    <6> QED
                        BY <6>2 DEF TakeNext
                <5> QED
                    BY <3>1, <3>2, <4>6, <5>1
            <4> QED
                BY <3>1, <4>5, <4>6
        <3> QED
            BY <1>3, <3>1, <3>3, <3>4 DEF IsTaken
    <2> QED
        BY <2>1, <2>2, UpTo
<1> PICK w : w = rounds[size]
    OBVIOUS
<1>9. w \in D /\ AtEnd(w)
    <2>1. size \in Fine /\ size - size = 0
        BY <1>8
    <2>2. w \in D /\ (AtEnd(w) \/ Cardinality(w.open) = 0)
        BY <2>1
    <2>3. ASSUME Cardinality(w.open) = 0
          PROVE  w.open = {}
        <3>1. w.open \subseteq 0 .. size - 1
            BY <2>2 DEF D, GoodSearches, Searches
        <3>2. IsFiniteSet(w.open)
            BY ONLY <3>1, SomeStatesAreFinite, size \in Nat
        <3> QED
            BY <2>3, <3>2, FS_EmptySet
    <2> QED
        BY <2>2, <2>3
<1>10. /\ w.cost \in [0 .. size - 1 -> 0 .. INF]
       /\ \A s \in sources : w.cost[s] = 0
       /\ \A e \in edges : e[1] \notin w.open => w.cost[e[2]] <= w.cost[e[1]] + e[3]
    BY <1>9 DEF D, GoodSearches, Searches, SearchOK
<1>11. ASSUME NEW e \in edges
       PROVE  w.cost[e[2]] <= w.cost[e[1]] + e[3]
    <2>1. CASE e[1] \in w.open
        <3>1. w.cost[e[1]] = INF
            BY <1>9, <2>1
        <3>2. w.cost[e[2]] \in 0 .. INF /\ e[3] \in Nat
            BY <1>10 DEF AreEdges
        <3> QED
            BY <3>1, <3>2, InfIsNumber
    <2> QED
        BY <1>10, <2>1
<1> QED
    BY <1>1, <1>10, <1>11 DEF ConsistentDistances
-------------------------------------------------------------------------------
(* The edges of a factor have the costs of its groups.                     *)
LEMMA EdgesOfGroups ==
    ASSUME NEW f, IsSystem(f)
    PROVE  /\ \A x \in f.groups : \A e \in x.transitions : <<e[1], e[2], x.cost>> \in Edges(f)
           /\ \A e \in Edges(f) : \E x \in f.groups : \E p \in x.transitions :
                    e = <<p[1], p[2], x.cost>>
<1> DEFINE Pairs == UNION {{x} \X x.transitions : x \in f.groups}
           Edge(p) == <<p[2][1], p[2][2], IF IsUnitCost(f) THEN 1 ELSE p[1].cost>>
<1>1. \A p \in Pairs : p[1] \in f.groups /\ p[2] \in p[1].transitions
    OBVIOUS
<1>2. \A x \in f.groups : \A e \in x.transitions : <<x, e>> \in Pairs
    OBVIOUS
<1>3. \A x \in f.groups : (IF IsUnitCost(f) THEN 1 ELSE x.cost) = x.cost
    BY DEF IsUnitCost
<1>4. Edges(f) = {Edge(p) : p \in Pairs}
    BY DEF Edges
<1>5. ASSUME NEW x \in f.groups, NEW e \in x.transitions
      PROVE  <<e[1], e[2], x.cost>> \in Edges(f)
    <2>1. Edge(<<x, e>>) = <<e[1], e[2], x.cost>>
        BY <1>3
    <2> HIDE DEF Pairs
    <2> QED
        BY <1>2, <1>4, <2>1
<1>6. ASSUME NEW e \in Edges(f)
      PROVE  \E x \in f.groups : \E p \in x.transitions : e = <<p[1], p[2], x.cost>>
    <2>1. PICK p \in Pairs : e = Edge(p)
        BY <1>4
    <2>2. p[1] \in f.groups /\ p[2] \in p[1].transitions
        BY <1>1, <2>1
    <2>3. e = <<p[2][1], p[2][2], p[1].cost>>
        BY <1>3, <2>1, <2>2
    <2> QED
        BY <2>2, <2>3
<1> QED
    BY <1>5, <1>6

(* So distances that are computed are bounds.                              *)
LEMMA InitDistancesBound ==
    ASSUME NEW f, IsSystem(f)
    PROVE  IsInitBound(f, InitDistances(f))
<1> PICK sources, edges : sources = {f.init} \ {PRUNED_STATE} /\ edges = Edges(f)
    OBVIOUS
<1>1. /\ f.size \in Nat /\ sources \subseteq 0 .. f.size - 1
      /\ \A x \in f.groups : x.cost \in Nat /\ x.transitions \subseteq StatesOf(f) \X StatesOf(f)
    BY DEF IsSystem, AreGroups, StatesOf
<1>2. AreEdges(f.size, edges)
    <2> SUFFICES ASSUME NEW e \in edges
                 PROVE  e[1] \in 0 .. f.size - 1 /\ e[2] \in 0 .. f.size - 1 /\ e[3] \in Nat
        BY DEF AreEdges
    <2>1. PICK x \in f.groups : \E p \in x.transitions : e = <<p[1], p[2], x.cost>>
        BY EdgesOfGroups
    <2> PICK p \in x.transitions : e = <<p[1], p[2], x.cost>>
        BY <2>1
    <2>2. p \in StatesOf(f) \X StatesOf(f) /\ x.cost \in Nat
        BY <1>1, <2>1
    <2> QED
        BY <2>1, <2>2 DEF StatesOf
<1> PICK d : d = InitDistances(f)
    OBVIOUS
<1>3. d = LeastCosts(f.size, sources, edges)
    BY DEF InitDistances
<1>4. ConsistentDistances(f.size, sources, edges, d)
    BY <1>1, <1>2, <1>3, LeastCostsBound
<1>5. ASSUME NEW x \in f.groups, NEW e \in x.transitions
      PROVE  d[e[2]] <= d[e[1]] + x.cost
    <2>1. <<e[1], e[2], x.cost>> \in edges
        BY EdgesOfGroups
    <2> QED
        BY <1>4, <2>1 DEF ConsistentDistances
<1> QED
    BY <1>4, <1>5 DEF IsInitBound, ConsistentDistances, StatesOf

(* The same backwards from the goals.                                      *)
LEMMA GoalDistancesBound ==
    ASSUME NEW f, IsSystem(f)
    PROVE  IsGoalBound(f, GoalDistances(f))
<1> PICK edges : edges = {<<e[2], e[1], e[3]>> : e \in Edges(f)}
    OBVIOUS
<1>1. /\ f.size \in Nat /\ f.goals \subseteq 0 .. f.size - 1
      /\ \A x \in f.groups : x.cost \in Nat /\ x.transitions \subseteq StatesOf(f) \X StatesOf(f)
    BY DEF IsSystem, AreGroups, StatesOf
<1>2. AreEdges(f.size, edges)
    <2> SUFFICES ASSUME NEW e \in edges
                 PROVE  e[1] \in 0 .. f.size - 1 /\ e[2] \in 0 .. f.size - 1 /\ e[3] \in Nat
        BY DEF AreEdges
    <2>1. PICK y \in Edges(f) : e = <<y[2], y[1], y[3]>>
        OBVIOUS
    <2> PICK x \in f.groups : \E p \in x.transitions : y = <<p[1], p[2], x.cost>>
        BY EdgesOfGroups
    <2> PICK p \in x.transitions : y = <<p[1], p[2], x.cost>>
        OBVIOUS
    <2>2. p \in StatesOf(f) \X StatesOf(f) /\ x.cost \in Nat
        BY <1>1, <2>1
    <2> QED
        BY <2>1, <2>2 DEF StatesOf
<1> PICK d : d = GoalDistances(f)
    OBVIOUS
<1>3. d = LeastCosts(f.size, f.goals, edges)
    BY DEF GoalDistances
<1>4. ConsistentDistances(f.size, f.goals, edges, d)
    BY <1>1, <1>2, <1>3, LeastCostsBound
<1>5. ASSUME NEW x \in f.groups, NEW e \in x.transitions
      PROVE  d[e[1]] <= d[e[2]] + x.cost
    <2>1. <<e[1], e[2], x.cost>> \in Edges(f)
        BY EdgesOfGroups
    <2>2. <<e[2], e[1], x.cost>> \in edges
        BY <2>1
    <2> QED
        BY <1>4, <2>2 DEF ConsistentDistances
<1> QED
    BY <1>4, <1>5 DEF IsGoalBound, ConsistentDistances, StatesOf

(* Computing the distances changes nothing else.                           *)
SameSystem(f, v) ==
    /\ v.size = f.size /\ v.init = f.init /\ v.goals = f.goals /\ v.groups = f.groups
    /\ v.value = f.value /\ v.domain_size = f.domain_size

(* What it changes.                                                        *)
LEMMA ComputedParts ==
    ASSUME NEW f, IsRecord(f), NEW init \in BOOLEAN, NEW goal \in BOOLEAN
    PROVE  /\ IsRecord(ComputeDistances(f, init, goal))
           /\ SameSystem(f, ComputeDistances(f, init, goal))
           /\ ComputeDistances(f, init, goal).g = IF init THEN InitDistances(f) ELSE f.g
           /\ ComputeDistances(f, init, goal).h = IF goal THEN GoalDistances(f) ELSE f.h
<1> PICK a, b : /\ a = (IF init THEN InitDistances(f) ELSE f.g)
                /\ b = (IF goal THEN GoalDistances(f) ELSE f.h)
    OBVIOUS
<1> PICK v : v = ComputeDistances(f, init, goal)
    OBVIOUS
<1>1. v = [f EXCEPT !.g = a, !.h = b]
    BY DEF ComputeDistances
<1>2. v = [size |-> f.size, init |-> f.init, goals |-> f.goals, groups |-> f.groups,
           g |-> a, h |-> b, value |-> f.value, domain_size |-> f.domain_size]
    BY <1>1 DEF IsRecord
<1>3. /\ v.size = f.size /\ v.init = f.init /\ v.goals = f.goals /\ v.groups = f.groups
      /\ v.g = a /\ v.h = b /\ v.value = f.value /\ v.domain_size = f.domain_size
    BY <1>2
<1> QED
    BY <1>2, <1>3 DEF IsRecord, SameSystem

(* Only the system and the representation matter for the rest.             *)
LEMMA SameIsGood ==
    ASSUME NEW t, NEW labels, NEW label_of, NEW f, NEW v, IsRecord(v), SameSystem(f, v), AreBounds(v),
           IsFactor(t, f), Abstracts(t, label_of, f), CostsFit(labels, f)
    PROVE  GoodFactor(t, labels, label_of, v)
<1>1. StatesOf(v) = StatesOf(f)
    BY DEF SameSystem, StatesOf
<1>2. \A s : Alive(v, s) <=> Alive(f, s)
    BY DEF SameSystem, Alive
<1>3. IsSystem(v) /\ Represents(t, v)
    BY <1>1 DEF SameSystem, IsFactor, IsSystem, Represents
<1>4. Abstracts(t, label_of, v)
    BY <1>2 DEF SameSystem, Abstracts
<1>5. CostsFit(labels, v)
    BY DEF SameSystem, CostsFit
<1> QED
    BY <1>3, <1>4, <1>5 DEF GoodFactor, IsFactor

(* Computing the distances keeps a factor good.                            *)
LEMMA ComputedIsGood ==
    ASSUME NEW t, NEW labels, NEW label_of, NEW f, NEW init \in BOOLEAN, NEW goal \in BOOLEAN,
           IsFactor(t, f), Abstracts(t, label_of, f), CostsFit(labels, f),
           ~init => (f.g # NotComputed => IsInitBound(f, f.g)),
           ~goal => (f.h # NotComputed => IsGoalBound(f, f.h))
    PROVE  GoodFactor(t, labels, label_of, ComputeDistances(f, init, goal))
<1> PICK v : v = ComputeDistances(f, init, goal)
    OBVIOUS
<1>1. /\ IsRecord(v) /\ SameSystem(f, v)
      /\ v.g = IF init THEN InitDistances(f) ELSE f.g
      /\ v.h = IF goal THEN GoalDistances(f) ELSE f.h
    BY ComputedParts DEF IsFactor
<1>2. /\ \A d : IsInitBound(f, d) => IsInitBound(v, d)
      /\ \A d : IsGoalBound(f, d) => IsGoalBound(v, d)
    BY <1>1 DEF SameSystem, IsInitBound, IsGoalBound, StatesOf
<1>3. IsInitBound(f, InitDistances(f)) /\ IsGoalBound(f, GoalDistances(f))
    BY InitDistancesBound, GoalDistancesBound DEF IsFactor
<1>4. AreBounds(v)
    BY <1>1, <1>2, <1>3 DEF AreBounds
<1> QED
    BY <1>1, <1>4, SameIsGood

(* A computed distance is not missing unless there are no states.          *)
LEMMA ComputedIsComputed ==
    ASSUME NEW f, f.size \in Nat, f.size # 0
    PROVE  \A d : DOMAIN d = StatesOf(f) => d # NotComputed
<1>1. 0 \in StatesOf(f)
    BY DEF StatesOf
<1>2. DOMAIN NotComputed = {}
    BY DEF NotComputed
<1> QED
    BY <1>1, <1>2
-------------------------------------------------------------------------------
(* Groups with the same transitions are put together: their labels all are *)
(* in one group, with the least of their costs.                            *)
LEMMA LocallyEquivalentParts ==
    ASSUME NEW size, NEW groups, AreGroups(size, groups)
    PROVE  /\ AreGroups(size, LocallyEquivalent(groups))
           /\ \A x \in groups : \E y \in LocallyEquivalent(groups) :
                    x.labels \subseteq y.labels /\ y.transitions = x.transitions
           /\ \A y \in LocallyEquivalent(groups) :
                /\ \E x \in groups : y.transitions = x.transitions /\ y.cost = x.cost
                /\ \A l \in y.labels : \E x \in groups : l \in x.labels /\ y.cost <= x.cost
<1> DEFINE Same(tr) == {x \in groups : x.transitions = tr}
           Costs(tr) == {x.cost : x \in Same(tr)}
           Joined(tr) == [labels |-> UNION {x.labels : x \in Same(tr)},
                          cost |-> Min(Costs(tr)), transitions |-> tr]
           joined == LocallyEquivalent(groups)
<1>1. joined = {Joined(tr) : tr \in {x.transitions : x \in groups}}
    BY DEF LocallyEquivalent
<1>2. ASSUME NEW x \in groups
      PROVE  /\ Min(Costs(x.transitions)) \in Costs(x.transitions)
             /\ \A c \in Costs(x.transitions) : Min(Costs(x.transitions)) <= c
    <2>1. Costs(x.transitions) \in SUBSET Nat /\ x.cost \in Costs(x.transitions)
        BY DEF AreGroups
    <2> PICK costs : costs = Costs(x.transitions)
        OBVIOUS
    <2>2. costs \in SUBSET Nat /\ x.cost \in costs
        BY <2>1
    <2>3. Min(costs) \in costs /\ \A c \in costs : Min(costs) <= c
        BY <2>2, MinIsMember
    <2> HIDE DEF Costs
    <2> QED
        BY <2>3
<1>3. ASSUME NEW x \in groups
      PROVE  \E y \in joined : x.labels \subseteq y.labels /\ y.transitions = x.transitions
    <2>1. Joined(x.transitions) \in joined /\ x \in Same(x.transitions)
        BY <1>1
    <2>2. x.labels \subseteq UNION {z.labels : z \in Same(x.transitions)}
        BY <2>1
    <2> QED
        BY <2>1, <2>2
<1>4. ASSUME NEW y \in joined
      PROVE  /\ y = [labels |-> y.labels, cost |-> y.cost, transitions |-> y.transitions]
             /\ y.cost \in Nat
             /\ y.transitions \subseteq (0 .. size - 1) \X (0 .. size - 1)
             /\ \E x \in groups : y.transitions = x.transitions /\ y.cost = x.cost
             /\ \A l \in y.labels : \E x \in groups : l \in x.labels /\ y.cost <= x.cost
    <2>1. PICK w \in groups : y = Joined(w.transitions)
        BY <1>1
    <2>2. /\ y = [labels |-> y.labels, cost |-> y.cost, transitions |-> y.transitions]
          /\ y.transitions = w.transitions
          /\ y.labels = UNION {x.labels : x \in Same(w.transitions)}
          /\ y.cost = Min(Costs(w.transitions))
        BY <2>1
    <2> PICK c : c = y.cost
        OBVIOUS
    <2>3. c \in Costs(w.transitions) /\ \A n \in Costs(w.transitions) : c <= n
        <3> HIDE DEF Costs
        <3> QED
            BY <1>2, <2>2
    <2>4. PICK x \in Same(w.transitions) : c = x.cost
        BY <2>3
    <2>5. \A l \in y.labels : \E z \in Same(w.transitions) : l \in z.labels /\ c <= z.cost
        BY <2>2, <2>3
    <2>6. x \in groups /\ x.transitions = w.transitions /\ x.cost \in Nat
          /\ x.transitions \subseteq (0 .. size - 1) \X (0 .. size - 1)
        BY DEF AreGroups
    <2> QED
        BY <2>2, <2>4, <2>5, <2>6
<1>5. AreGroups(size, joined)
    BY <1>4 DEF AreGroups
<1> QED
    BY <1>3, <1>4, <1>5
-------------------------------------------------------------------------------
(* Abstractions.  An equivalence relation that leaves out no state on a     *)
(* plan may be applied to a factor.                                        *)
IsRelation(f, classes) ==
    /\ classes \in Seq(SUBSET StatesOf(f))
    /\ \A i \in 1 .. Len(classes) : classes[i] # {}
    /\ \A i, j \in 1 .. Len(classes) : i # j => classes[i] \cap classes[j] = {}

Covers(t, f, classes) ==
    \A s \in States(t) : OnPlan(t, s) => \E i \in 1 .. Len(classes) : f.value[s] \in classes[i]

IsMapping(f, classes, m) ==
    /\ m \in [StatesOf(f) -> (0 .. Len(classes) - 1) \cup {PRUNED_STATE}]
    /\ \A i \in 1 .. Len(classes) : \A d \in classes[i] : d \in StatesOf(f) /\ m[d] = i - 1
    /\ \A d \in StatesOf(f) :
        m[d] # PRUNED_STATE => m[d] + 1 \in 1 .. Len(classes) /\ d \in classes[m[d] + 1]

(* Every class becomes the state at its place.                             *)
LEMMA MappingParts ==
    ASSUME NEW f, NEW classes, IsRelation(f, classes)
    PROVE  IsMapping(f, classes, AbstractionMapping(f, classes))
<1> PICK m : m = AbstractionMapping(f, classes)
    OBVIOUS
<1>1. Len(classes) \in Nat /\ DOMAIN classes = 1 .. Len(classes)
    BY LenProperties DEF IsRelation
<1>2. m = [s \in StatesOf(f) |->
                IF \E i \in 1 .. Len(classes) : s \in classes[i]
                THEN (CHOOSE i \in 1 .. Len(classes) : s \in classes[i]) - 1
                ELSE PRUNED_STATE]
    BY <1>1 DEF AbstractionMapping
<1>3. ASSUME NEW i \in 1 .. Len(classes), NEW d \in classes[i]
      PROVE  d \in StatesOf(f) /\ m[d] = i - 1
    <2>1. classes[i] \subseteq StatesOf(f)
        BY <1>1, ElementOfSeq DEF IsRelation
    <2>2. \A j \in 1 .. Len(classes) : d \in classes[j] => j = i
        BY DEF IsRelation
    <2>3. (CHOOSE j \in 1 .. Len(classes) : d \in classes[j]) = i
        BY <2>2
    <2> QED
        BY <1>2, <2>1, <2>3
<1>4. ASSUME NEW d \in StatesOf(f), \A i \in 1 .. Len(classes) : d \notin classes[i]
      PROVE  m[d] = PRUNED_STATE
    BY <1>2, <1>4
<1>5. \A i \in 1 .. Len(classes) : i - 1 \in 0 .. Len(classes) - 1 /\ (i - 1) + 1 = i
    BY <1>1
<1>6. ASSUME NEW d \in StatesOf(f)
      PROVE  /\ m[d] \in (0 .. Len(classes) - 1) \cup {PRUNED_STATE}
             /\ m[d] # PRUNED_STATE => m[d] + 1 \in 1 .. Len(classes) /\ d \in classes[m[d] + 1]
    <2>1. CASE \E i \in 1 .. Len(classes) : d \in classes[i]
        <3>1. PICK i \in 1 .. Len(classes) : d \in classes[i]
            BY <2>1
        <3>2. m[d] = i - 1
            BY <1>3, <3>1
        <3> QED
            BY <1>5, <3>1, <3>2
    <2> QED
        BY <1>4, <2>1
<1>7. m = [d \in StatesOf(f) |-> m[d]]
    BY <1>2
<1> QED
    BY <1>3, <1>6, <1>7 DEF IsMapping

(* The transitions between states that are kept have their images, and no  *)
(* others; with the labels they had and at the costs they had.             *)
Image(m, tr) ==
    {<<m[e[1]], m[e[2]]>> : e \in {x \in tr : PRUNED_STATE \notin {m[x[1]], m[x[2]]}}}

ImageGroups(m, f) == {[x EXCEPT !.transitions = Image(m, @)] : x \in f.groups}

AreImages(m, f, groups) ==
    /\ \A x \in f.groups : \A e \in x.transitions :
        m[e[1]] # PRUNED_STATE /\ m[e[2]] # PRUNED_STATE =>
            \E y \in groups : x.labels \subseteq y.labels /\ <<m[e[1]], m[e[2]]>> \in y.transitions
    /\ \A y \in groups : \A p \in y.transitions :
        \E x \in f.groups : \E e \in x.transitions :
            /\ p = <<m[e[1]], m[e[2]]>> /\ y.cost = x.cost
            /\ m[e[1]] # PRUNED_STATE /\ m[e[2]] # PRUNED_STATE
    /\ \A y \in groups : \A l \in y.labels :
        \E x \in f.groups : l \in x.labels /\ y.cost <= x.cost

(* So it is after equivalent labels were put together.                     *)
LEMMA ImageParts ==
    ASSUME NEW f, IsSystem(f), NEW classes, Len(classes) \in Nat,
           NEW m, IsMapping(f, classes, m)
    PROVE  /\ AreGroups(Len(classes), LocallyEquivalent(ImageGroups(m, f)))
           /\ AreImages(m, f, LocallyEquivalent(ImageGroups(m, f)))
<1> PICK images, groups : images = ImageGroups(m, f) /\ groups = LocallyEquivalent(images)
    OBVIOUS
<1>1. ASSUME NEW x \in f.groups
      PROVE  /\ x = [labels |-> x.labels, cost |-> x.cost, transitions |-> x.transitions]
             /\ x.cost \in Nat /\ x.transitions \subseteq StatesOf(f) \X StatesOf(f)
    BY DEF IsSystem, AreGroups, StatesOf
<1>2. ASSUME NEW x \in f.groups
      PROVE  [x EXCEPT !.transitions = Image(m, @)] =
                [labels |-> x.labels, cost |-> x.cost, transitions |-> Image(m, x.transitions)]
    BY <1>1
<1>3. images = {[labels |-> x.labels, cost |-> x.cost, transitions |-> Image(m, x.transitions)] :
                    x \in f.groups}
    BY <1>2 DEF ImageGroups
<1>4. ASSUME NEW x \in f.groups
      PROVE  \E y \in images : /\ y.labels = x.labels /\ y.cost = x.cost
                               /\ y.transitions = Image(m, x.transitions)
    <2> PICK y : y = [labels |-> x.labels, cost |-> x.cost, transitions |-> Image(m, x.transitions)]
        OBVIOUS
    <2>1. y \in images
        BY <1>3
    <2>2. y.labels = x.labels /\ y.cost = x.cost /\ y.transitions = Image(m, x.transitions)
        OBVIOUS
    <2> QED
        BY <2>1, <2>2
<1>5. \A y \in images : /\ y = [labels |-> y.labels, cost |-> y.cost, transitions |-> y.transitions]
                        /\ \E x \in f.groups : /\ y.labels = x.labels /\ y.cost = x.cost
                                               /\ y.transitions = Image(m, x.transitions)
    BY <1>3
<1>6. ASSUME NEW x \in f.groups, NEW e \in x.transitions,
             m[e[1]] # PRUNED_STATE, m[e[2]] # PRUNED_STATE
      PROVE  <<m[e[1]], m[e[2]]>> \in Image(m, x.transitions)
    BY <1>6 DEF Image
<1>7. ASSUME NEW x \in f.groups, NEW p \in Image(m, x.transitions)
      PROVE  \E e \in x.transitions : /\ p = <<m[e[1]], m[e[2]]>>
                                      /\ m[e[1]] # PRUNED_STATE /\ m[e[2]] # PRUNED_STATE
    BY DEF Image
<1>8. AreGroups(Len(classes), images)
    <2>1. ASSUME NEW x \in f.groups, NEW p \in Image(m, x.transitions)
          PROVE  p \in (0 .. Len(classes) - 1) \X (0 .. Len(classes) - 1)
        <3>1. PICK e \in x.transitions : /\ p = <<m[e[1]], m[e[2]]>>
                                         /\ m[e[1]] # PRUNED_STATE /\ m[e[2]] # PRUNED_STATE
            BY <1>7
        <3>2. e[1] \in StatesOf(f) /\ e[2] \in StatesOf(f)
            BY <1>1
        <3>3. \A d \in StatesOf(f) : m[d] # PRUNED_STATE => m[d] \in 0 .. Len(classes) - 1
            BY DEF IsMapping
        <3> QED
            BY <3>1, <3>2, <3>3
    <2> QED
        BY <1>1, <1>5, <2>1 DEF AreGroups
<1>9. /\ AreGroups(Len(classes), groups)
      /\ \A x \in images : \E y \in groups :
            x.labels \subseteq y.labels /\ y.transitions = x.transitions
      /\ \A y \in groups :
            /\ \E x \in images : y.transitions = x.transitions /\ y.cost = x.cost
            /\ \A l \in y.labels : \E x \in images : l \in x.labels /\ y.cost <= x.cost
    BY <1>8, LocallyEquivalentParts
<1>10. AreImages(m, f, groups)
    <2>1. ASSUME NEW x \in f.groups, NEW e \in x.transitions,
                 m[e[1]] # PRUNED_STATE, m[e[2]] # PRUNED_STATE
          PROVE  \E y \in groups : x.labels \subseteq y.labels /\ <<m[e[1]], m[e[2]]>> \in y.transitions
        BY <1>4, <1>6, <1>9, <2>1
    <2>2. ASSUME NEW y \in groups, NEW p \in y.transitions
          PROVE  \E x \in f.groups : \E e \in x.transitions :
                    /\ p = <<m[e[1]], m[e[2]]>> /\ y.cost = x.cost
                    /\ m[e[1]] # PRUNED_STATE /\ m[e[2]] # PRUNED_STATE
        <3>1. PICK z \in images : y.transitions = z.transitions /\ y.cost = z.cost
            BY <1>9
        <3>2. PICK x \in f.groups : z.cost = x.cost /\ z.transitions = Image(m, x.transitions)
            BY <1>5
        <3> QED
            BY <1>7, <3>1, <3>2
    <2>3. ASSUME NEW y \in groups, NEW l \in y.labels
          PROVE  \E x \in f.groups : l \in x.labels /\ y.cost <= x.cost
        <3>1. PICK z \in images : l \in z.labels /\ y.cost <= z.cost
            BY <1>9
        <3> QED
            BY <1>5, <3>1
    <2> QED
        BY <2>1, <2>2, <2>3 DEF AreImages
<1> QED
    BY <1>9, <1>10

(* The abstraction of the transition system and of the representation.     *)
Abstracted(f, classes) ==
    AbstractRepresentation(AbstractTransitionSystem(f, classes), AbstractionMapping(f, classes))

IsAbstracted(f, classes, m, v) ==
    /\ v.size = Len(classes)
    /\ v.init = m[f.init]
    /\ v.goals = {d \in 0 .. Len(classes) - 1 : classes[d + 1] \cap f.goals # {}}
    /\ v.groups = LocallyEquivalent(ImageGroups(m, f))
    /\ v.g = f.g /\ v.h = f.h
    /\ v.value = [s \in DOMAIN f.value |->
                    IF f.value[s] = PRUNED_STATE THEN PRUNED_STATE ELSE m[f.value[s]]]
    /\ v.domain_size = Max({0} \cup {v.value[s] + 1 : s \in DOMAIN v.value})

(* Its parts.                                                              *)
LEMMA AbstractedParts ==
    ASSUME NEW f, IsRecord(f), NEW classes
    PROVE  /\ IsRecord(Abstracted(f, classes))
           /\ IsAbstracted(f, classes, AbstractionMapping(f, classes), Abstracted(f, classes))
<1> PICK m : m = AbstractionMapping(f, classes)
    OBVIOUS
<1> PICK goals, groups :
        /\ goals = {d \in 0 .. Len(classes) - 1 : classes[d + 1] \cap f.goals # {}}
        /\ groups = LocallyEquivalent(ImageGroups(m, f))
    OBVIOUS
<1> PICK w : w = AbstractTransitionSystem(f, classes)
    OBVIOUS
<1>1. w = [f EXCEPT !.size = Len(classes), !.goals = goals, !.groups = groups, !.init = m[f.init]]
    <2>1. groups = LocallyEquivalent({[x EXCEPT !.transitions =
                {<<m[e[1]], m[e[2]]>> :
                    e \in {y \in @ : PRUNED_STATE \notin {m[y[1]], m[y[2]]}}}] : x \in f.groups})
        BY DEF ImageGroups, Image
    <2> QED
        BY <2>1 DEF AbstractTransitionSystem
<1>2. w = [size |-> Len(classes), init |-> m[f.init], goals |-> goals, groups |-> groups,
           g |-> f.g, h |-> f.h, value |-> f.value, domain_size |-> f.domain_size]
    BY <1>1 DEF IsRecord
<1> PICK value : value = [s \in DOMAIN f.value |->
                            IF f.value[s] = PRUNED_STATE THEN PRUNED_STATE ELSE m[f.value[s]]]
    OBVIOUS
<1> PICK num : num = Max({0} \cup {value[s] + 1 : s \in DOMAIN value})
    OBVIOUS
<1> PICK v : v = Abstracted(f, classes)
    OBVIOUS
<1>3. w.value = f.value
    BY <1>2
<1>4. v = [w EXCEPT !.value = value, !.domain_size = num]
    <2>1. v = AbstractRepresentation(w, m)
        BY DEF Abstracted
    <2>2. AbstractRepresentation(w, m) =
            LET val == [s \in DOMAIN w.value |->
                            IF w.value[s] = PRUNED_STATE THEN PRUNED_STATE ELSE m[w.value[s]]]
            IN  [w EXCEPT !.value = val,
                          !.domain_size = Max({0} \cup {val[s] + 1 : s \in DOMAIN val})]
        BY DEF AbstractRepresentation
    <2> QED
        BY <1>3, <2>1, <2>2
<1>5. v = [size |-> Len(classes), init |-> m[f.init], goals |-> goals, groups |-> groups,
           g |-> f.g, h |-> f.h, value |-> value, domain_size |-> num]
    BY ONLY <1>2, <1>4
<1>6. /\ v.size = Len(classes) /\ v.init = m[f.init] /\ v.goals = goals /\ v.groups = groups
      /\ v.g = f.g /\ v.h = f.h /\ v.value = value /\ v.domain_size = num
    BY ONLY <1>5
<1>7. IsRecord(v)
    BY <1>5, <1>6 DEF IsRecord
<1> QED
    BY <1>6, <1>7 DEF IsAbstracted

(* A state of the task is where the class of its state is.                 *)
LEMMA AbstractedValues ==
    ASSUME NEW t, NEW f, IsFactor(t, f), NEW classes, IsRelation(f, classes),
           NEW m, IsMapping(f, classes, m), NEW v, IsAbstracted(f, classes, m, v)
    PROVE  /\ Len(classes) \in Nat /\ StatesOf(v) = 0 .. Len(classes) - 1
           /\ v.value \in [States(t) -> StatesOf(v) \cup {PRUNED_STATE}]
           /\ \A s \in States(t) : Alive(v, s) =>
                /\ Alive(f, s) /\ v.value[s] = m[f.value[s]]
                /\ f.value[s] \in StatesOf(f) /\ f.value[s] \in classes[v.value[s] + 1]
           /\ \A i \in 1 .. Len(classes) : \A s \in States(t) :
                f.value[s] \in classes[i] => v.value[s] = i - 1 /\ Alive(v, s)
           /\ Represents(t, v)
<1>1. /\ Len(classes) \in Nat
      /\ f.value \in [States(t) -> StatesOf(f) \cup {PRUNED_STATE}]
      /\ \A d \in StatesOf(f) : \E s \in States(t) : f.value[s] = d
    BY LenProperties DEF IsRelation, IsFactor, Represents
<1>2. PRUNED_STATE \notin Nat /\ PRUNED_STATE + 1 = 0
    BY DEF PRUNED_STATE
<1>3. f.size \in Nat /\ StatesOf(f) \subseteq Nat
    BY DEF IsFactor, IsSystem, StatesOf
<1>4. /\ m \in [StatesOf(f) -> (0 .. Len(classes) - 1) \cup {PRUNED_STATE}]
      /\ \A i \in 1 .. Len(classes) : \A d \in classes[i] : d \in StatesOf(f) /\ m[d] = i - 1
      /\ \A d \in StatesOf(f) :
            m[d] # PRUNED_STATE => m[d] + 1 \in 1 .. Len(classes) /\ d \in classes[m[d] + 1]
    BY DEF IsMapping
<1>5. /\ StatesOf(v) = 0 .. Len(classes) - 1
      /\ v.value = [s \in States(t) |->
                        IF f.value[s] = PRUNED_STATE THEN PRUNED_STATE ELSE m[f.value[s]]]
      /\ v.domain_size = Max({0} \cup {v.value[s] + 1 : s \in States(t)})
    BY <1>1 DEF IsAbstracted, StatesOf
<1>6. v.value \in [States(t) -> StatesOf(v) \cup {PRUNED_STATE}]
    BY <1>1, <1>4, <1>5
<1>7. ASSUME NEW s \in States(t), Alive(v, s)
      PROVE  /\ Alive(f, s) /\ v.value[s] = m[f.value[s]]
             /\ f.value[s] \in StatesOf(f) /\ f.value[s] \in classes[v.value[s] + 1]
    BY <1>1, <1>4, <1>5, <1>7 DEF Alive
<1>8. ASSUME NEW i \in 1 .. Len(classes), NEW s \in States(t), f.value[s] \in classes[i]
      PROVE  v.value[s] = i - 1 /\ Alive(v, s)
    <2>1. f.value[s] \in StatesOf(f) /\ m[f.value[s]] = i - 1
        BY <1>4, <1>8
    <2>2. f.value[s] # PRUNED_STATE
        BY <1>2, <1>3, <2>1
    <2>3. v.value[s] = i - 1
        BY <1>5, <2>1, <2>2
    <2>4. i - 1 \in Nat
        BY <1>1
    <2> QED
        BY <1>2, <2>3, <2>4 DEF Alive
<1>9. ASSUME NEW d \in StatesOf(v)
      PROVE  \E s \in States(t) : v.value[s] = d
    <2>1. d + 1 \in 1 .. Len(classes) /\ (d + 1) - 1 = d
        BY <1>1, <1>5
    <2>2. PICK c : c \in classes[d + 1]
        BY <2>1 DEF IsRelation
    <2>3. PICK s \in States(t) : f.value[s] = c
        BY <1>1, <1>4, <2>1, <2>2
    <2> QED
        BY <1>8, <2>1, <2>2, <2>3
<1>10. v.domain_size = Len(classes)
    <2> PICK sizes : sizes = {0} \cup {v.value[s] + 1 : s \in States(t)}
        OBVIOUS
    <2>1. \A s \in States(t) : v.value[s] + 1 \in Nat /\ v.value[s] + 1 <= Len(classes)
        BY <1>1, <1>2, <1>5, <1>6
    <2>2. sizes \in SUBSET Nat /\ \A n \in sizes : n <= Len(classes)
        BY <1>1, <2>1
    <2>3. Len(classes) \in sizes
        <3>1. CASE Len(classes) # 0
            <4>1. Len(classes) - 1 \in StatesOf(v) /\ (Len(classes) - 1) + 1 = Len(classes)
                BY <1>1, <1>5, <3>1
            <4>2. PICK s \in States(t) : v.value[s] = Len(classes) - 1
                BY <1>9, <4>1
            <4> QED
                BY <4>1, <4>2
        <3> QED
            BY <3>1
    <2>4. Max(sizes) = Len(classes)
        BY <2>2, <2>3, MaxIsLargest
    <2> QED
        BY <1>5, <2>4
<1>11. Represents(t, v)
    BY <1>6, <1>9, <1>10 DEF Represents, IsAbstracted
<1> QED
    BY <1>1, <1>5, <1>6, <1>7, <1>8, <1>11

(* So the abstraction of a factor is an abstraction of the task.           *)
LEMMA AbstractedIsAbstraction ==
    ASSUME NEW t, IsTask(t), t.layers = <<>>, NEW labels, NEW label_of, NEW f, IsFactor(t, f),
           Abstracts(t, label_of, f), CostsFit(labels, f), f.init # PRUNED_STATE,
           NEW classes, IsRelation(f, classes), Covers(t, f, classes),
           NEW m, IsMapping(f, classes, m), NEW v, IsRecord(v), IsAbstracted(f, classes, m, v)
    PROVE  IsFactor(t, v) /\ Abstracts(t, label_of, v) /\ CostsFit(labels, v)
<1>1. /\ Len(classes) \in Nat /\ StatesOf(v) = 0 .. Len(classes) - 1
      /\ v.value \in [States(t) -> StatesOf(v) \cup {PRUNED_STATE}]
      /\ \A s \in States(t) : Alive(v, s) =>
            /\ Alive(f, s) /\ v.value[s] = m[f.value[s]]
            /\ f.value[s] \in StatesOf(f) /\ f.value[s] \in classes[v.value[s] + 1]
      /\ \A i \in 1 .. Len(classes) : \A s \in States(t) :
            f.value[s] \in classes[i] => v.value[s] = i - 1 /\ Alive(v, s)
      /\ Represents(t, v)
    BY AbstractedValues
<1>2. /\ v.size = Len(classes) /\ v.init = m[f.init]
      /\ v.goals = {d \in 0 .. Len(classes) - 1 : classes[d + 1] \cap f.goals # {}}
      /\ v.groups = LocallyEquivalent(ImageGroups(m, f))
    BY DEF IsAbstracted
<1>3. AreGroups(Len(classes), v.groups) /\ AreImages(m, f, v.groups)
    BY <1>1, <1>2, ImageParts DEF IsFactor
<1>4. t.init \in States(t)
    BY DEF IsTask
<1>5. v.init = v.value[t.init] /\ v.init \in StatesOf(v) \cup {PRUNED_STATE}
    <2>1. /\ f.init = f.value[t.init]
          /\ f.value \in [States(t) -> StatesOf(f) \cup {PRUNED_STATE}]
        BY DEF Abstracts, IsFactor, Represents
    <2>2. v.value[t.init] = m[f.init]
        BY <1>4, <2>1 DEF IsAbstracted
    <2> QED
        BY <1>1, <1>2, <1>4, <2>2
<1>6. IsSystem(v)
    BY <1>1, <1>2, <1>3, <1>5 DEF IsSystem
<1>7. IsFactor(t, v)
    BY <1>1, <1>6 DEF IsFactor
<1>8. ASSUME NEW s \in States(t), Alive(v, s), IsGoalState(t, s)
      PROVE  v.value[s] \in v.goals
    <2>1. f.value[s] \in f.goals /\ f.value[s] \in classes[v.value[s] + 1]
        BY <1>1, <1>8 DEF Abstracts
    <2>2. v.value[s] \in 0 .. Len(classes) - 1
        BY <1>1, <1>8 DEF Alive
    <2> QED
        BY <1>2, <2>1, <2>2
<1>9. ASSUME NEW s \in States(t), OnPlan(t, s)
      PROVE  Alive(v, s)
    BY <1>1, <1>9 DEF Covers
<1>10. ASSUME NEW s \in States(t), NEW o \in Ops(t), NEW next, next \in States(t),
              next = ReferenceSuccessor(t, o, s), IsApplicable(t, o, s), Alive(v, s), Alive(v, next)
       PROVE  \E y \in v.groups : /\ label_of[o] \in y.labels
                                  /\ <<v.value[s], v.value[next]>> \in y.transitions
    <2>1. /\ Alive(f, s) /\ v.value[s] = m[f.value[s]]
          /\ Alive(f, next) /\ v.value[next] = m[f.value[next]]
        BY <1>1, <1>10
    <2>2. PICK x \in f.groups : /\ label_of[o] \in x.labels
                                /\ <<f.value[s], f.value[next]>> \in x.transitions
        BY <1>10, <2>1 DEF Abstracts
    <2> PICK e : e = <<f.value[s], f.value[next]>>
        OBVIOUS
    <2>3. e \in x.transitions /\ m[e[1]] # PRUNED_STATE /\ m[e[2]] # PRUNED_STATE
        BY <1>10, <2>1, <2>2 DEF Alive
    <2>4. PICK y \in v.groups : x.labels \subseteq y.labels /\ <<m[e[1]], m[e[2]]>> \in y.transitions
        BY <1>3, <2>3 DEF AreImages
    <2> QED
        BY <2>1, <2>2, <2>4
<1>11. \A s \in States(t), o \in Ops(t) : ReferenceSuccessor(t, o, s) \in States(t)
    BY SuccessorIsState
<1>12. Abstracts(t, label_of, v)
    BY <1>5, <1>8, <1>9, <1>10, <1>11 DEF Abstracts
<1>13. CostsFit(labels, v)
    <2> SUFFICES ASSUME NEW y \in v.groups, NEW l \in y.labels
                 PROVE  l \in CurrentLabels(labels) /\ labels[l] \in Nat /\ y.cost <= labels[l]
        BY DEF CostsFit
    <2>1. PICK x \in f.groups : l \in x.labels /\ y.cost <= x.cost
        BY <1>3 DEF AreImages
    <2>2. y.cost \in Nat /\ x.cost \in Nat
        BY <1>3 DEF AreGroups, IsFactor, IsSystem
    <2> QED
        BY <2>1, <2>2 DEF CostsFit
<1> QED
    BY <1>7, <1>12, <1>13

(* Distances that are the same in every class can be taken over.           *)
KeptDistances(v, classes, d) ==
    IF d = NotComputed THEN d ELSE [s \in StatesOf(v) |-> d[CHOOSE old \in classes[s + 1] : TRUE]]

IsSameInClasses(classes, d) ==
    \A i \in 1 .. Len(classes) : \A s1, s2 \in classes[i] : d[s1] = d[s2]

(* They are distances of the classes then.                                 *)
LEMMA KeptParts ==
    ASSUME NEW f, NEW classes, IsRelation(f, classes), NEW m, IsMapping(f, classes, m),
           NEW v, StatesOf(v) = 0 .. Len(classes) - 1, NEW d, d # NotComputed,
           d \in [StatesOf(f) -> 0 .. INF], IsSameInClasses(classes, d)
    PROVE  /\ KeptDistances(v, classes, d) \in [StatesOf(v) -> 0 .. INF]
           /\ \A i \in 1 .. Len(classes) : \A s \in classes[i] :
                KeptDistances(v, classes, d)[i - 1] = d[s]
           /\ \A s \in StatesOf(f) : m[s] # PRUNED_STATE =>
                KeptDistances(v, classes, d)[m[s]] = d[s]
<1> PICK k : k = KeptDistances(v, classes, d)
    OBVIOUS
<1> DEFINE Old(s) == CHOOSE old \in classes[s + 1] : TRUE
<1>1. k = [s \in StatesOf(v) |-> d[Old(s)]]
    BY DEF KeptDistances
<1>2. Len(classes) \in Nat
    BY LenProperties DEF IsRelation
<1>3. \A s \in StatesOf(v) : s + 1 \in 1 .. Len(classes)
    BY <1>2
<1>4. ASSUME NEW s \in StatesOf(v)
      PROVE  Old(s) \in classes[s + 1] /\ Old(s) \in StatesOf(f)
    <2>1. classes[s + 1] # {}
        BY <1>3 DEF IsRelation
    <2>2. Old(s) \in classes[s + 1]
        BY <2>1
    <2> HIDE DEF Old
    <2> QED
        BY <1>3, <2>2 DEF IsMapping
<1> HIDE DEF Old
<1>5. k \in [StatesOf(v) -> 0 .. INF]
    BY <1>1, <1>4
<1>6. ASSUME NEW i \in 1 .. Len(classes), NEW s \in classes[i]
      PROVE  k[i - 1] = d[s]
    <2>1. i - 1 \in StatesOf(v) /\ (i - 1) + 1 = i
        BY <1>2
    <2>2. Old(i - 1) \in classes[i]
        BY <1>4, <2>1
    <2> QED
        BY <1>1, <2>1, <2>2 DEF IsSameInClasses
<1>7. ASSUME NEW s \in StatesOf(f), m[s] # PRUNED_STATE
      PROVE  k[m[s]] = d[s]
    <2>1. m[s] + 1 \in 1 .. Len(classes) /\ s \in classes[m[s] + 1]
        BY <1>7 DEF IsMapping
    <2>2. k[(m[s] + 1) - 1] = d[s]
        BY <1>6, <2>1
    <2>3. m[s] \in (0 .. Len(classes) - 1) \cup {PRUNED_STATE}
        BY DEF IsMapping
    <2> QED
        BY <1>2, <1>7, <2>2, <2>3
<1> QED
    BY <1>5, <1>6, <1>7

(* And they stay bounds: the transitions between classes are transitions   *)
(* between their members, at the same costs.                               *)
LEMMA KeptBounds ==
    ASSUME NEW f, IsSystem(f), f.init # PRUNED_STATE, NEW classes, IsRelation(f, classes),
           NEW m, IsMapping(f, classes, m), NEW v, IsAbstracted(f, classes, m, v),
           NEW d, d # NotComputed, IsSameInClasses(classes, d)
    PROVE  /\ IsGoalBound(f, d) => IsGoalBound(v, KeptDistances(v, classes, d))
           /\ IsInitBound(f, d) => IsInitBound(v, KeptDistances(v, classes, d))
<1> PICK k : k = KeptDistances(v, classes, d)
    OBVIOUS
<1>1. /\ Len(classes) \in Nat /\ StatesOf(v) = 0 .. Len(classes) - 1
      /\ v.init = m[f.init]
      /\ v.goals = {s \in 0 .. Len(classes) - 1 : classes[s + 1] \cap f.goals # {}}
      /\ v.groups = LocallyEquivalent(ImageGroups(m, f))
    BY LenProperties DEF IsRelation, IsAbstracted, StatesOf
<1>2. AreImages(m, f, v.groups)
    BY <1>1, ImageParts
<1>3. f.init \in StatesOf(f)
    BY DEF IsSystem
<1>4. ASSUME d \in [StatesOf(f) -> 0 .. INF]
      PROVE  /\ k \in [StatesOf(v) -> 0 .. INF]
             /\ \A i \in 1 .. Len(classes) : \A s \in classes[i] : k[i - 1] = d[s]
             /\ \A s \in StatesOf(f) : m[s] # PRUNED_STATE => k[m[s]] = d[s]
    BY <1>1, <1>4, KeptParts
<1>5. ASSUME NEW x \in f.groups, NEW e \in x.transitions
      PROVE  e[1] \in StatesOf(f) /\ e[2] \in StatesOf(f)
    BY DEF IsSystem, AreGroups, StatesOf
<1>6. ASSUME IsGoalBound(f, d)
      PROVE  IsGoalBound(v, k)
    <2>1. ASSUME NEW s \in v.goals
          PROVE  k[s] = 0
        <3>1. PICK c \in classes[s + 1] : c \in f.goals
            BY <1>1
        <3>2. s + 1 \in 1 .. Len(classes) /\ (s + 1) - 1 = s
            BY <1>1
        <3>3. k[(s + 1) - 1] = d[c]
            BY <1>4, <1>6, <3>1, <3>2 DEF IsGoalBound
        <3> QED
            BY <1>6, <3>1, <3>2, <3>3 DEF IsGoalBound
    <2>2. ASSUME NEW y \in v.groups, NEW p \in y.transitions
          PROVE  k[p[1]] <= k[p[2]] + y.cost
        <3>1. PICK x \in f.groups : \E e \in x.transitions :
                    /\ p = <<m[e[1]], m[e[2]]>> /\ y.cost = x.cost
                    /\ m[e[1]] # PRUNED_STATE /\ m[e[2]] # PRUNED_STATE
            BY <1>2 DEF AreImages
        <3>2. PICK e \in x.transitions :
                    /\ p = <<m[e[1]], m[e[2]]>> /\ y.cost = x.cost
                    /\ m[e[1]] # PRUNED_STATE /\ m[e[2]] # PRUNED_STATE
            BY <3>1
        <3>3. k[p[1]] = d[e[1]] /\ k[p[2]] = d[e[2]]
            BY <1>4, <1>5, <1>6, <3>2 DEF IsGoalBound
        <3>4. d[e[1]] <= d[e[2]] + x.cost
            BY <1>6 DEF IsGoalBound
        <3> QED
            BY <3>2, <3>3, <3>4
    <2> QED
        BY <1>4, <1>6, <2>1, <2>2 DEF IsGoalBound
<1>7. ASSUME IsInitBound(f, d)
      PROVE  IsInitBound(v, k)
    <2>1. v.init # PRUNED_STATE => k[v.init] = 0
        BY <1>1, <1>3, <1>4, <1>7 DEF IsInitBound
    <2>2. ASSUME NEW y \in v.groups, NEW p \in y.transitions
          PROVE  k[p[2]] <= k[p[1]] + y.cost
        <3>1. PICK x \in f.groups : \E e \in x.transitions :
                    /\ p = <<m[e[1]], m[e[2]]>> /\ y.cost = x.cost
                    /\ m[e[1]] # PRUNED_STATE /\ m[e[2]] # PRUNED_STATE
            BY <1>2 DEF AreImages
        <3>2. PICK e \in x.transitions :
                    /\ p = <<m[e[1]], m[e[2]]>> /\ y.cost = x.cost
                    /\ m[e[1]] # PRUNED_STATE /\ m[e[2]] # PRUNED_STATE
            BY <3>1
        <3>3. k[p[1]] = d[e[1]] /\ k[p[2]] = d[e[2]]
            BY <1>4, <1>5, <1>7, <3>2 DEF IsInitBound
        <3>4. d[e[2]] <= d[e[1]] + x.cost
            BY <1>7 DEF IsInitBound
        <3> QED
            BY <3>2, <3>3, <3>4
    <2> QED
        BY <1>4, <1>7, <2>1, <2>2 DEF IsInitBound
<1> QED
    BY <1>6, <1>7

(* DistancesAfter in the terms above.                                      *)
LEMMA DistancesAfterParts ==
    ASSUME NEW f, NEW classes, DOMAIN classes = 1 .. Len(classes), NEW v, IsRecord(v)
    PROVE  \/ DistancesAfter(f, classes, v) =
                    ComputeDistances(v, f.g # NotComputed, f.h # NotComputed)
           \/ LET k == DistancesAfter(f, classes, v)
              IN  /\ IsRecord(k) /\ SameSystem(v, k)
                  /\ k.g = KeptDistances(v, classes, f.g) /\ k.h = KeptDistances(v, classes, f.h)
                  /\ f.g # NotComputed => IsSameInClasses(classes, f.g)
                  /\ f.h # NotComputed => IsSameInClasses(classes, f.h)
<1> PICK k : k = DistancesAfter(f, classes, v)
    OBVIOUS
<1>1. CASE MustRecompute(f, classes)
    BY <1>1 DEF DistancesAfter
<1>2. CASE ~MustRecompute(f, classes)
    <2> PICK a, b : a = KeptDistances(v, classes, f.g) /\ b = KeptDistances(v, classes, f.h)
        OBVIOUS
    <2>1. k = [v EXCEPT !.g = a, !.h = b]
        BY <1>2 DEF DistancesAfter, KeptDistances
    <2>2. k = [size |-> v.size, init |-> v.init, goals |-> v.goals, groups |-> v.groups,
               g |-> a, h |-> b, value |-> v.value, domain_size |-> v.domain_size]
        BY ONLY <2>1, IsRecord(v) DEF IsRecord
    <2>3. /\ k.size = v.size /\ k.init = v.init /\ k.goals = v.goals /\ k.groups = v.groups
          /\ k.g = a /\ k.h = b /\ k.value = v.value /\ k.domain_size = v.domain_size
        BY ONLY <2>2
    <2>4. IsRecord(k) /\ SameSystem(v, k)
        BY <2>2, <2>3 DEF IsRecord, SameSystem
    <2>5. /\ f.g # NotComputed => IsSameInClasses(classes, f.g)
          /\ f.h # NotComputed => IsSameInClasses(classes, f.h)
        BY <1>2 DEF MustRecompute, IsSameInClasses
    <2> QED
        BY <2>3, <2>4, <2>5
<1> QED
    BY <1>1, <1>2

(* Distances that are asked for are there.                                 *)
LEMMA ComputedHasDistances ==
    ASSUME NEW t, NEW f, IsFactor(t, f), NEW init \in BOOLEAN, NEW goal \in BOOLEAN
    PROVE  HasDistances(init, goal, ComputeDistances(f, init, goal))
<1> PICK v : v = ComputeDistances(f, init, goal)
    OBVIOUS
<1>1. /\ SameSystem(f, v)
      /\ v.g = IF init THEN InitDistances(f) ELSE f.g
      /\ v.h = IF goal THEN GoalDistances(f) ELSE f.h
    BY ComputedParts DEF IsFactor
<1>2. IsInitBound(f, InitDistances(f)) /\ IsGoalBound(f, GoalDistances(f))
    BY InitDistancesBound, GoalDistancesBound DEF IsFactor
<1>3. DOMAIN InitDistances(f) = StatesOf(f) /\ DOMAIN GoalDistances(f) = StatesOf(f)
    BY <1>2 DEF IsInitBound, IsGoalBound
<1>4. f.size \in Nat
    BY DEF IsFactor, IsSystem
<1>5. f.size # 0 => InitDistances(f) # NotComputed /\ GoalDistances(f) # NotComputed
    BY <1>3, <1>4, ComputedIsComputed
<1> QED
    BY <1>1, <1>5 DEF HasDistances, SameSystem

(* What becomes of a factor: still good, with the distances it had, looking *)
(* at no other variables.                                                  *)
Follows(t, labels, label_of, f, v) ==
    /\ GoodFactor(t, labels, label_of, v)
    /\ v.size # 0 => /\ f.g # NotComputed => v.g # NotComputed
                     /\ f.h # NotComputed => v.h # NotComputed
    /\ \A vs : LooksAt(t, f, vs) => LooksAt(t, v, vs)

(* So is the result of an abstraction, with a state for each class.        *)
LEMMA AppliedIsGood ==
    ASSUME NEW t, IsTask(t), t.layers = <<>>, NEW labels, NEW label_of, NEW f,
           GoodFactor(t, labels, label_of, f), f.init # PRUNED_STATE,
           NEW classes, IsRelation(f, classes), Covers(t, f, classes)
    PROVE  /\ Follows(t, labels, label_of, f, ApplyAbstraction(f, classes))
           /\ ApplyAbstraction(f, classes).size = Len(classes)
           /\ (\E i \in 1 .. Len(classes) : f.init \in classes[i]) =>
                    ApplyAbstraction(f, classes).init # PRUNED_STATE
<1>1. CASE Len(classes) = f.size
    BY <1>1 DEF ApplyAbstraction, Follows
<1>2. CASE Len(classes) # f.size
    <2> PICK m, w, v : /\ m = AbstractionMapping(f, classes)
                       /\ w = Abstracted(f, classes)
                       /\ v = DistancesAfter(f, classes, w)
        OBVIOUS
    <2>1. v = ApplyAbstraction(f, classes)
        BY <1>2 DEF ApplyAbstraction, Abstracted
    <2>2. IsFactor(t, f) /\ Abstracts(t, label_of, f) /\ CostsFit(labels, f) /\ AreBounds(f)
        BY DEF GoodFactor
    <2>3. IsMapping(f, classes, m) /\ IsRecord(w) /\ IsAbstracted(f, classes, m, w)
        BY <2>2, MappingParts, AbstractedParts DEF IsFactor
    <2>4. IsFactor(t, w) /\ Abstracts(t, label_of, w) /\ CostsFit(labels, w)
        BY <2>2, <2>3, AbstractedIsAbstraction
    <2>5. /\ StatesOf(w) = 0 .. Len(classes) - 1 /\ w.size = Len(classes)
          /\ DOMAIN classes = 1 .. Len(classes) /\ Len(classes) \in Nat
          /\ w.g = f.g /\ w.h = f.h
        BY <2>3, LenProperties DEF IsAbstracted, StatesOf, IsRelation
    <2>6. /\ GoodFactor(t, labels, label_of, v) /\ SameSystem(w, v)
          /\ v.size # 0 => /\ f.g # NotComputed => v.g # NotComputed
                           /\ f.h # NotComputed => v.h # NotComputed
        <3>1. CASE v = ComputeDistances(w, f.g # NotComputed, f.h # NotComputed)
            <4> PICK init \in BOOLEAN : init <=> f.g # NotComputed
                BY Zenon
            <4> PICK goal \in BOOLEAN : goal <=> f.h # NotComputed
                BY Zenon
            <4>1. v = ComputeDistances(w, init, goal)
                BY <3>1 DEF ComputeDistances
            <4>2. GoodFactor(t, labels, label_of, v)
                BY <2>4, <2>5, <4>1, ComputedIsGood
            <4>3. SameSystem(w, v) /\ HasDistances(init, goal, v)
                BY <2>3, <2>4, <4>1, ComputedParts, ComputedHasDistances
            <4> QED
                BY <4>2, <4>3 DEF HasDistances
        <3>2. CASE /\ IsRecord(v) /\ SameSystem(w, v)
                   /\ v.g = KeptDistances(w, classes, f.g) /\ v.h = KeptDistances(w, classes, f.h)
                   /\ f.g # NotComputed => IsSameInClasses(classes, f.g)
                   /\ f.h # NotComputed => IsSameInClasses(classes, f.h)
            <4>1. f.g # NotComputed => IsInitBound(w, v.g)
                BY <2>2, <2>3, <3>2, KeptBounds DEF AreBounds, IsFactor
            <4>2. f.h # NotComputed => IsGoalBound(w, v.h)
                BY <2>2, <2>3, <3>2, KeptBounds DEF AreBounds, IsFactor
            <4>3. /\ \A d : IsInitBound(w, d) => IsInitBound(v, d)
                  /\ \A d : IsGoalBound(w, d) => IsGoalBound(v, d)
                BY <3>2 DEF SameSystem, IsInitBound, IsGoalBound, StatesOf
            <4>4. /\ f.g = NotComputed => v.g = NotComputed
                  /\ f.h = NotComputed => v.h = NotComputed
                BY <3>2 DEF KeptDistances
            <4>5. AreBounds(v)
                BY <4>1, <4>2, <4>3, <4>4 DEF AreBounds
            <4>6. GoodFactor(t, labels, label_of, v)
                BY <2>4, <3>2, <4>5, SameIsGood
            <4>7. v.size \in Nat /\ StatesOf(v) = StatesOf(w)
                BY <2>5, <3>2 DEF SameSystem, StatesOf
            <4>8. /\ f.g # NotComputed => DOMAIN v.g = StatesOf(v)
                  /\ f.h # NotComputed => DOMAIN v.h = StatesOf(v)
                BY <4>1, <4>2, <4>7 DEF IsInitBound, IsGoalBound
            <4> QED
                BY <3>2, <4>6, <4>7, <4>8, ComputedIsComputed
        <3> QED
            BY <2>3, <2>5, <3>1, <3>2, DistancesAfterParts
    <2>7. ASSUME NEW vs, LooksAt(t, f, vs)
          PROVE  LooksAt(t, v, vs)
        <3>1. DOMAIN f.value = States(t)
            BY <2>2 DEF IsFactor, Represents
        <3> QED
            BY <2>3, <2>6, <2>7, <3>1 DEF LooksAt, SameSystem, IsAbstracted
    <2>8. v.size = Len(classes)
        BY <2>5, <2>6 DEF SameSystem
    <2>9. ASSUME NEW i \in 1 .. Len(classes), f.init \in classes[i]
          PROVE  v.init # PRUNED_STATE
        <3>1. v.init = m[f.init] /\ m[f.init] = i - 1
            BY <2>3, <2>6, <2>9 DEF IsAbstracted, IsMapping, SameSystem
        <3> QED
            BY <2>5, <3>1 DEF PRUNED_STATE
    <2> QED
        BY <2>1, <2>6, <2>7, <2>8, <2>9 DEF Follows
<1> QED
    BY <1>1, <1>2
-------------------------------------------------------------------------------
(* What the strategies return.  A relation on a set of states has each of   *)
(* them in one class.                                                      *)
IsRelationOn(S, classes) ==
    /\ classes \in Seq(SUBSET S)
    /\ \A i \in 1 .. Len(classes) : classes[i] # {}
    /\ \A i, j \in 1 .. Len(classes) : i # j => classes[i] \cap classes[j] = {}
    /\ \A d \in S : \E i \in 1 .. Len(classes) : d \in classes[i]

IsPartitionOf(S, P) ==
    /\ P \subseteq SUBSET S
    /\ \A b \in P : b # {}
    /\ \A b, c \in P : b # c => b \cap c = {}
    /\ \A d \in S : \E b \in P : d \in b

(* A partition becomes one, in whatever order.                             *)
LEMMA PartitionSequence ==
    ASSUME NEW S, IsFiniteSet(S), NEW P, IsPartitionOf(S, P)
    PROVE  /\ IsRelationOn(S, AsSequence(P))
           /\ IsFiniteSet(P) /\ Len(AsSequence(P)) = Cardinality(P)
<1>1. IsFiniteSet(P)
    <2>1. IsFiniteSet(SUBSET S)
        BY FS_SUBSET
    <2> QED
        BY <2>1, FS_Subset DEF IsPartitionOf
<1> PICK q, N : q = AsSequence(P) /\ N = Cardinality(P)
    OBVIOUS
<1>2. /\ N \in Nat /\ q \in Seq(P) /\ Len(q) = N /\ DOMAIN q = 1 .. N
      /\ \A b \in P : \E i \in 1 .. N : q[i] = b
      /\ \A i, j \in 1 .. N : i # j => q[i] # q[j]
    BY <1>1, SequenceParts
<1>3. \A i \in 1 .. N : q[i] \in P
    BY <1>2, ElementOfSeq
<1>4. q \in Seq(SUBSET S)
    <2>1. q \in [1 .. N -> SUBSET S]
        <3>1. q = [i \in 1 .. N |-> q[i]]
            BY <1>2, LenProperties
        <3> QED
            BY <1>3, <3>1 DEF IsPartitionOf
    <2> QED
        BY <1>2, <2>1, SeqDef
<1>5. \A i \in 1 .. N : q[i] # {}
    BY <1>3 DEF IsPartitionOf
<1>6. \A i, j \in 1 .. N : i # j => q[i] \cap q[j] = {}
    BY <1>2, <1>3 DEF IsPartitionOf
<1>7. \A d \in S : \E i \in 1 .. N : d \in q[i]
    <2> SUFFICES ASSUME NEW d \in S
                 PROVE  \E i \in 1 .. N : d \in q[i]
        OBVIOUS
    <2>1. PICK b \in P : d \in b
        BY DEF IsPartitionOf
    <2> QED
        BY <1>2, <2>1
<1>8. Len(q) = N
    BY <1>2
<1>9. IsRelationOn(S, q)
    BY <1>4, <1>5, <1>6, <1>7, <1>8 DEF IsRelationOn
<1> QED
    BY <1>1, <1>8, <1>9

(* It may be applied to a factor that has these states.                    *)
LEMMA RelationOnStates ==
    ASSUME NEW f, NEW S, S \subseteq StatesOf(f), NEW classes, IsRelationOn(S, classes)
    PROVE  /\ IsRelation(f, classes)
           /\ \A t : (\A s \in States(t) : OnPlan(t, s) => f.value[s] \in S) => Covers(t, f, classes)
<1>1. classes \in Seq(SUBSET StatesOf(f))
    <2>1. /\ classes \in Seq(SUBSET S) /\ Len(classes) \in Nat
          /\ classes \in [1 .. Len(classes) -> SUBSET S]
        BY LenProperties DEF IsRelationOn
    <2>2. classes \in [1 .. Len(classes) -> SUBSET StatesOf(f)]
        BY <2>1
    <2> QED
        BY <2>1, <2>2, SeqDef
<1> QED
    BY <1>1 DEF IsRelation, IsRelationOn, Covers

(* States that stand alone are a partition.                                *)
LEMMA Singletons ==
    ASSUME NEW S
    PROVE  IsPartitionOf(S, {{s} : s \in S})
<1> PICK P : P = {{s} : s \in S}
    OBVIOUS
<1>1. ASSUME NEW b \in P
      PROVE  \E s \in S : b = {s}
    OBVIOUS
<1>2. ASSUME NEW s \in S
      PROVE  {s} \in P
    OBVIOUS
<1>3. ASSUME NEW b \in P
      PROVE  b \in SUBSET S /\ b # {}
    BY <1>1
<1>4. ASSUME NEW b \in P, NEW c \in P, b # c
      PROVE  b \cap c = {}
    <2>1. PICK d \in S : b = {d}
        BY <1>1
    <2>2. PICK e \in S : c = {e}
        BY <1>1
    <2> QED
        BY ONLY <1>4, <2>1, <2>2
<1>5. ASSUME NEW d \in S
      PROVE  \E b \in P : d \in b
    <2>1. {d} \in P /\ d \in {d}
        BY <1>2
    <2> QED
        BY ONLY <2>1
<1> QED
    BY <1>3, <1>4, <1>5 DEF IsPartitionOf

(* Pruning: the states that are kept stand alone.                          *)
LEMMA KeptStatesParts ==
    ASSUME NEW f, f.size \in Nat, NEW unreachable, NEW irrelevant,
           NEW S, S = {s \in StatesOf(f) : /\ unreachable => f.g[s] # INF
                                           /\ irrelevant => f.h[s] # INF}
    PROVE  IsRelationOn(S, KeptStates(f, unreachable, irrelevant))
<1>1. IsFiniteSet(S)
    BY SomeStatesAreFinite DEF StatesOf
<1> PICK P : P = {{s} : s \in S}
    OBVIOUS
<1>2. IsPartitionOf(S, P)
    BY Singletons
<1>3. KeptStates(f, unreachable, irrelevant) = AsSequence(P)
    BY DEF KeptStates
<1> QED
    BY <1>1, <1>2, <1>3, PartitionSequence

(* A relation can be continued with other states,                          *)
LEMMA JoinedRelations ==
    ASSUME NEW S, NEW T, S \cap T = {},
           NEW c, IsRelationOn(S, c), NEW d, IsRelationOn(T, d)
    PROVE  IsRelationOn(S \cup T, c \o d) /\ Len(c \o d) = Len(c) + Len(d)
<1> PICK m, n, q : m = Len(c) /\ n = Len(d) /\ q = c \o d
    OBVIOUS
<1>1. /\ c \in Seq(SUBSET S) /\ d \in Seq(SUBSET T) /\ m \in Nat /\ n \in Nat
      /\ c \in [1 .. m -> SUBSET S] /\ d \in [1 .. n -> SUBSET T]
    BY LenProperties DEF IsRelationOn
<1>2. c \in Seq(SUBSET (S \cup T)) /\ d \in Seq(SUBSET (S \cup T))
    <2>1. c \in [1 .. m -> SUBSET (S \cup T)] /\ d \in [1 .. n -> SUBSET (S \cup T)]
        BY <1>1
    <2> QED
        BY <1>1, <2>1, SeqDef
<1>3. q \in Seq(SUBSET (S \cup T)) /\ Len(q) = m + n
    BY <1>2, ConcatProperties
<1>4. /\ \A i \in 1 .. m : q[i] = c[i] /\ i \in 1 .. m + n
      /\ \A i \in 1 .. n : q[m + i] = d[i] /\ m + i \in 1 .. m + n
    <2>1. \A i \in 1 .. m + n : q[i] = IF i <= m THEN c[i] ELSE d[i - m]
        BY <1>1, <1>2, ConcatProperties
    <2>2. \A i \in 1 .. m : i \in 1 .. m + n /\ i <= m
        BY <1>1
    <2>3. \A i \in 1 .. n : m + i \in 1 .. m + n /\ ~(m + i <= m) /\ (m + i) - m = i
        BY <1>1
    <2> QED
        BY <2>1, <2>2, <2>3
<1>5. ASSUME NEW i \in 1 .. m + n
      PROVE  i \in 1 .. m \/ (i - m \in 1 .. n /\ i = m + (i - m))
    BY <1>1
<1>6. ASSUME NEW i \in 1 .. m + n
      PROVE  q[i] # {}
    BY <1>4, <1>5 DEF IsRelationOn
<1>7. ASSUME NEW i \in 1 .. m + n, NEW j \in 1 .. m + n, i # j
      PROVE  q[i] \cap q[j] = {}
    <2>1. \A k \in 1 .. m : q[k] \subseteq S
        BY <1>1, <1>4
    <2>2. \A k \in 1 .. n : q[m + k] \subseteq T
        BY <1>1, <1>4
    <2>3. CASE i \in 1 .. m /\ j \in 1 .. m
        BY <1>4, <1>7, <2>3 DEF IsRelationOn
    <2>4. CASE i \in 1 .. m /\ j \notin 1 .. m
        BY <1>5, <2>1, <2>2, <2>4
    <2>5. CASE i \notin 1 .. m /\ j \in 1 .. m
        BY <1>5, <2>1, <2>2, <2>5
    <2>6. CASE i \notin 1 .. m /\ j \notin 1 .. m
        <3>1. i - m \in 1 .. n /\ i = m + (i - m) /\ j - m \in 1 .. n /\ j = m + (j - m)
            BY <1>5, <2>6
        <3>2. i - m # j - m
            BY <1>1, <1>7
        <3>3. q[i] = d[i - m] /\ q[j] = d[j - m]
            BY <1>4, <3>1
        <3> QED
            BY <3>1, <3>2, <3>3 DEF IsRelationOn
    <2> QED
        BY <2>3, <2>4, <2>5, <2>6
<1>8. ASSUME NEW s \in S \cup T
      PROVE  \E i \in 1 .. m + n : s \in q[i]
    <2>1. CASE s \in S
        <3>1. PICK i \in 1 .. m : s \in c[i]
            BY <2>1 DEF IsRelationOn
        <3> QED
            BY <1>4, <3>1
    <2>2. CASE s \in T
        <3>1. PICK i \in 1 .. n : s \in d[i]
            BY <2>2 DEF IsRelationOn
        <3> QED
            BY <1>4, <3>1
    <2> QED
        BY <2>1, <2>2
<1> QED
    BY <1>3, <1>6, <1>7, <1>8 DEF IsRelationOn

(* with one more class of them,                                            *)
LEMMA OneMoreClass ==
    ASSUME NEW S, NEW T, T # {}, S \cap T = {}, NEW c, IsRelationOn(S, c)
    PROVE  IsRelationOn(S \cup T, Append(c, T)) /\ Len(Append(c, T)) = Len(c) + 1
<1> PICK d : d = <<T>>
    OBVIOUS
<1>1. d \in Seq(SUBSET T) /\ Len(d) = 1 /\ d[1] = T
    OBVIOUS
<1>2. IsRelationOn(T, d)
    <2>1. \A i \in 1 .. 1 : i = 1
        OBVIOUS
    <2>2. 1 \in 1 .. 1
        OBVIOUS
    <2> QED
        BY <1>1, <2>1, <2>2 DEF IsRelationOn
<1>3. Append(c, T) = c \o d
    <2>1. c \in Seq(SUBSET S)
        BY DEF IsRelationOn
    <2>2. c \in Seq(SUBSET (S \cup T)) /\ T \in SUBSET (S \cup T)
        <3>1. Len(c) \in Nat /\ c \in [1 .. Len(c) -> SUBSET (S \cup T)]
            BY <2>1, LenProperties
        <3> QED
            BY <3>1, SeqDef
    <2> QED
        BY <2>2, AppendIsConcat
<1> QED
    BY <1>1, <1>2, <1>3, JoinedRelations

(* or with them in its last class.                                         *)
IsLarger(c, T, q) == q = [c EXCEPT ![Len(c)] = @ \cup T]

(* This has the same length.                                               *)
LEMMA LargerClass ==
    ASSUME NEW S, NEW T, S \cap T = {}, NEW c, IsRelationOn(S, c), c # <<>>,
           NEW q, IsLarger(c, T, q)
    PROVE  IsRelationOn(S \cup T, q) /\ Len(q) = Len(c)
<1> PICK n : n = Len(c)
    OBVIOUS
<1>1. c \in Seq(SUBSET S) /\ n \in Nat /\ c \in [1 .. n -> SUBSET S] /\ n \in 1 .. n
    <2>1. c \in Seq(SUBSET S) /\ n \in Nat /\ c \in [1 .. n -> SUBSET S]
        BY LenProperties DEF IsRelationOn
    <2>2. n # 0
        BY <2>1, EmptySeq
    <2> QED
        BY <2>1, <2>2
<1>2. /\ q \in [1 .. n -> SUBSET (S \cup T)]
      /\ q[n] = c[n] \cup T /\ \A i \in 1 .. n : i # n => q[i] = c[i]
    BY <1>1 DEF IsLarger
<1>3. q \in Seq(SUBSET (S \cup T)) /\ Len(q) = n
    BY <1>1, <1>2, SeqDef, LenProperties
<1>4. \A i \in 1 .. n : c[i] \subseteq S /\ c[i] \subseteq q[i] /\ c[i] # {}
    BY <1>1, <1>2 DEF IsRelationOn
<1>5. ASSUME NEW i \in 1 .. n, NEW j \in 1 .. n, i # j
      PROVE  q[i] \cap q[j] = {}
    <2>1. c[i] \cap c[j] = {}
        BY <1>5 DEF IsRelationOn
    <2> QED
        BY <1>2, <1>4, <1>5, <2>1
<1>6. ASSUME NEW s \in S \cup T
      PROVE  \E i \in 1 .. n : s \in q[i]
    <2>1. CASE s \in T
        BY <1>1, <1>2, <2>1
    <2>2. CASE s \in S
        <3>1. PICK i \in 1 .. n : s \in c[i]
            BY <2>2 DEF IsRelationOn
        <3> QED
            BY <1>4, <3>1
    <2> QED
        BY <2>1, <2>2
<1>7. \A i \in 1 .. n : q[i] # {}
    BY <1>4
<1>8. IsRelationOn(S \cup T, q)
    BY <1>3, <1>5, <1>6, <1>7 DEF IsRelationOn
<1> QED
    BY <1>3, <1>8

(* The partitions of a bucket into a number of classes.                    *)
LEMMA PartitionsParts ==
    ASSUME NEW S, NEW num \in Nat, NEW P \in Partitions(S, num)
    PROVE  IsPartitionOf(S, P) /\ IsFiniteSet(P) /\ Cardinality(P) <= num
<1> DEFINE Block(map, i) == {x \in S : map[x] = i}
<1>1. PICK map \in [S -> 1 .. num] : Range(map) = 1 .. num /\ P = {Block(map, i) : i \in 1 .. num}
    BY DEF Partitions
<1>2. ASSUME NEW b \in P
      PROVE  \E i \in 1 .. num : b = Block(map, i)
    BY <1>1
<1>3. ASSUME NEW i \in 1 .. num
      PROVE  Block(map, i) # {} /\ Block(map, i) \in P
    <2>1. \E x \in S : map[x] = i
        BY <1>1 DEF Range
    <2> QED
        BY <1>1, <2>1
<1>4. ASSUME NEW b \in P, NEW c \in P, b # c
      PROVE  b \cap c = {}
    <2>1. PICK i \in 1 .. num : b = Block(map, i)
        BY <1>2
    <2>2. PICK j \in 1 .. num : c = Block(map, j)
        BY <1>2
    <2> QED
        BY <1>4, <2>1, <2>2
<1>5. ASSUME NEW d \in S
      PROVE  \E b \in P : d \in b
    BY <1>3
<1>6. IsPartitionOf(S, P)
    BY <1>2, <1>3, <1>4, <1>5 DEF IsPartitionOf
<1>7. IsFiniteSet(P) /\ Cardinality(P) <= num
    <2> PICK g : g = [i \in 1 .. num |-> Block(map, i)]
        OBVIOUS
    <2>1. g \in Surjection(1 .. num, P)
        <3>1. g \in [1 .. num -> P]
            BY <1>3
        <3>2. ASSUME NEW b \in P
              PROVE  \E i \in 1 .. num : g[i] = b
            BY <1>2
        <3> HIDE DEF Block
        <3> QED
            BY <3>1, <3>2 DEF Surjection
    <2>2. IsFiniteSet(1 .. num) /\ Cardinality(1 .. num) = num
        BY FS_Interval
    <2>3. IsFiniteSet(P) /\ Cardinality(P) <= Cardinality(1 .. num)
        BY ONLY <2>1, <2>2, FS_Surjection
    <2> QED
        BY <2>2, <2>3
<1> QED
    BY <1>6, <1>7

(* One bucket: its states join the relation, which stays within the target *)
(* size.                                                                   *)
LEMMA BucketJoins ==
    ASSUME NEW S, NEW bucket, S \cap bucket = {}, IsFiniteSet(bucket), bucket # {},
           NEW relation, IsRelationOn(S, relation),
           NEW target \in Nat, target # 0, Len(relation) <= target,
           NEW to_come \in Nat, NEW buckets_left \in Nat, buckets_left # 0,
           NEW next \in BucketInto(bucket, relation, to_come, buckets_left, target)
    PROVE  IsRelationOn(S \cup bucket, next) /\ Len(next) <= target
<1> PICK n, size, remaining, budget :
        /\ n = Len(relation) /\ size = Cardinality(bucket)
        /\ remaining = target - n /\ budget = remaining - to_come
    OBVIOUS
<1>1. n \in Nat /\ size \in Nat
    BY FS_CardinalityType, LenProperties DEF IsRelationOn
<1>2. ASSUME NEW P, IsPartitionOf(bucket, P), Cardinality(P) <= budget,
             next = relation \o AsSequence(P)
      PROVE  IsRelationOn(S \cup bucket, next) /\ Len(next) <= target
    <2> PICK q : q = AsSequence(P)
        OBVIOUS
    <2>1. IsRelationOn(bucket, q) /\ IsFiniteSet(P) /\ Len(q) = Cardinality(P)
        BY <1>2, PartitionSequence
    <2>2. IsRelationOn(S \cup bucket, relation \o q) /\ Len(relation \o q) = n + Len(q)
        BY <2>1, JoinedRelations
    <2>3. Cardinality(P) \in Nat
        BY <2>1, FS_CardinalityType
    <2>4. n + Cardinality(P) <= target
        BY <1>1, <1>2, <2>3
    <2> QED
        BY <1>2, <2>1, <2>2, <2>4
<1>3. CASE budget >= size /\ next = relation \o AsSequence({{s} : s \in bucket})
    <2> PICK P : P = {{s} : s \in bucket}
        OBVIOUS
    <2>1. IsPartitionOf(bucket, P)
        BY Singletons
    <2>2. Cardinality(P) <= size
        <3>1. [s \in bucket |-> {s}] \in Surjection(bucket, P)
            BY DEF Surjection
        <3> QED
            BY <3>1, FS_Surjection
    <2>3. IsFiniteSet(P)
        BY <2>1, PartitionSequence
    <2>4. Cardinality(P) \in Nat
        BY <2>3, FS_CardinalityType
    <2>5. Cardinality(P) <= budget
        BY <1>1, <1>3, <2>2, <2>4
    <2> QED
        BY <1>2, <1>3, <2>1, <2>5
<1>4. CASE budget > 1 /\ \E P \in Partitions(bucket, budget) : next = relation \o AsSequence(P)
    <2>1. budget \in Nat
        BY <1>1, <1>4
    <2>2. PICK P \in Partitions(bucket, budget) : next = relation \o AsSequence(P)
        BY <1>4
    <2> QED
        BY <1>2, <2>1, <2>2, PartitionsParts
<1>5. CASE (remaining >= buckets_left \/ relation = <<>>) /\ next = Append(relation, bucket)
    <2>1. IsRelationOn(S \cup bucket, next) /\ Len(next) = n + 1
        BY <1>5, OneMoreClass
    <2>2. n + 1 <= target
        BY <1>1, <1>5
    <2> QED
        BY <2>1, <2>2
<1>6. CASE relation # <<>> /\ next = [relation EXCEPT ![Len(relation)] = @ \cup bucket]
    <2>1. IsLarger(relation, bucket, next)
        BY <1>6 DEF IsLarger
    <2> QED
        BY <1>6, <2>1, LargerClass
<1> PICK alone, parts, one :
        /\ alone = {relation \o AsSequence({{s} : s \in bucket})}
        /\ parts = {relation \o AsSequence(P) : P \in Partitions(bucket, budget)}
        /\ one = IF remaining >= buckets_left \/ relation = <<>>
                 THEN {Append(relation, bucket)}
                 ELSE {[relation EXCEPT ![Len(relation)] = @ \cup bucket]}
    OBVIOUS
<1>7. next \in CASE budget >= size -> alone
                 [] budget < size /\ budget > 1 -> parts
                 [] OTHER -> one
    BY DEF BucketInto
<1>8. \/ budget >= size /\ next \in alone
      \/ budget > 1 /\ next \in parts
      \/ next \in one
    <2>1. budget \in Int
        BY <1>1
    <2> QED
        BY ONLY <1>1, <1>7, <2>1
<1>9. next \in one => \/ (remaining >= buckets_left \/ relation = <<>>) /\ next = Append(relation, bucket)
                      \/ relation # <<>> /\ next = [relation EXCEPT ![Len(relation)] = @ \cup bucket]
    OBVIOUS
<1>10. next \in alone => next = relation \o AsSequence({{s} : s \in bucket})
    OBVIOUS
<1>11. next \in parts => \E P \in Partitions(bucket, budget) : next = relation \o AsSequence(P)
    OBVIOUS
<1> QED
    BY <1>3, <1>4, <1>5, <1>6, <1>8, <1>9, <1>10, <1>11

(* All of them, one after the other.                                       *)
LEMMA BucketAbstractionsParts ==
    ASSUME NEW S, IsFiniteSet(S), NEW buckets, IsRelationOn(S, buckets),
           NEW target \in Nat, target # 0, NEW r \in BucketAbstractions(buckets, target)
    PROVE  IsRelationOn(S, r) /\ Len(r) <= target
<1> DEFINE ToCome(i) == Cardinality(UNION {buckets[j] : j \in {x \in DOMAIN buckets : x > i}})
           N == Len(buckets)
           start == {<<>>}
           Step(made, i) == UNION {BucketInto(buckets[i], relation, ToCome(i), N - i + 1, target) :
                                        relation \in made}
           made == CHOOSE g : g = [i \in 0 .. N |-> IF i = 0 THEN start ELSE Step(g[i - 1], i)]
           Seen(i) == UNION {buckets[j] : j \in 1 .. i}
           Fine(i, set) == \A c \in set : IsRelationOn(Seen(i), c) /\ Len(c) <= target
<1>1. /\ N \in Nat /\ DOMAIN buckets = 1 .. N
      /\ \A i \in 1 .. N : buckets[i] \subseteq S /\ buckets[i] # {}
      /\ \A i, j \in 1 .. N : i # j => buckets[i] \cap buckets[j] = {}
    <2>1. buckets \in Seq(SUBSET S)
        BY DEF IsRelationOn
    <2> QED
        BY <2>1, LenProperties, ElementOfSeq DEF IsRelationOn
<1>2. r \in made[N]
    BY DEF BucketAbstractions
<1> HIDE DEF N
<1>3. PICK g : g = [n \in 0 .. N |-> IF n = 0 THEN start ELSE Step(g[n - 1], n)]
    <2> DEFINE Is(h, m) == h = [n \in 0 .. m |-> IF n = 0 THEN start ELSE Step(h[n - 1], n)]
    <2> HIDE DEF Step, start
    <2> PICK Good : Good = {m \in 0 .. N : \E h : Is(h, m)}
        OBVIOUS
    <2>1. 0 \in Good
        <3> PICK h : h = [n \in 0 .. 0 |-> start]
            OBVIOUS
        <3>1. Is(h, 0)
            OBVIOUS
        <3> QED
            BY <3>1, <1>1
    <2>2. ASSUME NEW m \in 1 .. N, m - 1 \in Good
          PROVE  m \in Good
        <3>1. PICK h : Is(h, m - 1)
            BY <2>2
        <3> PICK k : k = [n \in 0 .. m |-> IF n = m THEN Step(h[m - 1], m) ELSE h[n]]
            OBVIOUS
        <3>2. ASSUME NEW n \in 0 .. m
              PROVE  k[n] = IF n = 0 THEN start ELSE Step(k[n - 1], n)
            <4>1. CASE n = m
                <5>1. m - 1 \in 0 .. m /\ m - 1 # m /\ m # 0 /\ m \in 0 .. m
                    BY <1>1
                <5>2. k[m - 1] = h[m - 1] /\ k[m] = Step(h[m - 1], m)
                    BY <5>1
                <5> QED
                    BY <4>1, <5>1, <5>2
            <4>2. CASE n # m
                <5>1. n \in 0 .. m - 1
                    BY <4>2, <1>1
                <5>2. k[n] = h[n]
                    BY <4>2
                <5>3. n = 0 => h[n] = start
                    BY <3>1, <5>1
                <5>4. CASE n # 0
                    <6>1. n - 1 \in 0 .. m /\ n - 1 # m
                        BY <5>1, <5>4, <1>1
                    <6>2. k[n - 1] = h[n - 1]
                        BY <6>1
                    <6>3. h[n] = Step(h[n - 1], n)
                        BY <3>1, <5>1, <5>4
                    <6> QED
                        BY <5>2, <5>4, <6>2, <6>3
                <5> QED
                    BY <5>2, <5>3, <5>4
            <4> QED
                BY <4>1, <4>2
        <3>3. Is(k, m)
            BY <3>2
        <3>4. m \in 0 .. N
            BY <1>1
        <3> HIDE DEF Is
        <3> QED
            BY <3>3, <3>4
    <2>3. N \in Good
        <3>1. N \in 0 .. N
            BY <1>1
        <3> HIDE DEF Is
        <3> QED
            BY <2>1, <2>2, <3>1, UpTo, <1>1
    <2> QED
        BY <2>3
<1>4. made = [i \in 0 .. N |-> IF i = 0 THEN start ELSE Step(made[i - 1], i)]
    <2> HIDE DEF Step, start
    <2> QED
        BY <1>3
<1> HIDE DEF made
<1>5. ASSUME NEW i \in 1 .. N, Fine(i - 1, made[i - 1])
      PROVE  Fine(i, made[i])
    <2> SUFFICES ASSUME NEW c \in made[i]
                 PROVE  IsRelationOn(Seen(i), c) /\ Len(c) <= target
        OBVIOUS
    <2> PICK before : before = Seen(i - 1)
        OBVIOUS
    <2>1. i \in 0 .. N /\ i # 0 /\ N - i + 1 \in Nat /\ N - i + 1 # 0 /\ i - 1 \in Nat
        BY <1>1
    <2>2. made[i] = Step(made[i - 1], i)
        <3> HIDE DEF Step
        <3> QED
            BY <1>4, <2>1
    <2>3. PICK relation \in made[i - 1] :
                c \in BucketInto(buckets[i], relation, ToCome(i), N - i + 1, target)
        <3> HIDE DEF ToCome
        <3> QED
            BY <2>2
    <2>4. IsRelationOn(before, relation) /\ Len(relation) <= target
        <3> HIDE DEF Seen
        <3> QED
            BY <1>5
    <2>5. \A j \in 1 .. i - 1 : j \in 1 .. N /\ j # i
        BY <1>1
    <2>6. before \cap buckets[i] = {}
        BY <1>1, <2>5
    <2>7. Seen(i) = before \cup buckets[i]
        <3>1. \A j \in 1 .. i : j \in 1 .. i - 1 \/ j = i
            BY <1>1
        <3>2. i \in 1 .. i /\ \A j \in 1 .. i - 1 : j \in 1 .. i
            BY <1>1
        <3> QED
            BY <3>1, <3>2
    <2>8. ToCome(i) \in Nat
        <3> PICK rest : rest = UNION {buckets[j] : j \in {x \in DOMAIN buckets : x > i}}
            OBVIOUS
        <3>1. rest \subseteq S
            BY <1>1
        <3>2. IsFiniteSet(rest)
            BY <3>1, FS_Subset
        <3> QED
            BY <3>2, FS_CardinalityType
    <2>9. IsFiniteSet(buckets[i]) /\ buckets[i] # {}
        BY <1>1, FS_Subset
    <2> HIDE DEF ToCome, Seen
    <2>10. IsRelationOn(before \cup buckets[i], c) /\ Len(c) <= target
        BY <2>1, <2>3, <2>4, <2>6, <2>8, <2>9, BucketJoins
    <2> QED
        BY <2>7, <2>10
<1> PICK All : All = {i \in 0 .. N : Fine(i, made[i])}
    OBVIOUS
<1>6. 0 \in All
    <2>1. made[0] = {<<>>} /\ 0 \in 0 .. N
        BY <1>1, <1>4
    <2>2. Seen(0) = {}
        OBVIOUS
    <2>3. IsRelationOn({}, <<>>) /\ Len(<<>>) <= target
        BY DEF IsRelationOn
    <2> HIDE DEF Seen
    <2> QED
        BY <2>1, <2>2, <2>3
<1>7. ASSUME NEW i \in 1 .. N, i - 1 \in All
      PROVE  i \in All
    <2>1. i \in 0 .. N
        BY <1>1
    <2> HIDE DEF Fine
    <2> QED
        BY <1>5, <1>7, <2>1
<1>8. N \in All
    <2>1. N \in 0 .. N
        BY <1>1
    <2> HIDE DEF Fine
    <2> QED
        BY <1>1, <1>6, <1>7, <2>1, UpTo
<1>9. IsRelationOn(Seen(N), r) /\ Len(r) <= target
    <2> HIDE DEF Seen
    <2> QED
        BY <1>2, <1>8
<1>10. Seen(N) = S
    BY <1>1 DEF IsRelationOn, N
<1> QED
    <2> HIDE DEF Seen
    <2> QED
        BY <1>9, <1>10

(* Shrinking by f and h: the order of the buckets.                         *)
FirstOf(high, a, b) == IF high THEN a > b ELSE a < b

FHBefore(f_high, h_high, keys) ==
    {x \in keys \X keys :
        \/ FirstOf(f_high, x[1][1], x[2][1])
        \/ x[1][1] = x[2][1] /\ FirstOf(h_high, x[1][2], x[2][2])}

(* Of some numbers one comes first.                                        *)
LEMMA FirstNumber ==
    ASSUME NEW B \in Nat, NEW S, S # {}, S \subseteq 0 .. B, NEW high \in BOOLEAN
    PROVE  \E a \in S : \A b \in S : ~FirstOf(high, b, a)
<1>1. CASE ~high
    <2>1. S \in SUBSET Nat
        OBVIOUS
    <2>2. PICK a \in S : \A b \in S : a <= b
        BY <2>1, SmallestNumber
    <2>3. \A b \in S : ~(b < a)
        BY <2>1, <2>2
    <2> QED
        BY <1>1, <2>3 DEF FirstOf
<1>2. CASE high
    <2> PICK T : T = {B - a : a \in S}
        OBVIOUS
    <2>1. T \in SUBSET Nat /\ T # {}
        <3>1. \A a \in S : B - a \in Nat
            OBVIOUS
        <3> QED
            BY <3>1
    <2>2. PICK n \in T : \A k \in T : n <= k
        BY <2>1, SmallestNumber
    <2>3. PICK a \in S : n = B - a
        OBVIOUS
    <2>4. \A b \in S : ~(b > a)
        BY <2>2, <2>3
    <2> QED
        BY <1>2, <2>4 DEF FirstOf
<1> QED
    BY <1>1, <1>2

(* And of pairs of numbers.                                                *)
LEMMA FirstKey ==
    ASSUME NEW B \in Nat, NEW keys, keys \subseteq (0 .. B) \X (0 .. B),
           NEW f_high \in BOOLEAN, NEW h_high \in BOOLEAN
    PROVE  HasFirsts(keys, FHBefore(f_high, h_high, keys))
<1> SUFFICES ASSUME NEW T \in SUBSET keys, T # {}
             PROVE  \E x \in T : \A y \in T : <<y, x>> \notin FHBefore(f_high, h_high, keys)
    BY DEF HasFirsts
<1> PICK firsts : firsts = {x[1] : x \in T}
    OBVIOUS
<1>1. firsts # {} /\ firsts \subseteq 0 .. B
    OBVIOUS
<1>2. PICK a \in firsts : \A b \in firsts : ~FirstOf(f_high, b, a)
    BY ONLY <1>1, FirstNumber, B \in Nat, f_high \in BOOLEAN
<1> PICK seconds : seconds = {x[2] : x \in {y \in T : y[1] = a}}
    OBVIOUS
<1>3. seconds # {} /\ seconds \subseteq 0 .. B
    <2>1. \E y \in T : y[1] = a
        OBVIOUS
    <2> QED
        BY <2>1
<1>4. PICK c \in seconds : \A b \in seconds : ~FirstOf(h_high, b, c)
    BY ONLY <1>3, FirstNumber, B \in Nat, h_high \in BOOLEAN
<1>5. PICK x \in T : x[1] = a /\ x[2] = c
    OBVIOUS
<1>6. ASSUME NEW y \in T
      PROVE  <<y, x>> \notin FHBefore(f_high, h_high, keys)
    <2>1. ~FirstOf(f_high, y[1], x[1])
        BY <1>2, <1>5
    <2>2. y[1] = x[1] => ~FirstOf(h_high, y[2], x[2])
        BY <1>4, <1>5
    <2> QED
        BY <2>1, <2>2 DEF FHBefore
<1> QED
    BY <1>6

(* So the buckets have every state, each in one of them.                   *)
LEMMA FHBucketsParts ==
    ASSUME NEW f, f.size \in Nat, f.g \in [StatesOf(f) -> 0 .. INF], f.h \in [StatesOf(f) -> 0 .. INF],
           NEW f_high \in BOOLEAN, NEW h_high \in BOOLEAN
    PROVE  IsRelationOn(StatesOf(f), FHBuckets(f, f_high, h_high))
<1> DEFINE Key(s) == <<FOf(f, s), f.h[s]>>
           S == StatesOf(f)
<1> PICK B : B = INF + INF
    OBVIOUS
<1>1. B \in Nat /\ INF \in Nat /\ INF <= B
    BY InfIsNumber
<1>2. ASSUME NEW s \in S
      PROVE  Key(s) \in (0 .. B) \X (0 .. B)
    <2>1. f.g[s] \in 0 .. INF /\ f.h[s] \in 0 .. INF
        OBVIOUS
    <2>2. FOf(f, s) \in 0 .. B
        BY <1>1, <2>1 DEF FOf
    <2> QED
        BY <1>1, <2>1, <2>2
<1>3. IsFiniteSet(S)
    BY SomeStatesAreFinite DEF StatesOf
<1>4. PICK keys : keys = {Key(s) : s \in S}
    OBVIOUS
<1>5. IsFiniteSet(keys) /\ keys \subseteq (0 .. B) \X (0 .. B)
    <2>1. PICK g : g = [s \in S |-> Key(s)]
        OBVIOUS
    <2>2. g \in Surjection(S, keys)
        BY <1>4, <2>1 DEF Surjection
    <2>3. IsFiniteSet(keys)
        BY ONLY <1>3, <2>2, FS_Surjection
    <2>4. keys \subseteq (0 .. B) \X (0 .. B)
        BY <1>2, <1>4
    <2> QED
        BY <2>3, <2>4
<1>6. PICK before : before = FHBefore(f_high, h_high, keys)
    OBVIOUS
<1>7. HasFirsts(keys, before)
    BY <1>1, <1>5, <1>6, FirstKey
<1>8. PICK order, N : order = Ordered(keys, before) /\ N = Cardinality(keys)
    OBVIOUS
<1>9. /\ N \in Nat /\ order \in Seq(keys) /\ Len(order) = N /\ DOMAIN order = 1 .. N
      /\ \A x \in keys : \E n \in 1 .. N : order[n] = x
      /\ \A i, j \in 1 .. N : i # j => order[i] # order[j]
    <2>1. IsFiniteSet(keys)
        BY <1>5
    <2>2. order = Ordered(keys, before)
        BY <1>8
    <2>3. /\ Cardinality(keys) \in Nat /\ order \in Seq(keys) /\ Len(order) = Cardinality(keys)
          /\ DOMAIN order = 1 .. Cardinality(keys)
          /\ \A x \in keys : \E n \in 1 .. Cardinality(keys) : order[n] = x
          /\ \A i, j \in 1 .. Cardinality(keys) : i # j => order[i] # order[j]
        BY ONLY <2>1, <2>2, <1>7, OrderedParts
    <2> QED
        BY ONLY <1>8, <2>3
<1>10. \A i \in 1 .. N : order[i] \in keys
    BY <1>9, ElementOfSeq
<1>11. PICK q : q = [i \in 1 .. N |-> {s \in S : Key(s) = order[i]}]
    OBVIOUS
<1>12. FHBuckets(f, f_high, h_high) = q
    <2>1. before = {x \in keys \X keys :
                        \/ FirstOf(f_high, x[1][1], x[2][1])
                        \/ x[1][1] = x[2][1] /\ FirstOf(h_high, x[1][2], x[2][2])}
        BY <1>6 DEF FHBefore
    <2>2. FHBuckets(f, f_high, h_high) = [i \in DOMAIN order |-> {s \in S : Key(s) = order[i]}]
        BY <1>4, <1>8, <2>1 DEF FHBuckets, FirstOf
    <2> QED
        BY <1>9, <1>11, <2>2
<1> HIDE DEF Key, S
<1>13. q \in Seq(SUBSET S) /\ Len(q) = N
    <2>1. q \in [1 .. N -> SUBSET S]
        BY <1>11
    <2> QED
        BY ONLY <1>9, <2>1, SeqDef, LenProperties
<1>14. ASSUME NEW i \in 1 .. N
       PROVE  q[i] # {}
    <2>1. PICK s \in S : order[i] = Key(s)
        BY <1>4, <1>10
    <2> QED
        BY <1>11, <2>1
<1>15. \A i, j \in 1 .. N : i # j => q[i] \cap q[j] = {}
    BY <1>9, <1>11
<1>16. ASSUME NEW s \in S
       PROVE  \E i \in 1 .. N : s \in q[i]
    <2>1. Key(s) \in keys
        BY <1>4
    <2>2. PICK i \in 1 .. N : order[i] = Key(s)
        BY <1>9, <2>1
    <2> QED
        BY <1>11, <2>2
<1>17. IsRelationOn(S, q)
    BY <1>13, <1>14, <1>15, <1>16 DEF IsRelationOn
<1> QED
    BY <1>12, <1>17 DEF S
-------------------------------------------------------------------------------
(* Bisimulation.  Whatever is split, the groups stay a partition.          *)
LEMMA SplitPartition ==
    ASSUME NEW S, NEW P, IsPartitionOf(S, P), NEW blocks, blocks \subseteq P,
           NEW Q, IsPartitionOf(UNION blocks, Q)
    PROVE  IsPartitionOf(S, (P \ blocks) \cup Q)
<1> DEFINE R == (P \ blocks) \cup Q
<1>1. \A b \in P : b \subseteq S /\ b # {}
    BY DEF IsPartitionOf
<1>2. \A b \in Q : b \subseteq UNION blocks /\ b # {}
    BY DEF IsPartitionOf
<1>3. \A b, c \in P : b # c => b \cap c = {}
    BY DEF IsPartitionOf
<1>4. \A b, c \in Q : b # c => b \cap c = {}
    BY DEF IsPartitionOf
<1>5. \A b \in P \ blocks : b \cap UNION blocks = {}
    BY <1>3
<1>6. ASSUME NEW b \in R
      PROVE  b \subseteq S /\ b # {}
    BY <1>1, <1>2
<1>7. ASSUME NEW b \in R, NEW c \in R, b # c
      PROVE  b \cap c = {}
    <2>1. CASE b \in P \ blocks /\ c \in P \ blocks
        BY <1>3, <1>7, <2>1
    <2>2. CASE b \in P \ blocks /\ c \in Q
        BY <1>2, <1>5, <2>2
    <2>3. CASE b \in Q /\ c \in P \ blocks
        BY <1>2, <1>5, <2>3
    <2>4. CASE b \in Q /\ c \in Q
        BY <1>4, <1>7, <2>4
    <2> QED
        BY <2>1, <2>2, <2>3, <2>4
<1>8. ASSUME NEW d \in S
      PROVE  \E b \in R : d \in b
    <2>1. PICK b \in P : d \in b
        BY DEF IsPartitionOf
    <2>2. CASE b \in blocks
        <3>1. d \in UNION blocks
            BY <2>1, <2>2
        <3>2. PICK c \in Q : d \in c
            BY <3>1 DEF IsPartitionOf
        <3> QED
            BY <3>2
    <2> QED
        BY <2>1, <2>2
<1> QED
    BY <1>6, <1>7, <1>8 DEF IsPartitionOf

(* A state has one signature.                                              *)
HaveSignatures(S, sig) == \E of : sig = {<<s, of[s]>> : s \in S}

(* As they are computed.                                                   *)
LEMMA SignaturesParts ==
    ASSUME NEW f, NEW P, NEW greedy
    PROVE  HaveSignatures(StatesOf(f), Signatures(f, P, greedy))
<1> DEFINE Counts(x, e) ==
                greedy => INF \notin {f.h[e[1]], f.h[e[2]]} /\ f.h[e[2]] + x.cost = f.h[e[1]]
           entries == UNION {{<<e[1], <<x.labels, BlockOf(P, e[2])>>>> :
                                e \in {y \in x.transitions : Counts(x, y)}} : x \in f.groups}
           Of(s) == {y[2] : y \in {x \in entries : x[1] = s}}
<1>1. Signatures(f, P, greedy) = {<<s, Of(s)>> : s \in StatesOf(f)}
    BY DEF Signatures
<1> HIDE DEF Of
<1>2. PICK of : of = [s \in StatesOf(f) |-> Of(s)]
    OBVIOUS
<1>3. Signatures(f, P, greedy) = {<<s, of[s]>> : s \in StatesOf(f)}
    BY <1>1, <1>2
<1> QED
    BY <1>3 DEF HaveSignatures

(* So the classes of a block are a partition of it.                        *)
LEMMA ClassesParts ==
    ASSUME NEW S, NEW sig, HaveSignatures(S, sig), NEW block, block \subseteq S
    PROVE  IsPartitionOf(block, ClassesOf(block, sig))
<1>1. PICK of : sig = {<<s, of[s]>> : s \in S}
    BY DEF HaveSignatures
<1> DEFINE Class(v) == {s \in block : of[s] = v}
<1>2. PICK Q : Q = ClassesOf(block, sig)
    OBVIOUS
<1>3. PICK mine : mine = {x \in sig : x[1] \in block}
    OBVIOUS
<1>4. \A x \in mine : x[1] \in block /\ x[2] = of[x[1]]
    BY <1>1, <1>3
<1>5. \A s \in block : <<s, of[s]>> \in mine
    BY <1>1, <1>3
<1> DEFINE Firsts(v) == {x[1] : x \in {y \in mine : y[2] = v}}
<1>6. ASSUME NEW v
      PROVE  Firsts(v) = Class(v)
    <2>1. PICK A, C : A = {y \in mine : y[2] = v} /\ C = Class(v)
        OBVIOUS
    <2>2. ASSUME NEW s \in C
          PROVE  s \in {x[1] : x \in A}
        <3>1. PICK x : x = <<s, of[s]>>
            OBVIOUS
        <3>2. x \in A /\ x[1] = s
            BY <1>5, <2>1, <3>1
        <3> QED
            BY ONLY <3>2
    <2>3. ASSUME NEW x \in A
          PROVE  x[1] \in C
        BY <1>4, <2>1
    <2>4. {x[1] : x \in A} = C
        BY ONLY <2>2, <2>3
    <2> QED
        BY <2>1, <2>4
<1>7. Q = {Class(v) : v \in {x[2] : x \in mine}}
    <2>1. Q = {Firsts(v) : v \in {x[2] : x \in mine}}
        BY <1>2, <1>3 DEF ClassesOf
    <2> HIDE DEF Firsts, Class
    <2> QED
        BY <1>6, <2>1
<1>8. ASSUME NEW c \in Q
      PROVE  /\ c \subseteq block /\ c # {}
             /\ \E v : c = Class(v)
    <2>1. PICK x \in mine : c = Class(x[2])
        BY <1>7
    <2>2. x[1] \in Class(x[2])
        BY <1>4
    <2> QED
        BY <2>1, <2>2
<1>9. ASSUME NEW b \in Q, NEW c \in Q, b # c
      PROVE  b \cap c = {}
    <2>1. PICK v : b = Class(v)
        BY <1>8
    <2>2. PICK u : c = Class(u)
        BY <1>8
    <2> QED
        BY <1>9, <2>1, <2>2
<1>10. ASSUME NEW s \in block
       PROVE  \E c \in Q : s \in c
    <2>1. PICK x \in mine : x[1] = s /\ x[2] = of[s]
        BY <1>4, <1>5
    <2>2. Class(x[2]) \in Q /\ s \in Class(x[2])
        BY <1>7, <2>1
    <2> HIDE DEF Class
    <2> QED
        BY <2>2
<1>11. IsPartitionOf(block, Q)
    <2> HIDE DEF Class
    <2>1. Q \subseteq SUBSET block /\ \A c \in Q : c # {}
        BY <1>8
    <2>2. \A b, c \in Q : b # c => b \cap c = {}
        BY <1>9
    <2>3. \A s \in block : \E c \in Q : s \in c
        BY <1>10
    <2> QED
        BY <2>1, <2>2, <2>3 DEF IsPartitionOf
<1> QED
    BY <1>2, <1>11

(* The classes of several blocks are one of all their states,              *)
LEMMA AllClassesParts ==
    ASSUME NEW S, NEW P, IsPartitionOf(S, P), NEW blocks, blocks \subseteq P,
           NEW sig, HaveSignatures(S, sig)
    PROVE  IsPartitionOf(UNION blocks, UNION {ClassesOf(b, sig) : b \in blocks})
<1> PICK Q : Q = UNION {ClassesOf(b, sig) : b \in blocks}
    OBVIOUS
<1>1. ASSUME NEW b \in blocks
      PROVE  /\ \A c \in ClassesOf(b, sig) : c \subseteq b /\ c # {}
             /\ \A c, d \in ClassesOf(b, sig) : c # d => c \cap d = {}
             /\ \A s \in b : \E c \in ClassesOf(b, sig) : s \in c
    <2>1. b \subseteq S
        BY DEF IsPartitionOf
    <2>2. IsPartitionOf(b, ClassesOf(b, sig))
        BY <2>1, ClassesParts
    <2> QED
        BY <2>2 DEF IsPartitionOf
<1>2. ASSUME NEW c \in Q
      PROVE  \E b \in blocks : c \in ClassesOf(b, sig)
    OBVIOUS
<1>3. ASSUME NEW c \in Q
      PROVE  c \subseteq UNION blocks /\ c # {}
    BY <1>1, <1>2
<1>4. ASSUME NEW c \in Q, NEW d \in Q, c # d
      PROVE  c \cap d = {}
    <2>1. PICK b \in blocks : c \in ClassesOf(b, sig)
        BY <1>2
    <2>2. PICK e \in blocks : d \in ClassesOf(e, sig)
        BY <1>2
    <2>3. CASE b = e
        BY <1>1, <1>4, <2>1, <2>2, <2>3
    <2>4. CASE b # e
        <3>1. b \cap e = {}
            BY <2>4 DEF IsPartitionOf
        <3>2. c \subseteq b /\ d \subseteq e
            BY <1>1, <2>1, <2>2
        <3> QED
            BY <3>1, <3>2
    <2> QED
        BY <2>3, <2>4
<1>5. ASSUME NEW s \in UNION blocks
      PROVE  \E c \in Q : s \in c
    <2>1. PICK b \in blocks : s \in b
        OBVIOUS
    <2>2. PICK c \in ClassesOf(b, sig) : s \in c
        BY <1>1, <2>1
    <2> QED
        BY <2>2
<1>6. Q \subseteq SUBSET UNION blocks
    BY <1>3
<1> QED
    BY <1>3, <1>4, <1>5, <1>6 DEF IsPartitionOf

(* also when only some of them are taken out of their blocks, the last one *)
(* not whole.                                                              *)
LEMMA SplitsUpToParts ==
    ASSUME NEW S, S \subseteq Nat, NEW P, IsPartitionOf(S, P), NEW blocks, blocks \subseteq P,
           NEW sig, HaveSignatures(S, sig), NEW num_new, NEW split \in SplitsUpTo(blocks, sig, num_new)
    PROVE  IsPartitionOf(UNION blocks, split)
<1>1. PICK classes : classes = UNION {ClassesOf(b, sig) : b \in blocks}
    OBVIOUS
<1>2. IsPartitionOf(UNION blocks, classes)
    BY <1>1, AllClassesParts
<1> DEFINE NewGroup(c, last) == IF c = last THEN {LeastState(c)} ELSE c
           New(chosen, last) == {NewGroup(c, last) : c \in chosen}
           Rest(new) == {b \ UNION new : b \in blocks}
<1>3. PICK chosen, last : /\ chosen \subseteq classes
                          /\ \A b \in blocks : ClassesOf(b, sig) \ chosen # {}
                          /\ split = New(chosen, last) \cup Rest(New(chosen, last))
    <2> DEFINE Of(b, set) == {c \in set : c \subseteq b}
               Partial(b, set) == /\ Of(b, set) # {}
                                  /\ Cardinality(Of(b, set)) < Cardinality(ClassesOf(b, sig)) - 1
               InTurn(set, c) == /\ \A b \in blocks : ClassesOf(b, sig) \ set # {}
                                 /\ \A b \in blocks : Partial(b, set) => c \subseteq b
               Result(set, c) == New(set, c) \cup Rest(New(set, c))
    <2>1. SplitsUpTo(blocks, sig, num_new) =
            {Result(x[1], x[2]) : x \in {y \in kSubset(num_new, classes) \X classes :
                                            y[2] \in y[1] /\ InTurn(y[1], y[2])}}
        BY <1>1 DEF SplitsUpTo
    <2> HIDE DEF Result, Partial
    <2>2. PICK x \in kSubset(num_new, classes) \X classes :
                split = Result(x[1], x[2]) /\ InTurn(x[1], x[2])
        BY <2>1
    <2>3. x[1] \subseteq classes
        BY DEF kSubset
    <2> HIDE DEF New, Rest
    <2> QED
        BY <2>2, <2>3 DEF Result
<1> HIDE DEF Rest
<1>4. PICK new : new = New(chosen, last)
    OBVIOUS
<1>5. ASSUME NEW c \in classes
      PROVE  c \subseteq UNION blocks /\ NewGroup(c, last) \subseteq c /\ NewGroup(c, last) # {}
    <2>1. c \subseteq UNION blocks /\ c # {}
        BY <1>2 DEF IsPartitionOf
    <2>2. c \in SUBSET Nat
        BY <2>1 DEF IsPartitionOf
    <2>3. \E s \in c : \A x \in c : s <= x
        BY <2>1, <2>2, SmallestNumber
    <2>4. LeastState(c) \in c
        BY <2>3 DEF LeastState
    <2> QED
        BY <2>1, <2>4
<1> HIDE DEF NewGroup
<1>6. ASSUME NEW g \in new
      PROVE  \E c \in chosen : g = NewGroup(c, last) /\ g \subseteq c /\ g # {}
    BY <1>3, <1>4, <1>5
<1>7. ASSUME NEW g \in new, NEW h \in new, g # h
      PROVE  g \cap h = {}
    <2>1. PICK c \in chosen : g = NewGroup(c, last) /\ g \subseteq c
        BY <1>6
    <2>2. PICK d \in chosen : h = NewGroup(d, last) /\ h \subseteq d
        BY <1>6
    <2>3. c # d
        BY <1>7, <2>1, <2>2
    <2>4. c \cap d = {}
        BY <1>2, <1>3, <2>3 DEF IsPartitionOf
    <2> QED
        BY <2>1, <2>2, <2>4
<1>8. ASSUME NEW r \in Rest(new)
      PROVE  \E b \in blocks : r = b \ UNION new
    BY DEF Rest
<1>9. ASSUME NEW b \in blocks
      PROVE  b \ UNION new # {}
    <2>1. PICK c \in ClassesOf(b, sig) : c \notin chosen
        BY <1>3
    <2>2. b \subseteq S
        BY DEF IsPartitionOf
    <2>3. IsPartitionOf(b, ClassesOf(b, sig))
        BY <2>2, ClassesParts
    <2>4. c \in classes
        BY <1>1
    <2>5. \A d \in chosen : c \cap d = {}
        BY <1>2, <1>3, <2>1, <2>4 DEF IsPartitionOf
    <2>6. c \cap UNION new = {}
        BY <1>6, <2>5
    <2>7. c \subseteq b /\ c # {}
        BY <2>3 DEF IsPartitionOf
    <2> QED
        BY <2>6, <2>7
<1>10. split = new \cup Rest(new)
    BY <1>3, <1>4
<1>11. ASSUME NEW x \in split
       PROVE  x \subseteq UNION blocks /\ x # {}
    <2>1. CASE x \in new
        <3>1. PICK c \in chosen : x \subseteq c /\ x # {}
            BY <1>6, <2>1
        <3>2. c \subseteq UNION blocks
            BY <1>3, <1>5
        <3> QED
            BY <3>1, <3>2
    <2>2. CASE x \in Rest(new)
        <3>1. PICK b \in blocks : x = b \ UNION new
            BY <1>8, <2>2
        <3> QED
            BY <1>9, <3>1
    <2> QED
        BY <1>10, <2>1, <2>2
<1>12. ASSUME NEW x \in split, NEW y \in split, x # y
       PROVE  x \cap y = {}
    <2>1. \A b, c \in blocks : b # c => b \cap c = {}
        BY DEF IsPartitionOf
    <2>2. CASE x \in new /\ y \in new
        BY <1>7, <1>12, <2>2
    <2>3. CASE x \in new /\ y \in Rest(new)
        BY <1>8, <2>3
    <2>4. CASE x \in Rest(new) /\ y \in new
        BY <1>8, <2>4
    <2>5. CASE x \in Rest(new) /\ y \in Rest(new)
        <3>1. PICK b \in blocks : x = b \ UNION new
            BY <1>8, <2>5
        <3>2. PICK c \in blocks : y = c \ UNION new
            BY <1>8, <2>5
        <3> QED
            BY <1>12, <2>1, <3>1, <3>2
    <2> QED
        BY <1>10, <2>2, <2>3, <2>4, <2>5
<1>13. ASSUME NEW s \in UNION blocks
       PROVE  \E x \in split : s \in x
    <2>1. CASE s \in UNION new
        BY <1>10, <2>1
    <2>2. CASE s \notin UNION new
        <3>1. PICK b \in blocks : s \in b
            OBVIOUS
        <3>2. b \ UNION new \in Rest(new)
            BY DEF Rest
        <3> QED
            BY <1>10, <2>2, <3>1, <3>2
    <2> QED
        BY <2>1, <2>2
<1>14. split \subseteq SUBSET UNION blocks
    BY <1>11
<1> QED
    BY <1>11, <1>12, <1>13, <1>14 DEF IsPartitionOf

(* One layer is split, or nothing is, or the rounds end.                   *)
IsSplitOf(S, w) ==
    /\ w = [partition |-> w.partition, stable |-> w.stable, stop |-> w.stop]
    /\ IsPartitionOf(S, w.partition) /\ w.stable \in BOOLEAN /\ w.stop \in BOOLEAN

SplitsOf(S) ==
    {w \in [partition : SUBSET SUBSET S, stable : BOOLEAN, stop : BOOLEAN] :
        IsPartitionOf(S, w.partition)}

(* The loop over the groups of a layer only splits groups.                 *)
LEMMA SplitLayerParts ==
    ASSUME NEW f, NEW S, S = StatesOf(f), S \subseteq Nat, NEW sig, HaveSignatures(S, sig),
           NEW layer, NEW target, NEW at_limit, NEW w, IsSplitOf(S, w),
           NEW v \in SplitLayer(f, sig, layer, target, at_limit, w)
    PROVE  IsSplitOf(S, v)
<1> PICK blocks : blocks = {b \in w.partition : b \subseteq InLayer(f, layer)}
    OBVIOUS
<1> PICK classes : classes = UNION {ClassesOf(b, sig) : b \in blocks}
    OBVIOUS
<1> PICK num_new : num_new = target - Cardinality(w.partition)
    OBVIOUS
<1> PICK stop, more, stable, room : 
        /\ stop = w.stop
        /\ more = (at_limit = "RETURN" /\ Cardinality(w.partition \ blocks) + Cardinality(classes) > target)
        /\ stable = (classes = blocks)
        /\ room = (Cardinality(w.partition \ blocks) + Cardinality(classes) < target)
    OBVIOUS
<1>1. v \in IF stop THEN {w}
            ELSE IF more THEN {[w EXCEPT !.stop = TRUE]}
            ELSE IF stable THEN {w}
            ELSE IF room
            THEN {[w EXCEPT !.partition = (w.partition \ blocks) \cup classes, !.stable = FALSE]}
            ELSE {[partition |-> (w.partition \ blocks) \cup split, stable |-> FALSE, stop |-> TRUE] :
                    split \in SplitsUpTo(blocks, sig, num_new)}
    BY DEF SplitLayer
<1>2. IsPartitionOf(S, w.partition) /\ blocks \subseteq w.partition
    BY DEF IsSplitOf
<1>3. /\ w = [partition |-> w.partition, stable |-> w.stable, stop |-> w.stop]
      /\ w.stable \in BOOLEAN /\ w.stop \in BOOLEAN
    BY DEF IsSplitOf
<1>4. IsPartitionOf(S, (w.partition \ blocks) \cup classes)
    <2>1. IsPartitionOf(UNION blocks, classes)
        BY <1>2, AllClassesParts
    <2> QED
        BY ONLY <1>2, <2>1, SplitPartition
<1>5. ASSUME NEW split \in SplitsUpTo(blocks, sig, num_new)
      PROVE  IsPartitionOf(S, (w.partition \ blocks) \cup split)
    <2>1. IsPartitionOf(UNION blocks, split)
        BY <1>2, SplitsUpToParts
    <2> QED
        BY ONLY <1>2, <2>1, SplitPartition
<1>6. \/ v = w
      \/ v = [w EXCEPT !.stop = TRUE]
      \/ v = [w EXCEPT !.partition = (w.partition \ blocks) \cup classes, !.stable = FALSE]
      \/ \E split \in SplitsUpTo(blocks, sig, num_new) :
            v = [partition |-> (w.partition \ blocks) \cup split, stable |-> FALSE, stop |-> TRUE]
    BY <1>1
<1>7. CASE v = w
    BY ONLY <1>2, <1>3, <1>7 DEF IsSplitOf
<1>8. CASE v = [w EXCEPT !.stop = TRUE]
    <2>1. v = [partition |-> w.partition, stable |-> w.stable, stop |-> TRUE]
        BY <1>3, <1>8
    <2> QED
        BY ONLY <1>2, <1>3, <2>1 DEF IsSplitOf
<1>9. CASE v = [w EXCEPT !.partition = (w.partition \ blocks) \cup classes, !.stable = FALSE]
    <2>1. v = [partition |-> (w.partition \ blocks) \cup classes, stable |-> FALSE, stop |-> w.stop]
        BY <1>3, <1>9
    <2> QED
        BY ONLY <1>3, <1>4, <2>1 DEF IsSplitOf
<1>10. CASE \E split \in SplitsUpTo(blocks, sig, num_new) :
            v = [partition |-> (w.partition \ blocks) \cup split, stable |-> FALSE, stop |-> TRUE]
    BY <1>5, <1>10 DEF IsSplitOf
<1> QED
    BY <1>6, <1>7, <1>8, <1>9, <1>10

(* The layers come one after the other, in the order of their numbers.     *)
LEMMA LayersParts ==
    ASSUME NEW f, IsSystem(f), f.h \in [StatesOf(f) -> 0 .. INF]
    PROVE  Len(Layers(f)) \in Nat
<1> PICK layers : layers = {LayerOf(f, s) : s \in StatesOf(f)}
    OBVIOUS
<1> PICK before : before = {x \in layers \X layers : x[1] < x[2]}
    OBVIOUS
<1>1. Layers(f) = Ordered(layers, before)
    BY DEF Layers
<1>2. IsFiniteSet(layers)
    <2>1. IsFiniteSet(StatesOf(f))
        BY FS_Interval DEF IsSystem, StatesOf
    <2>2. [s \in StatesOf(f) |-> LayerOf(f, s)] \in Surjection(StatesOf(f), layers)
        BY DEF Surjection
    <2> QED
        BY ONLY <2>1, <2>2, FS_Surjection
<1>3. \A x \in layers : x \in Int /\ x + 1 \in Nat
    <2> SUFFICES ASSUME NEW s \in StatesOf(f)
                 PROVE  LayerOf(f, s) \in Int /\ LayerOf(f, s) + 1 \in Nat
        OBVIOUS
    <2>1. f.h[s] \in 0 .. INF
        OBVIOUS
    <2>2. f.h[s] \in Nat
        BY ONLY <2>1, InfIsNumber
    <2>3. LayerOf(f, s) = -1 \/ LayerOf(f, s) = f.h[s]
        BY ONLY DEF LayerOf
    <2> QED
        BY ONLY <2>2, <2>3
<1>4. ASSUME NEW T \in SUBSET layers, T # {}
      PROVE  \E x \in T : \A y \in T : <<y, x>> \notin before
    <2> PICK N : N = {x + 1 : x \in T}
        OBVIOUS
    <2>1. N \in SUBSET Nat /\ N # {}
        BY <1>3, <1>4
    <2>2. PICK n \in N : \A m \in N : n <= m
        BY <2>1, SmallestNumber
    <2>3. PICK x \in T : n = x + 1
        OBVIOUS
    <2>4. ASSUME NEW y \in T
          PROVE  <<y, x>> \notin before
        <3>1. y + 1 \in N /\ x \in Int /\ y \in Int
            BY <1>3
        <3>2. x + 1 <= y + 1
            BY <2>2, <2>3, <3>1
        <3>3. ~(y < x)
            BY <3>1, <3>2
        <3> QED
            BY <3>3
    <2> QED
        BY <2>4
<1>5. HasFirsts(layers, before)
    BY <1>4 DEF HasFirsts
<1> QED
    BY <1>1, <1>2, <1>5, OrderedParts

(* The groups to begin with.                                               *)
LEMMA InitialGroupsParts ==
    ASSUME NEW f
    PROVE  IsPartitionOf(StatesOf(f), InitialGroups(f))
<1> PICK of : of = [s \in StatesOf(f) |-> LayerOf(f, s)]
    OBVIOUS
<1>1. \A s \in StatesOf(f) : LayerOf(f, s) = of[s]
    OBVIOUS
<1>2. InitialGroups(f) = {{s \in StatesOf(f) : of[s] = of[x]} : x \in StatesOf(f)}
    BY DEF InitialGroups, InLayer
<1> PICK Block : Block = [x \in StatesOf(f) |-> {s \in StatesOf(f) : of[s] = of[x]}]
    OBVIOUS
<1>3. InitialGroups(f) = {Block[x] : x \in StatesOf(f)}
    BY <1>2
<1>4. \A x, s \in StatesOf(f) : s \in Block[x] <=> of[s] = of[x]
    OBVIOUS
<1>5. \A x \in StatesOf(f) : Block[x] \subseteq StatesOf(f)
    OBVIOUS
<1>6. ASSUME NEW x \in StatesOf(f), NEW y \in StatesOf(f), NEW s \in Block[x] \cap Block[y]
      PROVE  Block[x] = Block[y]
    <2>1. s \in StatesOf(f) /\ of[s] = of[x] /\ of[s] = of[y]
        BY ONLY <1>4, <1>5, <1>6
    <2>2. \A d : d \in Block[x] <=> d \in Block[y]
        BY ONLY <1>4, <1>5, <2>1
    <2> QED
        BY ONLY <2>2
<1> QED
    BY ONLY <1>3, <1>4, <1>5, <1>6 DEF IsPartitionOf

(* Those of the states of a factor form a set.                             *)
LEMMA SplitsParts ==
    ASSUME NEW S, NEW w
    PROVE  w \in SplitsOf(S) <=> IsSplitOf(S, w)
<1>1. ASSUME w \in SplitsOf(S)
      PROVE  IsSplitOf(S, w)
    BY <1>1 DEF SplitsOf, IsSplitOf
<1>2. ASSUME IsSplitOf(S, w)
      PROVE  w \in SplitsOf(S)
    <2>1. /\ w = [partition |-> w.partition, stable |-> w.stable, stop |-> w.stop]
          /\ w.stable \in BOOLEAN /\ w.stop \in BOOLEAN
          /\ IsPartitionOf(S, w.partition)
        BY <1>2 DEF IsSplitOf
    <2>2. w.partition \in SUBSET SUBSET S
        BY <2>1 DEF IsPartitionOf
    <2>3. w \in [partition : SUBSET SUBSET S, stable : BOOLEAN, stop : BOOLEAN]
        BY ONLY <2>1, <2>2
    <2> QED
        BY ONLY <2>1, <2>3 DEF SplitsOf
<1> QED
    BY <1>1, <1>2

(* One round.                                                              *)
LEMMA SplitRoundParts ==
    ASSUME NEW f, IsSystem(f), f.h \in [StatesOf(f) -> 0 .. INF],
           NEW greedy, NEW target, NEW at_limit, NEW w \in SplitsOf(StatesOf(f))
    PROVE  SplitRound(f, greedy, target, at_limit, w) \subseteq SplitsOf(StatesOf(f))
<1> DEFINE N == Len(Layers(f))
           S == StatesOf(f)
           D == SUBSET SplitsOf(S)
           sig == Signatures(f, w.partition, greedy)
           start == {[w EXCEPT !.stable = TRUE]}
           Step(set, i) == UNION {SplitLayer(f, sig, Layers(f)[i], target, at_limit, x) : x \in set}
           split == CHOOSE g : g = [i \in 0 .. N |-> IF i = 0 THEN start ELSE Step(g[i - 1], i)]
           F == [y \in D \X Nat |-> Step(y[1], y[2])]
<1>1. N \in Nat
    BY LayersParts
<1>2. SplitRound(f, greedy, target, at_limit, w) = split[N]
    BY DEF SplitRound
<1>3. S = StatesOf(f) /\ S \subseteq Nat /\ HaveSignatures(S, sig)
    <2>1. HaveSignatures(S, sig)
        BY SignaturesParts
    <2>2. S \subseteq Nat
        BY DEF StatesOf, IsSystem
    <2> QED
        BY <2>1, <2>2
<1> HIDE DEF S, sig
<1>4. ASSUME NEW set \in D, NEW i
      PROVE  Step(set, i) \in D
    <2> SUFFICES ASSUME NEW x \in set,
                        NEW v \in SplitLayer(f, sig, Layers(f)[i], target, at_limit, x)
                 PROVE  v \in SplitsOf(S)
        OBVIOUS
    <2>1. IsSplitOf(S, x)
        BY SplitsParts
    <2>2. IsSplitOf(S, v)
        BY <1>3, <2>1, SplitLayerParts
    <2> QED
        BY ONLY <2>2, SplitsParts
<1>5. start \in D
    <2>1. IsSplitOf(S, w)
        BY <1>3, SplitsParts
    <2>2. PICK v : v = [w EXCEPT !.stable = TRUE]
        OBVIOUS
    <2>3. w = [partition |-> w.partition, stable |-> w.stable, stop |-> w.stop]
        BY ONLY <2>1 DEF IsSplitOf
    <2>4. v = [partition |-> w.partition, stable |-> TRUE, stop |-> w.stop]
        BY ONLY <2>2, <2>3
    <2>5. IsSplitOf(S, v)
        BY ONLY <2>1, <2>4 DEF IsSplitOf
    <2>6. v \in SplitsOf(S)
        BY ONLY <2>5, SplitsParts
    <2> QED
        BY <2>2, <2>6
<1> HIDE DEF D, N, start
<1>6. PICK g \in [0 .. N -> D] : g[0] = start /\ \A n \in 1 .. N : g[n] = F[<<g[n - 1], n>>]
    <2>1. F \in Steps(D)
        <3> HIDE DEF Step
        <3> QED
            BY <1>4 DEF Steps
    <2>2. Iterations(D, start, N, F) # {}
        <3> HIDE DEF F
        <3> QED
            BY <1>1, <1>5, <2>1, IterationExists
    <2> HIDE DEF F
    <2> QED
        BY <2>2 DEF Iterations
<1>7. g = [i \in 0 .. N |-> IF i = 0 THEN start ELSE Step(g[i - 1], i)]
    <2>1. ASSUME NEW n \in 1 .. N
          PROVE  g[n] = Step(g[n - 1], n)
        <3>1. n - 1 \in 0 .. N /\ n \in Nat
            BY <1>1
        <3>2. <<g[n - 1], n>> \in D \X Nat
            BY <3>1
        <3> HIDE DEF Step
        <3> QED
            BY <1>6, <3>2
    <2>2. \A n \in 0 .. N : n = 0 \/ n \in 1 .. N
        BY <1>1
    <2> HIDE DEF Step, F
    <2> QED
        BY <1>6, <2>1, <2>2
<1>8. split = [i \in 0 .. N |-> IF i = 0 THEN start ELSE Step(split[i - 1], i)]
    <2> HIDE DEF Step
    <2> QED
        BY <1>7
<1> HIDE DEF split
<1> PICK All : All = {i \in 0 .. N : split[i] \in D}
    OBVIOUS
<1>9. N \in All
    <2>1. 0 \in All
        <3>1. 0 \in 0 .. N
            BY <1>1
        <3> HIDE DEF Step
        <3> QED
            BY <1>5, <1>8, <3>1
    <2>2. ASSUME NEW i \in 1 .. N, i - 1 \in All
          PROVE  i \in All
        <3>1. i \in 0 .. N /\ i # 0
            BY <1>1
        <3> HIDE DEF Step
        <3>2. split[i] = Step(split[i - 1], i)
            BY <1>8, <3>1
        <3>3. Step(split[i - 1], i) \in D
            BY <1>4, <2>2
        <3> QED
            BY <3>1, <3>2, <3>3
    <2>3. N \in 0 .. N
        BY <1>1
    <2> QED
        BY ONLY <1>1, <2>1, <2>2, <2>3, UpTo
<1> QED
    BY <1>2, <1>3, <1>9 DEF D

(* All of them: every result is a partition of the states.                 *)
LEMMA BisimulationsParts ==
    ASSUME NEW f, IsSystem(f), f.h \in [StatesOf(f) -> 0 .. INF],
           NEW greedy, NEW at_limit, NEW target, NEW P \in Bisimulations(f, greedy, at_limit, target)
    PROVE  IsPartitionOf(StatesOf(f), P)
<1> DEFINE N == f.size + 1
           D == SUBSET SplitsOf(StatesOf(f))
           Ended(w) == w.stable \/ w.stop \/ Cardinality(w.partition) >= target
           start == {[partition |-> InitialGroups(f), stable |-> FALSE, stop |-> FALSE]}
           Step(set) == UNION {IF Ended(w) THEN {w}
                               ELSE SplitRound(f, greedy, target, at_limit, w) : w \in set}
           rounds == CHOOSE g : g = [n \in 0 .. N |-> IF n = 0 THEN start ELSE Step(g[n - 1])]
           F == [y \in D \X Nat |-> Step(y[1])]
<1>1. N \in Nat
    BY DEF IsSystem
<1>2. P \in {w.partition : w \in rounds[N]}
    BY DEF Bisimulations
<1>4. ASSUME NEW set \in D
      PROVE  Step(set) \in D
    <2> HIDE DEF Ended
    <2> SUFFICES ASSUME NEW x \in set,
                        NEW v \in IF Ended(x) THEN {x} ELSE SplitRound(f, greedy, target, at_limit, x)
                 PROVE  v \in SplitsOf(StatesOf(f))
        OBVIOUS
    <2>1. SplitRound(f, greedy, target, at_limit, x) \subseteq SplitsOf(StatesOf(f))
        BY SplitRoundParts
    <2> QED
        BY <2>1
<1>5. start \in D
    <2>1. IsSplitOf(StatesOf(f), [partition |-> InitialGroups(f), stable |-> FALSE, stop |-> FALSE])
        BY ONLY InitialGroupsParts DEF IsSplitOf
    <2> QED
        BY ONLY <2>1, SplitsParts
<1> HIDE DEF D, N, start
<1>6. PICK g \in [0 .. N -> D] : g[0] = start /\ \A n \in 1 .. N : g[n] = F[<<g[n - 1], n>>]
    <2>1. F \in Steps(D)
        <3> HIDE DEF Step
        <3> QED
            BY <1>4 DEF Steps
    <2>2. Iterations(D, start, N, F) # {}
        <3> HIDE DEF F
        <3> QED
            BY <1>1, <1>5, <2>1, IterationExists
    <2> HIDE DEF F
    <2> QED
        BY <2>2 DEF Iterations
<1>7. g = [n \in 0 .. N |-> IF n = 0 THEN start ELSE Step(g[n - 1])]
    <2>1. ASSUME NEW n \in 1 .. N
          PROVE  g[n] = Step(g[n - 1])
        <3>1. n - 1 \in 0 .. N /\ n \in Nat
            BY <1>1
        <3>2. <<g[n - 1], n>> \in D \X Nat
            BY <3>1
        <3> HIDE DEF Step
        <3> QED
            BY <1>6, <3>2
    <2>2. \A n \in 0 .. N : n = 0 \/ n \in 1 .. N
        BY <1>1
    <2> HIDE DEF Step, F
    <2> QED
        BY <1>6, <2>1, <2>2
<1>8. rounds = [n \in 0 .. N |-> IF n = 0 THEN start ELSE Step(rounds[n - 1])]
    <2> HIDE DEF Step
    <2> QED
        BY <1>7
<1> HIDE DEF rounds
<1> PICK All : All = {n \in 0 .. N : rounds[n] \in D}
    OBVIOUS
<1>9. N \in All
    <2>1. 0 \in All
        <3>1. 0 \in 0 .. N
            BY <1>1
        <3> HIDE DEF Step
        <3> QED
            BY <1>5, <1>8, <3>1
    <2>2. ASSUME NEW n \in 1 .. N, n - 1 \in All
          PROVE  n \in All
        <3>1. n \in 0 .. N /\ n # 0
            BY <1>1
        <3> HIDE DEF Step
        <3>2. rounds[n] = Step(rounds[n - 1])
            BY <1>8, <3>1
        <3>3. Step(rounds[n - 1]) \in D
            BY <1>4, <2>2
        <3> QED
            BY <3>1, <3>2, <3>3
    <2>3. N \in 0 .. N
        BY <1>1
    <2> QED
        BY ONLY <1>1, <2>1, <2>2, <2>3, UpTo
<1>10. rounds[N] \subseteq SplitsOf(StatesOf(f))
    BY <1>9 DEF D
<1> QED
    BY <1>2, <1>10 DEF SplitsOf

(* Shrinking: what the strategies ask for, and what they return.           *)
IsStrategy(strategy) ==
    \/ /\ strategy.name = "bisimulation"
       /\ strategy.greedy \in BOOLEAN
    \/ /\ strategy.name = "fh"
       /\ strategy.f_high \in BOOLEAN /\ strategy.h_high \in BOOLEAN
    \/ strategy.name = "random"

(* Every strategy returns a partition of the states of the factor, and all *)
(* but bisimulation one of no more groups than the target size.            *)
LEMMA StrategyParts ==
    ASSUME NEW f, IsSystem(f), f.size # 0, NEW strategy, IsStrategy(strategy),
           RequiresInitDistances(strategy) => f.g \in [StatesOf(f) -> 0 .. INF],
           RequiresGoalDistances(strategy) => f.h \in [StatesOf(f) -> 0 .. INF],
           NEW target \in Nat, target # 0, NEW r \in EquivalenceRelations(f, strategy, target)
    PROVE  /\ IsRelationOn(StatesOf(f), r)
           /\ strategy.name # "bisimulation" => Len(r) <= target
<1>1. f.size \in Nat /\ IsFiniteSet(StatesOf(f))
    <2>1. f.size \in Nat
        BY DEF IsSystem
    <2>2. IsFiniteSet(0 .. f.size - 1)
        BY ONLY <2>1, FS_Interval
    <2> QED
        BY ONLY <2>1, <2>2 DEF StatesOf
<1>2. CASE strategy.name = "bisimulation"
    <2>1. f.h \in [StatesOf(f) -> 0 .. INF]
        BY <1>2 DEF RequiresGoalDistances
    <2>2. PICK P \in Bisimulations(f, strategy.greedy, strategy.at_limit, target) : r = AsSequence(P)
        BY <1>2 DEF EquivalenceRelations
    <2>3. IsPartitionOf(StatesOf(f), P)
        BY <2>1, BisimulationsParts
    <2>4. IsRelationOn(StatesOf(f), r)
        BY ONLY <1>1, <2>2, <2>3, PartitionSequence
    <2> QED
        BY <1>2, <2>4
<1>3. CASE strategy.name = "fh"
    <2>1. f.g \in [StatesOf(f) -> 0 .. INF] /\ f.h \in [StatesOf(f) -> 0 .. INF]
        BY <1>3 DEF RequiresInitDistances, RequiresGoalDistances
    <2> PICK buckets : buckets = FHBuckets(f, strategy.f_high, strategy.h_high)
        OBVIOUS
    <2>2. r \in BucketAbstractions(buckets, target)
        BY <1>3 DEF EquivalenceRelations
    <2>3. strategy.f_high \in BOOLEAN /\ strategy.h_high \in BOOLEAN
        BY <1>3 DEF IsStrategy
    <2>4. IsRelationOn(StatesOf(f), buckets)
        BY <1>1, <2>1, <2>3, FHBucketsParts
    <2> QED
        BY ONLY <1>1, <2>2, <2>4, target \in Nat, target # 0, BucketAbstractionsParts
<1>4. CASE strategy.name = "random"
    <2> PICK buckets : buckets = <<StatesOf(f)>>
        OBVIOUS
    <2>1. r \in BucketAbstractions(buckets, target)
        BY <1>4 DEF EquivalenceRelations, RandomBuckets
    <2>2. 0 \in StatesOf(f)
        BY <1>1 DEF StatesOf
    <2>3. IsRelationOn(StatesOf(f), buckets)
        BY <2>2 DEF IsRelationOn
    <2> QED
        BY ONLY <1>1, <2>1, <2>3, target \in Nat, target # 0, BucketAbstractionsParts
<1> QED
    BY <1>2, <1>3, <1>4 DEF IsStrategy

(* So shrinking keeps a factor good, and all but bisimulation reach the    *)
(* target size.                                                            *)
LEMMA ShrunkParts ==
    ASSUME NEW t, IsTask(t), t.layers = <<>>, NEW labels, NEW label_of, NEW f,
           GoodFactor(t, labels, label_of, f), f.init # PRUNED_STATE,
           NEW strategy, IsStrategy(strategy),
           RequiresInitDistances(strategy) => f.g # NotComputed,
           RequiresGoalDistances(strategy) => f.h # NotComputed,
           NEW limits_, limits_.shrink_threshold_before_merge \in Nat,
           NEW target \in Nat, target # 0, NEW v \in ShrunkFactors(f, strategy, target, limits_)
    PROVE  /\ Follows(t, labels, label_of, f, v) /\ v.init # PRUNED_STATE
           /\ strategy.name # "bisimulation" => v.size <= target
<1>1. /\ IsFactor(t, f) /\ IsSystem(f) /\ Abstracts(t, label_of, f) /\ AreBounds(f)
      /\ f.size \in Nat /\ f.init \in StatesOf(f)
    BY DEF GoodFactor, IsFactor, IsSystem
<1>2. f.size # 0
    BY <1>1 DEF StatesOf
<1>3. CASE f.size <= Min({target, limits_.shrink_threshold_before_merge})
    <2>1. v = f
        BY <1>3 DEF ShrunkFactors
    <2>2. Min({target, limits_.shrink_threshold_before_merge}) <= target
        <3> PICK both : both = {target, limits_.shrink_threshold_before_merge}
            OBVIOUS
        <3>1. both \in SUBSET Nat /\ target \in both
            OBVIOUS
        <3> QED
            BY <3>1, MinIsMember
    <2>3. Min({target, limits_.shrink_threshold_before_merge}) \in Nat
        <3> PICK both : both = {target, limits_.shrink_threshold_before_merge}
            OBVIOUS
        <3>1. both \in SUBSET Nat /\ target \in both
            OBVIOUS
        <3> QED
            BY <3>1, MinIsMember
    <2>4. f.size <= target
        BY <1>1, <1>3, <2>2, <2>3
    <2> QED
        BY <2>1, <2>4 DEF Follows
<1>4. CASE ~(f.size <= Min({target, limits_.shrink_threshold_before_merge}))
    <2>1. PICK r \in EquivalenceRelations(f, strategy, target) : v = ApplyAbstraction(f, r)
        BY <1>4 DEF ShrunkFactors
    <2>2. /\ IsRelationOn(StatesOf(f), r)
          /\ strategy.name # "bisimulation" => Len(r) <= target
        <3>1. /\ RequiresInitDistances(strategy) => f.g \in [StatesOf(f) -> 0 .. INF]
              /\ RequiresGoalDistances(strategy) => f.h \in [StatesOf(f) -> 0 .. INF]
            BY <1>1 DEF AreBounds, IsInitBound, IsGoalBound
        <3> QED
            BY <1>1, <1>2, <2>1, <3>1, StrategyParts
    <2>3. \A s \in States(t) : OnPlan(t, s) => f.value[s] \in StatesOf(f)
        BY <1>1 DEF Abstracts, Alive, IsFactor, Represents
    <2>4. IsRelation(f, r) /\ Covers(t, f, r)
        BY ONLY <2>2, <2>3, RelationOnStates
    <2>5. \E i \in 1 .. Len(r) : f.init \in r[i]
        BY ONLY <1>1, <2>2 DEF IsRelationOn
    <2>6. /\ Follows(t, labels, label_of, f, v) /\ v.size = Len(r)
          /\ v.init # PRUNED_STATE
        BY <2>1, <2>4, <2>5, AppliedIsGood
    <2> QED
        BY <2>2, <2>6
<1> QED
    BY <1>3, <1>4
-------------------------------------------------------------------------------
(* Plans and distances.  A step from a reachable state to one on a plan    *)
(* starts on a plan.                                                       *)
LEMMA PlanGoesBack ==
    ASSUME NEW t, IsTask(t), t.layers = <<>>, NEW s \in States(t), IsReachable(t, s),
           NEW o \in Ops(t), IsApplicable(t, o, s), OnPlan(t, ReferenceSuccessor(t, o, s))
    PROVE  OnPlan(t, s)
<1> PICK costs : costs = OperatorCosts(t)
    OBVIOUS
<1>1. costs \in [Ops(t) -> Nat]
    BY TaskParts DEF OperatorCosts
<1>2. PICK y \in PathEnds(t, costs, ReferenceSuccessor(t, o, s)) : IsGoalState(t, y[1])
    BY DEF OnPlan
<1>3. AfterStep(t, costs, o, y) \in PathEnds(t, costs, s)
    BY <1>1, PrependedPath
<1>4. IsGoalState(t, AfterStep(t, costs, o, y)[1])
    BY <1>2 DEF AfterStep
<1> QED
    BY <1>3, <1>4 DEF OnPlan

(* A step that can be taken is a transition of every factor, between states *)
(* that are not pruned, and the distances are consistent with it.          *)
LEMMA StepsHaveTransitions ==
    ASSUME NEW t, IsTask(t), t.layers = <<>>, NEW labels, NEW label_of, LabelsFit(t, labels, label_of),
           NEW f, GoodFactor(t, labels, label_of, f), NEW s \in States(t), NEW o \in Ops(t),
           IsApplicable(t, o, s), NEW next, next = ReferenceSuccessor(t, o, s), Alive(f, s), Alive(f, next)
    PROVE  \E x \in f.groups : /\ label_of[o] \in x.labels
                               /\ <<f.value[s], f.value[next]>> \in x.transitions
                               /\ x.cost \in Nat /\ x.cost <= t.operators[o].cost
<1>1. PICK x \in f.groups : /\ label_of[o] \in x.labels
                            /\ <<f.value[s], f.value[next]>> \in x.transitions
    BY DEF GoodFactor, Abstracts
<1>2. x.cost <= labels[label_of[o]]
    BY <1>1 DEF GoodFactor, CostsFit
<1>3. labels[label_of[o]] = t.operators[o].cost
    BY DEF LabelsFit
<1>4. x.cost \in Nat
    BY DEF GoodFactor, IsFactor, IsSystem, AreGroups
<1> QED
    BY <1>1, <1>2, <1>3, <1>4

(* So the distance from the initial state is no more than a path costs,    *)
LEMMA InitDistanceOfPaths ==
    ASSUME NEW t, IsTask(t), t.layers = <<>>, NEW labels, NEW label_of, LabelsFit(t, labels, label_of),
           NEW f, GoodFactor(t, labels, label_of, f), f.init # PRUNED_STATE, f.g # NotComputed,
           NEW x \in PathEnds(t, OperatorCosts(t), t.init), OnPlan(t, x[1])
    PROVE  /\ f.value[x[1]] \in StatesOf(f) /\ f.g[f.value[x[1]]] \in 0 .. INF
           /\ f.g[f.value[x[1]]] <= x[2]
<1> PICK costs : costs = OperatorCosts(t)
    OBVIOUS
<1>1. /\ costs \in [Ops(t) -> Nat]
      /\ \A o \in Ops(t) : costs[o] = t.operators[o].cost
    BY TaskParts DEF OperatorCosts
<1>2. \A z \in PathEnds(t, costs, t.init) : z \in States(t) \X Nat \X Nat
    BY DEF PathEnds
<1>3. \A s \in States(t) : OnPlan(t, s) => Alive(f, s)
    BY DEF GoodFactor, Abstracts
<1>4. \A s \in States(t) : Alive(f, s) => f.value[s] \in StatesOf(f)
    BY DEF GoodFactor, IsFactor, Represents, Alive
<1>5. /\ f.g \in [StatesOf(f) -> 0 .. INF] /\ f.g[f.init] = 0
      /\ \A y \in f.groups : \A e \in y.transitions : f.g[e[2]] <= f.g[e[1]] + y.cost
    BY DEF GoodFactor, AreBounds, IsInitBound
<1> PICK good : good = {n \in Nat : \A z \in PathEnds(t, costs, t.init) :
                            z[3] = n /\ OnPlan(t, z[1]) => f.g[f.value[z[1]]] <= z[2]}
    OBVIOUS
<1>6. ASSUME NEW z \in PathEnds(t, costs, t.init), OnPlan(t, z[1]),
             \A n \in Nat : n + 1 = z[3] => n \in good
      PROVE  f.g[f.value[z[1]]] <= z[2]
    <2>1. CASE z = <<t.init, 0, 0>>
        <3>1. f.init = f.value[t.init]
            BY DEF GoodFactor, Abstracts
        <3> QED
            BY <1>5, <2>1, <3>1
    <2>2. ASSUME NEW y \in PathEnds(t, costs, t.init), NEW o \in Ops(t),
                 IsApplicable(t, o, y[1]), z = StepOf(t, costs, y, o)
          PROVE  f.g[f.value[z[1]]] <= z[2]
        <3>1. y \in States(t) \X Nat \X Nat /\ z[1] = ReferenceSuccessor(t, o, y[1])
            BY <1>2, <2>2 DEF StepOf
        <3>2. IsReachable(t, y[1])
            BY DEF IsReachable
        <3>3. OnPlan(t, y[1])
            BY <1>6, <2>2, <3>1, <3>2, PlanGoesBack
        <3>4. f.g[f.value[y[1]]] <= y[2]
            <4>1. z[3] = y[3] + 1 /\ y[3] \in Nat
                BY <2>2, <3>1 DEF StepOf
            <4>2. y[3] \in good
                BY <1>6, <4>1
            <4> QED
                BY <3>3, <4>2
        <3>5. z[1] \in States(t) /\ Alive(f, y[1]) /\ Alive(f, z[1])
            BY <1>2, <1>3, <1>6, <3>1, <3>3
        <3>6. PICK w \in f.groups : /\ <<f.value[y[1]], f.value[z[1]]>> \in w.transitions
                                    /\ w.cost \in Nat /\ w.cost <= t.operators[o].cost
            BY <2>2, <3>1, <3>5, StepsHaveTransitions
        <3>7. f.g[f.value[z[1]]] <= f.g[f.value[y[1]]] + w.cost
            BY <1>5, <3>6
        <3>8. /\ f.value[y[1]] \in StatesOf(f) /\ f.value[z[1]] \in StatesOf(f)
            BY <1>4, <3>1, <3>5
        <3>9. f.g[f.value[y[1]]] \in Nat /\ f.g[f.value[z[1]]] \in Nat
            BY <1>5, <3>8, InfIsNumber
        <3>10. z[2] = y[2] + costs[o] /\ y[2] \in Nat /\ costs[o] \in Nat
               /\ costs[o] = t.operators[o].cost
            BY <1>1, <2>2, <3>1 DEF StepOf
        <3> QED
            BY ONLY <3>4, <3>6, <3>7, <3>9, <3>10
    <2> QED
        BY <2>1, <2>2, ShorterPath
<1>7. 0 \in good
    <2> SUFFICES ASSUME NEW z \in PathEnds(t, costs, t.init), z[3] = 0, OnPlan(t, z[1])
                 PROVE  f.g[f.value[z[1]]] <= z[2]
        OBVIOUS
    <2>1. \A n \in Nat : n + 1 # z[3]
        OBVIOUS
    <2> QED
        BY <1>6, <2>1
<1>8. ASSUME NEW n \in Nat, n \in good
      PROVE  n + 1 \in good
    <2> SUFFICES ASSUME NEW z \in PathEnds(t, costs, t.init), z[3] = n + 1, OnPlan(t, z[1])
                 PROVE  f.g[f.value[z[1]]] <= z[2]
        OBVIOUS
    <2>1. \A k \in Nat : k + 1 = z[3] => k = n
        OBVIOUS
    <2> QED
        BY <1>6, <1>8, <2>1
<1>9. \A n \in Nat : n \in good
    <2> SUFFICES ASSUME NEW n \in Nat
                 PROVE  n \in good
        OBVIOUS
    <2>1. ASSUME NEW k \in 1 .. n, k - 1 \in good
          PROVE  k \in good
        <3>1. k - 1 \in Nat /\ (k - 1) + 1 = k
            OBVIOUS
        <3> QED
            BY <1>8, <2>1, <3>1
    <2>2. n \in 0 .. n
        OBVIOUS
    <2> QED
        BY <1>7, <2>1, <2>2, UpTo
<1>10. x[3] \in Nat /\ x[1] \in States(t)
    BY <1>2
<1>11. f.value[x[1]] \in StatesOf(f)
    BY <1>3, <1>4, <1>10
<1> QED
    BY <1>5, <1>9, <1>10, <1>11

(* and the distance to the goal no more than the rest of a plan.           *)
LEMMA GoalDistanceOfPaths ==
    ASSUME NEW t, IsTask(t), t.layers = <<>>, NEW labels, NEW label_of, LabelsFit(t, labels, label_of),
           NEW f, GoodFactor(t, labels, label_of, f), f.h # NotComputed,
           NEW s \in States(t), IsReachable(t, s),
           NEW x \in PathEnds(t, OperatorCosts(t), s), IsGoalState(t, x[1])
    PROVE  /\ f.value[s] \in StatesOf(f) /\ f.h[f.value[s]] \in 0 .. INF
           /\ f.h[f.value[s]] <= x[2]
<1> PICK costs : costs = OperatorCosts(t)
    OBVIOUS
<1>1. /\ costs \in [Ops(t) -> Nat]
      /\ \A o \in Ops(t) : costs[o] = t.operators[o].cost
    BY TaskParts DEF OperatorCosts
<1>2. \A y : \A z \in PathEnds(t, costs, y) : z \in States(t) \X Nat \X Nat
    BY DEF PathEnds
<1>3. \A y \in States(t) : OnPlan(t, y) => Alive(f, y)
    BY DEF GoodFactor, Abstracts
<1>4. \A y \in States(t) : Alive(f, y) => f.value[y] \in StatesOf(f)
    BY DEF GoodFactor, IsFactor, Represents, Alive
<1>5. /\ f.h \in [StatesOf(f) -> 0 .. INF] /\ \A d \in f.goals : f.h[d] = 0
      /\ \A y \in f.groups : \A e \in y.transitions : f.h[e[1]] <= f.h[e[2]] + y.cost
    BY DEF GoodFactor, AreBounds, IsGoalBound
<1> DEFINE Fine(u, z) == f.h[f.value[u]] <= z[2]
           Plans(u) == {z \in PathEnds(t, costs, u) : IsGoalState(t, z[1])}
           Starts == {u \in States(t) : IsReachable(t, u)}
<1>6. \A u \in Starts : \A z \in Plans(u) : OnPlan(t, u) /\ Alive(f, u)
    BY <1>3 DEF OnPlan
<1> PICK good : good = {n \in Nat : \A u \in Starts : \A z \in Plans(u) : z[3] = n => Fine(u, z)}
    OBVIOUS
<1>7. ASSUME NEW u \in Starts, NEW z \in Plans(u), \A n \in Nat : n + 1 = z[3] => n \in good
      PROVE  Fine(u, z)
    <2>1. CASE z = <<u, 0, 0>>
        <3>1. IsGoalState(t, u) /\ Alive(f, u)
            BY <1>6, <2>1
        <3>2. f.value[u] \in f.goals
            BY <3>1 DEF GoodFactor, Abstracts
        <3> QED
            BY <1>5, <2>1, <3>2
    <2>2. ASSUME NEW o \in Ops(t), IsApplicable(t, o, u),
                 NEW y \in PathEnds(t, costs, ReferenceSuccessor(t, o, u)), z = AfterStep(t, costs, o, y)
          PROVE  Fine(u, z)
        <3> PICK next : next = ReferenceSuccessor(t, o, u)
            OBVIOUS
        <3>1. next \in States(t)
            BY SuccessorIsState
        <3>2. IsReachable(t, next)
            <4>1. PICK w \in PathEnds(t, costs, t.init) : w[1] = u
                BY DEF IsReachable
            <4>2. StepOf(t, costs, w, o) \in PathEnds(t, costs, t.init)
                BY <1>1, <2>2, <4>1, LongerPath
            <4>3. StepOf(t, costs, w, o)[1] = next
                BY <4>1 DEF StepOf
            <4> QED
                BY <4>2, <4>3 DEF IsReachable
        <3>3. y \in States(t) \X Nat \X Nat
            BY <1>2
        <3>4. y \in Plans(next) /\ next \in Starts
            BY <2>2, <3>1, <3>2 DEF AfterStep
        <3>5. Fine(next, y)
            <4>1. z[3] = y[3] + 1 /\ y[3] \in Nat
                BY <2>2, <3>3 DEF AfterStep
            <4>2. y[3] \in good
                BY <1>7, <4>1
            <4> HIDE DEF Fine, Plans, Starts
            <4> QED
                BY <3>4, <4>2
        <3>6. Alive(f, u) /\ Alive(f, next)
            <4> HIDE DEF Plans, Starts
            <4> QED
                BY <1>6, <3>4
        <3>7. PICK w \in f.groups : /\ <<f.value[u], f.value[next]>> \in w.transitions
                                    /\ w.cost \in Nat /\ w.cost <= t.operators[o].cost
            BY <2>2, <3>1, <3>6, StepsHaveTransitions
        <3>8. f.h[f.value[u]] <= f.h[f.value[next]] + w.cost
            BY <1>5, <3>7
        <3>9. f.value[u] \in StatesOf(f) /\ f.value[next] \in StatesOf(f)
            BY <1>4, <3>1, <3>6
        <3>10. f.h[f.value[u]] \in Nat /\ f.h[f.value[next]] \in Nat
            BY <1>5, <3>9, InfIsNumber
        <3>11. z[2] = y[2] + costs[o] /\ y[2] \in Nat /\ costs[o] \in Nat
               /\ costs[o] = t.operators[o].cost
            BY <1>1, <2>2, <3>3 DEF AfterStep
        <3> QED
            BY ONLY <3>5, <3>7, <3>8, <3>10, <3>11
    <2> QED
        BY <1>1, <2>1, <2>2, FirstStep
<1>8. 0 \in good
    <2> SUFFICES ASSUME NEW u \in Starts, NEW z \in Plans(u), z[3] = 0
                 PROVE  Fine(u, z)
        OBVIOUS
    <2>1. \A n \in Nat : n + 1 # z[3]
        OBVIOUS
    <2> HIDE DEF Fine, Plans, Starts
    <2> QED
        BY <1>7, <2>1
<1>9. ASSUME NEW n \in Nat, n \in good
      PROVE  n + 1 \in good
    <2> SUFFICES ASSUME NEW u \in Starts, NEW z \in Plans(u), z[3] = n + 1
                 PROVE  Fine(u, z)
        OBVIOUS
    <2>1. \A k \in Nat : k + 1 = z[3] => k = n
        OBVIOUS
    <2> HIDE DEF Fine, Plans, Starts
    <2> QED
        BY <1>7, <1>9, <2>1
<1>10. \A n \in Nat : n \in good
    <2> SUFFICES ASSUME NEW n \in Nat
                 PROVE  n \in good
        OBVIOUS
    <2>1. ASSUME NEW k \in 1 .. n, k - 1 \in good
          PROVE  k \in good
        <3>1. k - 1 \in Nat /\ (k - 1) + 1 = k
            OBVIOUS
        <3> QED
            BY <1>9, <2>1, <3>1
    <2>2. n \in 0 .. n
        OBVIOUS
    <2> QED
        BY <1>8, <2>1, <2>2, UpTo
<1>11. x[3] \in Nat /\ s \in Starts /\ x \in Plans(s)
    BY <1>2
<1>12. Alive(f, s) /\ f.value[s] \in StatesOf(f)
    BY <1>4, <1>6, <1>11
<1> QED
    BY <1>5, <1>10, <1>11, <1>12

(* As long as plans cost less than INF, states on plans are not dead.      *)
LEMMA PlanStatesAreNotDead ==
    ASSUME NEW t, IsTask(t), t.layers = <<>>, PlanCostsBelowINF(t),
           NEW labels, NEW label_of, LabelsFit(t, labels, label_of),
           NEW f, GoodFactor(t, labels, label_of, f), f.init # PRUNED_STATE,
           NEW s \in States(t), OnPlan(t, s)
    PROVE  /\ f.value[s] \in StatesOf(f)
           /\ f.g # NotComputed => f.g[f.value[s]] # INF
           /\ f.h # NotComputed => f.h[f.value[s]] # INF
<1> PICK costs : costs = OperatorCosts(t)
    OBVIOUS
<1>1. costs \in [Ops(t) -> Nat] /\ t.init \in States(t)
    BY TaskParts DEF OperatorCosts
<1>2. PICK x1 \in PathEnds(t, costs, t.init) : x1[1] = s
    BY DEF OnPlan, IsReachable
<1>3. PICK y1 \in PathEnds(t, costs, s) : IsGoalState(t, y1[1])
    BY DEF OnPlan
<1>4. PICK x \in PathCosts(t, costs, t.init) : x[1] = s
    BY <1>1, <1>2, PathCostsAreLeast
<1>5. PICK y \in PathCosts(t, costs, s) : y[1] = y1[1]
    BY <1>1, <1>3, PathCostsAreLeast
<1>6. x \in PathEnds(t, costs, t.init) /\ y \in PathEnds(t, costs, s)
    BY <1>1, <1>4, <1>5, PathCostsAreReal
<1>7. x[2] \in Nat /\ y[2] \in Nat
    BY <1>6 DEF PathEnds
<1>8. x[2] + y[2] < INF
    <2>1. y \in GoalCosts(t, costs, s)
        BY <1>3, <1>5 DEF GoalCosts
    <2> QED
        BY <1>4, <2>1 DEF PlanCostsBelowINF
<1>9. x[2] < INF /\ y[2] < INF
    BY <1>7, <1>8, InfIsNumber
<1>10. f.g # NotComputed => f.g[f.value[s]] # INF
    <2> SUFFICES ASSUME f.g # NotComputed
                 PROVE  f.g[f.value[s]] # INF
        OBVIOUS
    <2>1. f.g[f.value[x[1]]] <= x[2]
        BY <1>4, <1>6, InitDistanceOfPaths
    <2> QED
        BY <1>4, <1>7, <1>9, <2>1, InfIsNumber
<1>11. f.h # NotComputed => f.h[f.value[s]] # INF
    <2> SUFFICES ASSUME f.h # NotComputed
                 PROVE  f.h[f.value[s]] # INF
        OBVIOUS
    <2>1. f.h[f.value[s]] <= y[2]
        BY <1>3, <1>5, <1>6, GoalDistanceOfPaths DEF OnPlan
    <2> QED
        BY <1>7, <1>9, <2>1, InfIsNumber
<1>12. f.value[s] \in StatesOf(f)
    BY DEF GoodFactor, Abstracts, IsFactor, Represents, Alive
<1> QED
    BY <1>10, <1>11, <1>12

(* So pruning keeps a factor good.                                         *)
LEMMA PrunedIsGood ==
    ASSUME NEW t, IsTask(t), t.layers = <<>>, PlanCostsBelowINF(t),
           NEW labels, NEW label_of, LabelsFit(t, labels, label_of),
           NEW f, GoodFactor(t, labels, label_of, f), f.init # PRUNED_STATE,
           NEW unreachable \in BOOLEAN, unreachable => f.g # NotComputed,
           NEW irrelevant \in BOOLEAN, irrelevant => f.h # NotComputed
    PROVE  /\ Follows(t, labels, label_of, f,
                      ApplyAbstraction(f, KeptStates(f, unreachable, irrelevant)))
           /\ ApplyAbstraction(f, KeptStates(f, unreachable, irrelevant)).size <= f.size
<1> PICK S : S = {s \in StatesOf(f) : /\ unreachable => f.g[s] # INF
                                      /\ irrelevant => f.h[s] # INF}
    OBVIOUS
<1> PICK classes : classes = KeptStates(f, unreachable, irrelevant)
    OBVIOUS
<1>1. f.size \in Nat
    BY DEF GoodFactor, IsFactor, IsSystem
<1>2. IsRelationOn(S, classes)
    BY <1>1, KeptStatesParts
<1>3. ASSUME NEW s \in States(t), OnPlan(t, s)
      PROVE  f.value[s] \in S
    BY <1>3, PlanStatesAreNotDead
<1>4. IsRelation(f, classes) /\ Covers(t, f, classes)
    <2>1. S \subseteq StatesOf(f)
        OBVIOUS
    <2> QED
        BY ONLY <1>2, <1>3, <2>1, RelationOnStates
<1>5. Len(classes) <= f.size
    <2> PICK kept_ : kept_ = {{s} : s \in S}
        OBVIOUS
    <2>1. classes = AsSequence(kept_)
        BY DEF KeptStates
    <2>2. IsFiniteSet(StatesOf(f)) /\ Cardinality(StatesOf(f)) = f.size
        <3> PICK n : n = f.size - 1
            OBVIOUS
        <3>1. n \in Int /\ (IF 0 > n THEN 0 ELSE n - 0 + 1) = f.size
            BY ONLY <1>1, n = f.size - 1
        <3>2. IsFiniteSet(0 .. n) /\ Cardinality(0 .. n) = IF 0 > n THEN 0 ELSE n - 0 + 1
            BY ONLY <3>1, FS_Interval
        <3> QED
            BY <3>1, <3>2 DEF StatesOf
    <2>3. IsFiniteSet(S) /\ Cardinality(S) <= Cardinality(StatesOf(f))
        BY <2>2, FS_Subset
    <2>4. [s \in S |-> {s}] \in Surjection(S, kept_)
        BY DEF Surjection
    <2>5. IsFiniteSet(kept_) /\ Cardinality(kept_) <= Cardinality(S)
        BY ONLY <2>3, <2>4, FS_Surjection
    <2>6. Len(classes) = Cardinality(kept_)
        BY ONLY <2>1, <2>5, SequenceParts
    <2>7. Cardinality(kept_) \in Nat /\ Cardinality(S) \in Nat
        BY ONLY <2>3, <2>5, FS_CardinalityType
    <2> QED
        BY ONLY <1>1, <2>2, <2>3, <2>5, <2>6, <2>7
<1>6. Follows(t, labels, label_of, f, ApplyAbstraction(f, classes)) /\ ApplyAbstraction(f, classes).size = Len(classes)
    BY <1>4, AppliedIsGood
<1> QED
    BY <1>5, <1>6
-------------------------------------------------------------------------------
(* Merging.  Pairs of numbers below two bounds are the numbers below the   *)
(* product.                                                                *)
Paired(n, a, b) == a * n + b

(* The numbers of pairs are those below the product.                       *)
LEMMA PairIsBelow ==
    ASSUME NEW m \in Nat, NEW n \in Nat, NEW a \in 0 .. m - 1, NEW b \in 0 .. n - 1
    PROVE  Paired(n, a, b) \in 0 .. m * n - 1
<1> PICK k : k = m - 1 - a
    OBVIOUS
<1>1. k \in Nat /\ m = a + 1 + k /\ a \in Nat
    OBVIOUS
<1>2. m * n = a * n + n + k * n
    BY <1>1
<1>3. a * n \in Nat /\ k * n \in Nat /\ m * n \in Nat
    BY <1>1
<1> PICK an, kn, mn : an = a * n /\ kn = k * n /\ mn = m * n
    OBVIOUS
<1>4. an + b \in 0 .. mn - 1
    <2>1. an \in Nat /\ kn \in Nat /\ mn = an + n + kn /\ b \in Nat /\ b < n
        BY <1>2, <1>3
    <2> QED
        BY ONLY <2>1, n \in Nat
<1> QED
    BY <1>4 DEF Paired

(* All of them.                                                            *)
LEMMA AllArePairs ==
    ASSUME NEW m \in Nat, NEW n \in Nat, NEW d \in 0 .. m * n - 1
    PROVE  \E a \in 0 .. m - 1, b \in 0 .. n - 1 : d = Paired(n, a, b)
<1> DEFINE Covered(k) == \A x \in 0 .. k * n - 1 :
                \E a \in 0 .. k - 1, b \in 0 .. n - 1 : x = Paired(n, a, b)
<1> PICK good : good = {k \in 0 .. m : Covered(k)}
    OBVIOUS
<1>1. 0 \in good
    <2>1. 0 * n = 0 /\ 0 \in 0 .. m
        OBVIOUS
    <2>2. 0 .. 0 * n - 1 = {}
        BY <2>1
    <2> QED
        BY <2>1, <2>2
<1>2. ASSUME NEW k \in 1 .. m, k - 1 \in good
      PROVE  k \in good
    <2> PICK j : j = k - 1
        OBVIOUS
    <2>1. j \in Nat /\ k = j + 1 /\ k \in 0 .. m /\ j \in good
        BY <1>2
    <2>2. k * n = j * n + n /\ j * n \in Nat
        BY <2>1
    <2> SUFFICES ASSUME NEW x \in 0 .. k * n - 1
                 PROVE  \E a \in 0 .. k - 1, b \in 0 .. n - 1 : x = Paired(n, a, b)
        BY <2>1
    <2> PICK jn : jn = j * n
        OBVIOUS
    <2>3. x \in Nat /\ x < jn + n /\ jn \in Nat
        BY <2>2
    <2>4. CASE x < jn
        <3>1. x \in 0 .. j * n - 1
            BY <2>3, <2>4
        <3>2. PICK a \in 0 .. j - 1, b \in 0 .. n - 1 : x = Paired(n, a, b)
            BY <2>1, <3>1
        <3>3. a \in 0 .. k - 1
            BY <2>1
        <3> QED
            BY <3>2, <3>3
    <2>5. CASE ~(x < jn)
        <3> PICK b : b = x - jn
            OBVIOUS
        <3>1. b \in 0 .. n - 1 /\ x = jn + b
            BY <2>3, <2>5
        <3>2. j \in 0 .. k - 1
            BY <2>1
        <3>3. x = Paired(n, j, b)
            BY <3>1 DEF Paired
        <3> QED
            BY <3>1, <3>2, <3>3
    <2> QED
        BY <2>4, <2>5
<1>3. m \in 0 .. m
    OBVIOUS
<1>4. m \in good
    <2> HIDE DEF Covered
    <2> QED
        BY ONLY <1>1, <1>2, <1>3, m \in Nat, UpTo
<1> QED
    BY <1>4

(* The cost of a group of labels is the least of theirs.                   *)
LEMMA GroupCostParts ==
    ASSUME NEW labels, NEW members, members # {}, \A l \in members : labels[l] \in Nat
    PROVE  /\ GroupCost(labels, members) \in Nat
           /\ \A l \in members : GroupCost(labels, members) <= labels[l]
<1> PICK costs : costs = {labels[l] : l \in members}
    OBVIOUS
<1>1. costs \in SUBSET Nat /\ costs # {}
    OBVIOUS
<1>2. GroupCost(labels, members) = Min(costs)
    BY DEF GroupCost
<1> QED
    BY <1>1, <1>2, MinIsMember

(* The groups of the product: of the pairs of groups with labels in common *)
(* those with transitions, and one for the labels without.                 *)
ProductTransitions(n, tr1, tr2) ==
    {<<Paired(n, p[1][1], p[2][1]), Paired(n, p[1][2], p[2][2])>> : p \in tr1 \X tr2}

MadeGroup(labels, members, transitions) ==
    [labels |-> members, cost |-> GroupCost(labels, members), transitions |-> transitions]

(* Groups with a label in common have a group of the product, and every    *)
(* group of the product is one of pairs or has no transitions.             *)
LEMMA MergedGroupsParts ==
    ASSUME NEW labels, NEW f1, NEW f2
    PROVE  /\ \A x \in f1.groups, y \in f2.groups :
                x.labels \cap y.labels # {} /\ x.transitions # {} /\ y.transitions # {} =>
                    MadeGroup(labels, x.labels \cap y.labels,
                              ProductTransitions(f2.size, x.transitions, y.transitions))
                        \in MergedGroups(labels, f1, f2)
           /\ \A z \in MergedGroups(labels, f1, f2) : \E members, tr :
                /\ z = MadeGroup(labels, members, tr) /\ members # {}
                /\ \A l \in members : \E x \in f1.groups : l \in x.labels
                /\ \/ tr = {}
                   \/ \E x \in f1.groups, y \in f2.groups :
                        tr = ProductTransitions(f2.size, x.transitions, y.transitions)
<1> DEFINE n == f2.size
           buckets == {p \in f1.groups \X f2.groups : p[1].labels \cap p[2].labels # {}}
           alive == {p \in buckets : p[1].transitions # {} /\ p[2].transitions # {}}
           dead == UNION {p[1].labels \cap p[2].labels : p \in buckets \ alive}
           none == dead = {}
<1>1. MergedGroups(labels, f1, f2) =
        {MadeGroup(labels, p[1].labels \cap p[2].labels,
                   ProductTransitions(n, p[1].transitions, p[2].transitions)) : p \in alive}
            \cup (IF none THEN {} ELSE {MadeGroup(labels, dead, {})})
    BY DEF MergedGroups, MadeGroup, ProductTransitions, Paired
<1>2. ASSUME NEW x \in f1.groups, NEW y \in f2.groups,
             x.labels \cap y.labels # {} /\ x.transitions # {} /\ y.transitions # {}
      PROVE  MadeGroup(labels, x.labels \cap y.labels,
                       ProductTransitions(n, x.transitions, y.transitions))
                 \in MergedGroups(labels, f1, f2)
    <2>1. <<x, y>> \in alive
        BY <1>2
    <2> HIDE DEF alive, dead, none, n
    <2> PICK p : p = <<x, y>>
        OBVIOUS
    <2>2. p \in alive /\ p[1] = x /\ p[2] = y
        BY <2>1
    <2>3. MadeGroup(labels, p[1].labels \cap p[2].labels,
                    ProductTransitions(n, p[1].transitions, p[2].transitions))
              \in MergedGroups(labels, f1, f2)
        BY <1>1, <2>2
    <2> QED
        BY <2>2, <2>3
<1>3. ASSUME NEW z \in MergedGroups(labels, f1, f2)
      PROVE  \E members, tr :
                /\ z = MadeGroup(labels, members, tr) /\ members # {}
                /\ \A l \in members : \E x \in f1.groups : l \in x.labels
                /\ \/ tr = {}
                   \/ \E x \in f1.groups, y \in f2.groups :
                        tr = ProductTransitions(n, x.transitions, y.transitions)
    <2>1. CASE z \in {MadeGroup(labels, p[1].labels \cap p[2].labels,
                        ProductTransitions(n, p[1].transitions, p[2].transitions)) : p \in alive}
        <3>1. PICK p \in alive : z = MadeGroup(labels, p[1].labels \cap p[2].labels,
                        ProductTransitions(n, p[1].transitions, p[2].transitions))
            BY <2>1
        <3>2. /\ p[1] \in f1.groups /\ p[2] \in f2.groups
              /\ p[1].labels \cap p[2].labels # {}
            OBVIOUS
        <3> PICK members, tr : /\ members = p[1].labels \cap p[2].labels
                               /\ tr = ProductTransitions(n, p[1].transitions, p[2].transitions)
            OBVIOUS
        <3>3. \A l \in members : \E x \in f1.groups : l \in x.labels
            BY <3>2
        <3> QED
            BY <3>1, <3>2, <3>3
    <2>2. CASE dead # {} /\ z = MadeGroup(labels, dead, {})
        <3>1. ASSUME NEW l \in dead
              PROVE  \E x \in f1.groups : l \in x.labels
            OBVIOUS
        <3> QED
            BY <2>2, <3>1
    <2>3. \/ z \in {MadeGroup(labels, p[1].labels \cap p[2].labels,
                        ProductTransitions(n, p[1].transitions, p[2].transitions)) : p \in alive}
          \/ ~none /\ z = MadeGroup(labels, dead, {})
        <3> HIDE DEF alive, dead, none, n
        <3> QED
            BY ONLY <1>1, <1>3
    <2> HIDE DEF alive, dead, n
    <2> QED
        BY <2>1, <2>2, <2>3 DEF none
<1> QED
    BY ONLY <1>2, <1>3

(* What the product consists of.                                           *)
IsMerged(labels, f1, f2, v) ==
    /\ v.size = f1.size * f2.size /\ v.domain_size = v.size
    /\ v.init = Paired(f2.size, f1.init, f2.init)
    /\ v.goals = {Paired(f2.size, d1, d2) : d1 \in f1.goals, d2 \in f2.goals}
    /\ v.groups = MergedGroups(labels, f1, f2)
    /\ v.g = NotComputed /\ v.h = NotComputed
    /\ v.value = [s \in DOMAIN f1.value |->
            IF f1.value[s] = PRUNED_STATE \/ f2.value[s] = PRUNED_STATE THEN PRUNED_STATE
            ELSE Paired(f2.size, f1.value[s], f2.value[s])]

(* The factor that MergeFactors returns is the product.                    *)
LEMMA MergedParts ==
    ASSUME NEW t, NEW labels, NEW f1, Represents(t, f1), NEW f2, Represents(t, f2)
    PROVE  /\ IsRecord(MergeFactors(labels, f1, f2))
           /\ IsMerged(labels, f1, f2, MergeFactors(labels, f1, f2))
<1> DEFINE value == [s \in DOMAIN f1.value |->
            IF f1.value[s] = PRUNED_STATE \/ f2.value[s] = PRUNED_STATE THEN PRUNED_STATE
            ELSE Paired(f2.size, f1.value[s], f2.value[s])]
           table == [s \in DOMAIN f1.value |->
            IF PRUNED_STATE \in {f1.value[s], f2.value[s]} THEN PRUNED_STATE
            ELSE f1.value[s] * f2.domain_size + f2.value[s]]
           size == f1.size * f2.size
           domain_size == f1.domain_size * f2.domain_size
           init == f1.init * f2.size + f2.init
           goals == {s1 * f2.size + s2 : s1 \in f1.goals, s2 \in f2.goals}
           groups == MergedGroups(labels, f1, f2)
           none == NotComputed
<1>1. f1.domain_size = f1.size /\ f2.domain_size = f2.size
    BY DEF Represents
<1>2. table = value
    BY <1>1 DEF Paired
<1>3. domain_size = size
    BY <1>1
<1>4. MergeFactors(labels, f1, f2) =
        [size |-> size, init |-> init, goals |-> goals, groups |-> groups,
         g |-> none, h |-> none, value |-> table, domain_size |-> domain_size]
    BY DEF MergeFactors
<1>5. init = Paired(f2.size, f1.init, f2.init)
    BY DEF Paired
<1>6. goals = {Paired(f2.size, d1, d2) : d1 \in f1.goals, d2 \in f2.goals}
    BY DEF Paired
<1>7. /\ size = f1.size * f2.size /\ groups = MergedGroups(labels, f1, f2) /\ none = NotComputed
      /\ value = [s \in DOMAIN f1.value |->
            IF f1.value[s] = PRUNED_STATE \/ f2.value[s] = PRUNED_STATE THEN PRUNED_STATE
            ELSE Paired(f2.size, f1.value[s], f2.value[s])]
    OBVIOUS
<1> HIDE DEF value, table, size, domain_size, init, goals, groups, none
<1> PICK v : v = MergeFactors(labels, f1, f2)
    OBVIOUS
<1>8. v = [size |-> size, init |-> init, goals |-> goals, groups |-> groups,
           g |-> none, h |-> none, value |-> value, domain_size |-> size]
    BY <1>2, <1>3, <1>4
<1>9. /\ v.size = size /\ v.init = init /\ v.goals = goals /\ v.groups = groups
      /\ v.g = none /\ v.h = none /\ v.value = value /\ v.domain_size = size
    BY ONLY <1>8
<1>10. IsRecord(v)
    BY ONLY <1>8, <1>9 DEF IsRecord
<1>11. IsMerged(labels, f1, f2, v)
    BY ONLY <1>5, <1>6, <1>7, <1>9 DEF IsMerged
<1> QED
    BY <1>10, <1>11

(* The transitions of a product stay in it.                                *)
LEMMA ProductStaysIn ==
    ASSUME NEW m \in Nat, NEW n \in Nat,
           NEW tr1, tr1 \subseteq (0 .. m - 1) \X (0 .. m - 1),
           NEW tr2, tr2 \subseteq (0 .. n - 1) \X (0 .. n - 1)
    PROVE  ProductTransitions(n, tr1, tr2) \subseteq (0 .. m * n - 1) \X (0 .. m * n - 1)
<1> SUFFICES ASSUME NEW e1 \in tr1, NEW e2 \in tr2
             PROVE  /\ Paired(n, e1[1], e2[1]) \in 0 .. m * n - 1
                    /\ Paired(n, e1[2], e2[2]) \in 0 .. m * n - 1
    BY DEF ProductTransitions
<1>1. /\ e1[1] \in 0 .. m - 1 /\ e1[2] \in 0 .. m - 1
      /\ e2[1] \in 0 .. n - 1 /\ e2[2] \in 0 .. n - 1
    OBVIOUS
<1> QED
    BY <1>1, PairIsBelow

(* States of factors that look at different variables can be combined.     *)
LEMMA CombinedState ==
    ASSUME NEW t, IsTask(t), NEW f1, NEW f2, NEW vs1, NEW vs2, vs1 \cap vs2 = {},
           vs1 \subseteq Vars(t), vs2 \subseteq Vars(t),
           LooksAt(t, f1, vs1), LooksAt(t, f2, vs2), NEW s1 \in States(t), NEW s2 \in States(t)
    PROVE  \E s \in States(t) : f1.value[s] = f1.value[s1] /\ f2.value[s] = f2.value[s2]
<1> PICK s : s = [v \in Vars(t) |-> IF v \in vs1 THEN s1[v] ELSE s2[v]]
    OBVIOUS
<1>1. s \in States(t)
    <2>1. \A v \in Vars(t) : /\ s1[v] \in Nat /\ s1[v] < t.domains[v]
                             /\ s2[v] \in Nat /\ s2[v] < t.domains[v]
        BY StateParts
    <2>2. \A v \in Vars(t) : s[v] = IF v \in vs1 THEN s1[v] ELSE s2[v]
        OBVIOUS
    <2>3. \A v \in Vars(t) : s[v] \in Nat /\ s[v] < t.domains[v]
        BY <2>1, <2>2
    <2>4. s = [v \in Vars(t) |-> s[v]]
        OBVIOUS
    <2> QED
        BY ONLY <2>3, <2>4, IsTask(t), StateParts
<1>2. Agree(vs2, s, s2)
    BY DEF Agree
<1>3. Agree(vs1, s, s1)
    BY DEF Agree
<1> QED
    BY <1>1, <1>2, <1>3 DEF LooksAt

(* A state of the task is where its two states are.                        *)
HasMergedValues(t, n, f1, f2, v) ==
    /\ v.size \in Nat
    /\ \A a \in StatesOf(f1), b \in StatesOf(f2) :
        Paired(n, a, b) \in StatesOf(v) /\ Paired(n, a, b) # PRUNED_STATE
    /\ \A d \in StatesOf(v) : \E a \in StatesOf(f1), b \in StatesOf(f2) : d = Paired(n, a, b)
    /\ DOMAIN v.value = States(t)
    /\ \A s \in States(t) :
        /\ Alive(v, s) <=> Alive(f1, s) /\ Alive(f2, s)
        /\ Alive(v, s) => /\ v.value[s] = Paired(n, f1.value[s], f2.value[s])
                          /\ f1.value[s] \in StatesOf(f1) /\ f2.value[s] \in StatesOf(f2)
    /\ v.value \in [States(t) -> StatesOf(v) \cup {PRUNED_STATE}]

(* The table of the product gives it that number.                          *)
LEMMA MergedValues ==
    ASSUME NEW t, IsTask(t), NEW labels, NEW f1, IsFactor(t, f1), NEW f2, IsFactor(t, f2),
           NEW v, IsMerged(labels, f1, f2, v), NEW n, n = f2.size
    PROVE  HasMergedValues(t, n, f1, f2, v)
<1>1. /\ f1.size \in Nat /\ f2.size \in Nat
      /\ f1.value \in [States(t) -> StatesOf(f1) \cup {PRUNED_STATE}]
      /\ f2.value \in [States(t) -> StatesOf(f2) \cup {PRUNED_STATE}]
    BY DEF IsFactor, IsSystem, Represents
<1> PICK m : m = f1.size
    OBVIOUS
<1>2. v.size = m * n /\ v.size \in Nat
    BY <1>1 DEF IsMerged
<1>3. ASSUME NEW a \in StatesOf(f1), NEW b \in StatesOf(f2)
      PROVE  Paired(n, a, b) \in StatesOf(v) /\ Paired(n, a, b) # PRUNED_STATE
    <2> PICK d : d = Paired(n, a, b)
        OBVIOUS
    <2>1. a \in 0 .. m - 1 /\ b \in 0 .. n - 1
        BY DEF StatesOf
    <2>2. d \in 0 .. m * n - 1
        BY <1>1, <2>1, PairIsBelow
    <2>3. d \in StatesOf(v)
        BY <1>2, <2>2 DEF StatesOf
    <2>4. d # PRUNED_STATE
        BY <1>2, <2>3 DEF PRUNED_STATE, StatesOf
    <2> QED
        BY <2>3, <2>4
<1>4. ASSUME NEW d \in StatesOf(v)
      PROVE  \E a \in StatesOf(f1), b \in StatesOf(f2) : d = Paired(n, a, b)
    <2>1. d \in 0 .. m * n - 1
        BY <1>2 DEF StatesOf
    <2>2. \E a \in 0 .. m - 1, b \in 0 .. n - 1 : d = Paired(n, a, b)
        BY <1>1, <2>1, AllArePairs
    <2> QED
        BY <2>2 DEF StatesOf
<1>5. v.value = [s \in States(t) |->
            IF f1.value[s] = PRUNED_STATE \/ f2.value[s] = PRUNED_STATE THEN PRUNED_STATE
            ELSE Paired(n, f1.value[s], f2.value[s])]
    BY <1>1 DEF IsMerged
<1>6. ASSUME NEW s \in States(t)
      PROVE  /\ Alive(v, s) <=> Alive(f1, s) /\ Alive(f2, s)
             /\ Alive(v, s) => /\ v.value[s] = Paired(n, f1.value[s], f2.value[s])
                               /\ f1.value[s] \in StatesOf(f1) /\ f2.value[s] \in StatesOf(f2)
             /\ v.value[s] \in StatesOf(v) \cup {PRUNED_STATE}
    <2>1. v.value[s] = IF f1.value[s] = PRUNED_STATE \/ f2.value[s] = PRUNED_STATE THEN PRUNED_STATE
                       ELSE Paired(n, f1.value[s], f2.value[s])
        BY <1>5
    <2>2. CASE Alive(f1, s) /\ Alive(f2, s)
        <3>1. f1.value[s] \in StatesOf(f1) /\ f2.value[s] \in StatesOf(f2)
            BY <1>1, <2>2 DEF Alive
        <3>2. v.value[s] = Paired(n, f1.value[s], f2.value[s])
            BY <2>1, <2>2 DEF Alive
        <3> QED
            BY <1>3, <2>2, <3>1, <3>2 DEF Alive
    <2>3. CASE ~(Alive(f1, s) /\ Alive(f2, s))
        BY <2>1, <2>3 DEF Alive
    <2> QED
        BY <2>2, <2>3
<1>7. DOMAIN v.value = States(t)
    BY <1>5
<1>8. v.value \in [States(t) -> StatesOf(v) \cup {PRUNED_STATE}]
    BY <1>5, <1>6, <1>7
<1> QED
    BY ONLY <1>2, <1>3, <1>4, <1>6, <1>7, <1>8 DEF HasMergedValues

(* So the product of two factors is an abstraction of the task.            *)
LEMMA MergedIsAbstraction ==
    ASSUME NEW t, IsTask(t), t.layers = <<>>, NEW labels, NEW label_of,
           NEW f1, GoodFactor(t, labels, label_of, f1), f1.init # PRUNED_STATE,
           NEW f2, GoodFactor(t, labels, label_of, f2), f2.init # PRUNED_STATE,
           NEW vs1, vs1 \subseteq Vars(t), LooksAt(t, f1, vs1),
           NEW vs2, vs2 \subseteq Vars(t), LooksAt(t, f2, vs2), vs1 \cap vs2 = {},
           NEW v, IsRecord(v), IsMerged(labels, f1, f2, v)
    PROVE  /\ IsFactor(t, v) /\ Abstracts(t, label_of, v) /\ CostsFit(labels, v)
           /\ v.init # PRUNED_STATE /\ LooksAt(t, v, vs1 \cup vs2)
<1> PICK m, n : m = f1.size /\ n = f2.size
    OBVIOUS
<1>1. /\ IsFactor(t, f1) /\ IsFactor(t, f2) /\ m \in Nat /\ n \in Nat
      /\ Abstracts(t, label_of, f1) /\ Abstracts(t, label_of, f2) /\ CostsFit(labels, f1)
      /\ AreGroups(m, f1.groups) /\ AreGroups(n, f2.groups)
    BY DEF GoodFactor, IsFactor, IsSystem
<1>2. /\ v.size \in Nat /\ v.size = m * n
      /\ \A a \in StatesOf(f1), b \in StatesOf(f2) :
                Paired(n, a, b) \in StatesOf(v) /\ Paired(n, a, b) # PRUNED_STATE
      /\ \A d \in StatesOf(v) : \E a \in StatesOf(f1), b \in StatesOf(f2) : d = Paired(n, a, b)
      /\ DOMAIN v.value = States(t)
      /\ \A s \in States(t) :
            /\ Alive(v, s) <=> Alive(f1, s) /\ Alive(f2, s)
            /\ Alive(v, s) => /\ v.value[s] = Paired(n, f1.value[s], f2.value[s])
                              /\ f1.value[s] \in StatesOf(f1) /\ f2.value[s] \in StatesOf(f2)
      /\ v.value \in [States(t) -> StatesOf(v) \cup {PRUNED_STATE}]
    <2>1. v.size = m * n
        BY DEF IsMerged
    <2>2. IsTask(t) /\ IsMerged(labels, f1, f2, v)
        OBVIOUS
    <2>3. n = f2.size
        OBVIOUS
    <2> QED
        <3>1. HasMergedValues(t, n, f1, f2, v)
            BY ONLY <1>1, <2>2, <2>3, MergedValues
        <3> QED
            BY ONLY <2>1, <3>1 DEF HasMergedValues
<1>3. /\ v.init = Paired(n, f1.init, f2.init)
      /\ v.goals = {Paired(n, d1, d2) : d1 \in f1.goals, d2 \in f2.goals}
      /\ v.groups = MergedGroups(labels, f1, f2) /\ v.domain_size = v.size
    BY DEF IsMerged
<1>4. /\ f1.init \in StatesOf(f1) /\ f2.init \in StatesOf(f2)
      /\ f1.goals \subseteq StatesOf(f1) /\ f2.goals \subseteq StatesOf(f2)
    BY <1>1 DEF IsFactor, IsSystem
<1>5. v.init \in StatesOf(v) /\ v.init # PRUNED_STATE /\ v.goals \subseteq StatesOf(v)
    <2>1. ASSUME NEW a \in StatesOf(f1), NEW b \in StatesOf(f2)
          PROVE  Paired(n, a, b) \in StatesOf(v) /\ Paired(n, a, b) # PRUNED_STATE
        BY ONLY <1>2
    <2>2. v.init \in StatesOf(v) /\ v.init # PRUNED_STATE
        BY ONLY <1>3, <1>4, <2>1
    <2>3. ASSUME NEW d \in v.goals
          PROVE  d \in StatesOf(v)
        <3>1. PICK d1 \in f1.goals, d2 \in f2.goals : d = Paired(n, d1, d2)
            BY <1>3
        <3> QED
            BY ONLY <1>4, <2>1, <3>1
    <2> QED
        BY ONLY <2>2, <2>3
<1>6. ASSUME NEW z \in v.groups
      PROVE  /\ z = [labels |-> z.labels, cost |-> z.cost, transitions |-> z.transitions]
             /\ z.cost \in Nat /\ z.transitions \subseteq (0 .. v.size - 1) \X (0 .. v.size - 1)
             /\ \A l \in z.labels : l \in CurrentLabels(labels) /\ labels[l] \in Nat /\ z.cost <= labels[l]
    <2>1. PICK members, tr :
                /\ z = MadeGroup(labels, members, tr) /\ members # {}
                /\ \A l \in members : \E x \in f1.groups : l \in x.labels
                /\ \/ tr = {}
                   \/ \E x \in f1.groups, y \in f2.groups :
                        tr = ProductTransitions(n, x.transitions, y.transitions)
        <3>1. \A u \in MergedGroups(labels, f1, f2) : \E members, tr :
                /\ u = MadeGroup(labels, members, tr) /\ members # {}
                /\ \A l \in members : \E x \in f1.groups : l \in x.labels
                /\ \/ tr = {}
                   \/ \E x \in f1.groups, y \in f2.groups :
                        tr = ProductTransitions(f2.size, x.transitions, y.transitions)
            BY ONLY MergedGroupsParts
        <3>2. z \in MergedGroups(labels, f1, f2) /\ n = f2.size
            BY <1>3
        <3> QED
            BY ONLY <3>1, <3>2
    <2>2. \A l \in members : l \in CurrentLabels(labels) /\ labels[l] \in Nat
        BY <1>1, <2>1 DEF CostsFit
    <2>3. /\ GroupCost(labels, members) \in Nat
          /\ \A l \in members : GroupCost(labels, members) <= labels[l]
        BY ONLY <2>1, <2>2, GroupCostParts
    <2>4. tr \subseteq (0 .. m * n - 1) \X (0 .. m * n - 1)
        <3>1. ASSUME NEW x \in f1.groups, NEW y \in f2.groups
              PROVE  ProductTransitions(n, x.transitions, y.transitions) \subseteq
                            (0 .. m * n - 1) \X (0 .. m * n - 1)
            <4>1. /\ x.transitions \subseteq (0 .. m - 1) \X (0 .. m - 1)
                  /\ y.transitions \subseteq (0 .. n - 1) \X (0 .. n - 1)
                BY <1>1 DEF AreGroups
            <4> QED
                BY <1>1, <4>1, ProductStaysIn
        <3> QED
            BY <2>1, <3>1
    <2>5. z = [labels |-> members, cost |-> GroupCost(labels, members), transitions |-> tr]
        BY <2>1 DEF MadeGroup
    <2>6. z.labels = members /\ z.cost = GroupCost(labels, members) /\ z.transitions = tr
        BY ONLY <2>5
    <2> QED
        BY <1>2, <2>2, <2>3, <2>4, <2>5, <2>6
<1>7. IsFactor(t, v) /\ CostsFit(labels, v)
    <2>1. AreGroups(v.size, v.groups) /\ CostsFit(labels, v)
        BY ONLY <1>6 DEF AreGroups, CostsFit
    <2>2. IsSystem(v)
        BY ONLY <1>2, <1>5, <2>1 DEF IsSystem
    <2>3. ASSUME NEW d \in StatesOf(v)
          PROVE  \E s \in States(t) : v.value[s] = d
        <3>1. PICK a \in StatesOf(f1), b \in StatesOf(f2) : d = Paired(n, a, b)
            BY <1>2
        <3>2. PICK s1 \in States(t), s2 \in States(t) : f1.value[s1] = a /\ f2.value[s2] = b
            BY <1>1 DEF IsFactor, Represents
        <3>3. PICK s \in States(t) : f1.value[s] = a /\ f2.value[s] = b
            <4>1. \E s \in States(t) : f1.value[s] = f1.value[s1] /\ f2.value[s] = f2.value[s2]
                <5>1. /\ IsTask(t) /\ vs1 \cap vs2 = {}
                      /\ vs1 \subseteq Vars(t) /\ vs2 \subseteq Vars(t)
                      /\ LooksAt(t, f1, vs1) /\ LooksAt(t, f2, vs2)
                    OBVIOUS
                <5> QED
                    BY ONLY <5>1, CombinedState
            <4> QED
                BY ONLY <3>2, <4>1
        <3>4. a # PRUNED_STATE /\ b # PRUNED_STATE
            BY <1>1 DEF StatesOf, PRUNED_STATE
        <3>5. Alive(v, s)
            BY <1>2, <3>3, <3>4 DEF Alive
        <3> QED
            BY <1>2, <3>1, <3>3, <3>5
    <2> QED
        BY <1>2, <1>3, <2>1, <2>2, <2>3 DEF IsFactor, Represents
<1>8. LooksAt(t, v, vs1 \cup vs2)
    <2> SUFFICES ASSUME NEW s1 \in States(t), NEW s2 \in States(t), Agree(vs1 \cup vs2, s1, s2)
                 PROVE  v.value[s1] = v.value[s2]
        BY DEF LooksAt
    <2>1. Agree(vs1, s1, s2) /\ Agree(vs2, s1, s2)
        BY DEF Agree
    <2>2. f1.value[s1] = f1.value[s2] /\ f2.value[s1] = f2.value[s2]
        BY <2>1 DEF LooksAt
    <2>3. Alive(v, s1) <=> Alive(v, s2)
        BY <1>2, <2>2 DEF Alive
    <2>4. CASE Alive(v, s1)
        BY <1>2, <2>2, <2>3, <2>4
    <2>5. CASE ~Alive(v, s1)
        BY <2>3, <2>5 DEF Alive
    <2> QED
        BY <2>4, <2>5
<1>9. Abstracts(t, label_of, v)
    <2>1. v.init = v.value[t.init]
        <3>1. t.init \in States(t) /\ f1.init = f1.value[t.init] /\ f2.init = f2.value[t.init]
            BY <1>1, TaskParts DEF Abstracts
        <3>2. Alive(v, t.init)
            BY <1>2, <3>1 DEF Alive
        <3> QED
            BY <1>2, <1>3, <3>1, <3>2
    <2>2. ASSUME NEW s \in States(t), Alive(v, s), IsGoalState(t, s)
          PROVE  v.value[s] \in v.goals
        <3>1. f1.value[s] \in f1.goals /\ f2.value[s] \in f2.goals
            BY <1>1, <1>2, <2>2 DEF Abstracts
        <3> QED
            BY <1>2, <1>3, <2>2, <3>1
    <2>3. ASSUME NEW s \in States(t), OnPlan(t, s)
          PROVE  Alive(v, s)
        BY <1>1, <1>2, <2>3 DEF Abstracts
    <2>4. ASSUME NEW s \in States(t), NEW o \in Ops(t), IsApplicable(t, o, s),
                 Alive(v, s), Alive(v, ReferenceSuccessor(t, o, s))
          PROVE  \E z \in v.groups :
                    /\ label_of[o] \in z.labels
                    /\ <<v.value[s], v.value[ReferenceSuccessor(t, o, s)]>> \in z.transitions
        <3> PICK next : next = ReferenceSuccessor(t, o, s)
            OBVIOUS
        <3>1. next \in States(t)
            BY SuccessorIsState
        <3>2. /\ Alive(f1, s) /\ Alive(f1, next) /\ Alive(f2, s) /\ Alive(f2, next)
              /\ v.value[s] = Paired(n, f1.value[s], f2.value[s])
              /\ v.value[next] = Paired(n, f1.value[next], f2.value[next])
            BY <1>2, <2>4, <3>1
        <3>3. PICK x \in f1.groups : /\ label_of[o] \in x.labels
                                     /\ <<f1.value[s], f1.value[next]>> \in x.transitions
            BY <1>1, <2>4, <3>2 DEF Abstracts
        <3>4. PICK y \in f2.groups : /\ label_of[o] \in y.labels
                                     /\ <<f2.value[s], f2.value[next]>> \in y.transitions
            BY <1>1, <2>4, <3>2 DEF Abstracts
        <3> PICK tr : tr = ProductTransitions(n, x.transitions, y.transitions)
            OBVIOUS
        <3>5. MadeGroup(labels, x.labels \cap y.labels, tr) \in v.groups
            <4>1. x.labels \cap y.labels # {} /\ x.transitions # {} /\ y.transitions # {}
                BY <3>3, <3>4
            <4>2. \A x_, y_ : x_ \in f1.groups /\ y_ \in f2.groups
                     /\ x_.labels \cap y_.labels # {} /\ x_.transitions # {} /\ y_.transitions # {} =>
                        MadeGroup(labels, x_.labels \cap y_.labels,
                                  ProductTransitions(f2.size, x_.transitions, y_.transitions))
                            \in MergedGroups(labels, f1, f2)
                BY ONLY MergedGroupsParts
            <4>3. MadeGroup(labels, x.labels \cap y.labels,
                            ProductTransitions(f2.size, x.transitions, y.transitions))
                      \in MergedGroups(labels, f1, f2)
                BY ONLY <4>1, <4>2, x \in f1.groups, y \in f2.groups
            <4>4. tr = ProductTransitions(f2.size, x.transitions, y.transitions)
                OBVIOUS
            <4> QED
                BY ONLY <1>3, <4>3, <4>4
        <3>6. <<v.value[s], v.value[next]>> \in tr
            <4> PICK e1, e2 : e1 = <<f1.value[s], f1.value[next]>> /\ e2 = <<f2.value[s], f2.value[next]>>
                OBVIOUS
            <4>1. <<e1, e2>> \in x.transitions \X y.transitions
                BY <3>3, <3>4
            <4>2. <<Paired(n, e1[1], e2[1]), Paired(n, e1[2], e2[2])>> \in tr
                BY <4>1 DEF ProductTransitions
            <4> QED
                BY <3>2, <4>2
        <3> PICK z : z = MadeGroup(labels, x.labels \cap y.labels, tr)
            OBVIOUS
        <3>7. z.labels = x.labels \cap y.labels /\ z.transitions = tr
            BY DEF MadeGroup
        <3> QED
            BY <3>3, <3>4, <3>5, <3>6, <3>7
    <2> QED
        BY <2>1, <2>2, <2>3, <2>4 DEF Abstracts
<1> QED
    BY <1>5, <1>7, <1>8, <1>9
-------------------------------------------------------------------------------
(* Label reduction.  Labels become one only when they are in use and cost  *)
(* the same.                                                               *)
IsLabelMapping(labels, mapping) ==
    /\ mapping \in Seq(SUBSET CurrentLabels(labels))
    /\ \A i \in 1 .. Len(mapping) : /\ mapping[i] # {}
                                    /\ \A l1, l2 \in mapping[i] : labels[l1] = labels[l2]

(* In a factor where they are equivalent they are in the same groups.      *)
IsUniform(f, mapping) ==
    \A x \in f.groups : \A i \in 1 .. Len(mapping) :
        mapping[i] \subseteq x.labels \/ mapping[i] \cap x.labels = {}

(* LabelMapping only joins labels of the same cost that are equivalent in  *)
(* all the other factors.                                                  *)
LEMMA LabelMappingParts ==
    ASSUME NEW sys, sys.labels \in Seq(Nat \cup {REDUCED}), NEW i
    PROVE  /\ IsLabelMapping(sys.labels, LabelMapping(sys, i))
           /\ \A j \in DOMAIN sys.factors : j # i => IsUniform(sys.factors[j], LabelMapping(sys, i))
<1> DEFINE labels == sys.labels
           current == CurrentLabels(labels)
           Block(l) == {x \in current : Combinable(sys, i, l, x) /\ labels[x] = labels[l]}
           blocks == {b \in {Block(l) : l \in current} : Cardinality(b) > 1}
           mapping == LabelMapping(sys, i)
<1>1. mapping = AsSequence(blocks)
    BY DEF LabelMapping
<1>2. IsFiniteSet(current)
    <2>1. Len(labels) \in Nat /\ DOMAIN labels = 1 .. Len(labels)
        BY LenProperties
    <2> PICK n : n = Len(labels)
        OBVIOUS
    <2>2. IsFiniteSet(1 .. n)
        <3>1. n \in Int /\ 1 \in Int
            BY <2>1
        <3> QED
            BY ONLY <3>1, FS_Interval
    <2>3. current \subseteq 1 .. n
        BY <2>1 DEF CurrentLabels
    <2> QED
        BY ONLY <2>2, <2>3, FS_Subset
<1>3. IsFiniteSet(blocks) /\ blocks \subseteq SUBSET current
    <2>1. blocks \subseteq SUBSET current
        OBVIOUS
    <2>2. IsFiniteSet(SUBSET current)
        BY ONLY <1>2, FS_SUBSET
    <2> QED
        BY ONLY <2>1, <2>2, FS_Subset
<1>4. ASSUME NEW b \in blocks
      PROVE  /\ b # {}
             /\ \A l1, l2 \in b : labels[l1] = labels[l2]
             /\ \A j \in DOMAIN sys.factors : j # i => \A x \in sys.factors[j].groups :
                    b \subseteq x.labels \/ b \cap x.labels = {}
    <2>1. PICK l \in current : b = Block(l)
        OBVIOUS
    <2>2. b # {}
        <3>1. l \in Block(l)
            BY DEF Combinable
        <3> QED
            BY <2>1, <3>1
    <2>3. \A x \in b : Combinable(sys, i, l, x) /\ labels[x] = labels[l]
        BY <2>1
    <2>4. \A l1, l2 \in b : labels[l1] = labels[l2]
        BY <2>3
    <2>5. ASSUME NEW j \in DOMAIN sys.factors, j # i, NEW x \in sys.factors[j].groups
          PROVE  b \subseteq x.labels \/ b \cap x.labels = {}
        <3>1. \A y \in b : l \in x.labels <=> y \in x.labels
            BY <2>3, <2>5 DEF Combinable
        <3> QED
            BY <3>1
    <2> QED
        BY <2>2, <2>4, <2>5
<1> HIDE DEF blocks, mapping
<1>5. mapping \in Seq(blocks) /\ Len(mapping) \in Nat
    BY <1>1, <1>3, SequenceParts
<1>6. \A k \in 1 .. Len(mapping) : mapping[k] \in blocks
    BY ONLY <1>5, ElementOfSeq
<1>7. mapping \in Seq(SUBSET current)
    BY ONLY <1>3, <1>5
<1>8. IsLabelMapping(labels, mapping)
    BY <1>4, <1>6, <1>7 DEF IsLabelMapping
<1>9. ASSUME NEW j \in DOMAIN sys.factors, j # i
      PROVE  IsUniform(sys.factors[j], mapping)
    BY <1>4, <1>6, <1>9 DEF IsUniform
<1> QED
    BY <1>8, <1>9 DEF mapping

(* The labels afterwards: a new one has the cost of those it stands for.   *)
AreReduced(labels, mapping, new) ==
    /\ Len(labels) \in Nat /\ Len(mapping) \in Nat /\ DOMAIN mapping = 1 .. Len(mapping)
    /\ new \in Seq(Nat \cup {REDUCED})
    /\ \A l \in CurrentLabels(labels) \ OldLabels(mapping) :
        l \in CurrentLabels(new) /\ new[l] = labels[l]
    /\ \A i \in 1 .. Len(mapping) :
        /\ Len(labels) + i \in CurrentLabels(new) /\ new[Len(labels) + i] \in Nat
        /\ \A l \in mapping[i] : l \in OldLabels(mapping) /\ new[Len(labels) + i] = labels[l]
    /\ \A l \in CurrentLabels(labels) : labels[l] \in Nat

(* ReducedLabels appends the new labels, and keeps the others.             *)
LEMMA ReducedLabelsParts ==
    ASSUME NEW labels \in Seq(Nat \cup {REDUCED}), NEW mapping, IsLabelMapping(labels, mapping)
    PROVE  AreReduced(labels, mapping, ReducedLabels(labels, mapping))
<1> PICK n, k : n = Len(labels) /\ k = Len(mapping)
    OBVIOUS
<1> PICK new : new = ReducedLabels(labels, mapping)
    OBVIOUS
<1>1. /\ n \in Nat /\ k \in Nat /\ DOMAIN mapping = 1 .. k /\ DOMAIN labels = 1 .. n
      /\ \A i \in 1 .. k : mapping[i] \subseteq CurrentLabels(labels) /\ mapping[i] # {}
      /\ \A i \in 1 .. k : \A l1, l2 \in mapping[i] : labels[l1] = labels[l2]
    BY LenProperties, ElementOfSeq DEF IsLabelMapping
<1>2. \A l \in CurrentLabels(labels) : labels[l] \in Nat /\ l \in 1 .. n
    <2>1. \A l \in 1 .. n : labels[l] \in Nat \cup {REDUCED}
        BY <1>1, ElementOfSeq
    <2> QED
        BY <1>1, <2>1 DEF CurrentLabels
<1>3. new = [l \in 1 .. n + k |->
                IF l > n THEN GroupCost(labels, mapping[l - n])
                ELSE IF l \in OldLabels(mapping) THEN REDUCED ELSE labels[l]]
    BY DEF ReducedLabels
<1>4. ASSUME NEW i \in 1 .. k
      PROVE  /\ n + i \in 1 .. n + k /\ new[n + i] = GroupCost(labels, mapping[i])
             /\ new[n + i] \in Nat /\ \A l \in mapping[i] : new[n + i] = labels[l]
    <2>1. n + i \in 1 .. n + k /\ n + i > n /\ (n + i) - n = i
        BY <1>1
    <2>2. new[n + i] = GroupCost(labels, mapping[i])
        BY <1>3, <2>1
    <2> PICK set : set = mapping[i]
        OBVIOUS
    <2>3. set # {} /\ \A l \in set : labels[l] \in Nat
        BY <1>1, <1>2
    <2>4. PICK l \in set : TRUE
        BY <2>3
    <2> PICK costs : costs = {labels[x] : x \in set}
        OBVIOUS
    <2>5. GroupCost(labels, set) = Min(costs)
        BY DEF GroupCost
    <2>6. costs \in SUBSET Nat /\ labels[l] \in costs /\ \A c \in costs : labels[l] <= c
        BY <1>1, <2>3, <2>4
    <2>7. Min(costs) = labels[l]
        BY ONLY <2>6, MinIsLeast
    <2>8. \A x \in set : labels[x] = labels[l]
        BY <1>1
    <2> QED
        BY <2>1, <2>2, <2>3, <2>5, <2>7, <2>8
<1>5. ASSUME NEW l \in 1 .. n
      PROVE  l \in 1 .. n + k /\ new[l] = IF l \in OldLabels(mapping) THEN REDUCED ELSE labels[l]
    <2>1. l \in 1 .. n + k /\ ~(l > n)
        BY <1>1
    <2> QED
        BY <1>3, <2>1
<1>6. \A l \in 1 .. n + k : l \in 1 .. n \/ \E i \in 1 .. k : l = n + i
    <2> SUFFICES ASSUME NEW l \in 1 .. n + k, l \notin 1 .. n
                 PROVE  \E i \in 1 .. k : l = n + i
        OBVIOUS
    <2>1. l - n \in 1 .. k /\ l = n + (l - n)
        BY <1>1
    <2> QED
        BY <2>1
<1>7. new \in [1 .. n + k -> Nat \cup {REDUCED}]
    <2>1. ASSUME NEW l \in 1 .. n
          PROVE  new[l] \in Nat \cup {REDUCED}
        <3>1. labels[l] \in Nat \cup {REDUCED}
            BY <1>1, ElementOfSeq
        <3> QED
            BY <1>5, <3>1
    <2>2. \A l \in 1 .. n + k : new[l] \in Nat \cup {REDUCED}
        BY <1>4, <1>6, <2>1
    <2>3. new = [l \in 1 .. n + k |-> new[l]]
        BY <1>3
    <2> QED
        BY ONLY <2>2, <2>3
<1>8. new \in Seq(Nat \cup {REDUCED}) /\ DOMAIN new = 1 .. n + k
    <2>1. n + k \in Nat
        BY <1>1
    <2> QED
        BY <1>7, <2>1
<1>9. ASSUME NEW l \in CurrentLabels(labels) \ OldLabels(mapping)
      PROVE  l \in CurrentLabels(new) /\ new[l] = labels[l]
    BY <1>2, <1>5, <1>8 DEF CurrentLabels
<1>10. ASSUME NEW i \in 1 .. k
       PROVE  n + i \in CurrentLabels(new) /\ \A l \in mapping[i] : l \in OldLabels(mapping)
    <2>1. n + i \in DOMAIN new /\ new[n + i] \in Nat
        BY <1>4, <1>8
    <2>2. new[n + i] # REDUCED
        BY <2>1 DEF REDUCED
    <2> QED
        BY <1>1, <2>1, <2>2 DEF CurrentLabels, OldLabels
<1> QED
    BY <1>1, <1>2, <1>4, <1>8, <1>9, <1>10 DEF AreReduced

(* The label that stands for one.                                          *)
MovedLabel(labels, mapping, l) ==
    LET new == {i \in DOMAIN mapping : l \in mapping[i]}
    IN  IF new = {} THEN l ELSE Len(labels) + Min(new)

(* A label that is joined stands for the new one, another for itself.      *)
LEMMA MovedLabelParts ==
    ASSUME NEW labels, NEW mapping, NEW new, AreReduced(labels, mapping, new), NEW l
    PROVE  \/ l \notin OldLabels(mapping) /\ MovedLabel(labels, mapping, l) = l
           \/ \E i \in 1 .. Len(mapping) : /\ l \in mapping[i]
                                           /\ MovedLabel(labels, mapping, l) = Len(labels) + i
<1> PICK S : S = {i \in DOMAIN mapping : l \in mapping[i]}
    OBVIOUS
<1>1. MovedLabel(labels, mapping, l) = IF S = {} THEN l ELSE Len(labels) + Min(S)
    BY DEF MovedLabel
<1>2. DOMAIN mapping = 1 .. Len(mapping) /\ Len(mapping) \in Nat
    BY DEF AreReduced
<1>3. CASE S = {}
    BY <1>1, <1>3 DEF OldLabels
<1>4. CASE S # {}
    <2>1. S \in SUBSET Nat
        BY <1>2
    <2>2. Min(S) \in S
        BY ONLY <1>4, <2>1, MinIsMember
    <2> QED
        BY <1>1, <1>2, <1>4, <2>2
<1> QED
    BY <1>3, <1>4

(* What becomes of the groups of a factor: none of its transitions is lost *)
(* for a label, none is new or cheaper, and the costs fit the new labels.  *)
GroupsFollow(labels, mapping, new, f, groups) ==
    /\ AreGroups(f.size, groups)
    /\ \A x \in f.groups : \A l \in x.labels : \E y \in groups :
        MovedLabel(labels, mapping, l) \in y.labels /\ x.transitions \subseteq y.transitions
    /\ \A y \in groups : \A e \in y.transitions : \E x \in f.groups :
        e \in x.transitions /\ x.cost <= y.cost
    /\ \A y \in groups : \A l \in y.labels :
        l \in CurrentLabels(new) /\ new[l] \in Nat /\ y.cost <= new[l]

(* Joining groups with the same transitions keeps to that.                 *)
LEMMA JoinedGroupsFollow ==
    ASSUME NEW labels, NEW mapping, NEW new, NEW f, NEW groups,
           GroupsFollow(labels, mapping, new, f, groups)
    PROVE  GroupsFollow(labels, mapping, new, f, LocallyEquivalent(groups))
<1> PICK joined : joined = LocallyEquivalent(groups)
    OBVIOUS
<1>1. AreGroups(f.size, groups)
    BY DEF GroupsFollow
<1>2. /\ AreGroups(f.size, joined)
      /\ \A x \in groups : \E y \in joined : x.labels \subseteq y.labels /\ y.transitions = x.transitions
      /\ \A y \in joined : \E x \in groups : y.transitions = x.transitions /\ y.cost = x.cost
      /\ \A y \in joined : \A l \in y.labels : \E x \in groups : l \in x.labels /\ y.cost <= x.cost
    BY <1>1, LocallyEquivalentParts
<1>3. ASSUME NEW x \in f.groups, NEW l \in x.labels
      PROVE  \E y \in joined : /\ MovedLabel(labels, mapping, l) \in y.labels
                               /\ x.transitions \subseteq y.transitions
    <2>1. PICK z \in groups : /\ MovedLabel(labels, mapping, l) \in z.labels
                              /\ x.transitions \subseteq z.transitions
        BY DEF GroupsFollow
    <2>2. PICK y \in joined : z.labels \subseteq y.labels /\ y.transitions = z.transitions
        BY <1>2
    <2> QED
        BY <2>1, <2>2
<1>4. ASSUME NEW y \in joined, NEW e \in y.transitions
      PROVE  \E x \in f.groups : e \in x.transitions /\ x.cost <= y.cost
    <2>1. PICK z \in groups : y.transitions = z.transitions /\ y.cost = z.cost
        BY <1>2
    <2>2. PICK x \in f.groups : e \in x.transitions /\ x.cost <= z.cost
        BY <2>1 DEF GroupsFollow
    <2> QED
        BY <2>1, <2>2
<1>5. ASSUME NEW y \in joined, NEW l \in y.labels
      PROVE  l \in CurrentLabels(new) /\ new[l] \in Nat /\ y.cost <= new[l]
    <2>1. PICK z \in groups : l \in z.labels /\ y.cost <= z.cost
        BY <1>2
    <2>2. l \in CurrentLabels(new) /\ new[l] \in Nat /\ z.cost <= new[l]
        BY <2>1 DEF GroupsFollow
    <2>3. y.cost \in Nat /\ z.cost \in Nat
        BY <1>1, <1>2, <2>1 DEF AreGroups
    <2> QED
        BY <2>1, <2>2, <2>3
<1> QED
    BY <1>2, <1>3, <1>4, <1>5 DEF GroupsFollow


(* Only the groups are others.                                             *)
IsRegrouped(f, groups, v) ==
    v = [size |-> f.size, init |-> f.init, goals |-> f.goals, groups |-> groups,
         g |-> f.g, h |-> f.h, value |-> f.value, domain_size |-> f.domain_size]

(* Where the labels are equivalent a new one takes their place.            *)
LEMMA EquivalentGroupsFollow ==
    ASSUME NEW labels, NEW mapping, IsLabelMapping(labels, mapping), NEW new,
           new = ReducedLabels(labels, mapping), AreReduced(labels, mapping, new),
           NEW f, IsRecord(f), IsSystem(f), CostsFit(labels, f), IsUniform(f, mapping)
    PROVE  \E groups : /\ IsRegrouped(f, groups, ReduceEquivalent(f, labels, mapping))
                       /\ GroupsFollow(labels, mapping, new, f, groups)
<1> DEFINE NewIn(x) == {Len(labels) + i : i \in {j \in DOMAIN mapping : mapping[j] \subseteq x.labels}}
           After(x) == [x EXCEPT !.labels = (@ \ OldLabels(mapping)) \cup NewIn(x),
                                 !.cost = Min({@} \cup {new[l] : l \in NewIn(x)})]
           groups == {After(x) : x \in f.groups}
<1>1. IsRegrouped(f, groups, ReduceEquivalent(f, labels, mapping))
    <2>1. ReduceEquivalent(f, labels, mapping) = [f EXCEPT !.groups = groups]
        BY DEF ReduceEquivalent
    <2> HIDE DEF groups
    <2> QED
        BY <2>1 DEF IsRecord, IsRegrouped
<1> PICK n, k : n = Len(labels) /\ k = Len(mapping)
    OBVIOUS
<1>2. /\ DOMAIN mapping = 1 .. k
      /\ \A i \in 1 .. k : mapping[i] # {}
      /\ \A l \in CurrentLabels(labels) : labels[l] \in Nat
      /\ \A i \in 1 .. k : /\ n + i \in CurrentLabels(new) /\ new[n + i] \in Nat
                           /\ \A l \in mapping[i] : l \in OldLabels(mapping) /\ new[n + i] = labels[l]
    BY DEF AreReduced, IsLabelMapping
<1>3. ASSUME NEW x \in f.groups
      PROVE  /\ x.cost \in Nat
             /\ x.transitions \subseteq (0 .. f.size - 1) \X (0 .. f.size - 1)
             /\ \A l \in x.labels : l \in CurrentLabels(labels) /\ labels[l] \in Nat /\ x.cost <= labels[l]
    BY DEF IsSystem, AreGroups, CostsFit
<1>4. ASSUME NEW x \in f.groups, NEW l \in NewIn(x)
      PROVE  l \in CurrentLabels(new) /\ new[l] \in Nat /\ x.cost <= new[l]
    <2>1. PICK i \in 1 .. k : mapping[i] \subseteq x.labels /\ l = n + i
        BY <1>2
    <2>2. PICK old \in mapping[i] : TRUE
        BY <1>2
    <2>3. new[l] = labels[old] /\ x.cost <= labels[old]
        BY <1>2, <1>3, <2>1, <2>2
    <2> QED
        BY <1>2, <2>1, <2>3
<1>5. ASSUME NEW x \in f.groups
      PROVE  Min({x.cost} \cup {new[l] : l \in NewIn(x)}) = x.cost
    <2> PICK costs : costs = {x.cost} \cup {new[l] : l \in NewIn(x)}
        OBVIOUS
    <2>1. costs \in SUBSET Nat /\ x.cost \in costs /\ \A c \in costs : x.cost <= c
        <3> HIDE DEF NewIn
        <3> QED
            BY <1>3, <1>4
    <2>2. Min(costs) = x.cost
        BY ONLY <2>1, MinIsLeast
    <2> HIDE DEF NewIn
    <2> QED
        BY <2>2
<1>6. ASSUME NEW x \in f.groups
      PROVE  After(x) = [labels |-> (x.labels \ OldLabels(mapping)) \cup NewIn(x),
                         cost |-> x.cost, transitions |-> x.transitions]
    <2>1. x = [labels |-> x.labels, cost |-> x.cost, transitions |-> x.transitions]
        BY DEF IsSystem, AreGroups
    <2> PICK min, set : /\ min = Min({x.cost} \cup {new[l] : l \in NewIn(x)})
                        /\ set = (x.labels \ OldLabels(mapping)) \cup NewIn(x)
        OBVIOUS
    <2> PICK a : a = After(x)
        OBVIOUS
    <2>2. a = [x EXCEPT !.labels = set, !.cost = min]
        OBVIOUS
    <2>3. min = x.cost
        BY <1>5
    <2>4. a = [labels |-> set, cost |-> min, transitions |-> x.transitions]
        BY ONLY <2>1, <2>2
    <2> HIDE DEF After, NewIn
    <2> QED
        BY <2>3, <2>4
<1> HIDE DEF NewIn
<1>7. ASSUME NEW x \in f.groups
      PROVE  /\ After(x) \in groups
             /\ After(x).labels = (x.labels \ OldLabels(mapping)) \cup NewIn(x)
             /\ After(x).cost = x.cost /\ After(x).transitions = x.transitions
    <2>1. After(x) \in groups
        OBVIOUS
    <2> HIDE DEF After, groups
    <2> QED
        BY <1>6, <2>1
<1>8. \A y \in groups : \E x \in f.groups : y = After(x)
    OBVIOUS
<1> HIDE DEF After, groups
<1>9. AreGroups(f.size, groups)
    <2>1. ASSUME NEW x \in f.groups
          PROVE  LET y == After(x) IN
                 /\ y = [labels |-> y.labels, cost |-> y.cost, transitions |-> y.transitions]
                 /\ y.cost \in Nat
                 /\ y.transitions \subseteq (0 .. f.size - 1) \X (0 .. f.size - 1)
        BY <1>3, <1>6
    <2> QED
        BY <1>8, <2>1 DEF AreGroups
<1>10. ASSUME NEW x \in f.groups, NEW l \in x.labels
       PROVE  \E y \in groups : /\ MovedLabel(labels, mapping, l) \in y.labels
                                /\ x.transitions \subseteq y.transitions
    <2>1. MovedLabel(labels, mapping, l) \in (x.labels \ OldLabels(mapping)) \cup NewIn(x)
        <3>1. CASE l \notin OldLabels(mapping) /\ MovedLabel(labels, mapping, l) = l
            BY <3>1
        <3>2. CASE \E i \in 1 .. k : l \in mapping[i] /\ MovedLabel(labels, mapping, l) = n + i
            <4>1. PICK i \in 1 .. k : l \in mapping[i] /\ MovedLabel(labels, mapping, l) = n + i
                BY <3>2
            <4>2. mapping[i] \subseteq x.labels
                BY <4>1 DEF IsUniform
            <4> QED
                BY <1>2, <4>1, <4>2 DEF NewIn
        <3>3. \/ l \notin OldLabels(mapping) /\ MovedLabel(labels, mapping, l) = l
              \/ \E i \in 1 .. Len(mapping) : /\ l \in mapping[i]
                                              /\ MovedLabel(labels, mapping, l) = Len(labels) + i
            BY ONLY AreReduced(labels, mapping, new), MovedLabelParts
        <3> QED
            BY <3>1, <3>2, <3>3
    <2> QED
        BY <1>7, <2>1
<1>11. ASSUME NEW y \in groups, NEW e \in y.transitions
       PROVE  \E x \in f.groups : e \in x.transitions /\ x.cost <= y.cost
    <2>1. PICK x \in f.groups : y = After(x)
        BY <1>8
    <2>2. x.cost \in Nat /\ y.cost = x.cost /\ y.transitions = x.transitions
        BY <1>3, <1>7, <2>1
    <2> QED
        BY <2>2
<1>12. ASSUME NEW y \in groups, NEW l \in y.labels
       PROVE  l \in CurrentLabels(new) /\ new[l] \in Nat /\ y.cost <= new[l]
    <2>1. PICK x \in f.groups : y = After(x)
        BY <1>8
    <2>2. y.cost = x.cost /\ y.labels = (x.labels \ OldLabels(mapping)) \cup NewIn(x)
        BY <1>7, <2>1
    <2>3. CASE l \in NewIn(x)
        BY <1>4, <2>2, <2>3
    <2>4. CASE l \in x.labels \ OldLabels(mapping)
        <3>1. l \in CurrentLabels(new) /\ new[l] = labels[l]
            BY <1>3, <2>4 DEF AreReduced
        <3> QED
            BY <1>3, <2>2, <2>4, <3>1
    <2> QED
        BY <2>2, <2>3, <2>4
<1>13. GroupsFollow(labels, mapping, new, f, groups)
    BY <1>9, <1>10, <1>11, <1>12 DEF GroupsFollow
<1> QED
    BY <1>1, <1>13

(* Where they need not be equivalent, a new label has the transitions of   *)
(* all it stands for.                                                      *)
LEMMA ArbitraryGroupsFollow ==
    ASSUME NEW labels, NEW mapping, IsLabelMapping(labels, mapping), NEW new,
           new = ReducedLabels(labels, mapping), AreReduced(labels, mapping, new),
           NEW f, IsRecord(f), IsSystem(f), CostsFit(labels, f)
    PROVE  \E groups : /\ IsRegrouped(f, groups, ReduceArbitrary(f, labels, mapping))
                       /\ GroupsFollow(labels, mapping, new, f, groups)
<1> DEFINE Touched(set) == {x \in f.groups : x.labels \cap set # {}}
           Left(x) == x.labels \ OldLabels(mapping)
           Rest(x) == [x EXCEPT !.labels = Left(x), !.cost = GroupCost(new, Left(x))]
           All(i) == UNION {x.transitions : x \in Touched(mapping[i])}
           Made(i) == [labels |-> {Len(labels) + i}, cost |-> new[Len(labels) + i],
                       transitions |-> All(i)]
           groups == (f.groups \ Touched(OldLabels(mapping)))
                        \cup {Rest(x) : x \in {y \in Touched(OldLabels(mapping)) : Left(y) # {}}}
                        \cup {Made(i) : i \in DOMAIN mapping}
<1>1. IsRegrouped(f, LocallyEquivalent(groups), ReduceArbitrary(f, labels, mapping))
    <2> PICK joined : joined = LocallyEquivalent(groups)
        OBVIOUS
    <2>1. ReduceArbitrary(f, labels, mapping) = [f EXCEPT !.groups = LocallyEquivalent(groups)]
        BY DEF ReduceArbitrary
    <2> HIDE DEF groups
    <2> QED
        BY <2>1 DEF IsRecord, IsRegrouped
<1> PICK n, k : n = Len(labels) /\ k = Len(mapping)
    OBVIOUS
<1>2. /\ DOMAIN mapping = 1 .. k
      /\ \A i \in 1 .. k : mapping[i] # {}
      /\ \A l \in CurrentLabels(labels) : labels[l] \in Nat
      /\ \A i \in 1 .. k : /\ n + i \in CurrentLabels(new) /\ new[n + i] \in Nat
                           /\ \A l \in mapping[i] : l \in OldLabels(mapping) /\ new[n + i] = labels[l]
      /\ \A l \in CurrentLabels(labels) \ OldLabels(mapping) :
            l \in CurrentLabels(new) /\ new[l] = labels[l]
    BY DEF AreReduced, IsLabelMapping
<1> PICK pairs : pairs = (0 .. f.size - 1) \X (0 .. f.size - 1)
    OBVIOUS
<1>3. ASSUME NEW x \in f.groups
      PROVE  /\ x = [labels |-> x.labels, cost |-> x.cost, transitions |-> x.transitions]
             /\ x.cost \in Nat
             /\ x.transitions \subseteq pairs
             /\ \A l \in x.labels : l \in CurrentLabels(labels) /\ labels[l] \in Nat /\ x.cost <= labels[l]
    BY DEF IsSystem, AreGroups, CostsFit
(* A group keeps the labels that stay.                                     *)
<1>4. ASSUME NEW x \in f.groups, Left(x) # {}
      PROVE  /\ Rest(x) = [labels |-> Left(x), cost |-> GroupCost(new, Left(x)),
                           transitions |-> x.transitions]
             /\ GroupCost(new, Left(x)) \in Nat /\ x.cost <= GroupCost(new, Left(x))
             /\ \A l \in Left(x) : /\ l \in CurrentLabels(new) /\ new[l] \in Nat
                                   /\ GroupCost(new, Left(x)) <= new[l]
    <2>1. \A l \in Left(x) : l \in CurrentLabels(new) /\ new[l] \in Nat /\ x.cost <= new[l]
        BY <1>2, <1>3
    <2> PICK left : left = Left(x)
        OBVIOUS
    <2> HIDE DEF Left
    <2> PICK costs : costs = {new[l] : l \in left}
        OBVIOUS
    <2> PICK cost : cost = GroupCost(new, left)
        OBVIOUS
    <2>2. costs \in SUBSET Nat /\ costs # {} /\ \A c \in costs : x.cost <= c
        BY <1>4, <2>1
    <2>3. cost = Min(costs)
        BY DEF GroupCost
    <2>4. cost \in costs
        BY ONLY <2>2, <2>3, MinIsMember
    <2>5. \A l \in left : new[l] \in Nat
        BY <2>1
    <2>6. \A l \in left : cost <= new[l]
        BY ONLY <1>4, <2>5, GroupCostParts, left = Left(x), cost = GroupCost(new, left)
    <2> PICK y : y = x
        OBVIOUS
    <2>7. y = [labels |-> y.labels, cost |-> y.cost, transitions |-> y.transitions]
        BY <1>3
    <2> PICK r : r = Rest(x)
        OBVIOUS
    <2>8. r = [y EXCEPT !.labels = left, !.cost = cost]
        OBVIOUS
    <2>9. r = [labels |-> left, cost |-> cost, transitions |-> y.transitions]
        BY ONLY <2>7, <2>8
    <2> HIDE DEF Rest
    <2> QED
        BY <2>1, <2>2, <2>4, <2>6, <2>9
<1>5. ASSUME NEW i \in 1 .. k, NEW x \in Touched(mapping[i])
      PROVE  x \in f.groups /\ x.cost <= new[n + i]
    <2>1. PICK l \in mapping[i] : l \in x.labels
        OBVIOUS
    <2> QED
        BY <1>2, <1>3, <2>1
<1>6. ASSUME NEW z \in groups
      PROVE  \/ z \in f.groups /\ z.labels \cap OldLabels(mapping) = {}
             \/ \E x \in f.groups : Left(x) # {} /\ z = Rest(x)
             \/ \E i \in 1 .. k : z = Made(i)
    <2> HIDE DEF Rest, Made, Left
    <2> QED
        BY <1>2
<1>7. /\ \A x \in f.groups : x.labels \cap OldLabels(mapping) = {} => x \in groups
      /\ \A x \in f.groups : x.labels \cap OldLabels(mapping) # {} /\ Left(x) # {} => Rest(x) \in groups
      /\ \A i \in 1 .. k : Made(i) \in groups
    <2> HIDE DEF Rest, Made, Left
    <2> QED
        BY <1>2
<1>8. ASSUME NEW i \in 1 .. k
      PROVE  /\ All(i) \subseteq pairs
             /\ \A x \in f.groups : x.labels \cap mapping[i] # {} => x.transitions \subseteq All(i)
             /\ \A e \in All(i) : \E x \in Touched(mapping[i]) : e \in x.transitions
    <2>1. \A x \in Touched(mapping[i]) : x.transitions \subseteq pairs
        BY <1>3
    <2> QED
        BY <2>1
<1> HIDE DEF All, Rest, groups
<1>9. \A i \in 1 .. k : /\ Made(i).labels = {n + i} /\ Made(i).cost = new[n + i]
                        /\ Made(i).transitions = All(i)
    OBVIOUS
<1>10. ASSUME NEW x \in f.groups, Left(x) # {}
       PROVE  /\ Rest(x).labels = Left(x) /\ Rest(x).cost = GroupCost(new, Left(x))
              /\ Rest(x).transitions = x.transitions
    <2> HIDE DEF Left
    <2> QED
        BY <1>4, <1>10
<1>11. AreGroups(f.size, groups)
    <2>1. ASSUME NEW z \in groups
          PROVE  /\ z = [labels |-> z.labels, cost |-> z.cost, transitions |-> z.transitions]
                 /\ z.cost \in Nat /\ z.transitions \subseteq pairs
        <3>1. CASE z \in f.groups
            BY <1>3, <3>1
        <3>2. CASE \E x \in f.groups : Left(x) # {} /\ z = Rest(x)
            <4>1. PICK x \in f.groups : Left(x) # {} /\ z = Rest(x)
                BY <3>2
            <4> HIDE DEF Left
            <4> QED
                BY <1>3, <1>4, <4>1
        <3>3. CASE \E i \in 1 .. k : z = Made(i)
            <4>1. PICK i \in 1 .. k : z = Made(i)
                BY <3>3
            <4> QED
                BY <1>2, <1>8, <4>1
        <3> QED
            BY <1>6, <3>1, <3>2, <3>3
    <2> QED
        BY <2>1 DEF AreGroups
<1> HIDE DEF Made
<1>12. ASSUME NEW x \in f.groups, NEW l \in x.labels
       PROVE  \E y \in groups : /\ MovedLabel(labels, mapping, l) \in y.labels
                                /\ x.transitions \subseteq y.transitions
    <2>1. CASE l \notin OldLabels(mapping) /\ MovedLabel(labels, mapping, l) = l
        <3>1. l \in Left(x)
            BY <2>1
        <3>2. CASE x.labels \cap OldLabels(mapping) = {}
            BY <1>7, <2>1, <3>2
        <3>3. CASE x.labels \cap OldLabels(mapping) # {}
            <4>1. Rest(x) \in groups /\ l \in Rest(x).labels /\ Rest(x).transitions = x.transitions
                <5> HIDE DEF Left
                <5> QED
                    BY <1>7, <1>10, <3>1, <3>3
            <4> QED
                BY <2>1, <4>1
        <3> QED
            BY <3>2, <3>3
    <2>2. CASE \E i \in 1 .. k : l \in mapping[i] /\ MovedLabel(labels, mapping, l) = n + i
        <3>1. PICK i \in 1 .. k : l \in mapping[i] /\ MovedLabel(labels, mapping, l) = n + i
            BY <2>2
        <3>2. x.transitions \subseteq All(i)
            BY <1>8, <3>1
        <3> QED
            BY <1>7, <1>9, <3>1, <3>2
    <2>3. \/ l \notin OldLabels(mapping) /\ MovedLabel(labels, mapping, l) = l
          \/ \E i \in 1 .. Len(mapping) : /\ l \in mapping[i]
                                          /\ MovedLabel(labels, mapping, l) = Len(labels) + i
        BY ONLY AreReduced(labels, mapping, new), MovedLabelParts
    <2> QED
        BY <2>1, <2>2, <2>3
<1>13. ASSUME NEW y \in groups, NEW e \in y.transitions
       PROVE  \E x \in f.groups : e \in x.transitions /\ x.cost <= y.cost
    <2>1. CASE y \in f.groups
        BY <1>3, <2>1
    <2>2. CASE \E x \in f.groups : Left(x) # {} /\ y = Rest(x)
        <3>1. PICK x \in f.groups : Left(x) # {} /\ y = Rest(x)
            BY <2>2
        <3>2. y.transitions = x.transitions /\ x.cost <= y.cost
            <4> HIDE DEF Left
            <4> QED
                BY <1>4, <1>10, <3>1
        <3> QED
            BY <3>2
    <2>3. CASE \E i \in 1 .. k : y = Made(i)
        <3>1. PICK i \in 1 .. k : y = Made(i)
            BY <2>3
        <3>2. PICK x \in Touched(mapping[i]) : e \in x.transitions
            BY <1>8, <1>9, <3>1
        <3>3. x \in f.groups /\ x.cost <= new[n + i]
            BY ONLY <1>5, <3>1, <3>2
        <3> QED
            BY <1>9, <3>1, <3>2, <3>3
    <2> QED
        BY <1>6, <2>1, <2>2, <2>3
<1>14. ASSUME NEW y \in groups, NEW l \in y.labels
       PROVE  l \in CurrentLabels(new) /\ new[l] \in Nat /\ y.cost <= new[l]
    <2>1. CASE y \in f.groups /\ y.labels \cap OldLabels(mapping) = {}
        <3>1. l \in CurrentLabels(labels) \ OldLabels(mapping) /\ y.cost <= labels[l]
            BY <1>3, <2>1
        <3> QED
            BY <1>2, <3>1
    <2>2. CASE \E x \in f.groups : Left(x) # {} /\ y = Rest(x)
        <3>1. PICK x \in f.groups : Left(x) # {} /\ y = Rest(x)
            BY <2>2
        <3> HIDE DEF Left
        <3> QED
            BY <1>4, <1>10, <3>1
    <2>3. CASE \E i \in 1 .. k : y = Made(i)
        <3>1. PICK i \in 1 .. k : y = Made(i)
            BY <2>3
        <3>2. l = n + i /\ y.cost = new[n + i]
            BY <1>9, <3>1
        <3>3. n + i \in CurrentLabels(new) /\ new[n + i] \in Nat
            BY <1>2
        <3> PICK m, c : m = n + i /\ c = new[m]
            OBVIOUS
        <3>4. c \in Nat /\ l = m /\ y.cost = c /\ m \in CurrentLabels(new) /\ c = new[m]
            BY <3>2, <3>3
        <3>5. c <= c
            BY ONLY <3>4
        <3> QED
            BY ONLY <3>4, <3>5
    <2> QED
        BY <1>6, <2>1, <2>2, <2>3
<1>15. GroupsFollow(labels, mapping, new, f, groups)
    BY <1>11, <1>12, <1>13, <1>14 DEF GroupsFollow
<1>16. GroupsFollow(labels, mapping, new, f, LocallyEquivalent(groups))
    BY ONLY <1>15, JoinedGroupsFollow
<1> QED
    BY ONLY <1>1, <1>16

(* The operators get the new labels.                                       *)
HaveMoved(t, labels, mapping, label_of, after) ==
    /\ label_of = [o \in Ops(t) |-> label_of[o]]
    /\ after = [o \in Ops(t) |-> MovedLabel(labels, mapping, label_of[o])]

(* Either way the factor stays what it is, for the new labels.             *)
LEMMA RegroupedIsGood ==
    ASSUME NEW t, IsTask(t), t.layers = <<>>, NEW labels, NEW label_of, NEW mapping, NEW new,
           NEW f, GoodFactor(t, labels, label_of, f),
           NEW groups, GroupsFollow(labels, mapping, new, f, groups),
           NEW v, IsRegrouped(f, groups, v),
           NEW after, HaveMoved(t, labels, mapping, label_of, after)
    PROVE  /\ GoodFactor(t, new, after, v)
           /\ v.size = f.size /\ v.init = f.init /\ v.g = f.g /\ v.h = f.h
<1>1. /\ v.size = f.size /\ v.init = f.init /\ v.goals = f.goals /\ v.groups = groups
      /\ v.g = f.g /\ v.h = f.h /\ v.value = f.value /\ v.domain_size = f.domain_size
    BY DEF IsRegrouped
<1>2. IsRecord(v)
    BY <1>1 DEF IsRegrouped, IsRecord
<1>3. StatesOf(v) = StatesOf(f) /\ \A s : Alive(v, s) <=> Alive(f, s)
    BY <1>1 DEF StatesOf, Alive
<1>4. IsFactor(t, f) /\ Abstracts(t, label_of, f) /\ CostsFit(labels, f) /\ AreBounds(f)
    BY DEF GoodFactor
<1>5. AreGroups(v.size, v.groups)
    BY <1>1 DEF GroupsFollow
<1>6. IsFactor(t, v)
    BY <1>1, <1>2, <1>3, <1>4, <1>5 DEF IsFactor, IsSystem, Represents
<1>7. Abstracts(t, after, v)
    <2>1. ASSUME NEW s \in States(t), NEW o \in Ops(t), IsApplicable(t, o, s), Alive(v, s),
                 NEW next, next = ReferenceSuccessor(t, o, s), Alive(v, next)
          PROVE  \E y \in v.groups : /\ after[o] \in y.labels
                                     /\ <<v.value[s], v.value[next]>> \in y.transitions
        <3>1. PICK x \in f.groups : /\ label_of[o] \in x.labels
                                    /\ <<f.value[s], f.value[next]>> \in x.transitions
            BY <1>3, <1>4, <2>1 DEF Abstracts
        <3> PICK l : l = label_of[o]
            OBVIOUS
        <3>2. PICK y \in groups : /\ MovedLabel(labels, mapping, l) \in y.labels
                                  /\ x.transitions \subseteq y.transitions
            BY <3>1 DEF GroupsFollow
        <3>3. after[o] = MovedLabel(labels, mapping, l)
            BY DEF HaveMoved
        <3> QED
            BY <1>1, <3>1, <3>2, <3>3
    <2> QED
        BY <1>1, <1>3, <1>4, <2>1 DEF Abstracts
<1>8. CostsFit(new, v)
    BY <1>1 DEF GroupsFollow, CostsFit
<1>9. AreBounds(v)
    <2>1. \A x \in v.groups : \A e \in x.transitions : \E y \in f.groups :
                e \in y.transitions /\ y.cost <= x.cost /\ y.cost \in Nat /\ x.cost \in Nat
        BY <1>1, <1>4, <1>5 DEF GroupsFollow, AreGroups, IsFactor, IsSystem
    <2>2. \A x \in f.groups : \A e \in x.transitions : e[1] \in StatesOf(f) /\ e[2] \in StatesOf(f)
        BY <1>4 DEF IsFactor, IsSystem, AreGroups, StatesOf
    <2>3. ASSUME NEW h, IsGoalBound(f, h)
          PROVE  IsGoalBound(v, h)
        <3>1. ASSUME NEW x \in v.groups, NEW e \in x.transitions
              PROVE  h[e[1]] <= h[e[2]] + x.cost
            <4>1. PICK y \in f.groups : /\ e \in y.transitions /\ y.cost <= x.cost
                                        /\ y.cost \in Nat /\ x.cost \in Nat
                BY <2>1
            <4>2. h[e[1]] <= h[e[2]] + y.cost
                BY <2>3, <4>1 DEF IsGoalBound
            <4>3. e[1] \in StatesOf(f) /\ e[2] \in StatesOf(f)
                BY <2>2, <4>1
            <4>4. h[e[1]] \in Nat /\ h[e[2]] \in Nat
                BY <2>3, <4>3, InfIsNumber DEF IsGoalBound
            <4> QED
                BY <4>1, <4>2, <4>4
        <3> QED
            BY <1>1, <1>3, <2>3, <3>1 DEF IsGoalBound
    <2>4. ASSUME NEW g, IsInitBound(f, g)
          PROVE  IsInitBound(v, g)
        <3>1. ASSUME NEW x \in v.groups, NEW e \in x.transitions
              PROVE  g[e[2]] <= g[e[1]] + x.cost
            <4>1. PICK y \in f.groups : /\ e \in y.transitions /\ y.cost <= x.cost
                                        /\ y.cost \in Nat /\ x.cost \in Nat
                BY <2>1
            <4>2. g[e[2]] <= g[e[1]] + y.cost
                BY <2>4, <4>1 DEF IsInitBound
            <4>3. e[1] \in StatesOf(f) /\ e[2] \in StatesOf(f)
                BY <2>2, <4>1
            <4>4. g[e[1]] \in Nat /\ g[e[2]] \in Nat
                BY <2>4, <4>3, InfIsNumber DEF IsInitBound
            <4> QED
                BY <4>1, <4>2, <4>4
        <3> QED
            BY <1>1, <1>3, <2>4, <3>1 DEF IsInitBound
    <2> QED
        BY <1>1, <1>4, <2>3, <2>4 DEF AreBounds
<1> QED
    BY <1>1, <1>6, <1>7, <1>8, <1>9 DEF GoodFactor

(* So one label reduction keeps a whole system good, and its factors as    *)
(* large as they were.                                                     *)
SameShape(sys, after) ==
    /\ DOMAIN after.factors = DOMAIN sys.factors
    /\ \A i \in DOMAIN sys.factors : /\ after.factors[i].size = sys.factors[i].size
                                     /\ after.factors[i].init = sys.factors[i].init

(* A label reduction for one factor keeps the system good.                 *)
LEMMA ReducedForIsGood ==
    ASSUME NEW t, IsTask(t), t.layers = <<>>, NEW init, NEW goal, NEW sys, GoodFTS(t, init, goal, sys),
           NEW index_
    PROVE  /\ GoodFTS(t, init, goal, ReduceFor(sys, index_))
           /\ SameShape(sys, ReduceFor(sys, index_))
<1> PICK w : w = ReduceFor(sys, index_)
    OBVIOUS
<1> PICK mapping, new, labels, label_of :
        /\ mapping = LabelMapping(sys, index_) /\ new = ReducedLabels(labels, mapping)
        /\ labels = sys.labels /\ label_of = sys.label_of
    OBVIOUS
<1>1. \/ w = sys
      \/ w = ApplyLabelMapping(sys, mapping, index_)
    BY DEF ReduceFor
<1>2. CASE w = sys
    BY <1>2 DEF SameShape
<1>3. CASE w = ApplyLabelMapping(sys, mapping, index_)
    <2>1. /\ labels \in Seq(Nat \cup {REDUCED})
          /\ label_of = [o \in Ops(t) |-> label_of[o]]
          /\ \A o \in Ops(t) : /\ label_of[o] \in CurrentLabels(labels)
                               /\ labels[label_of[o]] = t.operators[o].cost
        BY DEF GoodFTS, LabelsFit
    <2>2. /\ IsLabelMapping(labels, mapping)
          /\ \A j \in DOMAIN sys.factors : j # index_ => IsUniform(sys.factors[j], mapping)
        BY <2>1, LabelMappingParts
    <2>3. AreReduced(labels, mapping, new)
        BY <2>1, <2>2, ReducedLabelsParts
    <2> DEFINE factors == [i \in DOMAIN sys.factors |->
                                IF i = index_ THEN ReduceArbitrary(sys.factors[i], labels, mapping)
                                ELSE ReduceEquivalent(sys.factors[i], labels, mapping)]
               after == [o \in Ops(t) |-> MovedLabel(labels, mapping, label_of[o])]
    <2>4. DOMAIN label_of = Ops(t)
        BY <2>1
    <2>5. w = [labels |-> new, factors |-> factors, label_of |-> after]
        BY <1>3, <2>4 DEF ApplyLabelMapping, MovedLabel
    <2>6. ASSUME NEW i \in DOMAIN sys.factors
          PROVE  /\ GoodFactor(t, new, after, factors[i])
                 /\ factors[i].size = sys.factors[i].size /\ factors[i].init = sys.factors[i].init
                 /\ factors[i].g = sys.factors[i].g /\ factors[i].h = sys.factors[i].h
                 /\ \A vs : LooksAt(t, sys.factors[i], vs) => LooksAt(t, factors[i], vs)
        <3> PICK f, v, aft : f = sys.factors[i] /\ v = factors[i] /\ aft = after
            OBVIOUS
        <3>1. GoodFactor(t, labels, label_of, f)
            BY DEF GoodFTS
        <3>2. IsRecord(f) /\ IsSystem(f) /\ CostsFit(labels, f)
            BY <3>1 DEF GoodFactor, IsFactor
        <3>3. \E groups : IsRegrouped(f, groups, v) /\ GroupsFollow(labels, mapping, new, f, groups)
            <4>1. CASE i = index_
                BY <2>2, <2>3, <3>2, <4>1, ArbitraryGroupsFollow
            <4>2. CASE i # index_
                BY <2>2, <2>3, <3>2, <4>2, EquivalentGroupsFollow
            <4> QED
                BY <4>1, <4>2
        <3>4. PICK groups : IsRegrouped(f, groups, v) /\ GroupsFollow(labels, mapping, new, f, groups)
            BY <3>3
        <3>5. HaveMoved(t, labels, mapping, label_of, aft)
            BY <2>1 DEF HaveMoved
        <3>6. /\ GoodFactor(t, new, aft, v)
              /\ v.size = f.size /\ v.init = f.init /\ v.g = f.g /\ v.h = f.h
              /\ \A vs : LooksAt(t, f, vs) => LooksAt(t, v, vs)
            <4>2. /\ GoodFactor(t, new, aft, v)
                  /\ v.size = f.size /\ v.init = f.init /\ v.g = f.g /\ v.h = f.h
                BY ONLY IsTask(t), t.layers = <<>>, <3>1, <3>4, <3>5, RegroupedIsGood
            <4>3. ASSUME NEW vs, LooksAt(t, f, vs)
                  PROVE  LooksAt(t, v, vs)
                BY <3>4, <4>3 DEF LooksAt, IsRegrouped
            <4> QED
                BY <4>2, <4>3
        <3> QED
            BY <3>6
    <2>7. ASSUME NEW o \in Ops(t)
          PROVE  after[o] \in CurrentLabels(new) /\ new[after[o]] = t.operators[o].cost
        <3> PICK l, moved : l = label_of[o] /\ moved = MovedLabel(labels, mapping, l)
            OBVIOUS
        <3>1. l \in CurrentLabels(labels) /\ labels[l] = t.operators[o].cost
            BY <2>1
        <3>2. \/ l \notin OldLabels(mapping) /\ moved = l
              \/ \E i \in 1 .. Len(mapping) : l \in mapping[i] /\ moved = Len(labels) + i
            <4> PICK m : m = MovedLabel(labels, mapping, l)
                OBVIOUS
            <4>1. \/ l \notin OldLabels(mapping) /\ MovedLabel(labels, mapping, l) = l
                  \/ \E i \in 1 .. Len(mapping) : /\ l \in mapping[i]
                                                  /\ MovedLabel(labels, mapping, l) = Len(labels) + i
                BY ONLY <2>3, MovedLabelParts
            <4> QED
                BY ONLY <4>1, moved = MovedLabel(labels, mapping, l)
        <3>3. moved \in CurrentLabels(new) /\ new[moved] = labels[l]
            BY <2>3, <3>1, <3>2 DEF AreReduced
        <3> QED
            BY <3>1, <3>3
    <2>8. after = [o \in Ops(t) |-> after[o]] /\ factors = [i \in DOMAIN factors |-> factors[i]]
        OBVIOUS
    <2>9. DOMAIN factors = DOMAIN sys.factors
        OBVIOUS
    <2> HIDE DEF after, factors
    <2>10. LabelsFit(t, new, after)
        BY <2>3, <2>7, <2>8 DEF LabelsFit, AreReduced
    <2>11. Independent(t, factors)
        <3>1. PICK vars_of \in [DOMAIN sys.factors -> SUBSET Vars(t)] :
                /\ \A i, j \in DOMAIN sys.factors : i # j => vars_of[i] \cap vars_of[j] = {}
                /\ \A i \in DOMAIN sys.factors : LooksAt(t, sys.factors[i], vars_of[i])
            BY DEF GoodFTS, Independent
        <3>2. \A i \in DOMAIN sys.factors : LooksAt(t, factors[i], vars_of[i])
            BY <2>6, <3>1
        <3> QED
            BY <2>9, <3>1, <3>2 DEF Independent
    <2>12. \A i \in DOMAIN factors : HasDistances(init, goal, factors[i])
        <3>1. \A i \in DOMAIN factors : HasDistances(init, goal, sys.factors[i])
            BY <2>9 DEF GoodFTS
        <3> QED
            BY <2>6, <2>9, <3>1 DEF HasDistances
    <2>13. w.labels = new /\ w.factors = factors /\ w.label_of = after
        BY <2>5
    <2>14. GoodFTS(t, init, goal, w)
        BY <2>5, <2>6, <2>8, <2>9, <2>10, <2>11, <2>12, <2>13 DEF GoodFTS
    <2>15. SameShape(sys, w)
        BY <2>6, <2>9, <2>13 DEF SameShape
    <2> QED
        BY <2>14, <2>15
<1> QED
    BY <1>1, <1>2, <1>3

(* Two reductions after each other keep the shape as well.                 *)
LEMMA SameShapeTwice ==
    ASSUME NEW a, NEW b, NEW c, SameShape(a, b), SameShape(b, c)
    PROVE  SameShape(a, c)
BY DEF SameShape

(* Any number of reductions does.                                          *)
IsGoodAfter(t, init, goal, sys, after) == GoodFTS(t, init, goal, after) /\ SameShape(sys, after)

(* One visit of the loop keeps the system good.                            *)
LEMMA VisitIsGood ==
    ASSUME NEW t, IsTask(t), t.layers = <<>>, NEW init, NEW goal, NEW sys,
           NEW run, IsGoodAfter(t, init, goal, sys, run.fts), NEW i, NEW num
    PROVE  IsGoodAfter(t, init, goal, sys, Visit(run, i, num).fts)
<1>1. CASE run.unsuccessful = num
    BY <1>1 DEF Visit
<1>2. CASE run.unsuccessful # num
    <2> PICK reduced : reduced = ReduceFor(run.fts, i)
        OBVIOUS
    <2>1. Visit(run, i, num).fts = reduced
        BY <1>2 DEF Visit
    <2>2. GoodFTS(t, init, goal, run.fts) /\ SameShape(sys, run.fts)
        BY DEF IsGoodAfter
    <2>3. GoodFTS(t, init, goal, reduced) /\ SameShape(run.fts, reduced)
        BY <2>2, ReducedForIsGood
    <2>4. SameShape(sys, reduced)
        BY ONLY <2>2, <2>3, SameShapeTwice
    <2> QED
        BY <2>1, <2>3, <2>4 DEF IsGoodAfter
<1> QED
    BY <1>1, <1>2

(* The whole loop over the factors does.                                   *)
LEMMA ReducedInOrderIsGood ==
    ASSUME NEW t, IsTask(t), t.layers = <<>>, NEW init, NEW goal, NEW sys, GoodFTS(t, init, goal, sys),
           NEW order, NEW num \in Nat, NEW times \in Nat
    PROVE  IsGoodAfter(t, init, goal, sys, ReduceInOrder(sys, order, num, times))
<1> DEFINE indices == SelectSeq(order, LAMBDA i : i <= num)
           Index(n) == indices[1 + ((n - 1) % num)]
           start == [fts |-> sys, unsuccessful |-> 0]
           Step(run, n) == Visit(run, Index(n), num)
           N == num * times
           visits == CHOOSE g : g = [n \in 0 .. N |-> IF n = 0 THEN start ELSE Step(g[n - 1], n)]
<1>1. N \in Nat
    OBVIOUS
<1>2. ReduceInOrder(sys, order, num, times) = visits[N].fts
    BY DEF ReduceInOrder
<1> HIDE DEF N, start
<1>3. PICK g : g = [n \in 0 .. N |-> IF n = 0 THEN start ELSE Step(g[n - 1], n)]
    <2> DEFINE Is(h, m) == h = [n \in 0 .. m |-> IF n = 0 THEN start ELSE Step(h[n - 1], n)]
    <2> HIDE DEF Step
    <2> PICK Good : Good = {m \in 0 .. N : \E h : Is(h, m)}
        OBVIOUS
    <2>1. 0 \in Good
        <3> PICK h : h = [n \in 0 .. 0 |-> start]
            OBVIOUS
        <3>1. Is(h, 0)
            OBVIOUS
        <3> QED
            BY <3>1, <1>1
    <2>2. ASSUME NEW m \in 1 .. N, m - 1 \in Good
          PROVE  m \in Good
        <3>1. PICK h : Is(h, m - 1)
            BY <2>2
        <3> PICK k : k = [n \in 0 .. m |-> IF n = m THEN Step(h[m - 1], m) ELSE h[n]]
            OBVIOUS
        <3>2. ASSUME NEW n \in 0 .. m
              PROVE  k[n] = IF n = 0 THEN start ELSE Step(k[n - 1], n)
            <4>1. CASE n = m
                <5>1. m - 1 \in 0 .. m /\ m - 1 # m /\ m # 0 /\ m \in 0 .. m
                    BY <1>1
                <5>2. k[m - 1] = h[m - 1] /\ k[m] = Step(h[m - 1], m)
                    BY <5>1
                <5> QED
                    BY <4>1, <5>1, <5>2
            <4>2. CASE n # m
                <5>1. n \in 0 .. m - 1
                    BY <4>2, <1>1
                <5>2. k[n] = h[n]
                    BY <4>2
                <5>3. n = 0 => h[n] = start
                    BY <3>1, <5>1
                <5>4. CASE n # 0
                    <6>1. n - 1 \in 0 .. m /\ n - 1 # m
                        BY <5>1, <5>4, <1>1
                    <6>2. k[n - 1] = h[n - 1]
                        BY <6>1
                    <6>3. h[n] = Step(h[n - 1], n)
                        BY <3>1, <5>1, <5>4
                    <6> QED
                        BY <5>2, <5>4, <6>2, <6>3
                <5> QED
                    BY <5>2, <5>3, <5>4
            <4> QED
                BY <4>1, <4>2
        <3>3. Is(k, m)
            BY <3>2
        <3>4. m \in 0 .. N
            BY <1>1
        <3> HIDE DEF Is
        <3> QED
            BY <3>3, <3>4
    <2>3. N \in Good
        <3>1. N \in 0 .. N
            BY <1>1
        <3> HIDE DEF Is
        <3> QED
            BY <2>1, <2>2, <3>1, UpTo, <1>1
    <2> QED
        BY <2>3
<1>4. visits = [n \in 0 .. N |-> IF n = 0 THEN start ELSE Step(visits[n - 1], n)]
    <2> HIDE DEF Step
    <2> QED
        BY <1>3
<1> HIDE DEF visits
<1> PICK All : All = {n \in 0 .. N : IsGoodAfter(t, init, goal, sys, visits[n].fts)}
    OBVIOUS
<1>5. 0 \in All
    <2>1. 0 \in 0 .. N
        BY <1>1
    <2>2. visits[0] = start
        <3> HIDE DEF Step
        <3> QED
            BY <1>4, <2>1
    <2>3. start.fts = sys
        BY DEF start
    <2>4. IsGoodAfter(t, init, goal, sys, sys)
        BY DEF IsGoodAfter, SameShape
    <2> QED
        BY <2>1, <2>2, <2>3, <2>4
<1>6. ASSUME NEW n \in 1 .. N, n - 1 \in All
      PROVE  n \in All
    <2>1. n \in 0 .. N /\ n # 0
        BY <1>1
    <2> PICK run : run = visits[n - 1]
        OBVIOUS
    <2>2. IsGoodAfter(t, init, goal, sys, run.fts)
        BY <1>6
    <2>3. visits[n] = Step(run, n)
        <3> HIDE DEF Step
        <3> QED
            BY <1>4, <2>1
    <2> PICK i : i = Index(n)
        OBVIOUS
    <2>4. IsGoodAfter(t, init, goal, sys, Visit(run, i, num).fts)
        BY ONLY IsTask(t), t.layers = <<>>, <2>2, VisitIsGood
    <2> QED
        BY <2>1, <2>3, <2>4
<1>7. N \in All
    <2>1. N \in 0 .. N
        BY <1>1
    <2> QED
        BY ONLY <1>1, <1>5, <1>6, <2>1, UpTo
<1> QED
    BY <1>2, <1>7

(* LabelReduction::reduce, whatever the method.                            *)
LEMMA ReducedIsGood ==
    ASSUME NEW t, IsTask(t), t.layers = <<>>, NEW init, NEW goal, NEW sys, GoodFTS(t, init, goal, sys),
           NEW method, NEW order, NEW pair, NEW num \in Nat
    PROVE  /\ GoodFTS(t, init, goal, Reduce(sys, method, order, pair, num))
           /\ SameShape(sys, Reduce(sys, method, order, pair, num))
<1> PICK w : w = Reduce(sys, method, order, pair, num)
    OBVIOUS
<1>1. CASE method = "TWO_TRANSITION_SYSTEMS"
    <2> PICK first : first = ReduceFor(sys, pair[1])
        OBVIOUS
    <2>1. GoodFTS(t, init, goal, first) /\ SameShape(sys, first)
        BY ReducedForIsGood
    <2> PICK second : second = ReduceFor(first, pair[2])
        OBVIOUS
    <2>2. GoodFTS(t, init, goal, second) /\ SameShape(first, second)
        BY <2>1, ReducedForIsGood
    <2>3. SameShape(sys, second)
        BY ONLY <2>1, <2>2, SameShapeTwice
    <2>4. w = second
        BY <1>1 DEF Reduce
    <2> QED
        BY <2>2, <2>3, <2>4
<1>2. CASE method # "TWO_TRANSITION_SYSTEMS"
    <2>1. PICK times \in Nat : w = ReduceInOrder(sys, order, num, times)
        <3>1. CASE method = "ALL_TRANSITION_SYSTEMS"
            BY <1>2, <3>1 DEF Reduce
        <3>2. CASE method # "ALL_TRANSITION_SYSTEMS"
            <4>1. Len(sys.labels) + 2 \in Nat
                BY LenProperties DEF GoodFTS, LabelsFit
            <4>2. w = ReduceInOrder(sys, order, num, Len(sys.labels) + 2)
                BY <1>2, <3>2 DEF Reduce
            <4> QED
                BY <4>1, <4>2
        <3> QED
            BY <3>1, <3>2
    <2>2. IsGoodAfter(t, init, goal, sys, ReduceInOrder(sys, order, num, times))
        BY ReducedInOrderIsGood
    <2> QED
        BY <2>1, <2>2 DEF IsGoodAfter
<1> QED
    BY <1>1, <1>2
-------------------------------------------------------------------------------
(* The atomic factors.  A condition that holds allows the value there is.  *)
LEMMA ConditionAllows ==
    ASSUME NEW cond, NEW v, NEW s, Holds(cond, s)
    PROVE  ConditionOn(cond, v) = {} \/ s[v] \in ConditionOn(cond, v)
<1> SUFFICES ASSUME NEW d \in ConditionOn(cond, v)
             PROVE  s[v] \in ConditionOn(cond, v)
    OBVIOUS
<1>1. PICK c \in cond : c[1] = v /\ d = c[2]
    BY DEF ConditionOn
<1>2. s[v] = d
    BY <1>1 DEF Holds
<1> QED
    BY <1>2

(* All the values that conditions ask for are in the domain.               *)
LEMMA ConditionsAreValues ==
    ASSUME NEW t, IsTask(t), NEW cond, cond \subseteq Facts(t), NEW v \in Vars(t)
    PROVE  ConditionOn(cond, v) \subseteq 0 .. t.domains[v] - 1
<1> SUFFICES ASSUME NEW c \in cond, c[1] = v
             PROVE  c[2] \in 0 .. t.domains[v] - 1
    BY DEF ConditionOn
<1>1. PICK w \in Vars(t), d \in Nat : d < t.domains[w] /\ c = <<w, d>>
    BY FactParts
<1>2. w = v /\ c[2] = d /\ t.domains[v] \in Nat
    BY <1>1, TaskParts
<1> QED
    BY <1>1, <1>2

(* A step of the task is one of the transitions of its operator.           *)
LEMMA AtomicStep ==
    ASSUME NEW t, IsTask(t), t.layers = <<>>, ConsistentConditions(t), NEW v \in Vars(t),
           NEW s \in States(t), NEW o \in Ops(t), IsApplicable(t, o, s),
           NEW next, next = ReferenceSuccessor(t, o, s)
    PROVE  /\ IsRelevant(t, v, o) => <<s[v], next[v]>> \in AtomicTransitions(t, v, o)
           /\ ~IsRelevant(t, v, o) => next[v] = s[v]
<1> DEFINE op == t.operators[o]
           effects == {e \in op.effects : e.var = v}
           hits == {e \in FiringEffects(t, o, s) : e.var = v}
           pre == ConditionOn(op.pre, v)
           dom == 0 .. t.domains[v] - 1
           before == IF pre = {} THEN dom ELSE pre
<1>1. next[v] = IF hits = {} THEN s[v] ELSE (CHOOSE e \in hits : TRUE).val
    <2>1. next = ApplyEffects(t, o, s)
        BY PlainSuccessor
    <2> DEFINE Hits(u) == {e \in FiringEffects(t, o, s) : e.var = u}
    <2>2. ApplyEffects(t, o, s) =
            [u \in Vars(t) |-> IF Hits(u) = {} THEN s[u] ELSE (CHOOSE e \in Hits(u) : TRUE).val]
        BY DEF ApplyEffects
    <2> HIDE DEF Hits
    <2>3. next[v] = IF Hits(v) = {} THEN s[v] ELSE (CHOOSE e \in Hits(v) : TRUE).val
        BY <2>1, <2>2
    <2> QED
        BY <2>3 DEF Hits
<1>2. pre = {} \/ s[v] \in pre
    <2>1. Holds(op.pre, s)
        BY DEF IsApplicable
    <2> QED
        BY ONLY <2>1, ConditionAllows
<1>3. s[v] \in before
    <2>1. s[v] \in Nat /\ s[v] < t.domains[v] /\ t.domains[v] \in Nat
        BY StateParts, TaskParts
    <2>2. s[v] \in dom
        BY ONLY <2>1
    <2> HIDE DEF pre, dom
    <2> QED
        BY <1>2, <2>2
<1>4. hits \subseteq effects /\ \A e \in hits : Holds(e.cond, s)
    BY DEF FiringEffects
<1>5. \A e \in effects : /\ EffectTransitions(t, v, o, e) =
                                {<<d, e.val>> : d \in {x \in before : ConditionOn(e.cond, v) \subseteq {x}}}
                                    \cup {<<d, d>> : d \in {x \in before :
                                            e.cond # {} /\ ((\E c \in e.cond : c[1] # v)
                                                            \/ x \notin ConditionOn(e.cond, v))}}
    BY DEF EffectTransitions
<1>6. AtomicTransitions(t, v, o) =
        IF effects # {} THEN UNION {EffectTransitions(t, v, o, e) : e \in effects}
        ELSE {<<d, d>> : d \in pre}
    BY DEF AtomicTransitions
<1>7. IsRelevant(t, v, o) <=> effects # {} \/ pre # {}
    BY DEF IsRelevant
<1>8. effects = {} => hits = {}
    BY <1>4
<1>9. CASE hits # {}
    <2> PICK e : e = CHOOSE x \in hits : TRUE
        OBVIOUS
    <2>1. e \in effects /\ Holds(e.cond, s) /\ next[v] = e.val
        BY <1>1, <1>4, <1>9
    <2>2. ConditionOn(e.cond, v) \subseteq {s[v]}
        BY <2>1 DEF ConditionOn, Holds
    <2>3. <<s[v], e.val>> \in EffectTransitions(t, v, o, e)
        <3> HIDE DEF before, effects
        <3> QED
            BY <1>3, <1>5, <2>1, <2>2
    <2> HIDE DEF effects
    <2> QED
        BY <1>6, <1>7, <2>1, <2>3
<1>10. CASE hits = {} /\ effects # {}
    <2>1. PICK e \in effects : TRUE
        BY <1>10
    <2>2. ~Holds(e.cond, s)
        BY <1>10 DEF FiringEffects
    <2>3. PICK c \in e.cond : s[c[1]] # c[2]
        BY <2>2 DEF Holds
    <2>4. (\E x \in e.cond : x[1] # v) \/ s[v] \notin ConditionOn(e.cond, v)
        <3> SUFFICES ASSUME \A x \in e.cond : x[1] = v, s[v] \in ConditionOn(e.cond, v)
                     PROVE  FALSE
            OBVIOUS
        <3>1. PICK x \in e.cond : x[2] = s[v]
            BY DEF ConditionOn
        <3>2. x = c
            BY <2>1 DEF ConsistentConditions
        <3> QED
            BY <2>3, <3>1, <3>2
    <2>5. <<s[v], s[v]>> \in EffectTransitions(t, v, o, e)
        <3> HIDE DEF before, effects
        <3> QED
            BY <1>3, <1>5, <2>1, <2>3, <2>4
    <2>6. next[v] = s[v]
        BY <1>1, <1>10
    <2> HIDE DEF effects
    <2> QED
        BY <1>6, <1>7, <2>1, <2>5, <2>6
<1>11. CASE effects = {}
    <2>1. next[v] = s[v]
        BY <1>1, <1>8, <1>11
    <2> HIDE DEF effects, pre
    <2> QED
        BY <1>2, <1>6, <1>7, <1>11, <2>1
<1> QED
    BY <1>9, <1>10, <1>11

(* The transitions stay within the domain.                                 *)
LEMMA AtomicStaysIn ==
    ASSUME NEW t, IsTask(t), NEW v \in Vars(t), NEW o \in Ops(t)
    PROVE  AtomicTransitions(t, v, o) \subseteq (0 .. t.domains[v] - 1) \X (0 .. t.domains[v] - 1)
<1> DEFINE op == t.operators[o]
           effects == {e \in op.effects : e.var = v}
           pre == ConditionOn(op.pre, v)
           dom == 0 .. t.domains[v] - 1
           before == IF pre = {} THEN dom ELSE pre
<1>1. op.pre \subseteq Facts(t) /\ t.domains[v] \in Nat
    BY TaskParts
<1>2. pre \subseteq dom
    BY <1>1, ConditionsAreValues
<1>3. before \subseteq dom
    BY <1>2
<1>4. ASSUME NEW e \in effects
      PROVE  e.val \in dom
    <2>1. e.val \in Nat /\ e.val < t.domains[v]
        BY TaskParts
    <2> QED
        BY <1>1, <2>1
<1>5. ASSUME NEW e \in effects
      PROVE  EffectTransitions(t, v, o, e) \subseteq dom \X dom
    <2>1. EffectTransitions(t, v, o, e) =
                {<<d, e.val>> : d \in {x \in before : ConditionOn(e.cond, v) \subseteq {x}}}
                    \cup {<<d, d>> : d \in {x \in before :
                            e.cond # {} /\ ((\E c \in e.cond : c[1] # v)
                                            \/ x \notin ConditionOn(e.cond, v))}}
        BY DEF EffectTransitions
    <2>2. e.val \in dom
        BY <1>4
    <2> HIDE DEF before, dom
    <2> QED
        BY <1>3, <2>1, <2>2
<1>6. AtomicTransitions(t, v, o) =
        IF effects # {} THEN UNION {EffectTransitions(t, v, o, e) : e \in effects}
        ELSE {<<d, d>> : d \in pre}
    BY DEF AtomicTransitions
<1> HIDE DEF effects, pre, dom
<1>7. AtomicTransitions(t, v, o) \subseteq dom \X dom
    BY <1>2, <1>5, <1>6
<1> QED
    BY <1>7 DEF dom

(* The group of an operator in an atomic factor.                           *)
LEMMA AtomicGroupsParts ==
    ASSUME NEW t, NEW labels, NEW v
    PROVE  /\ \A o \in Ops(t) : IsRelevant(t, v, o) =>
                \E x \in AtomicGroups(t, labels, v) :
                    o \in x.labels /\ x.transitions = AtomicTransitions(t, v, o)
           /\ \A o \in Ops(t) : ~IsRelevant(t, v, o) =>
                \E x \in AtomicGroups(t, labels, v) :
                    /\ o \in x.labels
                    /\ x.transitions = {<<d, d>> : d \in 0 .. t.domains[v] - 1}
           /\ \A x \in AtomicGroups(t, labels, v) : \E members, transitions :
                /\ x = MadeGroup(labels, members, transitions)
                /\ members # {} /\ members \subseteq Ops(t)
                /\ \/ \E o \in Ops(t) : transitions = AtomicTransitions(t, v, o)
                   \/ transitions = {<<d, d>> : d \in 0 .. t.domains[v] - 1}
<1> DEFINE relevant == {o \in Ops(t) : IsRelevant(t, v, o)}
           Same(o) == {x \in relevant : AtomicTransitions(t, v, x) = AtomicTransitions(t, v, o)}
           loops == {<<d, d>> : d \in 0 .. t.domains[v] - 1}
           Made(o) == MadeGroup(labels, Same(o), AtomicTransitions(t, v, o))
           others == MadeGroup(labels, Ops(t) \ relevant, loops)
<1> PICK groups : groups = AtomicGroups(t, labels, v)
    OBVIOUS
<1>1. groups = {Made(o) : o \in relevant} \cup (IF relevant = Ops(t) THEN {} ELSE {others})
    BY DEF AtomicGroups, MadeGroup
<1>2. \A members, tr : /\ MadeGroup(labels, members, tr).labels = members
                       /\ MadeGroup(labels, members, tr).transitions = tr
    BY DEF MadeGroup
<1>3. ASSUME NEW o \in Ops(t), IsRelevant(t, v, o)
      PROVE  \E x \in groups : o \in x.labels /\ x.transitions = AtomicTransitions(t, v, o)
    <2>1. o \in relevant /\ o \in Same(o)
        BY <1>3
    <2> HIDE DEF relevant, Same
    <2>2. Made(o) \in groups
        BY <1>1, <2>1
    <2>3. o \in Made(o).labels /\ Made(o).transitions = AtomicTransitions(t, v, o)
        BY <1>2, <2>1
    <2> HIDE DEF Made
    <2> QED
        BY <2>2, <2>3
<1>4. ASSUME NEW o \in Ops(t), ~IsRelevant(t, v, o)
      PROVE  \E x \in groups : o \in x.labels /\ x.transitions = loops
    <2>1. o \in Ops(t) \ relevant
        BY <1>4
    <2> HIDE DEF relevant, loops
    <2>2. others \in groups
        <3> HIDE DEF Made
        <3> QED
            BY <1>1, <2>1
    <2>3. o \in others.labels /\ others.transitions = loops
        BY <1>2, <2>1
    <2> HIDE DEF others
    <2> QED
        BY <2>2, <2>3
<1>5. ASSUME NEW x \in groups
      PROVE  \E members, transitions :
                /\ x = MadeGroup(labels, members, transitions)
                /\ members # {} /\ members \subseteq Ops(t)
                /\ \/ \E o \in Ops(t) : transitions = AtomicTransitions(t, v, o)
                   \/ transitions = loops
    <2>1. CASE \E o \in relevant : x = Made(o)
        <3>1. PICK o \in relevant : x = Made(o)
            BY <2>1
        <3>2. o \in Ops(t) /\ Same(o) # {} /\ Same(o) \subseteq Ops(t)
            OBVIOUS
        <3> HIDE DEF Same, relevant
        <3> QED
            BY <3>1, <3>2
    <2>2. CASE relevant # Ops(t) /\ x = others
        <3>1. Ops(t) \ relevant # {}
            BY <2>2
        <3> HIDE DEF relevant, loops
        <3> QED
            BY <2>2, <3>1
    <2> HIDE DEF Made, others
    <2> QED
        BY <1>1, <2>1, <2>2
<1> HIDE DEF loops
<1>6. /\ \A o \in Ops(t) : IsRelevant(t, v, o) =>
            \E x \in groups : o \in x.labels /\ x.transitions = AtomicTransitions(t, v, o)
      /\ \A o \in Ops(t) : ~IsRelevant(t, v, o) =>
            \E x \in groups : o \in x.labels /\ x.transitions = loops
      /\ \A x \in groups : \E members, transitions :
            /\ x = MadeGroup(labels, members, transitions)
            /\ members # {} /\ members \subseteq Ops(t)
            /\ \/ \E o \in Ops(t) : transitions = AtomicTransitions(t, v, o)
               \/ transitions = loops
    BY ONLY <1>3, <1>4, <1>5
<1> QED
    BY <1>6 DEF loops

(* At first every operator is its own label.                               *)
OwnLabels(t) == [o \in Ops(t) |-> o]

(* An atomic factor is an abstraction: the projection to its variable.     *)
LEMMA AtomicIsAbstraction ==
    ASSUME NEW t, IsTask(t), t.layers = <<>>, ConsistentConditions(t), NEW v \in Vars(t),
           NEW labels, labels = OperatorCosts(t),
           NEW label_of, label_of = OwnLabels(t),
           NEW f, f = AtomicFactor(t, labels, v)
    PROVE  /\ IsFactor(t, f) /\ Abstracts(t, label_of, f) /\ CostsFit(labels, f)
           /\ f.init # PRUNED_STATE /\ f.size # 0 /\ f.size = t.domains[v]
           /\ f.g = NotComputed /\ f.h = NotComputed /\ LooksAt(t, f, {v})
<1> PICK size : size = t.domains[v]
    OBVIOUS
<1> PICK groups : groups = AtomicGroups(t, labels, v)
    OBVIOUS
<1> PICK goals : goals = IF ConditionOn(t.goal, v) = {} THEN 0 .. size - 1 ELSE ConditionOn(t.goal, v)
    OBVIOUS
<1> PICK value : value = [s \in States(t) |-> s[v]]
    OBVIOUS
<1>1. f = [size |-> size, init |-> t.init[v], goals |-> goals, groups |-> groups,
           g |-> NotComputed, h |-> NotComputed, value |-> value, domain_size |-> size]
    BY DEF AtomicFactor
<1>2. /\ f.size = size /\ f.init = t.init[v] /\ f.goals = goals /\ f.groups = groups
      /\ f.g = NotComputed /\ f.h = NotComputed /\ f.value = value /\ f.domain_size = size
    BY ONLY <1>1
<1>3. IsRecord(f)
    BY <1>1, <1>2 DEF IsRecord
<1>4. size \in Nat /\ size # 0
    BY TaskParts
<1>5. ASSUME NEW s \in States(t)
      PROVE  value[s] = s[v] /\ s[v] \in 0 .. size - 1 /\ s[v] # PRUNED_STATE
    <2>1. s[v] \in Nat /\ s[v] < size
        BY StateParts
    <2> QED
        BY <1>4, <2>1 DEF PRUNED_STATE
<1>6. t.init \in States(t) /\ t.goal \subseteq Facts(t)
    BY TaskParts
<1>7. goals \subseteq 0 .. size - 1
    <2>1. ConditionOn(t.goal, v) \subseteq 0 .. size - 1
        BY <1>6, ConditionsAreValues
    <2> QED
        BY <2>1
<1>8. \A l \in Ops(t) : l \in CurrentLabels(labels) /\ labels[l] \in Nat
    <2>1. \A l \in Ops(t) : l \in DOMAIN labels /\ labels[l] = t.operators[l].cost /\ labels[l] \in Nat
        BY TaskParts DEF OperatorCosts
    <2>2. \A n \in Nat : n # REDUCED
        BY DEF REDUCED
    <2> QED
        BY <2>1, <2>2 DEF CurrentLabels
<1>9. ASSUME NEW x \in groups
      PROVE  /\ x = [labels |-> x.labels, cost |-> x.cost, transitions |-> x.transitions]
             /\ x.cost \in Nat
             /\ x.transitions \subseteq (0 .. size - 1) \X (0 .. size - 1)
             /\ \A l \in x.labels : l \in Ops(t) /\ x.cost <= labels[l]
    <2>1. PICK members, tr :
            /\ x = MadeGroup(labels, members, tr)
            /\ members # {} /\ members \subseteq Ops(t)
            /\ \/ \E o \in Ops(t) : tr = AtomicTransitions(t, v, o)
               \/ tr = {<<d, d>> : d \in 0 .. size - 1}
        BY AtomicGroupsParts
    <2>2. tr \subseteq (0 .. size - 1) \X (0 .. size - 1)
        BY <2>1, AtomicStaysIn
    <2>3. /\ GroupCost(labels, members) \in Nat
          /\ \A l \in members : GroupCost(labels, members) <= labels[l]
        <3>1. \A l \in members : labels[l] \in Nat
            BY <1>8, <2>1
        <3> QED
            BY ONLY <2>1, <3>1, GroupCostParts
    <2> QED
        BY <2>1, <2>2, <2>3 DEF MadeGroup
<1>10. IsSystem(f)
    <2>1. AreGroups(size, groups)
        BY <1>9 DEF AreGroups
    <2>2. StatesOf(f) = 0 .. size - 1
        BY <1>2 DEF StatesOf
    <2> QED
        BY <1>2, <1>4, <1>5, <1>6, <1>7, <2>1, <2>2 DEF IsSystem
<1>11. Represents(t, f)
    <2>1. StatesOf(f) = 0 .. size - 1
        BY <1>2 DEF StatesOf
    <2>2. value \in [States(t) -> (0 .. size - 1) \cup {PRUNED_STATE}]
        BY <1>5
    <2>3. ASSUME NEW d \in 0 .. size - 1
          PROVE  \E s \in States(t) : value[s] = d
        <3> PICK s : s = [u \in Vars(t) |-> IF u = v THEN d ELSE t.init[u]]
            OBVIOUS
        <3>1. \A u \in Vars(t) : t.init[u] \in Nat /\ t.init[u] < t.domains[u]
            BY <1>6, StateParts
        <3>2. d \in Nat /\ d < size
            BY <1>4
        <3>3. \A u \in Vars(t) : s[u] \in Nat /\ s[u] < t.domains[u]
            BY <3>1, <3>2
        <3>4. s \in States(t)
            BY <3>3, StateParts
        <3> QED
            BY <1>5, <3>4
    <2> QED
        BY <1>2, <2>1, <2>2, <2>3 DEF Represents
<1>12. Abstracts(t, label_of, f)
    <2>1. f.init = f.value[t.init]
        BY <1>2, <1>5, <1>6
    <2>2. ASSUME NEW s \in States(t)
          PROVE  Alive(f, s) /\ (IsGoalState(t, s) => f.value[s] \in f.goals)
        <3>1. Alive(f, s) /\ f.value[s] = s[v]
            BY <1>2, <1>5 DEF Alive
        <3>2. ASSUME IsGoalState(t, s)
              PROVE  s[v] \in goals
            <4>1. Holds(t.goal, s)
                BY <3>2 DEF IsGoalState
            <4>2. ConditionOn(t.goal, v) = {} \/ s[v] \in ConditionOn(t.goal, v)
                BY ONLY <4>1, ConditionAllows
            <4> QED
                BY <1>5, <4>2
        <3> QED
            BY <1>2, <3>1, <3>2
    <2>3. ASSUME NEW s \in States(t), NEW o \in Ops(t), IsApplicable(t, o, s),
                 NEW next, next = ReferenceSuccessor(t, o, s)
          PROVE  \E x \in f.groups : /\ label_of[o] \in x.labels
                                     /\ <<f.value[s], f.value[next]>> \in x.transitions
        <3>1. next \in States(t)
            BY <2>3, SuccessorIsState
        <3>2. f.value[s] = s[v] /\ f.value[next] = next[v] /\ label_of[o] = o
            BY <1>2, <1>5, <3>1 DEF OwnLabels
        <3>3. /\ IsRelevant(t, v, o) => <<s[v], next[v]>> \in AtomicTransitions(t, v, o)
              /\ ~IsRelevant(t, v, o) => next[v] = s[v]
            BY <2>3, AtomicStep
        <3>4. CASE IsRelevant(t, v, o)
            <4>1. PICK x \in groups : o \in x.labels /\ x.transitions = AtomicTransitions(t, v, o)
                BY <3>4, AtomicGroupsParts
            <4> QED
                BY <1>2, <3>2, <3>3, <3>4, <4>1
        <3>5. CASE ~IsRelevant(t, v, o)
            <4>1. PICK x \in groups : o \in x.labels /\ x.transitions = {<<d, d>> : d \in 0 .. size - 1}
                BY <3>5, AtomicGroupsParts
            <4>2. <<s[v], s[v]>> \in x.transitions
                BY <1>5, <4>1
            <4> QED
                BY <1>2, <3>2, <3>3, <3>5, <4>1, <4>2
        <3> QED
            BY <3>4, <3>5
    <2> QED
        BY <2>1, <2>2, <2>3 DEF Abstracts
<1>13. CostsFit(labels, f)
    BY <1>2, <1>8, <1>9 DEF CostsFit
<1>14. LooksAt(t, f, {v})
    BY <1>2, <1>5 DEF LooksAt, Agree
<1>15. f.init # PRUNED_STATE
    BY <1>2, <1>5, <1>6
<1> QED
    BY <1>2, <1>3, <1>4, <1>10, <1>11, <1>12, <1>13, <1>14, <1>15 DEF IsFactor

(* The factored transition system that there is first.                     *)
LEMMA CreatedIsGood ==
    ASSUME NEW t, IsTask(t), t.layers = <<>>, ConsistentConditions(t),
           NEW init \in BOOLEAN, NEW goal \in BOOLEAN,
           NEW sys, sys = CreateFTS(t, init, goal)
    PROVE  /\ GoodFTS(t, init, goal, sys)
           /\ DOMAIN sys.factors = 1 .. Len(t.domains) /\ Len(t.domains) \in Nat
           /\ \A i \in DOMAIN sys.factors : /\ sys.factors[i].init # PRUNED_STATE
                                            /\ sys.factors[i].size = t.domains[i]
<1> PICK labels : labels = OperatorCosts(t)
    OBVIOUS
<1> PICK label_of : label_of = OwnLabels(t)
    OBVIOUS
<1> PICK factors : factors = [v \in Vars(t) |-> ComputeDistances(AtomicFactor(t, labels, v), init, goal)]
    OBVIOUS
<1>1. sys = [labels |-> labels, factors |-> factors, label_of |-> label_of]
    BY DEF CreateFTS, OperatorCosts, OwnLabels
<1>2. sys.labels = labels /\ sys.factors = factors /\ sys.label_of = label_of
    BY <1>1
<1>3. Vars(t) = 1 .. Len(t.domains) /\ Len(t.domains) \in Nat
    BY TaskParts
<1>4. ASSUME NEW v \in Vars(t)
      PROVE  /\ GoodFactor(t, labels, label_of, factors[v])
             /\ HasDistances(init, goal, factors[v])
             /\ factors[v].init # PRUNED_STATE /\ factors[v].size = t.domains[v]
             /\ LooksAt(t, factors[v], {v})
    <2> PICK f : f = AtomicFactor(t, labels, v)
        OBVIOUS
    <2> PICK w : w = ComputeDistances(f, init, goal)
        OBVIOUS
    <2>1. /\ IsFactor(t, f) /\ Abstracts(t, label_of, f) /\ CostsFit(labels, f)
          /\ f.init # PRUNED_STATE /\ f.size # 0 /\ f.size = t.domains[v]
          /\ f.g = NotComputed /\ f.h = NotComputed /\ LooksAt(t, f, {v})
        BY AtomicIsAbstraction
    <2>2. GoodFactor(t, labels, label_of, w)
        BY <2>1, ComputedIsGood
    <2>3. HasDistances(init, goal, w)
        BY <2>1, ComputedHasDistances
    <2>4. IsRecord(f)
        BY <2>1 DEF IsFactor
    <2>5. SameSystem(f, w)
        BY <2>4, ComputedParts
    <2>6. w.init = f.init /\ w.size = f.size /\ w.value = f.value
        BY <2>5 DEF SameSystem
    <2>7. LooksAt(t, w, {v})
        BY <2>1, <2>6 DEF LooksAt
    <2>8. factors[v] = w
        OBVIOUS
    <2> QED
        BY <2>1, <2>2, <2>3, <2>6, <2>7, <2>8
<1>5. LabelsFit(t, labels, label_of)
    <2>1. /\ Ops(t) = 1 .. Len(t.operators) /\ Len(t.operators) \in Nat
          /\ \A o \in Ops(t) : t.operators[o].cost \in Nat
        BY TaskParts
    <2>2. labels \in [1 .. Len(t.operators) -> Nat \cup {REDUCED}]
        BY <2>1 DEF OperatorCosts
    <2>3. labels \in Seq(Nat \cup {REDUCED})
        BY ONLY <2>1, <2>2, SeqDef
    <2>4. \A o \in Ops(t) : label_of[o] = o /\ labels[o] = t.operators[o].cost /\ o \in DOMAIN labels
        BY DEF OperatorCosts, OwnLabels
    <2>5. \A n \in Nat : n # REDUCED
        BY DEF REDUCED
    <2>6. \A o \in Ops(t) : label_of[o] \in CurrentLabels(labels)
        BY <2>1, <2>4, <2>5 DEF CurrentLabels
    <2> QED
        BY <2>3, <2>4, <2>6 DEF LabelsFit, OwnLabels
<1>6. DOMAIN factors = Vars(t) /\ factors = [i \in Vars(t) |-> factors[i]]
    OBVIOUS
<1>7. Independent(t, factors)
    <2> PICK vars_of : vars_of = [v \in Vars(t) |-> {v}]
        OBVIOUS
    <2>1. vars_of \in [DOMAIN factors -> SUBSET Vars(t)]
        BY <1>6
    <2>2. \A i, j \in Vars(t) : i # j => vars_of[i] \cap vars_of[j] = {}
        OBVIOUS
    <2>3. \A i \in Vars(t) : LooksAt(t, factors[i], vars_of[i])
        BY <1>4
    <2> QED
        BY <1>6, <2>1, <2>2, <2>3 DEF Independent
<1>8. GoodFTS(t, init, goal, sys)
    BY <1>1, <1>2, <1>4, <1>5, <1>6, <1>7 DEF GoodFTS
<1> QED
    BY <1>2, <1>3, <1>4, <1>6, <1>8
-------------------------------------------------------------------------------
(* The limits.  What there is left of a number in a division.              *)
LEMMA Quotient ==
    ASSUME NEW a \in Nat, NEW b \in Nat, b # 0
    PROVE  a \div b \in Nat /\ (a \div b) * b <= a /\ a < (a \div b) * b + b
OBVIOUS

(* Larger factors have a larger product.                                   *)
LEMMA MoreTimesMore ==
    ASSUME NEW a \in Nat, NEW b \in Nat, NEW c \in Nat, NEW d \in Nat, a <= c, b <= d
    PROVE  a * b \in Nat /\ a * b <= c * d
<1>1. a * b <= a * d
    OBVIOUS
<1>2. a * d <= c * d
    OBVIOUS
<1>3. a * b \in Int /\ a * d \in Int /\ c * d \in Int
    OBVIOUS
<1>4. a * b <= c * d
    BY ONLY <1>1, <1>2, <1>3
<1> QED
    BY <1>4

(* The square root is rounded down, so that its square is within the limit. *)
LEMMA SquareRootParts ==
    ASSUME NEW n \in Nat, n # 0
    PROVE  /\ SquareRoot(n) \in Nat /\ SquareRoot(n) # 0 /\ SquareRoot(n) <= n
           /\ SquareRoot(n) * SquareRoot(n) <= n
<1> PICK S : S = {r \in 0 .. n : n < (r + 1) * (r + 1)}
    OBVIOUS
<1>1. n \in S
    <2>1. n + 1 <= (n + 1) * (n + 1)
        OBVIOUS
    <2> QED
        BY <2>1
<1>2. PICK r \in S : \A x \in S : r <= x
    <2>1. S \in SUBSET Nat
        OBVIOUS
    <2> QED
        BY ONLY <1>1, <2>1, SmallestNumber
<1>3. r \in 0 .. n /\ n < (r + 1) * (r + 1)
    OBVIOUS
<1>4. r * r <= n
    <2>1. CASE r = 0
        BY <2>1
    <2>2. CASE r # 0
        <3>1. r - 1 \in 0 .. n /\ r - 1 \notin S /\ (r - 1) + 1 = r
            BY <1>2, <1>3, <2>2
        <3>2. ~(n < ((r - 1) + 1) * ((r - 1) + 1))
            BY <3>1
        <3>3. ~(n < r * r)
            BY <3>1, <3>2
        <3> QED
            BY <1>3, <3>3
    <2> QED
        BY <2>1, <2>2
<1>5. n \div (r + 1) < r + 1
    <2> PICK m, q : m = r + 1 /\ q = n \div m
        OBVIOUS
    <2>1. m \in Nat /\ m # 0 /\ n < m * m
        BY <1>3
    <2>2. q \in Nat /\ q * m <= n
        BY <2>1, Quotient
    <2>3. ASSUME m <= q
          PROVE  FALSE
        <3>1. m * m <= q * m
            BY ONLY <2>1, <2>2, <2>3, MoreTimesMore
        <3>2. m * m \in Int /\ q * m \in Int
            BY ONLY <2>1, <2>2
        <3> QED
            BY ONLY <2>1, <2>2, <3>1, <3>2, n \in Nat
    <2> QED
        BY <2>1, <2>2, <2>3
<1> PICK s : s = SquareRoot(n)
    OBVIOUS
<1>6. s \in 0 .. n /\ s * s <= n /\ n \div (s + 1) < s + 1
    BY <1>3, <1>4, <1>5 DEF SquareRoot
<1>7. s # 0
    <2> SUFFICES ASSUME s = 0
                 PROVE  FALSE
        OBVIOUS
    <2>1. n \div 1 < 1
        BY <1>6
    <2>2. n \div 1 = n
        OBVIOUS
    <2> QED
        BY <2>1, <2>2
<1> QED
    BY <1>6, <1>7

(* The sizes of two factors before they are merged: a product that is no   *)
(* larger than the limit.                                                  *)
LEMMA ShrinkSizesParts ==
    ASSUME NEW size1 \in Nat, size1 # 0, NEW size2 \in Nat, size2 # 0,
           NEW lim, lim.max_states \in Nat, lim.max_states # 0,
           lim.max_states_before_merge \in Nat, lim.max_states_before_merge # 0
    PROVE  \E t1, t2 \in Nat \ {0} :
                /\ ShrinkSizes(size1, size2, lim) = <<t1, t2>>
                /\ t1 <= lim.max_states_before_merge /\ t2 <= lim.max_states_before_merge
                /\ t1 * t2 <= lim.max_states
<1> PICK before, max : before = lim.max_states_before_merge /\ max = lim.max_states
    OBVIOUS
<1> PICK new1, new2 : new1 = Min({size1, before}) /\ new2 = Min({size2, before})
    OBVIOUS
<1> PICK balanced : balanced = SquareRoot(max)
    OBVIOUS
<1>1. ASSUME NEW size \in Nat, size # 0
      PROVE  Min({size, before}) \in Nat /\ Min({size, before}) # 0 /\ Min({size, before}) <= before
    <2> PICK S : S = {size, before}
        OBVIOUS
    <2>1. S \in SUBSET Nat /\ S # {}
        OBVIOUS
    <2>2. Min(S) \in S /\ \A m \in S : Min(S) <= m
        BY ONLY <2>1, MinIsMember
    <2> QED
        BY <1>1, <2>2
<1>2. /\ new1 \in Nat /\ new1 # 0 /\ new1 <= before
      /\ new2 \in Nat /\ new2 # 0 /\ new2 <= before
    BY <1>1
<1>3. balanced \in Nat /\ balanced # 0 /\ balanced <= max /\ balanced * balanced <= max
    BY SquareRootParts
<1>4. ShrinkSizes(size1, size2, lim) =
        IF new1 <= max \div new2 THEN <<new1, new2>>
        ELSE IF new1 <= balanced THEN <<new1, max \div new1>>
        ELSE IF new2 <= balanced THEN <<max \div new2, new2>>
        ELSE <<balanced, balanced>>
    BY DEF ShrinkSizes
<1>5. max \in Nat /\ before \in Nat
    OBVIOUS
<1>6. /\ max \div new2 \in Nat /\ (max \div new2) * new2 <= max /\ max < (max \div new2) * new2 + new2
      /\ max \div new1 \in Nat /\ (max \div new1) * new1 <= max /\ max < (max \div new1) * new1 + new1
    BY ONLY <1>2, <1>5, Quotient
<1> PICK q1, q2 : q1 = max \div new1 /\ q2 = max \div new2
    OBVIOUS
<1>7. /\ q2 \in Nat /\ q2 * new2 <= max /\ max < q2 * new2 + new2
      /\ q1 \in Nat /\ q1 * new1 <= max /\ max < q1 * new1 + new1
    BY <1>6
<1>8. CASE new1 <= q2
    <2>1. new1 * new2 \in Nat /\ new1 * new2 <= q2 * new2
        BY ONLY <1>2, <1>7, <1>8, MoreTimesMore
    <2>2. new1 * new2 <= max
        <3>1. q2 * new2 \in Int
            BY ONLY <1>2, <1>7
        <3> QED
            BY ONLY <1>5, <1>7, <2>1, <3>1
    <2>3. ShrinkSizes(size1, size2, lim) = <<new1, new2>>
        BY <1>4, <1>8
    <2> QED
        BY <1>2, <2>2, <2>3
<1>9. ASSUME NEW a \in Nat, a # 0, NEW b \in Nat, b # 0, NEW q \in Nat, q * a <= max, max < q * a + a,
             a <= balanced, NEW p \in Nat, max < p * b + b, p < a
      PROVE  q # 0 /\ q <= b
    <2>1. q # 0
        <3> SUFFICES ASSUME q = 0
                     PROVE  FALSE
            OBVIOUS
        <3>1. q * a = 0
            OBVIOUS
        <3> QED
            BY <1>3, <1>5, <1>9, <3>1
    <2>2. max < a * b
        <3>1. (p + 1) * b <= a * b
            <4>1. p + 1 \in Nat /\ p + 1 <= a
                BY <1>9
            <4>2. b <= b
                OBVIOUS
            <4> QED
                BY ONLY a \in Nat, b \in Nat, <4>1, <4>2, MoreTimesMore
        <3>2. (p + 1) * b = p * b + b
            OBVIOUS
        <3>3. p * b \in Int /\ a * b \in Int
            OBVIOUS
        <3> QED
            BY <1>5, <1>9, <3>1, <3>2, <3>3
    <2>3. q <= b
        <3> SUFFICES ASSUME b <= q
                     PROVE  FALSE \/ q <= b
            OBVIOUS
        <3>1. b * a <= q * a
            <4>1. a <= a
                OBVIOUS
            <4> QED
                BY ONLY a \in Nat, b \in Nat, q \in Nat, b <= q, <4>1, MoreTimesMore
        <3>2. b * a = a * b /\ b * a \in Int /\ q * a \in Int
            OBVIOUS
        <3> QED
            BY <1>5, <1>9, <2>2, <3>1, <3>2
    <2> QED
        BY <2>1, <2>3
<1>10. CASE ~(new1 <= q2) /\ new1 <= balanced
    <2>1. q2 < new1
        BY <1>2, <1>7, <1>10
    <2>2. q1 # 0 /\ q1 <= new2
        BY ONLY <1>2, <1>7, <1>9, <1>10, <2>1
    <2>3. ShrinkSizes(size1, size2, lim) = <<new1, q1>>
        BY <1>4, <1>10
    <2>4. new1 * q1 = q1 * new1
        BY ONLY <1>2, <1>7
    <2>5. q1 <= before
        BY ONLY <1>2, <1>5, <1>7, <2>2
    <2> QED
        BY <1>2, <1>7, <2>2, <2>3, <2>4, <2>5
<1>11. CASE ~(new1 <= q2) /\ ~(new1 <= balanced) /\ new2 <= balanced
    <2>1. q2 < new1 /\ q1 < new2
        <3>1. q2 < new1
            BY <1>2, <1>7, <1>11
        <3>2. ASSUME new2 <= q1
              PROVE  FALSE
            <4>1. new2 * new1 <= q1 * new1
                <5>1. new1 <= new1
                    BY ONLY <1>2
                <5> QED
                    BY ONLY <1>2, <1>7, <3>2, <5>1, MoreTimesMore
            <4>2. (q2 + 1) * new2 <= new1 * new2
                <5>1. q2 + 1 \in Nat /\ q2 + 1 <= new1 /\ new2 <= new2
                    BY ONLY <1>2, <1>7, <3>1
                <5> QED
                    BY ONLY <1>2, <5>1, MoreTimesMore
            <4>3. /\ (q2 + 1) * new2 = q2 * new2 + new2 /\ new2 * new1 = new1 * new2
                  /\ new1 * new2 \in Int /\ q1 * new1 \in Int /\ q2 * new2 \in Int
                BY ONLY <1>2, <1>7
            <4> QED
                BY ONLY <1>2, <1>5, <1>7, <4>1, <4>2, <4>3
        <3> QED
            BY <1>2, <1>7, <3>1, <3>2
    <2>2. q2 # 0 /\ q2 <= new1
        BY ONLY <1>2, <1>7, <1>9, <1>11, <2>1
    <2>3. ShrinkSizes(size1, size2, lim) = <<q2, new2>>
        BY <1>4, <1>11
    <2>4. q2 <= before
        BY ONLY <1>2, <1>5, <1>7, <2>2
    <2> QED
        BY <1>2, <1>7, <2>2, <2>3, <2>4
<1>12. CASE ~(new1 <= q2) /\ ~(new1 <= balanced) /\ ~(new2 <= balanced)
    <2>1. ShrinkSizes(size1, size2, lim) = <<balanced, balanced>>
        BY <1>4, <1>12
    <2>2. balanced <= before
        BY ONLY <1>2, <1>3, <1>5, <1>12
    <2> QED
        BY <1>3, <2>1, <2>2
<1> QED
    BY ONLY <1>8, <1>10, <1>11, <1>12
-------------------------------------------------------------------------------
(* The steps of the loop.  One factor is replaced by what follows from it. *)
Replaced(sys, i, v) == [sys EXCEPT !.factors = [@ EXCEPT ![i] = v]]

(* The system stays good, with the same labels.                            *)
LEMMA ReplacedIsGood ==
    ASSUME NEW t, NEW init, NEW goal, NEW sys, GoodFTS(t, init, goal, sys),
           NEW i \in DOMAIN sys.factors, sys.factors[i].init # PRUNED_STATE,
           NEW v, Follows(t, sys.labels, sys.label_of, sys.factors[i], v)
    PROVE  /\ GoodFTS(t, init, goal, Replaced(sys, i, v))
           /\ Replaced(sys, i, v).labels = sys.labels
           /\ Replaced(sys, i, v).label_of = sys.label_of
           /\ DOMAIN Replaced(sys, i, v).factors = DOMAIN sys.factors
           /\ Replaced(sys, i, v).factors[i] = v
           /\ \A j \in DOMAIN sys.factors : j # i => Replaced(sys, i, v).factors[j] = sys.factors[j]
<1> PICK w : w = Replaced(sys, i, v)
    OBVIOUS
<1> PICK factors : factors = [sys.factors EXCEPT ![i] = v]
    OBVIOUS
<1>1. /\ sys = [labels |-> sys.labels, factors |-> sys.factors, label_of |-> sys.label_of]
      /\ sys.factors = [j \in DOMAIN sys.factors |-> sys.factors[j]]
    BY DEF GoodFTS
<1>2. w = [sys EXCEPT !.factors = factors]
    BY DEF Replaced
<1>3. w = [labels |-> sys.labels, factors |-> factors, label_of |-> sys.label_of]
    BY ONLY <1>1, <1>2
<1>4. w.labels = sys.labels /\ w.factors = factors /\ w.label_of = sys.label_of
    BY ONLY <1>3
<1>5. /\ DOMAIN factors = DOMAIN sys.factors /\ factors[i] = v
      /\ \A j \in DOMAIN sys.factors : j # i => factors[j] = sys.factors[j]
      /\ factors = [j \in DOMAIN factors |-> factors[j]]
    BY <1>1
<1> PICK f : f = sys.factors[i]
    OBVIOUS
<1>6. /\ LabelsFit(t, sys.labels, sys.label_of)
      /\ \A j \in DOMAIN sys.factors : /\ GoodFactor(t, sys.labels, sys.label_of, sys.factors[j])
                                       /\ HasDistances(init, goal, sys.factors[j])
      /\ Independent(t, sys.factors)
    BY DEF GoodFTS
<1>7. HasDistances(init, goal, v)
    <2>1. f.size # 0
        <3>1. f.init \in 0 .. f.size - 1
            BY <1>6 DEF GoodFactor, IsFactor, IsSystem, StatesOf
        <3>2. f.size \in Nat
            BY <1>6 DEF GoodFactor, IsFactor, IsSystem
        <3> QED
            BY <3>1, <3>2
    <2>2. (init => f.g # NotComputed) /\ (goal => f.h # NotComputed)
        BY <1>6, <2>1 DEF HasDistances
    <2> QED
        BY <2>2 DEF HasDistances, Follows
<1>8. Independent(t, factors)
    <2>1. PICK vars_of \in [DOMAIN sys.factors -> SUBSET Vars(t)] :
            /\ \A k, j \in DOMAIN sys.factors : k # j => vars_of[k] \cap vars_of[j] = {}
            /\ \A j \in DOMAIN sys.factors : LooksAt(t, sys.factors[j], vars_of[j])
        BY <1>6 DEF Independent
    <2>2. LooksAt(t, v, vars_of[i])
        BY <2>1 DEF Follows
    <2>3. \A j \in DOMAIN sys.factors : LooksAt(t, factors[j], vars_of[j])
        BY <1>5, <2>1, <2>2
    <2> QED
        BY <1>5, <2>1, <2>3 DEF Independent
<1>9. ASSUME NEW j \in DOMAIN factors
      PROVE  GoodFactor(t, sys.labels, sys.label_of, factors[j]) /\ HasDistances(init, goal, factors[j])
    BY <1>5, <1>6, <1>7 DEF Follows
<1>10. GoodFTS(t, init, goal, w)
    BY <1>3, <1>4, <1>5, <1>6, <1>8, <1>9 DEF GoodFTS
<1> QED
    BY <1>4, <1>5, <1>10

(* Two factors are replaced by their product.                              *)
Joined(sys, i, j, n, merged) ==
    [sys EXCEPT !.factors = [k \in (DOMAIN @ \ {i, j}) \cup {n} |-> IF k = n THEN merged ELSE @[k]]]

(* The system stays good, and the merged factor is as large as the product. *)
LEMMA JoinedIsGood ==
    ASSUME NEW t, IsTask(t), t.layers = <<>>, NEW init \in BOOLEAN, NEW goal \in BOOLEAN,
           NEW sys, GoodFTS(t, init, goal, sys),
           NEW i \in DOMAIN sys.factors, NEW j \in DOMAIN sys.factors, i # j,
           sys.factors[i].init # PRUNED_STATE, sys.factors[j].init # PRUNED_STATE,
           NEW n, n \notin DOMAIN sys.factors,
           NEW merged, merged = ComputeDistances(
                            MergeFactors(sys.labels, sys.factors[i], sys.factors[j]), init, goal)
    PROVE  /\ GoodFTS(t, init, goal, Joined(sys, i, j, n, merged))
           /\ DOMAIN Joined(sys, i, j, n, merged).factors = (DOMAIN sys.factors \ {i, j}) \cup {n}
           /\ Joined(sys, i, j, n, merged).factors[n] = merged
           /\ merged.init # PRUNED_STATE /\ merged.size = sys.factors[i].size * sys.factors[j].size
           /\ \A k \in DOMAIN sys.factors \ {i, j} :
                Joined(sys, i, j, n, merged).factors[k] = sys.factors[k]
<1> PICK w : w = Joined(sys, i, j, n, merged)
    OBVIOUS
<1> PICK dom : dom = (DOMAIN sys.factors \ {i, j}) \cup {n}
    OBVIOUS
<1> PICK factors : factors = [k \in dom |-> IF k = n THEN merged ELSE sys.factors[k]]
    OBVIOUS
<1>1. sys = [labels |-> sys.labels, factors |-> sys.factors, label_of |-> sys.label_of]
    BY DEF GoodFTS
<1>2. w = [sys EXCEPT !.factors = factors]
    BY DEF Joined
<1>3. w = [labels |-> sys.labels, factors |-> factors, label_of |-> sys.label_of]
    BY ONLY <1>1, <1>2
<1>4. w.labels = sys.labels /\ w.factors = factors /\ w.label_of = sys.label_of
    BY ONLY <1>3
<1>5. /\ DOMAIN factors = dom /\ factors[n] = merged
      /\ \A k \in dom : k # n => k \in DOMAIN sys.factors /\ k # i /\ k # j /\ factors[k] = sys.factors[k]
      /\ factors = [k \in DOMAIN factors |-> factors[k]]
    OBVIOUS
<1>6. /\ LabelsFit(t, sys.labels, sys.label_of)
      /\ \A k \in DOMAIN sys.factors : /\ GoodFactor(t, sys.labels, sys.label_of, sys.factors[k])
                                       /\ HasDistances(init, goal, sys.factors[k])
      /\ Independent(t, sys.factors)
    BY DEF GoodFTS
<1> PICK f1, f2 : f1 = sys.factors[i] /\ f2 = sys.factors[j]
    OBVIOUS
<1>7. PICK vars_of \in [DOMAIN sys.factors -> SUBSET Vars(t)] :
        /\ \A k, l \in DOMAIN sys.factors : k # l => vars_of[k] \cap vars_of[l] = {}
        /\ \A k \in DOMAIN sys.factors : LooksAt(t, sys.factors[k], vars_of[k])
    BY <1>6 DEF Independent
<1> PICK labels, label_of : labels = sys.labels /\ label_of = sys.label_of
    OBVIOUS
<1> PICK v : v = MergeFactors(labels, f1, f2)
    OBVIOUS
<1> PICK vs1, vs2 : vs1 = vars_of[i] /\ vs2 = vars_of[j]
    OBVIOUS
<1>8. /\ GoodFactor(t, labels, label_of, f1) /\ GoodFactor(t, labels, label_of, f2)
      /\ f1.init # PRUNED_STATE /\ f2.init # PRUNED_STATE
      /\ vs1 \subseteq Vars(t) /\ vs2 \subseteq Vars(t) /\ vs1 \cap vs2 = {}
      /\ LooksAt(t, f1, vs1) /\ LooksAt(t, f2, vs2)
    BY <1>6, <1>7
<1>9. IsRecord(v) /\ IsMerged(labels, f1, f2, v)
    <2>1. Represents(t, f1) /\ Represents(t, f2)
        BY <1>8 DEF GoodFactor, IsFactor
    <2> QED
        BY <2>1, MergedParts
<1>10. /\ IsFactor(t, v) /\ Abstracts(t, label_of, v) /\ CostsFit(labels, v)
       /\ v.init # PRUNED_STATE /\ LooksAt(t, v, vs1 \cup vs2)
    BY ONLY IsTask(t), t.layers = <<>>, <1>8, <1>9, MergedIsAbstraction
<1>11. v.g = NotComputed /\ v.h = NotComputed /\ v.size = f1.size * f2.size
    BY <1>9 DEF IsMerged
<1>12. GoodFactor(t, labels, label_of, merged) /\ HasDistances(init, goal, merged)
    BY <1>10, <1>11, ComputedIsGood, ComputedHasDistances
<1>13. SameSystem(v, merged)
    BY <1>9, ComputedParts
<1>14. merged.init # PRUNED_STATE /\ merged.size = f1.size * f2.size /\ merged.value = v.value
    BY <1>10, <1>11, <1>13 DEF SameSystem
<1>15. LooksAt(t, merged, vs1 \cup vs2)
    BY <1>10, <1>14 DEF LooksAt
<1>16. Independent(t, factors)
    <2> PICK vs : vs = [k \in dom |-> IF k = n THEN vs1 \cup vs2 ELSE vars_of[k]]
        OBVIOUS
    <2>1. vs \in [dom -> SUBSET Vars(t)]
        BY <1>5, <1>7, <1>8
    <2>2. ASSUME NEW k \in dom, NEW l \in dom, k # l
          PROVE  vs[k] \cap vs[l] = {}
        <3>1. ASSUME NEW x \in dom, x # n
              PROVE  vs[x] \cap (vs1 \cup vs2) = {}
            <4>1. x \in DOMAIN sys.factors /\ x # i /\ x # j /\ vs[x] = vars_of[x]
                BY <1>5, <3>1
            <4>2. vars_of[x] \cap vars_of[i] = {} /\ vars_of[x] \cap vars_of[j] = {}
                BY <1>7, <4>1
            <4> QED
                BY <4>1, <4>2
        <3>2. n \in dom /\ vs[n] = vs1 \cup vs2
            OBVIOUS
        <3>3. CASE k = n
            BY <2>2, <3>1, <3>2, <3>3
        <3>4. CASE l = n
            BY <2>2, <3>1, <3>2, <3>4
        <3>5. CASE k # n /\ l # n
            <4>1. k \in DOMAIN sys.factors /\ l \in DOMAIN sys.factors
                BY <1>5, <3>5
            <4>2. vs[k] = vars_of[k] /\ vs[l] = vars_of[l]
                BY <3>5
            <4> QED
                BY <1>7, <2>2, <4>1, <4>2
        <3> QED
            BY <3>3, <3>4, <3>5
    <2>3. ASSUME NEW k \in dom
          PROVE  LooksAt(t, factors[k], vs[k])
        <3>1. CASE k = n
            BY <1>5, <1>15, <3>1
        <3>2. CASE k # n
            <4>1. k \in DOMAIN sys.factors /\ factors[k] = sys.factors[k] /\ vs[k] = vars_of[k]
                BY <1>5, <3>2
            <4> QED
                BY <1>7, <4>1
        <3> QED
            BY <3>1, <3>2
    <2>4. DOMAIN factors = dom
        BY <1>5
    <2>5. /\ \A k, l \in dom : k # l => vs[k] \cap vs[l] = {}
          /\ \A k \in dom : LooksAt(t, factors[k], vs[k])
        BY <2>2, <2>3
    <2> QED
        BY ONLY <2>1, <2>4, <2>5 DEF Independent
<1>17. ASSUME NEW k \in dom
       PROVE  GoodFactor(t, labels, label_of, factors[k]) /\ HasDistances(init, goal, factors[k])
    BY <1>5, <1>6, <1>12
<1>18. GoodFTS(t, init, goal, w)
    <2>1. w = [labels |-> w.labels, factors |-> w.factors, label_of |-> w.label_of]
        BY <1>3, <1>4
    <2>2. DOMAIN factors = dom /\ factors = [k \in DOMAIN factors |-> factors[k]]
        BY <1>5
    <2>3. LabelsFit(t, labels, label_of)
        BY <1>6
    <2>4. w.labels = labels /\ w.factors = factors /\ w.label_of = label_of
        BY <1>4
    <2>5. \A k \in dom : GoodFactor(t, labels, label_of, factors[k]) /\ HasDistances(init, goal, factors[k])
        BY <1>17
    <2> QED
        BY ONLY <1>16, <2>1, <2>2, <2>3, <2>4, <2>5 DEF GoodFTS
<1>19. /\ w.factors = factors /\ DOMAIN w.factors = dom /\ w.factors[n] = merged
       /\ \A k \in DOMAIN sys.factors \ {i, j} : w.factors[k] = sys.factors[k]
    <2>1. \A k \in DOMAIN sys.factors \ {i, j} : k \in dom /\ k # n
        OBVIOUS
    <2> QED
        BY <1>4, <1>5, <2>1
<1> QED
    BY <1>14, <1>18, <1>19

(* What the assumptions say of the task and the options.                   *)
LEMMA LimitsParts ==
    ASSUME NEW max_states \in Size \cup {-1}, NEW max_before \in Size \cup {-1},
           NEW threshold \in Size \cup {-1},
           NEW lim, lim = ShrinkLimits(max_states, max_before, threshold)
    PROVE  /\ lim.max_states \in Nat /\ lim.max_states # 0
           /\ lim.max_states_before_merge \in Nat /\ lim.max_states_before_merge # 0
           /\ lim.shrink_threshold_before_merge \in Nat
<1> PICK max1 : max1 = IF max_states # -1 THEN max_states
                       ELSE IF max_before = -1 THEN 50000
                       ELSE IF max_before <= INF \div max_before
                       THEN max_before * max_before ELSE INF
    OBVIOUS
<1> PICK before : before = IF max_before = -1 \/ max_before > max1 THEN max1 ELSE max_before
    OBVIOUS
<1> PICK shrink : shrink = IF threshold = -1 \/ threshold > max1 THEN max1 ELSE threshold
    OBVIOUS
<1>1. lim = [max_states |-> max1, max_states_before_merge |-> before,
             shrink_threshold_before_merge |-> shrink]
    BY DEF ShrinkLimits
<1>2. max1 \in Nat /\ max1 # 0
    <2>1. max_before # -1 => max_before * max_before \in Nat /\ max_before * max_before # 0
        BY DEF Size
    <2> QED
        BY <2>1, InfIsNumber DEF Size
<1>3. before \in Nat /\ before # 0 /\ shrink \in Nat
    BY <1>2 DEF Size
<1> QED
    BY <1>1, <1>2, <1>3

(* What the assumption says of the task, the options and the limits.       *)
LEMMA InputParts ==
    ASSUME input \in Inputs
    PROVE  /\ IsTask(task) /\ task.layers = <<>> /\ task.domains # <<>>
           /\ ConsistentConditions(task) /\ PlanCostsBelowINF(task)
           /\ IsStrategy(input.strategy)
           /\ limits.max_states \in Nat /\ limits.max_states # 0
           /\ limits.max_states_before_merge \in Nat /\ limits.max_states_before_merge # 0
           /\ limits.shrink_threshold_before_merge \in Nat
           /\ input.prune_unreachable \in BOOLEAN /\ input.prune_irrelevant \in BOOLEAN
<1>1. input \in Options
    BY MergeAndShrinkAssumption
<1>2. input.task \in DOMAIN Tasks
    BY <1>1 DEF Options
<1>3. /\ IsTask(task) /\ task.layers = <<>> /\ task.domains # <<>>
      /\ ConsistentConditions(task) /\ PlanCostsBelowINF(task)
    BY <1>2, MergeAndShrinkAssumption DEF task
<1>4. /\ input.max_states \in Size \cup {-1} /\ input.max_before \in Size \cup {-1}
      /\ input.threshold \in Size \cup {-1}
      /\ input.prune_unreachable \in BOOLEAN /\ input.prune_irrelevant \in BOOLEAN
    BY <1>1 DEF Options
<1>5. IsStrategy(input.strategy)
    <2>1. input.strategy \in [name : {"bisimulation"}, greedy : BOOLEAN, at_limit : {"RETURN", "USE_UP"}]
                                \cup [name : {"fh"}, f_high : BOOLEAN, h_high : BOOLEAN]
                                \cup [name : {"random"}]
        BY <1>1 DEF Options
    <2> QED
        BY <2>1 DEF IsStrategy
<1> PICK lim : lim = limits
    OBVIOUS
<1>6. lim = ShrinkLimits(input.max_states, input.max_before, input.threshold)
    BY DEF limits
<1>7. /\ lim.max_states \in Nat /\ lim.max_states # 0
      /\ lim.max_states_before_merge \in Nat /\ lim.max_states_before_merge # 0
      /\ lim.shrink_threshold_before_merge \in Nat
    BY ONLY <1>4, <1>6, LimitsParts
<1> QED
    BY <1>3, <1>4, <1>5, <1>7

(* Distances are computed where the strategies or pruning ask for them.    *)
LEMMA DistancesAreBooleans == compute_init_distances \in BOOLEAN /\ compute_goal_distances \in BOOLEAN
BY DEF compute_init_distances, compute_goal_distances, RequiresInitDistances, RequiresGoalDistances

(* Pruning a factor of the system.                                         *)
LEMMA PrunedFollows ==
    ASSUME IInv, NEW i \in DOMAIN fts.factors, fts.factors[i].init # PRUNED_STATE
    PROVE  /\ Follows(task, fts.labels, fts.label_of, fts.factors[i], Pruned(fts.factors[i]))
           /\ Pruned(fts.factors[i]).size <= fts.factors[i].size
<1> PICK f, t, labels, label_of :
        f = fts.factors[i] /\ t = task /\ labels = fts.labels /\ label_of = fts.label_of
    OBVIOUS
<1>1. /\ IsTask(t) /\ t.layers = <<>> /\ PlanCostsBelowINF(t)
      /\ input.prune_unreachable \in BOOLEAN /\ input.prune_irrelevant \in BOOLEAN
    BY InputParts DEF IInv
<1>2. /\ LabelsFit(t, labels, label_of) /\ GoodFactor(t, labels, label_of, f)
      /\ HasDistances(compute_init_distances, compute_goal_distances, f)
    BY DEF IInv, GoodFTS
<1>3. f.size \in Nat /\ f.size # 0
    <2>1. f.size \in Nat /\ f.init \in 0 .. f.size - 1
        BY <1>2 DEF GoodFactor, IsFactor, IsSystem, StatesOf
    <2> QED
        BY <2>1
<1>4. CASE input.prune_unreachable \/ input.prune_irrelevant
    <2> PICK unreachable, irrelevant :
            unreachable = input.prune_unreachable /\ irrelevant = input.prune_irrelevant
        OBVIOUS
    <2>1. unreachable => compute_init_distances
        BY <1>1 DEF compute_init_distances
    <2>2. irrelevant => compute_goal_distances
        BY <1>1 DEF compute_goal_distances
    <2>3. (unreachable => f.g # NotComputed) /\ (irrelevant => f.h # NotComputed)
        BY <1>2, <1>3, <2>1, <2>2 DEF HasDistances
    <2> PICK v : v = ApplyAbstraction(f, KeptStates(f, unreachable, irrelevant))
        OBVIOUS
    <2>4. Follows(t, labels, label_of, f, v) /\ v.size <= f.size
        <3>1. unreachable \in BOOLEAN /\ irrelevant \in BOOLEAN /\ f.init # PRUNED_STATE
            BY <1>1
        <3> QED
            BY ONLY <1>1, <1>2, <2>3, <3>1, PrunedIsGood,
                    v = ApplyAbstraction(f, KeptStates(f, unreachable, irrelevant))
    <2>5. Pruned(f) = v
        BY <1>4 DEF Pruned
    <2> QED
        BY <2>4, <2>5
<1>5. CASE ~(input.prune_unreachable \/ input.prune_irrelevant)
    <2>1. Pruned(f) = f
        BY <1>5 DEF Pruned
    <2>2. Follows(t, labels, label_of, f, f)
        BY <1>2 DEF Follows
    <2> QED
        BY <1>3, <2>1, <2>2
<1> QED
    BY <1>4, <1>5

(* Shrinking one.                                                          *)
LEMMA ShrunkFollows ==
    ASSUME IInv, NEW i \in DOMAIN fts.factors, fts.factors[i].init # PRUNED_STATE,
           NEW target \in Nat \ {0},
           NEW v \in ShrunkFactors(fts.factors[i], input.strategy, target, limits)
    PROVE  /\ Follows(task, fts.labels, fts.label_of, fts.factors[i], v) /\ v.init # PRUNED_STATE
           /\ input.strategy.name # "bisimulation" => v.size <= target
<1> PICK f, t, labels, label_of, strategy, lim :
        /\ f = fts.factors[i] /\ t = task /\ labels = fts.labels /\ label_of = fts.label_of
        /\ strategy = input.strategy /\ lim = limits
    OBVIOUS
<1>1. /\ IsTask(t) /\ t.layers = <<>> /\ IsStrategy(strategy)
      /\ lim.shrink_threshold_before_merge \in Nat
    BY InputParts DEF IInv
<1>2. /\ GoodFactor(t, labels, label_of, f)
      /\ HasDistances(compute_init_distances, compute_goal_distances, f)
    BY DEF IInv, GoodFTS
<1>3. f.size # 0
    <2>1. f.size \in Nat /\ f.init \in 0 .. f.size - 1
        BY <1>2 DEF GoodFactor, IsFactor, IsSystem, StatesOf
    <2> QED
        BY <2>1
<1>4. /\ RequiresInitDistances(strategy) => f.g # NotComputed
      /\ RequiresGoalDistances(strategy) => f.h # NotComputed
    BY <1>2, <1>3 DEF HasDistances, compute_init_distances, compute_goal_distances
<1>5. f.init # PRUNED_STATE /\ target \in Nat /\ target # 0 /\ v \in ShrunkFactors(f, strategy, target, lim)
    OBVIOUS
<1>6. /\ Follows(t, labels, label_of, f, v) /\ v.init # PRUNED_STATE
      /\ strategy.name # "bisimulation" => v.size <= target
    BY ONLY <1>1, <1>2, <1>4, <1>5, ShrunkParts
<1> QED
    BY <1>6

(* The atomic factors are good.                                            *)
LEMMA InitIsGood == Init => IInv
<1> SUFFICES ASSUME Init
             PROVE  IInv
    OBVIOUS
<1> USE DEF Init
<1>1. input \in Inputs /\ IsTask(task) /\ task.layers = <<>> /\ task.domains # <<>> /\ ConsistentConditions(task)
    BY InputParts
<1> PICK init, goal : init = compute_init_distances /\ goal = compute_goal_distances
    OBVIOUS
<1>2. init \in BOOLEAN /\ goal \in BOOLEAN
    BY DistancesAreBooleans
<1>3. fts = CreateFTS(task, init, goal)
    OBVIOUS
<1>4. /\ GoodFTS(task, init, goal, fts)
      /\ DOMAIN fts.factors = 1 .. Len(task.domains) /\ Len(task.domains) \in Nat
      /\ \A i \in DOMAIN fts.factors : fts.factors[i].init # PRUNED_STATE
    BY <1>1, <1>2, <1>3, CreatedIsGood
<1>5. Len(task.domains) # 0
    <2>1. task.domains \in Seq(Nat \ {0})
        BY <1>1 DEF IsTask
    <2> QED
        BY <1>1, <2>1, EmptySeq
<1>6. index \in 1 .. num_indices
    BY <1>4, <1>5
<1> QED
    BY <1>1, <1>4, <1>6 DEF IInv, Merging

(* What does not change when the input does not.                           *)
LEMMA InputStays ==
    ASSUME UNCHANGED input
    PROVE  /\ task' = task /\ limits' = limits
           /\ compute_init_distances' = compute_init_distances
           /\ compute_goal_distances' = compute_goal_distances
BY DEF task, limits, compute_init_distances, compute_goal_distances

(* The system in the next state is good again, with every state of the     *)
(* task it started in.                                                     *)
IsGoodNow(sys) ==
    /\ GoodFTS(task, compute_init_distances, compute_goal_distances, sys)
    /\ DOMAIN sys.factors \subseteq 1 .. num_indices
    /\ \A i \in DOMAIN sys.factors : sys.factors[i].init # PRUNED_STATE

(* A good factor with an initial state has states.                         *)
LEMMA FactorSizes ==
    ASSUME NEW t, NEW init, NEW goal, NEW sys, GoodFTS(t, init, goal, sys), NEW i \in DOMAIN sys.factors
    PROVE  sys.factors[i].size \in Nat /\ (sys.factors[i].init # PRUNED_STATE => sys.factors[i].size # 0)
<1> PICK f : f = sys.factors[i]
    OBVIOUS
<1>1. f.size \in Nat /\ f.init \in (0 .. f.size - 1) \cup {PRUNED_STATE}
    BY DEF GoodFTS, GoodFactor, IsFactor, IsSystem, StatesOf
<1> QED
    BY <1>1

(* Pruning keeps the invariant.                                            *)
LEMMA PruneStaysGood ==
    ASSUME IInv, PruneAtomicFactor \/ PruneMergedFactor
    PROVE  IInv'
<1> PICK f, v : f = fts.factors[index] /\ v = Pruned(f)
    OBVIOUS
<1>1. /\ index \in DOMAIN fts.factors /\ input \in Inputs /\ num_indices \in Nat
      /\ \A i \in DOMAIN fts.factors : fts.factors[i].init # PRUNED_STATE
      /\ DOMAIN fts.factors \subseteq 1 .. num_indices
    BY DEF IInv, PruneAtomicFactor, PruneMergedFactor
<1>2. Follows(task, fts.labels, fts.label_of, f, v)
    BY <1>1, PrunedFollows
<1> PICK w : w = Replaced(fts, index, v)
    OBVIOUS
<1>3. fts' = w
    BY DEF PruneAtomicFactor, PruneMergedFactor, SetFactor, Replaced
<1>4. GoodFTS(task, compute_init_distances, compute_goal_distances, fts)
    BY DEF IInv
<1>5. /\ GoodFTS(task, compute_init_distances, compute_goal_distances, w)
      /\ DOMAIN w.factors = DOMAIN fts.factors /\ w.factors[index] = v
      /\ \A j \in DOMAIN fts.factors : j # index => w.factors[j] = fts.factors[j]
    <2> PICK t, init, goal, sys, i :
            /\ t = task /\ init = compute_init_distances /\ goal = compute_goal_distances
            /\ sys = fts /\ i = index
        OBVIOUS
    <2>1. /\ GoodFTS(t, init, goal, sys) /\ i \in DOMAIN sys.factors
          /\ sys.factors[i].init # PRUNED_STATE
          /\ Follows(t, sys.labels, sys.label_of, sys.factors[i], v) /\ w = Replaced(sys, i, v)
        BY <1>1, <1>2, <1>4
    <2>2. /\ GoodFTS(t, init, goal, w)
          /\ DOMAIN w.factors = DOMAIN sys.factors /\ w.factors[i] = v
          /\ \A j \in DOMAIN sys.factors : j # i => w.factors[j] = sys.factors[j]
        BY ONLY <2>1, ReplacedIsGood
    <2> QED
        BY <2>2
<1>6. pc' # "extract" => v.init # PRUNED_STATE
    BY DEF PruneAtomicFactor, PruneMergedFactor, IsSolvable
<1>7. pc' # "extract" => \A i \in DOMAIN w.factors : w.factors[i].init # PRUNED_STATE
    BY <1>1, <1>5, <1>6
<1>8. UNCHANGED <<input, num_indices, merge_indices, kept>>
    BY DEF PruneAtomicFactor, PruneMergedFactor
<1>9. /\ task' = task /\ limits' = limits
      /\ compute_init_distances' = compute_init_distances
      /\ compute_goal_distances' = compute_goal_distances
    BY <1>8, InputStays
<1>10. pc' \in {"extract", "next_merge", "prune_atomic"}
    BY DEF PruneAtomicFactor, PruneMergedFactor
<1>11. pc' = "prune_atomic" => index' \in 1 .. num_indices /\ DOMAIN w.factors = 1 .. num_indices
    BY <1>1, <1>5 DEF IInv, PruneAtomicFactor, PruneMergedFactor
<1> QED
    BY <1>1, <1>3, <1>5, <1>7, <1>8, <1>9, <1>10, <1>11 DEF IInv, Merging

(* The head of the main loop keeps the invariant.                          *)
LEMMA LoopStaysGood ==
    ASSUME IInv, GetNext \/ AllMerged \/ RunOutOfTime
    PROVE  IInv'
<1>1. UNCHANGED <<input, fts, num_indices, index, kept>>
    BY DEF GetNext, AllMerged, RunOutOfTime
<1>2. /\ task' = task /\ limits' = limits
      /\ compute_init_distances' = compute_init_distances
      /\ compute_goal_distances' = compute_goal_distances
    BY <1>1, InputStays
<1>3. CASE GetNext
    <2>1. /\ pc = "next_merge" /\ pc' = "reduce_before_shrinking"
          /\ \E i, j \in DOMAIN fts.factors : i # j /\ merge_indices' = <<i, j>>
        BY <1>3 DEF GetNext
    <2> QED
        BY <1>1, <1>2, <2>1 DEF IInv, Merging
<1>4. CASE AllMerged \/ RunOutOfTime
    <2>1. pc' = "extract"
        BY <1>4 DEF AllMerged, RunOutOfTime
    <2> QED
        BY <1>1, <1>2, <2>1 DEF IInv, Merging
<1> QED
    BY <1>3, <1>4

(* Both label reductions keep the invariant.                               *)
LEMMA ReduceStaysGood ==
    ASSUME IInv, ReduceBeforeShrinking \/ ReduceBeforeMerging
    PROVE  IInv'
<1>1. UNCHANGED <<input, num_indices, index, merge_indices, kept>>
    BY DEF ReduceBeforeShrinking, ReduceBeforeMerging
<1>2. /\ task' = task /\ limits' = limits
      /\ compute_init_distances' = compute_init_distances
      /\ compute_goal_distances' = compute_goal_distances
    BY <1>1, InputStays
<1>3. /\ input \in Inputs /\ num_indices \in Nat
      /\ GoodFTS(task, compute_init_distances, compute_goal_distances, fts)
    BY DEF IInv
<1>4. IsTask(task) /\ task.layers = <<>>
    BY <1>3, InputParts
<1>5. /\ GoodFTS(task, compute_init_distances, compute_goal_distances, fts')
      /\ SameShape(fts, fts')
    <2>1. CASE fts' = fts
        BY <1>3, <2>1 DEF SameShape
    <2>2. CASE fts' = Reduce(fts, input.reduction.method, input.reduction.order,
                             merge_indices, num_indices)
        BY <1>3, <1>4, <2>2, ReducedIsGood
    <2> QED
        BY <2>1, <2>2 DEF ReduceBeforeShrinking, ReduceBeforeMerging, ReduceLabels
<1>6. /\ DOMAIN fts'.factors = DOMAIN fts.factors
      /\ \A i \in DOMAIN fts.factors : /\ fts'.factors[i].size = fts.factors[i].size
                                       /\ fts'.factors[i].init = fts.factors[i].init
    BY <1>5 DEF SameShape
<1>7. \/ pc = "reduce_before_shrinking" /\ pc' = "shrink"
      \/ pc = "reduce_before_merging" /\ pc' = "merge"
    BY DEF ReduceBeforeShrinking, ReduceBeforeMerging
<1>8. PICK i, j \in DOMAIN fts.factors :
        /\ i # j /\ merge_indices = <<i, j>>
        /\ pc = "reduce_before_merging" /\ input.strategy.name # "bisimulation"
                => SizesFit(fts.factors[i], fts.factors[j])
    BY <1>7 DEF IInv, Merging
<1>9. pc' = "merge" /\ input'.strategy.name # "bisimulation"
            => SizesFit(fts.factors[i], fts.factors[j])'
    BY <1>1, <1>2, <1>6, <1>7, <1>8 DEF SizesFit
<1>10. \A k \in DOMAIN fts'.factors : fts'.factors[k].init # PRUNED_STATE
    BY <1>6, <1>7 DEF IInv
<1>11. DOMAIN fts'.factors \subseteq 1 .. num_indices
    BY <1>6 DEF IInv
<1> QED
    BY <1>1, <1>2, <1>3, <1>5, <1>6, <1>7, <1>8, <1>9, <1>10, <1>11 DEF IInv, Merging

(* Shrinking the two factors before they are merged keeps the invariant.   *)
LEMMA ShrinkStaysGood ==
    ASSUME IInv, Shrink
    PROVE  IInv'
<1>1. UNCHANGED <<input, num_indices, index, merge_indices, kept>> /\ pc = "shrink"
      /\ pc' = "reduce_before_merging"
    BY DEF Shrink
<1>2. /\ task' = task /\ limits' = limits
      /\ compute_init_distances' = compute_init_distances
      /\ compute_goal_distances' = compute_goal_distances
    BY <1>1, InputStays
<1>3. /\ input \in Inputs /\ num_indices \in Nat
      /\ GoodFTS(task, compute_init_distances, compute_goal_distances, fts)
      /\ \A i \in DOMAIN fts.factors : fts.factors[i].init # PRUNED_STATE
      /\ DOMAIN fts.factors \subseteq 1 .. num_indices
    BY <1>1 DEF IInv
<1>4. PICK i, j \in DOMAIN fts.factors : i # j /\ merge_indices = <<i, j>>
    BY <1>1 DEF IInv, Merging
<1> PICK f1, f2 : f1 = fts.factors[i] /\ f2 = fts.factors[j]
    OBVIOUS
<1> PICK lim : lim = limits
    OBVIOUS
<1>5. /\ lim.max_states \in Nat /\ lim.max_states # 0
      /\ lim.max_states_before_merge \in Nat /\ lim.max_states_before_merge # 0
    BY <1>3, InputParts
<1>6. f1.size \in Nat /\ f1.size # 0 /\ f2.size \in Nat /\ f2.size # 0
    BY <1>3, FactorSizes
<1>7. PICK t1, t2 \in Nat \ {0} :
        /\ ShrinkSizes(f1.size, f2.size, lim) = <<t1, t2>>
        /\ t1 <= lim.max_states_before_merge /\ t2 <= lim.max_states_before_merge
        /\ t1 * t2 <= lim.max_states
    BY ONLY <1>5, <1>6, ShrinkSizesParts
<1>8. merge_indices[1] = i /\ merge_indices[2] = j
    BY <1>4
<1>9. PICK s1 \in ShrunkFactors(f1, input.strategy, t1, limits),
           s2 \in ShrunkFactors(f2, input.strategy, t2, limits) :
            fts' = [fts EXCEPT !.factors[i] = s1, !.factors[j] = s2]
    <2> PICK sizes : sizes = ShrinkSizes(f1.size, f2.size, limits)
        OBVIOUS
    <2>1. sizes[1] = t1 /\ sizes[2] = t2
        BY <1>7
    <2>2. \E x1 \in ShrunkFactors(f1, input.strategy, sizes[1], limits),
             x2 \in ShrunkFactors(f2, input.strategy, sizes[2], limits) :
                fts' = [fts EXCEPT !.factors[i] = x1, !.factors[j] = x2]
        BY <1>8 DEF Shrink
    <2>3. PICK x1 \in ShrunkFactors(f1, input.strategy, sizes[1], limits),
               x2 \in ShrunkFactors(f2, input.strategy, sizes[2], limits) :
                fts' = [fts EXCEPT !.factors[i] = x1, !.factors[j] = x2]
        BY ONLY <2>2
    <2>4. /\ x1 \in ShrunkFactors(f1, input.strategy, t1, limits)
          /\ x2 \in ShrunkFactors(f2, input.strategy, t2, limits)
        BY ONLY <2>1, <2>3
    <2> QED
        BY ONLY <2>3, <2>4
<1>10. /\ Follows(task, fts.labels, fts.label_of, f1, s1) /\ s1.init # PRUNED_STATE
       /\ input.strategy.name # "bisimulation" => s1.size <= t1
    BY <1>3, ShrunkFollows
<1>11. /\ Follows(task, fts.labels, fts.label_of, f2, s2) /\ s2.init # PRUNED_STATE
       /\ input.strategy.name # "bisimulation" => s2.size <= t2
    BY <1>3, ShrunkFollows
<1> PICK t, init, goal, sys, first, second :
        /\ t = task /\ init = compute_init_distances /\ goal = compute_goal_distances
        /\ sys = fts /\ first = Replaced(sys, i, s1) /\ second = Replaced(first, j, s2)
    OBVIOUS
<1>12. /\ GoodFTS(t, init, goal, first)
       /\ first.labels = sys.labels /\ first.label_of = sys.label_of
       /\ DOMAIN first.factors = DOMAIN sys.factors
       /\ first.factors[i] = s1
       /\ \A k \in DOMAIN sys.factors : k # i => first.factors[k] = sys.factors[k]
    <2>1. /\ GoodFTS(t, init, goal, sys) /\ i \in DOMAIN sys.factors
          /\ sys.factors[i].init # PRUNED_STATE
          /\ Follows(t, sys.labels, sys.label_of, sys.factors[i], s1)
        BY <1>3, <1>10
    <2> QED
        BY ONLY <2>1, first = Replaced(sys, i, s1), ReplacedIsGood
<1>13. /\ GoodFTS(t, init, goal, second)
       /\ DOMAIN second.factors = DOMAIN first.factors
       /\ second.factors[j] = s2
       /\ \A k \in DOMAIN first.factors : k # j => second.factors[k] = first.factors[k]
    <2>1. /\ GoodFTS(t, init, goal, first) /\ j \in DOMAIN first.factors
          /\ first.factors[j] = f2 /\ f2.init # PRUNED_STATE
          /\ Follows(t, first.labels, first.label_of, first.factors[j], s2)
        BY <1>3, <1>4, <1>11, <1>12
    <2> QED
        BY ONLY <2>1, second = Replaced(first, j, s2), ReplacedIsGood
<1>14. fts' = second
    BY <1>9 DEF Replaced
<1>15. /\ DOMAIN second.factors = DOMAIN fts.factors
       /\ second.factors[i] = s1 /\ second.factors[j] = s2
       /\ \A k \in DOMAIN fts.factors : k # i /\ k # j => second.factors[k] = fts.factors[k]
    BY <1>4, <1>12, <1>13
<1>16. \A k \in DOMAIN second.factors : second.factors[k].init # PRUNED_STATE
    BY <1>3, <1>10, <1>11, <1>15
<1>17. s1.size \in Nat /\ s2.size \in Nat
    BY <1>13, <1>15, FactorSizes
<1>18. ASSUME input.strategy.name # "bisimulation"
       PROVE  /\ s1.size <= lim.max_states_before_merge /\ s2.size <= lim.max_states_before_merge
              /\ s1.size * s2.size <= lim.max_states
    <2> PICK a, b, max, before : /\ a = s1.size /\ b = s2.size
                                 /\ max = lim.max_states /\ before = lim.max_states_before_merge
        OBVIOUS
    <2>1. a \in Nat /\ b \in Nat /\ a <= t1 /\ b <= t2 /\ max \in Nat /\ before \in Nat
          /\ t1 <= before /\ t2 <= before /\ t1 * t2 <= max
        BY <1>5, <1>7, <1>10, <1>11, <1>17, <1>18
    <2>2. a * b \in Nat /\ a * b <= t1 * t2
        BY ONLY <2>1, t1 \in Nat \ {0}, t2 \in Nat \ {0}, MoreTimesMore
    <2>3. t1 * t2 \in Int
        BY ONLY t1 \in Nat \ {0}, t2 \in Nat \ {0}
    <2>4. a <= before /\ b <= before /\ a * b <= max
        BY ONLY <2>1, <2>2, <2>3, t1 \in Nat \ {0}, t2 \in Nat \ {0}
    <2> QED
        BY <2>4
<1>19. input'.strategy.name # "bisimulation" => SizesFit(fts.factors[i], fts.factors[j])'
    BY <1>1, <1>2, <1>14, <1>15, <1>18 DEF SizesFit
<1>20. GoodFTS(task, compute_init_distances, compute_goal_distances, fts')
    BY <1>13, <1>14
<1> HIDE DEF IInv
<1> QED
    BY <1>1, <1>2, <1>3, <1>4, <1>14, <1>15, <1>16, <1>19, <1>20 DEF IInv, Merging

(* Merging keeps the invariant.                                            *)
LEMMA MergeStaysGood ==
    ASSUME IInv, Merge
    PROVE  IInv'
<1>1. /\ UNCHANGED <<input, merge_indices, kept>> /\ pc = "merge" /\ pc' = "prune"
      /\ num_indices' = num_indices + 1 /\ index' = num_indices + 1
    BY DEF Merge
<1>2. /\ task' = task /\ limits' = limits
      /\ compute_init_distances' = compute_init_distances
      /\ compute_goal_distances' = compute_goal_distances
    BY <1>1, InputStays
<1>3. /\ input \in Inputs /\ num_indices \in Nat
      /\ GoodFTS(task, compute_init_distances, compute_goal_distances, fts)
      /\ \A i \in DOMAIN fts.factors : fts.factors[i].init # PRUNED_STATE
      /\ DOMAIN fts.factors \subseteq 1 .. num_indices
    BY <1>1 DEF IInv
<1>4. PICK i, j \in DOMAIN fts.factors :
        /\ i # j /\ merge_indices = <<i, j>>
        /\ input.strategy.name # "bisimulation" => SizesFit(fts.factors[i], fts.factors[j])
    BY <1>1 DEF IInv, Merging
<1>5. merge_indices[1] = i /\ merge_indices[2] = j
    BY <1>4
<1> PICK t, init, goal, sys, n :
        /\ t = task /\ init = compute_init_distances /\ goal = compute_goal_distances
        /\ sys = fts /\ n = num_indices + 1
    OBVIOUS
<1> PICK merged : merged = ComputeDistances(
                        MergeFactors(sys.labels, sys.factors[i], sys.factors[j]), init, goal)
    OBVIOUS
<1> PICK w : w = Joined(sys, i, j, n, merged)
    OBVIOUS
<1>6. fts' = w
    BY <1>5 DEF Merge, Joined
<1>7. n \notin DOMAIN sys.factors /\ n \in Nat
    BY <1>3
<1>8. /\ IsTask(t) /\ t.layers = <<>> /\ init \in BOOLEAN /\ goal \in BOOLEAN
      /\ GoodFTS(t, init, goal, sys) /\ i \in DOMAIN sys.factors /\ j \in DOMAIN sys.factors
      /\ sys.factors[i].init # PRUNED_STATE /\ sys.factors[j].init # PRUNED_STATE
    BY <1>3, InputParts, DistancesAreBooleans
<1>9. /\ GoodFTS(t, init, goal, w)
      /\ DOMAIN w.factors = (DOMAIN sys.factors \ {i, j}) \cup {n}
      /\ w.factors[n] = merged
      /\ merged.init # PRUNED_STATE /\ merged.size = sys.factors[i].size * sys.factors[j].size
      /\ \A k \in DOMAIN sys.factors \ {i, j} : w.factors[k] = sys.factors[k]
    BY ONLY <1>4, <1>7, <1>8, JoinedIsGood, w = Joined(sys, i, j, n, merged),
            merged = ComputeDistances(
                        MergeFactors(sys.labels, sys.factors[i], sys.factors[j]), init, goal)
<1>10. \A k \in DOMAIN w.factors : w.factors[k].init # PRUNED_STATE
    BY <1>3, <1>9
<1>11. DOMAIN w.factors \subseteq 1 .. num_indices' /\ num_indices' \in Nat
    BY <1>1, <1>3, <1>9
<1>12. index' \in DOMAIN w.factors /\ w.factors[index'] = merged
    BY <1>1, <1>9
<1>13. input.strategy.name # "bisimulation" => merged.size <= limits.max_states
    BY <1>4, <1>9 DEF SizesFit
<1>14. GoodFTS(task, compute_init_distances, compute_goal_distances, w)
    BY <1>9
<1> HIDE DEF IInv
<1> QED
    BY <1>1, <1>2, <1>3, <1>6, <1>10, <1>11, <1>12, <1>13, <1>14 DEF IInv, Merging

(* What is extracted at the end are factors with goal distances.           *)
LEMMA ExtractStaysGood ==
    ASSUME IInv, ExtractFactors
    PROVE  IInv'
<1> DEFINE Final(f) == IF f.h = NotComputed THEN ComputeDistances(f, FALSE, TRUE) ELSE f
<1>1. UNCHANGED <<input, fts, num_indices, index, merge_indices>> /\ pc' = "done"
    BY DEF ExtractFactors
<1>2. /\ task' = task /\ limits' = limits
      /\ compute_init_distances' = compute_init_distances
      /\ compute_goal_distances' = compute_goal_distances
    BY <1>1, InputStays
<1> PICK t, labels, label_of : t = task /\ labels = fts.labels /\ label_of = fts.label_of
    OBVIOUS
<1>3. ASSUME NEW i \in DOMAIN fts.factors
      PROVE  /\ GoodFactor(t, labels, label_of, Final(fts.factors[i]))
             /\ HasDistances(FALSE, TRUE, Final(fts.factors[i]))
    <2> PICK f : f = fts.factors[i]
        OBVIOUS
    <2>1. GoodFactor(t, labels, label_of, f)
        BY DEF IInv, GoodFTS
    <2>2. CASE f.h # NotComputed
        BY <2>1, <2>2 DEF HasDistances
    <2>3. CASE f.h = NotComputed
        <3> PICK v : v = ComputeDistances(f, FALSE, TRUE)
            OBVIOUS
        <3>1. /\ IsFactor(t, f) /\ Abstracts(t, label_of, f) /\ CostsFit(labels, f)
              /\ f.g # NotComputed => IsInitBound(f, f.g)
            BY <2>1 DEF GoodFactor, AreBounds
        <3>2. GoodFactor(t, labels, label_of, v)
            BY <3>1, ComputedIsGood
        <3>3. HasDistances(FALSE, TRUE, v)
            BY <3>1, ComputedHasDistances
        <3> QED
            BY <2>3, <3>2, <3>3
    <2> QED
        BY <2>2, <2>3
<1>4. ASSUME NEW f \in kept'
      PROVE  GoodFactor(t, labels, label_of, f) /\ HasDistances(FALSE, TRUE, f)
    <2>1. \E i \in DOMAIN fts.factors : f = Final(fts.factors[i])
        <3> DEFINE unsolvable == {i \in DOMAIN fts.factors : ~IsSolvable(fts.factors[i])}
                   extracted == IF unsolvable # {} THEN {Min(unsolvable)}
                                ELSE {i \in DOMAIN fts.factors : ~IsTrivial(fts.factors[i])}
        <3>1. kept' = {Final(fts.factors[i]) : i \in extracted}
            BY DEF ExtractFactors
        <3>2. unsolvable # {} => Min(unsolvable) \in unsolvable
            <4>1. unsolvable \in SUBSET Nat
                BY DEF IInv
            <4> HIDE DEF unsolvable
            <4> QED
                BY ONLY <4>1, MinIsMember
        <3>3. extracted \subseteq DOMAIN fts.factors
            BY <3>2
        <3> HIDE DEF extracted, Final
        <3> QED
            BY <3>1, <3>3
    <2> HIDE DEF Final
    <2> QED
        BY <1>3, <2>1
<1> QED
    BY <1>1, <1>2, <1>4 DEF IInv, Merging

(* Nothing else happens: whatever the options, the invariant always holds. *)
THEOREM Invariance == Spec => []IInv
<1>1. Init => IInv
    BY InitIsGood
<1>2. IInv /\ [Next]_vars => IInv'
    <2> SUFFICES ASSUME IInv, [Next]_vars
                 PROVE  IInv'
        OBVIOUS
    <2>1. CASE UNCHANGED vars
        <3>1. UNCHANGED <<input, fts, num_indices, index, merge_indices, kept, pc>>
            BY <2>1 DEF vars
        <3>2. /\ task' = task /\ limits' = limits
              /\ compute_init_distances' = compute_init_distances
              /\ compute_goal_distances' = compute_goal_distances
            BY <3>1, InputStays
        <3> QED
            BY <3>1, <3>2 DEF IInv, SizesFit
    <2>2. CASE Next
        BY <2>2, PruneStaysGood, LoopStaysGood, ReduceStaysGood, ShrinkStaysGood, MergeStaysGood,
           ExtractStaysGood DEF Next
    <2> QED
        BY <2>1, <2>2
<1> QED
    BY <1>1, <1>2, PTL DEF Spec
-------------------------------------------------------------------------------
(* What the tasks say.  Reached states have paths, whatever these cost.    *)
LEMMA ReachedParts ==
    ASSUME NEW i \in DOMAIN Tasks, NEW t, t = Tasks[i], NEW s \in Reached(i)
    PROVE  s \in States(t) /\ IsReachable(t, s)
<1> DEFINE Good == {x \in States(t) \X Nat \X Nat : IsReachable(t, x[1])}
<1>1. IsTask(t) /\ t.layers = <<>>
    BY MergeAndShrinkAssumption
<1>2. \A o \in Ops(t) : OperatorCosts(t)[o] \in Nat /\ FreeCosts(t)[o] = 0
    BY <1>1, TaskParts DEF OperatorCosts, FreeCosts
<1>3. OperatorCosts(t) \in [Ops(t) -> Nat] /\ t.init \in States(t)
    BY <1>1, <1>2, TaskParts DEF OperatorCosts
<1>4. <<t.init, 0, 0>> \in Good
    <2>1. <<t.init, 0, 0>> \in PathEnds(t, OperatorCosts(t), t.init)
        BY <1>3, EmptyPath
    <2> PICK x : x = <<t.init, 0, 0>>
        OBVIOUS
    <2>2. x[1] = t.init /\ x \in States(t) \X Nat \X Nat
        BY <1>3
    <2> QED
        BY <2>1, <2>2 DEF IsReachable
<1>5. ASSUME NEW x \in Good, NEW o \in Ops(t), IsApplicable(t, o, x[1])
      PROVE  <<ReferenceSuccessor(t, o, x[1]), x[2] + FreeCosts(t)[o], x[3] + 1>> \in Good
    <2>1. PICK y \in PathEnds(t, OperatorCosts(t), t.init) : y[1] = x[1]
        BY DEF IsReachable
    <2>2. StepOf(t, OperatorCosts(t), y, o) \in PathEnds(t, OperatorCosts(t), t.init)
        BY <1>1, <1>3, <1>5, <2>1, LongerPath
    <2>3. StepOf(t, OperatorCosts(t), y, o)[1] = ReferenceSuccessor(t, o, x[1])
        BY <2>1 DEF StepOf
    <2>4. IsReachable(t, ReferenceSuccessor(t, o, x[1]))
        BY <2>2, <2>3 DEF IsReachable
    <2>5. x[1] \in States(t) /\ x[2] \in Nat /\ x[3] \in Nat
        OBVIOUS
    <2>6. ReferenceSuccessor(t, o, x[1]) \in States(t)
        BY <1>1, <2>5, SuccessorIsState
    <2> PICK next, cost, num : /\ next = ReferenceSuccessor(t, o, x[1])
                               /\ cost = x[2] + FreeCosts(t)[o] /\ num = x[3] + 1
        OBVIOUS
    <2>7. cost \in Nat /\ num \in Nat
        BY <1>2, <2>5
    <2>8. <<next, cost, num>> \in States(t) \X Nat \X Nat /\ <<next, cost, num>>[1] = next
        BY <2>6, <2>7
    <2> QED
        BY <2>4, <2>8
<1> HIDE DEF Good
<1>6. PathCosts(t, FreeCosts(t), t.init) \subseteq Good
    BY ONLY <1>1, <1>4, <1>5, PathsStayGood
<1>7. PICK x \in PathCosts(t, FreeCosts(t), t.init) : x[1] = s
    BY DEF Reached
<1>8. x \in Good
    BY <1>6
<1> QED
    BY <1>7, <1>8 DEF Good

(* The perfect estimate is what a plan from there costs, if there is one.  *)
LEMMA PerfectEstimateParts ==
    ASSUME NEW i \in DOMAIN Tasks, NEW t, t = Tasks[i], NEW s \in States(t)
    PROVE  \/ PerfectEstimate(i, s) = INF
           \/ \E y \in PathEnds(t, OperatorCosts(t), s) :
                IsGoalState(t, y[1]) /\ PerfectEstimate(i, s) = y[2] /\ y[2] \in Nat
<1>1. IsTask(t) /\ t.layers = <<>>
    BY MergeAndShrinkAssumption
<1>2. OperatorCosts(t) \in [Ops(t) -> Nat]
    BY <1>1, TaskParts DEF OperatorCosts
<1> PICK plans : plans = GoalCosts(t, OperatorCosts(t), s)
    OBVIOUS
<1>3. \A y \in plans : /\ y \in PathEnds(t, OperatorCosts(t), s) /\ IsGoalState(t, y[1])
                       /\ y[2] \in Nat
    <2>1. plans \subseteq PathEnds(t, OperatorCosts(t), s)
        BY <1>1, <1>2, PathCostsAreReal DEF GoalCosts
    <2>2. \A y \in PathEnds(t, OperatorCosts(t), s) : y[2] \in Nat
        BY DEF PathEnds
    <2>3. \A y \in plans : IsGoalState(t, y[1])
        BY DEF GoalCosts
    <2> QED
        BY <2>1, <2>2, <2>3
<1> PICK costs : costs = {INF} \cup {y[2] : y \in plans}
    OBVIOUS
<1>4. costs \in SUBSET Nat /\ costs # {}
    BY <1>3, InfIsNumber
<1>5. Min(costs) \in costs
    BY ONLY <1>4, MinIsMember
<1>6. PerfectEstimate(i, s) = Min(costs)
    BY DEF PerfectEstimate
<1>7. Min(costs) = INF \/ \E y \in plans : Min(costs) = y[2]
    BY <1>5
<1> QED
    BY <1>3, <1>6, <1>7

(* An estimate is of a state that can be reached, and is what the cheapest *)
(* plan from there costs, or INF.                                          *)
LEMMA EstimateParts ==
    ASSUME input \in Inputs, NEW x \in EstimatesOfTask
    PROVE  /\ x[2] \in States(task) /\ IsReachable(task, x[2])
           /\ x[3] \in Nat
           /\ \/ x[3] = INF
              \/ \E y \in PathEnds(task, OperatorCosts(task), x[2]) :
                    IsGoalState(task, y[1]) /\ x[3] = y[2]
           /\ x[3] # INF => OnPlan(task, x[2])
<1>0. x \in PerfectEstimates /\ x[1] = input.task
    BY DEF EstimatesOfTask
<1>1. PICK i \in DOMAIN Tasks : x \in {<<i, s, PerfectEstimate(i, s)>> : s \in Reached(i)}
    BY <1>0 DEF PerfectEstimates
<1>8. PICK s \in Reached(i) : x = <<i, s, PerfectEstimate(i, s)>>
    BY <1>1
<1>2. x[1] = i /\ x[2] = s /\ x[3] = PerfectEstimate(i, s)
    BY <1>8
<1> PICK t : t = Tasks[i]
    OBVIOUS
<1>3. t = task
    BY <1>0, <1>2 DEF task
<1>4. s \in States(t) /\ IsReachable(t, s)
    BY ReachedParts
<1>5. \/ PerfectEstimate(i, s) = INF
      \/ \E y \in PathEnds(t, OperatorCosts(t), s) :
            IsGoalState(t, y[1]) /\ PerfectEstimate(i, s) = y[2] /\ y[2] \in Nat
    BY <1>4, PerfectEstimateParts
<1>6. PerfectEstimate(i, s) # INF => OnPlan(t, s)
    BY <1>4, <1>5 DEF OnPlan
<1>7. PerfectEstimate(i, s) \in Nat
    BY <1>5, InfIsNumber
<1> QED
    BY <1>2, <1>3, <1>4, <1>5, <1>6, <1>7

(* A step of the task.                                                     *)
LEMMA StepParts ==
    ASSUME NEW x \in StepsOfTask
    PROVE  /\ x[2] \in States(task) /\ x[3] \in Ops(task) /\ IsApplicable(task, x[3], x[2])
           /\ x[4] = ReferenceSuccessor(task, x[3], x[2])
<1>1. x \in TaskSteps /\ x[1] = input.task
    BY DEF StepsOfTask
<1> DEFINE Applied(i, s) == {<<i, s, o, ReferenceSuccessor(Tasks[i], o, s)>> :
                                o \in {y \in Ops(Tasks[i]) : IsApplicable(Tasks[i], y, s)}}
<1>2. PICK i \in DOMAIN Tasks : x \in UNION {Applied(i, s) : s \in Reached(i)}
    BY <1>1 DEF TaskSteps
<1>3. PICK s \in Reached(i) : x \in Applied(i, s)
    BY <1>2
<1>4. PICK o \in Ops(Tasks[i]) :
        IsApplicable(Tasks[i], o, s) /\ x = <<i, s, o, ReferenceSuccessor(Tasks[i], o, s)>>
    BY <1>3
<1>5. task = Tasks[i]
    BY <1>1, <1>4 DEF task
<1>6. s \in States(task)
    BY <1>5, ReachedParts
<1> QED
    BY <1>4, <1>5, <1>6
-------------------------------------------------------------------------------
(* Every factor is always an abstraction of the task: it has the images of *)
(* the initial state, of goal states and of the steps between states that  *)
(* are not pruned, for the label of the operator and no more than its      *)
(* cost, and what it pruned lies on no plan; whatever was merged, shrunk,  *)
(* pruned and reduced before.                                              *)
THEOREM FactorsStayAbstractions == Spec => []FactorsAreAbstractions
<1>1. IInv => FactorsAreAbstractions
    <2> SUFFICES ASSUME IInv, NEW i \in DOMAIN fts.factors
                 PROVE  LET f == fts.factors[i]
                            IsAlive(s) == f.value[s] # PRUNED_STATE
                            Edge(o) == UNION {x.transitions : x \in {y \in f.groups :
                                                    /\ fts.label_of[o] \in y.labels
                                                    /\ y.cost <= task.operators[o].cost}}
                            Images(o) == {<<f.value[x[2]], f.value[x[4]]>> :
                                            x \in {y \in StepsOfTask :
                                                    y[3] = o /\ IsAlive(y[2]) /\ IsAlive(y[4])}}
                        IN  /\ IsAlive(task.init) => f.init = f.value[task.init]
                            /\ \A x \in EstimatesOfTask :
                                /\ x[3] # INF => IsAlive(x[2])
                                /\ IsAlive(x[2]) /\ IsGoalState(task, x[2]) => f.value[x[2]] \in f.goals
                            /\ \A o \in Ops(task) : Images(o) \subseteq Edge(o)
        BY DEF FactorsAreAbstractions, Active
    <2> PICK f : f = fts.factors[i]
        OBVIOUS
    <2>1. /\ input \in Inputs /\ LabelsFit(task, fts.labels, fts.label_of)
          /\ GoodFactor(task, fts.labels, fts.label_of, f)
        BY DEF IInv, GoodFTS
    <2>2. Abstracts(task, fts.label_of, f)
        BY <2>1 DEF GoodFactor
    <2>3. IsTask(task) /\ task.layers = <<>>
        BY <2>1, InputParts
    <2>4. f.init = f.value[task.init]
        BY <2>2 DEF Abstracts
    <2>5. ASSUME NEW x \in EstimatesOfTask
          PROVE  /\ x[3] # INF => f.value[x[2]] # PRUNED_STATE
                 /\ f.value[x[2]] # PRUNED_STATE /\ IsGoalState(task, x[2]) => f.value[x[2]] \in f.goals
        <3>1. x[2] \in States(task) /\ (x[3] # INF => OnPlan(task, x[2]))
            BY <2>1, EstimateParts
        <3> QED
            BY <2>2, <3>1 DEF Abstracts, Alive
    <2>6. ASSUME NEW o \in Ops(task), NEW x \in StepsOfTask, x[3] = o,
                 f.value[x[2]] # PRUNED_STATE, f.value[x[4]] # PRUNED_STATE
          PROVE  \E y \in f.groups : /\ fts.label_of[o] \in y.labels /\ y.cost <= task.operators[o].cost
                                     /\ <<f.value[x[2]], f.value[x[4]]>> \in y.transitions
        <3> PICK t, labels, label_of, s, next :
                /\ t = task /\ labels = fts.labels /\ label_of = fts.label_of
                /\ s = x[2] /\ next = x[4]
            OBVIOUS
        <3>1. s \in States(t) /\ IsApplicable(t, o, s) /\ next = ReferenceSuccessor(t, o, s)
            BY <2>6, StepParts
        <3>2. Alive(f, s) /\ Alive(f, next) /\ o \in Ops(t)
            BY <2>6 DEF Alive
        <3>3. /\ IsTask(t) /\ t.layers = <<>> /\ LabelsFit(t, labels, label_of)
              /\ GoodFactor(t, labels, label_of, f)
            BY <2>1, <2>3
        <3>4. \E y \in f.groups : /\ label_of[o] \in y.labels
                                  /\ <<f.value[s], f.value[next]>> \in y.transitions
                                  /\ y.cost \in Nat /\ y.cost <= t.operators[o].cost
            BY ONLY <3>1, <3>2, <3>3, StepsHaveTransitions
        <3> QED
            BY <3>4
    <2> QED
        BY <2>4, <2>5, <2>6
<1> QED
    BY <1>1, Invariance, PTL

(* Merge-and-shrink is admissible: the estimate of a state that can be     *)
(* reached is never above what its cheapest plan costs, and a state that   *)
(* it calls a dead end has no plan; for all options, merges and label      *)
(* reductions, and wherever the time was over.                             *)
THEOREM EstimatesStayLowerBounds == Spec => []EstimatesAreLowerBounds
<1>1. IInv => EstimatesAreLowerBounds
    <2> SUFFICES ASSUME IInv, pc = "done", NEW x \in EstimatesOfTask
                 PROVE  Heuristic(x[2]) <= x[3]
        BY DEF EstimatesAreLowerBounds
    <2> PICK t, labels, label_of, s, best :
            t = task /\ labels = fts.labels /\ label_of = fts.label_of /\ s = x[2] /\ best = x[3]
        OBVIOUS
    <2>1. /\ input \in Inputs /\ LabelsFit(t, labels, label_of)
          /\ \A f \in kept : GoodFactor(t, labels, label_of, f) /\ HasDistances(FALSE, TRUE, f)
        BY DEF IInv, GoodFTS
    <2>2. IsTask(t) /\ t.layers = <<>>
        BY <2>1, InputParts
    <2>3. /\ s \in States(t) /\ IsReachable(t, s) /\ best \in Nat
          /\ \/ best = INF
             \/ \E y \in PathEnds(t, OperatorCosts(t), s) : IsGoalState(t, y[1]) /\ best = y[2]
          /\ best # INF => OnPlan(t, s)
        BY <2>1, EstimateParts
    <2> DEFINE Cost(f) == IF f.value[s] = PRUNED_STATE THEN INF ELSE f.h[f.value[s]]
    <2>4. ASSUME NEW f \in kept
          PROVE  Cost(f) \in Nat /\ Cost(f) <= best
        <3>1. GoodFactor(t, labels, label_of, f) /\ HasDistances(FALSE, TRUE, f)
            BY <2>1
        <3>2. CASE f.value[s] = PRUNED_STATE
            <4>1. ~OnPlan(t, s)
                BY <2>3, <3>1, <3>2 DEF GoodFactor, Abstracts, Alive
            <4>2. best = INF /\ Cost(f) = INF
                BY <2>3, <3>2, <4>1
            <4> QED
                BY <4>2, InfIsNumber
        <3>3. CASE f.value[s] # PRUNED_STATE
            <4>1. f.size \in Nat /\ f.value[s] \in 0 .. f.size - 1 /\ StatesOf(f) = 0 .. f.size - 1
                BY <2>3, <3>1, <3>3 DEF GoodFactor, IsFactor, IsSystem, Represents, StatesOf
            <4>2. f.size # 0
                BY <4>1
            <4>3. f.h # NotComputed
                BY <3>1, <4>2 DEF HasDistances
            <4>4. f.h[f.value[s]] \in 0 .. INF
                BY <3>1, <4>1, <4>3 DEF GoodFactor, AreBounds, IsGoalBound
            <4>5. CASE best = INF
                <5> PICK d : d = f.h[f.value[s]]
                    OBVIOUS
                <5>1. d \in Nat /\ d <= INF
                    BY <4>4, InfIsNumber
                <5> QED
                    BY <3>3, <4>5, <5>1
            <4>6. CASE best # INF
                <5>1. PICK y \in PathEnds(t, OperatorCosts(t), s) : IsGoalState(t, y[1]) /\ best = y[2]
                    BY <2>3, <4>6
                <5>2. f.h[f.value[s]] <= y[2]
                    BY ONLY <2>1, <2>2, <2>3, <3>1, <4>3, <5>1, GoalDistanceOfPaths
                <5> PICK d : d = f.h[f.value[s]]
                    OBVIOUS
                <5>3. d \in Nat /\ d <= best
                    BY <4>4, <5>1, <5>2, InfIsNumber
                <5> QED
                    BY <3>3, <5>3
            <4> QED
                BY <4>5, <4>6
        <3> QED
            BY <3>2, <3>3
    <2> PICK costs : costs = {0} \cup {Cost(f) : f \in kept}
        OBVIOUS
    <2>5. Heuristic(s) = Max(costs)
        BY DEF Heuristic
    <2>6. costs \in SUBSET Nat /\ costs # {} /\ \A c \in costs : c <= best
        <3> HIDE DEF Cost
        <3> QED
            BY <2>3, <2>4
    <2>7. Max(costs) \in costs
        BY ONLY <2>3, <2>6, MaxIsMember
    <2> QED
        BY <2>5, <2>6, <2>7
<1> QED
    BY <1>1, Invariance, PTL

(* The strategies that can reach any size keep to the limits: the factors  *)
(* that are merged and their product are never larger.                     *)
THEOREM SizesStayWithinLimits == Spec => []SizesWithinLimits
<1>1. IInv => SizesWithinLimits
    <2> SUFFICES ASSUME IInv, input.strategy.name # "bisimulation"
                 PROVE  /\ pc \in {"reduce_before_merging", "merge"} =>
                            \A k \in {1, 2} :
                                fts.factors[merge_indices[k]].size <= limits.max_states_before_merge
                        /\ pc = "prune" => fts.factors[index].size <= limits.max_states
        BY DEF SizesWithinLimits
    <2>1. ASSUME pc \in {"reduce_before_merging", "merge"}
          PROVE  \A k \in {1, 2} : fts.factors[merge_indices[k]].size <= limits.max_states_before_merge
        <3>1. PICK i, j \in DOMAIN fts.factors :
                merge_indices = <<i, j>> /\ SizesFit(fts.factors[i], fts.factors[j])
            BY <2>1 DEF IInv, Merging
        <3>2. merge_indices[1] = i /\ merge_indices[2] = j
            BY <3>1
        <3> QED
            BY <3>1, <3>2 DEF SizesFit
    <2>2. pc = "prune" => fts.factors[index].size <= limits.max_states
        BY DEF IInv
    <2> QED
        BY <2>1, <2>2
<1> QED
    BY <1>1, Invariance, PTL
===============================================================================
