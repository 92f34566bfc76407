---------------------------- MODULE PlansGraphProofs ----------------------------
(***************************************************************************)
(* The plans graph is what GraphForbidReformulatedTask and the top-k loop  *)
(* take it for: for every task, every sequence of generators, every plan   *)
(* and all options, and whatever the iterations over growing containers    *)
(* skip, its indexes agree, it is closed under the symmetries, and the     *)
(* search over interchangeable operators never fails.  When the plan read  *)
(* is a cheapest one, no plan that was saved is lost from it again.        *)
(***************************************************************************)
EXTENDS PlansGraph, FiniteSetsExt, SequenceTheorems, FiniteSetTheorems, TLAPS

Lemmas == INSTANCE TaskLemmas
-------------------------------------------------------------------------------
(* Edges are transitions of the task between nodes of the graph.           *)
Transitions ==
    {e \in State \X Op \X State : /\ IsApplicable(e[2], e[1])
                                  /\ e[3] = Successor(e[2], e[1])}

GraphInv ==
    /\ nodes \subseteq State
    /\ edges \subseteq Transitions
    /\ DOMAIN origins \subseteq Op
    /\ IndexesAgree

TypeInv ==
    /\ input \in Inputs
    /\ curr_ind \in 0 .. Len(plan)
    /\ GraphInv

(* Every operator of the group that was not passed on the way to a state   *)
(* of the queue is applicable there.                                       *)
CanFollow(passed, st) == \A i \in Positions \ passed[st] : IsApplicable(plan[i], st)

BreadthInv ==
    /\ pc = "breadth" /\ reduce_plan_orders = "NEIGHBOURS_INTERFERE" =>
            /\ curr_ind < Len(plan)
            /\ bfs_queue \in Seq(State)
            /\ \A k \in 1 .. Len(bfs_queue) : /\ bfs_queue[k] \in DOMAIN covered
                                              /\ CanFollow(covered, bfs_queue[k])
    /\ NeverCriticalError

(* A sweep that has changed nothing has seen all the edges of the nodes it *)
(* visited, and a round that has changed nothing leaves the graph closed   *)
(* under the generators it went through.                                   *)
Counterpart(i, e) ==
    <<Generators[i].state[e[1]], Generators[i].op[e[2]], Generators[i].state[e[3]]>>

Closed(i, es) == \A e \in es : Counterpart(i, e) \in edges

SweepInv ==
    /\ pc = "sweep" =>
            /\ gen \in 1 .. Len(Generators)
            /\ ~curr_change => /\ nodes = start
                               /\ Closed(gen, {e \in edges : e[1] \in visited})
            /\ ~change /\ ~curr_change => \A i \in 1 .. gen - 1 : Closed(i, edges)
    /\ pc = "last_dump" =>
            EnoughPlansFound \/ \A i \in DOMAIN Generators : Closed(i, edges)
    /\ ClosedUnderSymmetries

IInv == TypeInv /\ BreadthInv /\ SweepInv
-------------------------------------------------------------------------------
(* InOrder lists members of a finite set of numbers: by the least rank     *)
(* that no member has.                                                     *)
LEMMA InOrderListsMembers ==
    ASSUME NEW S \in SUBSET Nat, IsFiniteSet(S), NEW k \in 1 .. Cardinality(S)
    PROVE  InOrder(S)[k] \in S
<1> DEFINE Below(i) == {j \in S : j < i}
           Free == {n \in 1 .. Cardinality(S) :
                        \A i \in S : Cardinality(Below(i)) # n - 1}
<1>1. Cardinality(S) \in Nat /\ Free \in SUBSET Nat
    BY FS_CardinalityType
<1>2. SUFFICES Free = {}
    <2>1. \E i \in S : Cardinality(Below(i)) = k - 1
        BY <1>2
    <2> QED
        BY <2>1 DEF InOrder
<1>3. SUFFICES ASSUME Free # {}
               PROVE  FALSE
    OBVIOUS
<1>4. PICK n \in Free : \A m \in Free : n <= m
    <2> HIDE DEF Free
    <2> QED
        BY <1>1, <1>3, Lemmas!SmallestNumber
<1>5. n \in 1 .. Cardinality(S) /\ \A i \in S : Cardinality(Below(i)) # n - 1
    OBVIOUS
<1>6. CASE n = 1
    <2>1. S # {}
        BY <1>1, <1>5, FS_EmptySet
    <2>2. PICK i \in S : \A j \in S : i <= j
        BY <2>1, Lemmas!SmallestNumber
    <2>3. Below(i) = {}
        <3>1. \A j \in S : ~(j < i)
            BY <2>2
        <3> QED
            BY <3>1
    <2> QED
        BY <1>5, <1>6, <2>3, FS_EmptySet
<1>7. CASE n # 1
    <2>1. n - 1 \in 1 .. Cardinality(S) /\ n - 1 \notin Free
        <3>1. n \in Nat /\ n - 1 \in 1 .. Cardinality(S) /\ ~(n <= n - 1)
            BY <1>1, <1>5, <1>7
        <3> HIDE DEF Free
        <3> QED
            BY <1>4, <3>1
    <2>2. PICK i \in S : Cardinality(Below(i)) = n - 2
        <3>1. PICK i \in S : Cardinality(Below(i)) = (n - 1) - 1
            BY <2>1
        <3>2. (n - 1) - 1 = n - 2
            BY <1>1, <1>5
        <3> QED
            BY <3>1, <3>2
    <2>3. /\ IsFiniteSet(Below(i) \cup {i})
          /\ Cardinality(Below(i) \cup {i}) = n - 1
        <3>1. IsFiniteSet(Below(i)) /\ i \notin Below(i)
            BY FS_Subset
        <3>2. Cardinality(Below(i) \cup {i}) = Cardinality(Below(i)) + 1
            <4> HIDE DEF Below
            <4> QED
                BY <3>1, FS_AddElement
        <3>3. IsFiniteSet(Below(i) \cup {i})
            <4> HIDE DEF Below
            <4> QED
                BY <3>1, FS_AddElement
        <3> QED
            BY <1>1, <1>5, <2>2, <3>2, <3>3
    <2> DEFINE Above == {j \in S : i < j}
    <2>4. Above # {}
        <3> SUFFICES ASSUME Above = {}
                     PROVE  FALSE
            OBVIOUS
        <3>1. \A j \in S : j < i \/ j = i
            OBVIOUS
        <3>2. S = Below(i) \cup {i}
            BY <3>1
        <3> QED
            BY <1>1, <1>5, <2>3, <3>2
    <2>5. Above \in SUBSET Nat
        OBVIOUS
    <2>6. PICK j \in Above : \A m \in Above : j <= m
        <3> HIDE DEF Above
        <3> QED
            BY <2>4, <2>5, Lemmas!SmallestNumber
    <2>7. Below(j) = Below(i) \cup {i}
        <3>1. \A m \in S : m < j <=> m < i \/ m = i
            BY <2>6
        <3> QED
            BY <3>1
    <2> QED
        BY <1>5, <2>3, <2>6, <2>7
<1> QED
    BY <1>6, <1>7

(* What the assumptions say of the input, and of a transition.             *)
LEMMA PlanFacts ==
    ASSUME input \in Inputs
    PROVE  /\ plan \in Seq(Op) /\ Len(plan) \in Nat
           /\ DOMAIN plan = 1 .. Len(plan)
           /\ LeadThrough(plan, Visits(plan))
<1>1. plan \in Seq(Op)
    BY PlansGraphAssumption DEF plan
<1>2. LeadThrough(plan, Visits(plan))
    BY PlansGraphAssumption DEF plan
<1> QED
    BY <1>1, <1>2

LEMMA GeneratorFacts ==
    ASSUME input \in Inputs
    PROVE  /\ Generators \in Seq([state : [State -> State], op : [Op -> Op]])
           /\ Len(Generators) \in Nat /\ DOMAIN Generators = 1 .. Len(Generators)
           /\ \A i \in DOMAIN Generators : IsSymmetry(Generators[i])
<1>1. input.symmetry_group \in DOMAIN Groups
    BY PlansGraphAssumption
<1>2. Generators \in Seq([state : [State -> State], op : [Op -> Op]])
    BY <1>1, PlansGraphAssumption DEF Generators
<1>3. \A i \in DOMAIN Generators : IsSymmetry(Generators[i])
    BY <1>1, PlansGraphAssumption DEF Generators
<1> QED
    BY <1>2, <1>3

LEMMA ApplicableInTask ==
    ASSUME NEW o, NEW st, IsApplicable(o, st)
    PROVE  /\ o \in Op /\ st \in State /\ Successor(o, st) \in State
           /\ <<st, o, Successor(o, st)>> \in Transitions
BY ParentAssumption DEF IsApplicable, Successor, Transitions

(* add_edge keeps the indexes in step.                                     *)
LEMMA AddingEdges ==
    ASSUME GraphInv, NEW new \in SUBSET Transitions, AddEdges(new)
    PROVE  GraphInv'
<1>1. nodes' \subseteq State
    BY DEF GraphInv, AddEdges, Transitions
<1>2. edges' \subseteq Transitions
    BY DEF GraphInv, AddEdges
<1>3. DOMAIN origins' = DOMAIN origins \cup {e[2] : e \in new}
    BY DEF AddEdges
<1>4. DOMAIN origins' \subseteq Op
    BY <1>3 DEF GraphInv, Transitions
<1>5. \A e \in edges' : {e[1], e[3]} \subseteq nodes' /\ e[2] \in DOMAIN origins'
    BY <1>3 DEF GraphInv, IndexesAgree, AddEdges
<1>6. ASSUME NEW o \in DOMAIN origins'
      PROVE  origins'[o] = {st \in State : \E e \in edges' : e[1] = st /\ e[2] = o}
    <2>1. origins'[o] = (IF o \in DOMAIN origins THEN origins[o] ELSE {})
                            \cup {e[1] : e \in {n \in new : n[2] = o}}
        BY <1>3, <1>6 DEF AddEdges
    <2>2. (IF o \in DOMAIN origins THEN origins[o] ELSE {})
            = {st \in State : \E e \in edges : e[1] = st /\ e[2] = o}
        BY DEF GraphInv, IndexesAgree
    <2>3. {e[1] : e \in {n \in new : n[2] = o}}
            = {st \in State : \E e \in new : e[1] = st /\ e[2] = o}
        BY DEF Transitions
    <2>4. edges' = edges \cup new
        BY DEF AddEdges
    <2> QED
        BY <2>1, <2>2, <2>3, <2>4
<1> QED
    BY <1>1, <1>2, <1>4, <1>5, <1>6 DEF GraphInv, IndexesAgree

(* So does the removal of what is on no cheapest path: from the end of an  *)
(* edge that stays another one goes on, or it is a goal state.             *)
LEMMA KeepingOnPlans ==
    ASSUME GraphInv, NEW distance, Settled(distance), NEW reached,
           \A e \in CheapestEdges(distance) : e[1] \in reached => e[3] \in reached,
           KeepOnPlans(CheapestEdges(distance), reached, distance)
    PROVE  GraphInv'
<1> DEFINE on_plans == CheapestEdges(distance)
<1>1. on_plans \subseteq edges
    BY DEF CheapestEdges
<1>2. edges' = {e \in on_plans : e[1] \in reached}
    BY DEF KeepOnPlans
<1>3. nodes' = {st \in nodes \cap reached :
                    IsGoalState(st) \/ \E e \in on_plans : e[1] = st}
    BY DEF KeepOnPlans
<1>4. DOMAIN origins' = DOMAIN origins
    BY DEF KeepOnPlans
<1>5. ASSUME NEW e \in edges'
      PROVE  {e[1], e[3]} \subseteq nodes' /\ e[2] \in DOMAIN origins'
    <2>1. /\ e \in on_plans /\ e \in edges
          /\ e[1] \in nodes \cap reached /\ e[3] \in nodes \cap reached
          /\ e[2] \in DOMAIN origins
        BY <1>1, <1>2 DEF GraphInv, IndexesAgree
    <2>2. distance[e[3]] # Unknown
        BY <2>1 DEF CheapestEdges
    <2>3. IsGoalState(e[3]) \/ \E f \in on_plans : f[1] = e[3]
        BY <2>1, <2>2 DEF Settled, Outgoing, CheapestEdges
    <2> QED
        BY <1>3, <1>4, <2>1, <2>3
<1>6. ASSUME NEW o \in DOMAIN origins'
      PROVE  origins'[o] = {st \in State : \E e \in edges' : e[1] = st /\ e[2] = o}
    <2>1. origins'[o] = {st \in origins[o] : \E e \in edges' : e[1] = st /\ e[2] = o}
        BY <1>4, <1>6 DEF KeepOnPlans
    <2>2. origins[o] = {st \in State : \E e \in edges : e[1] = st /\ e[2] = o}
        BY <1>4 DEF GraphInv, IndexesAgree
    <2>3. edges' \subseteq edges
        BY <1>1, <1>2
    <2> QED
        BY <2>1, <2>2, <2>3
<1> QED
    <2>1. nodes' \subseteq State /\ edges' \subseteq Transitions /\ DOMAIN origins' \subseteq Op
        BY <1>1, <1>2, <1>3, <1>4 DEF GraphInv
    <2> QED
        BY <1>5, <1>6, <2>1 DEF GraphInv, IndexesAgree

(* A generator maps transitions to transitions.                            *)
LEMMA CounterpartsAreTransitions ==
    ASSUME input \in Inputs, NEW i \in DOMAIN Generators, NEW e \in Transitions
    PROVE  /\ Counterpart(i, e) \in Transitions
           /\ Counterpart(i, e) =
                <<Generators[i].state[e[1]], Generators[i].op[e[2]],
                  Successor(Generators[i].op[e[2]], Generators[i].state[e[1]])>>
<1>1. IsSymmetry(Generators[i])
    BY GeneratorFacts
<1>2. /\ <<e[1], e[2]>> \in DOMAIN Succ
      /\ e[3] = Succ[<<e[1], e[2]>>]
    BY DEF Transitions, IsApplicable, Successor
<1> DEFINE p == <<e[1], e[2]>>
           g == Generators[i]
<1>3. /\ IsApplicable(g.op[p[2]], g.state[p[1]])
      /\ Successor(g.op[p[2]], g.state[p[1]]) = g.state[Succ[p]]
    BY <1>1, <1>2 DEF IsSymmetry
<1>4. /\ IsApplicable(g.op[e[2]], g.state[e[1]])
      /\ Successor(g.op[e[2]], g.state[e[1]]) = g.state[e[3]]
    BY <1>2, <1>3
<1> QED
    BY <1>4, ApplicableInTask DEF Counterpart
-------------------------------------------------------------------------------
(* The group of operators that a search over interchangeable ones takes:   *)
(* it ends inside the plan, all are applicable at its start, and any two   *)
(* of them stay applicable after one another.                              *)
LEMMA Interchangeable ==
    ASSUME input \in Inputs, NEW from \in 0 .. Len(plan) - 1
    PROVE  /\ NumInterchangeable(from) \in 1 .. Len(plan) - from
           /\ \A i \in from + 1 .. from + NumInterchangeable(from) :
                /\ i \in DOMAIN plan
                /\ IsApplicable(plan[i], Visits(plan)[from + 1])
           /\ \A i, j \in from + 1 .. from + NumInterchangeable(from) :
                i # j => StayApplicable(plan[i], plan[j])
<1> DEFINE current == Visits(plan)[from + 1]
           Stops(op_no, before) == \/ ~IsApplicable(op_no, current)
                                   \/ \E j \in before : <<op_no, plan[j]>> \in Interfere
           Ends(k) == from + k = Len(plan) \/ Stops(plan[from + k + 1], from + 1 .. from + k)
           S == {k \in 1 .. Len(plan) - from : Ends(k)}
           n == NumInterchangeable(from)
<1>1. /\ plan \in Seq(Op) /\ Len(plan) \in Nat /\ from \in Nat /\ from < Len(plan)
      /\ LeadThrough(plan, Visits(plan))
    BY PlanFacts
<1>2. S \in SUBSET Nat /\ Len(plan) - from \in S
    <2>1. Ends(Len(plan) - from)
        BY <1>1
    <2> QED
        BY <1>1, <2>1
<1>3. n = Min(S)
    BY DEF NumInterchangeable
<1>4. PICK m \in S : \A k \in S : m <= k
    <2> HIDE DEF S
    <2> QED
        BY <1>2, Lemmas!SmallestNumber
<1>5. n = m
    <2> HIDE DEF S, n
    <2> QED
        BY <1>2, <1>3, <1>4, Lemmas!MinIsLeast DEF Min, Lemmas!Min
<1>6. /\ n \in 1 .. Len(plan) - from
      /\ \A k \in 1 .. n - 1 : ~Ends(k)
    <2>1. \A k \in 1 .. n - 1 : k \in 1 .. Len(plan) - from /\ ~(n <= k)
        BY <1>1, <1>4, <1>5
    <2> QED
        BY <1>4, <1>5, <2>1
<1>7. ASSUME NEW i \in from + 1 .. from + n
      PROVE  /\ i \in DOMAIN plan
             /\ IsApplicable(plan[i], current)
             /\ \A j \in from + 1 .. i - 1 : <<plan[i], plan[j]>> \notin Interfere
    <2> HIDE DEF n
    <2>1. i \in Nat /\ i \in DOMAIN plan /\ i - from \in 1 .. n
        BY <1>1, <1>6
    <2>2. CASE i = from + 1
        <3>1. IsApplicable(plan[i], current)
            BY <1>1, <2>1, <2>2 DEF LeadThrough
        <3> QED
            BY <1>1, <2>1, <2>2, <3>1
    <2>3. CASE i # from + 1
        <3> DEFINE k == i - from - 1
        <3>1. k \in 1 .. n - 1 /\ from + k + 1 = i /\ from + k = i - 1
            BY <1>1, <1>6, <2>1, <2>3
        <3>2. ~Stops(plan[from + k + 1], from + 1 .. from + k)
            BY <1>6, <3>1
        <3> QED
            BY <2>1, <3>1, <3>2
    <2> QED
        BY <2>2, <2>3
<1>8. ASSUME NEW i \in from + 1 .. from + n, NEW j \in from + 1 .. from + n, i # j
      PROVE  StayApplicable(plan[i], plan[j])
    <2> HIDE DEF n
    <2>1. plan[i] \in Op /\ plan[j] \in Op
        BY <1>1, <1>7
    <2>2. \/ <<plan[i], plan[j]>> \notin Interfere
          \/ <<plan[j], plan[i]>> \notin Interfere
        <3>1. j \in from + 1 .. i - 1 \/ i \in from + 1 .. j - 1
            BY <1>1, <1>6, <1>8
        <3> QED
            BY <1>7, <3>1
    <2> QED
        BY <2>1, <2>2, PlansGraphAssumption DEF StayApplicable
<1> QED
    BY <1>6, <1>7, <1>8
-------------------------------------------------------------------------------
(* The graph after each step.  Plans, rounds and dumps leave it alone.     *)
LEMMA AddPlanKeepsGraph ==
    ASSUME TypeInv, AddPlan
    PROVE  GraphInv'
<1> DEFINE states == Visits(plan)
           new == {<<states[i], plan[i], states[i + 1]>> : i \in DOMAIN plan}
<1>1. LeadThrough(plan, states)
    BY PlanFacts DEF TypeInv
<1>2. new \in SUBSET Transitions
    BY <1>1, ApplicableInTask DEF LeadThrough
<1>3. AddEdges(new)
    BY DEF AddPlan
<1> QED
    <2> HIDE DEF new
    <2> QED
        BY <1>2, <1>3, AddingEdges DEF TypeInv

LEMMA ExpandBreadthKeepsGraph ==
    ASSUME TypeInv, ExpandBreadth
    PROVE  GraphInv'
<1> DEFINE st == Head(bfs_queue)
           left == Positions \ covered[st]
           Follow(i) == Successor(plan[i], st)
           used == {i \in left : /\ IsApplicable(plan[i], st)
                                 /\ Follow(i) \notin closed \cup {st}}
           new == {<<st, plan[i], Follow(i)>> : i \in used}
<1>1. UNCHANGED graph \/ AddEdges(new)
    BY DEF ExpandBreadth
<1>2. CASE UNCHANGED graph
    BY <1>2 DEF TypeInv, GraphInv, IndexesAgree, graph
<1>3. CASE AddEdges(new)
    <2>1. new \in SUBSET Transitions
        BY ApplicableInTask
    <2> HIDE DEF new
    <2> QED
        BY <1>3, <2>1, AddingEdges DEF TypeInv
<1> QED
    BY <1>1, <1>2, <1>3

LEMMA ExpandKeepsGraph ==
    ASSUME TypeInv, Expand
    PROVE  GraphInv'
<1> DEFINE curr == Last(dfs_queue)
           st == Last(curr.path)
           Target(i) == Successor(curr.remaining[i], st)
           used == {i \in DOMAIN curr.remaining :
                        /\ \A j \in 1 .. i - 1 : curr.remaining[j] # curr.remaining[i]
                        /\ IsApplicable(curr.remaining[i], st)
                        /\ reduce_plan_orders = "NAIVE_ALL_DFS_NODUP" =>
                                Target(i) \notin ToSet(curr.path)}
           new == {<<st, curr.remaining[i], Target(i)>> : i \in used}
<1>1. AddEdges(new)
    BY DEF Expand
<1>2. new \in SUBSET Transitions
    BY ApplicableInTask
<1> QED
    <2> HIDE DEF new
    <2> QED
        BY <1>1, <1>2, AddingEdges DEF TypeInv

LEMMA CleaningKeepsGraph ==
    ASSUME TypeInv, GreedyClean \/ RemoveNonPlans
    PROVE  GraphInv'
<1>1. CASE GreedyClean
    <2>1. PICK distance \in SettledDistances :
                KeepOnPlans(CheapestEdges(distance), State, distance)
        BY <1>1 DEF GreedyClean
    <2>2. Settled(distance)
        BY <2>1 DEF SettledDistances
    <2>3. \A e \in CheapestEdges(distance) : e[1] \in State => e[3] \in State
        BY DEF CheapestEdges, TypeInv, GraphInv, Transitions
    <2> QED
        BY <2>1, <2>2, <2>3, KeepingOnPlans DEF TypeInv
<1>2. CASE RemoveNonPlans
    <2>1. PICK distance \in SettledDistances :
          \E reached \in IF pc = "depth" THEN SettledStates(CheapestEdges(distance))
                         ELSE {State} :
                KeepOnPlans(CheapestEdges(distance), reached, distance)
        BY <1>2 DEF RemoveNonPlans
    <2>2. PICK reached \in IF pc = "depth" THEN SettledStates(CheapestEdges(distance))
                           ELSE {State} :
                KeepOnPlans(CheapestEdges(distance), reached, distance)
        BY <2>1
    <2>3. Settled(distance)
        BY <2>1 DEF SettledDistances
    <2>4. \A e \in CheapestEdges(distance) : e[1] \in reached => e[3] \in reached
        <3>1. CASE pc = "depth"
            BY <2>2, <3>1 DEF SettledStates
        <3>2. CASE pc # "depth"
            <4>1. reached = State
                BY <2>2, <3>2
            <4> QED
                BY <4>1 DEF CheapestEdges, TypeInv, GraphInv, Transitions
        <3> QED
            BY <3>1, <3>2
    <2> QED
        BY <2>2, <2>3, <2>4, KeepingOnPlans DEF TypeInv
<1> QED
    BY <1>1, <1>2

LEMMA VisitNodeKeepsGraph ==
    ASSUME TypeInv, SweepInv, NEW st \in nodes, VisitNode(st)
    PROVE  GraphInv'
<1>1. PICK seen \in SUBSET Outgoing(st) :
            AddEdges({Permuted(e) : e \in seen} \ edges)
    BY DEF VisitNode
<1>2. gen \in DOMAIN Generators
    BY GeneratorFacts DEF VisitNode, SweepInv, TypeInv
<1>3. ASSUME NEW e \in seen
      PROVE  Permuted(e) \in Transitions
    <2>1. e \in Transitions
        BY <1>1 DEF Outgoing, TypeInv, GraphInv
    <2> QED
        BY <1>2, <2>1, CounterpartsAreTransitions DEF Permuted, TypeInv
<1>4. {Permuted(e) : e \in seen} \ edges \in SUBSET Transitions
    BY <1>3
<1> QED
    BY <1>1, <1>4, AddingEdges DEF TypeInv

(* The type part of the invariant, per action.                             *)
LEMMA TypeStep ==
    ASSUME IInv, [Next]_vars
    PROVE  TypeInv'
<1> USE DEF IInv, TypeInv
<1> SUFFICES /\ input' = input
             /\ curr_ind' \in 0 .. Len(plan)
             /\ GraphInv'
    BY DEF plan
<1>1. ASSUME UNCHANGED <<input, curr_ind, graph>>
      PROVE  /\ input' = input
             /\ curr_ind' \in 0 .. Len(plan)
             /\ GraphInv'
    BY <1>1 DEF GraphInv, IndexesAgree, graph
<1>2. CASE AddPlan
    BY <1>2, AddPlanKeepsGraph DEF AddPlan, breadth
<1>3. CASE DumpFirstPlan
    BY <1>1, <1>3 DEF DumpFirstPlan, breadth
<1>4. CASE BeginNeighbours
    BY <1>1, <1>4 DEF BeginNeighbours
<1>5. CASE ExpandBreadth
    BY <1>5, ExpandBreadthKeepsGraph DEF ExpandBreadth
<1>6. CASE EndNeighbours
    <2>1. input' = input /\ UNCHANGED graph
        BY <1>6 DEF EndNeighbours
    <2>2. curr_ind' \in 0 .. Len(plan)
        <3>1. CASE curr_ind' = curr_ind
            BY <3>1
        <3>2. CASE /\ pc = "breadth"
                   /\ curr_ind' = curr_ind + NumInterchangeable(curr_ind)
            <4>1. Len(plan) \in Nat
                BY PlanFacts
            <4>2. curr_ind \in 0 .. Len(plan) - 1
                BY <1>6, <3>2, <4>1 DEF EndNeighbours, BreadthInv
            <4>3. NumInterchangeable(curr_ind) \in 1 .. Len(plan) - curr_ind
                BY <4>2, Interchangeable
            <4> QED
                BY <3>2, <4>1, <4>2, <4>3
        <3> QED
            BY <1>6, <3>1, <3>2 DEF EndNeighbours
    <2> QED
        BY <2>1, <2>2 DEF GraphInv, IndexesAgree, graph
<1>7. CASE Expand
    BY <1>7, ExpandKeepsGraph DEF Expand, breadth
<1>8. CASE GreedyClean
    BY <1>8, CleaningKeepsGraph DEF GreedyClean, breadth
<1>9. CASE DumpIntermediate
    BY <1>1, <1>9 DEF DumpIntermediate, breadth
<1>10. CASE RemoveNonPlans
    BY <1>10, CleaningKeepsGraph DEF RemoveNonPlans, breadth
<1>11. CASE DumpReorderings
    BY <1>1, <1>11 DEF DumpReorderings, breadth
<1>12. CASE BeginRound
    BY <1>1, <1>12 DEF BeginRound, breadth
<1>13. CASE \E st \in nodes : VisitNode(st)
    BY <1>13, VisitNodeKeepsGraph DEF VisitNode, breadth
<1>14. CASE EndSweep
    BY <1>1, <1>14 DEF EndSweep, breadth
<1>15. CASE NoMoreRounds
    BY <1>1, <1>15 DEF NoMoreRounds, breadth
<1>16. CASE DumpLastPlans
    BY <1>1, <1>16 DEF DumpLastPlans, breadth
<1>17. CASE UNCHANGED vars
    BY <1>1, <1>17 DEF vars, breadth
<1> QED
    BY <1>2, <1>3, <1>4, <1>5, <1>6, <1>7, <1>8, <1>9, <1>10, <1>11, <1>12, <1>13,
       <1>14, <1>15, <1>16, <1>17 DEF Next, Stop
-------------------------------------------------------------------------------
(* The search over interchangeable operators begins where all of them are  *)
(* applicable.                                                             *)
LEMMA BeginsApplicable ==
    ASSUME IInv, TypeInv', BeginNeighbours
    PROVE  BreadthInv'
<1> DEFINE current == Visits(plan)[curr_ind + 1]
<1>1. input \in Inputs /\ plan \in Seq(Op) /\ LeadThrough(plan, Visits(plan))
    BY PlanFacts DEF IInv, TypeInv
<1>2. curr_ind \in 0 .. Len(plan) - 1
    BY <1>1 DEF IInv, TypeInv, BeginNeighbours
<1>3. current \in State
    BY <1>1, <1>2 DEF LeadThrough
<1>4. /\ bfs_queue' = <<current>> /\ covered' = [st \in {current} |-> {}] /\ pc' = "breadth"
      /\ curr_ind' = curr_ind /\ input' = input
    BY DEF BeginNeighbours
<1>5. ASSUME reduce_plan_orders = "NEIGHBOURS_INTERFERE"
      PROVE  \A i \in Positions : IsApplicable(plan[i], current)
    BY <1>1, <1>2, <1>5, Interchangeable DEF Positions
<1>6. /\ Positions' = Positions /\ plan' = plan
      /\ reduce_plan_orders' = reduce_plan_orders
    BY <1>4 DEF Positions, NumInterchangeable, plan, reduce_plan_orders, FindingAdditional
<1>7. /\ bfs_queue' \in Seq(State) /\ Len(bfs_queue') = 1 /\ bfs_queue'[1] = current
      /\ DOMAIN covered' = {current} /\ covered'[current] = {}
    BY <1>3, <1>4
<1> QED
    BY <1>2, <1>4, <1>5, <1>6, <1>7 DEF BreadthInv, CanFollow, NeverCriticalError

(* After one operator of the group the others are still applicable.        *)
LEMMA SearchStaysApplicable ==
    ASSUME IInv, ExpandBreadth, reduce_plan_orders = "NEIGHBOURS_INTERFERE"
    PROVE  BreadthInv'
<1> DEFINE st == Head(bfs_queue)
           left == Positions \ covered[st]
           Follow(i) == Successor(plan[i], st)
           used == {i \in left : /\ IsApplicable(plan[i], st)
                                 /\ Follow(i) \notin closed \cup {st}}
           Ways(to) == {i \in used : Follow(i) = to}
<1>1. /\ curr_ind < Len(plan) /\ bfs_queue \in Seq(State) /\ bfs_queue # <<>>
      /\ \A k \in 1 .. Len(bfs_queue) : /\ bfs_queue[k] \in DOMAIN covered
                                        /\ CanFollow(covered, bfs_queue[k])
    BY DEF IInv, BreadthInv, ExpandBreadth
<1>2. /\ st = bfs_queue[1] /\ 1 \in 1 .. Len(bfs_queue)
      /\ Tail(bfs_queue) \in Seq(State) /\ Len(Tail(bfs_queue)) = Len(bfs_queue) - 1
      /\ \A k \in 1 .. Len(Tail(bfs_queue)) :
            /\ Tail(bfs_queue)[k] = bfs_queue[k + 1]
            /\ k + 1 \in 1 .. Len(bfs_queue)
    BY <1>1
<1>3. /\ st \in State /\ st \in DOMAIN covered
      /\ \A i \in left : IsApplicable(plan[i], st)
    BY <1>1, <1>2 DEF CanFollow
<1>4. /\ input' = input /\ curr_ind' = curr_ind
      /\ Positions' = Positions /\ plan' = plan
      /\ reduce_plan_orders' = reduce_plan_orders
    BY DEF ExpandBreadth, Positions, NumInterchangeable, plan, reduce_plan_orders,
           FindingAdditional
<1>5. pc' = pc /\ pc = "breadth"
    BY <1>3 DEF ExpandBreadth
<1>6. CASE bfs_queue' = Tail(bfs_queue) /\ covered' = covered
    <2>1. \A k \in 1 .. Len(bfs_queue') : /\ bfs_queue'[k] \in DOMAIN covered'
                                          /\ CanFollow(covered, bfs_queue[k + 1])
        BY <1>1, <1>2, <1>6
    <2>2. \A k \in 1 .. Len(bfs_queue') : CanFollow(covered', bfs_queue'[k])
        BY <1>2, <1>6, <2>1
    <2>3. \A k \in 1 .. Len(bfs_queue') : CanFollow(covered, bfs_queue[k])'
        BY <1>4, <2>2 DEF CanFollow
    <2> QED
        BY <1>1, <1>2, <1>4, <1>5, <1>6, <2>1, <2>3 DEF BreadthInv, NeverCriticalError
<1>7. CASE /\ bfs_queue' = Tail(bfs_queue)
                      \o [k \in 1 .. Cardinality(used) |-> Follow(InOrder(used)[k])]
           /\ covered' = [to \in DOMAIN covered \cup {Follow(i) : i \in used} |->
                            IF Ways(to) = {} THEN covered[to]
                            ELSE covered[st] \cup {Max(Ways(to))}]
    <2> DEFINE new == [k \in 1 .. Cardinality(used) |-> Follow(InOrder(used)[k])]
    <2>1. /\ input \in Inputs /\ curr_ind \in 0 .. Len(plan) - 1 /\ Len(plan) \in Nat
          /\ Positions = curr_ind + 1 .. curr_ind + NumInterchangeable(curr_ind)
          /\ NumInterchangeable(curr_ind) \in Nat
        <3>1. input \in Inputs /\ Len(plan) \in Nat /\ curr_ind \in 0 .. Len(plan) - 1
            BY <1>1, PlanFacts DEF IInv, TypeInv
        <3>2. NumInterchangeable(curr_ind) \in Nat
            BY <3>1, Interchangeable
        <3> QED
            BY <3>1, <3>2 DEF Positions
    <2>2. /\ used \in SUBSET Nat /\ IsFiniteSet(used) /\ Cardinality(used) \in Nat
          /\ curr_ind + NumInterchangeable(curr_ind) \in Nat
          /\ \A i \in used : i <= curr_ind + NumInterchangeable(curr_ind)
        <3>1. IsFiniteSet(Positions)
            BY <2>1, FS_Interval
        <3>2. used \subseteq Positions
            OBVIOUS
        <3>3. IsFiniteSet(used) /\ Cardinality(used) \in Nat
            BY <3>1, <3>2, FS_Subset, FS_CardinalityType
        <3> QED
            BY <2>1, <3>2, <3>3
    <2>3. \A k \in 1 .. Cardinality(used) : InOrder(used)[k] \in used
        <3> HIDE DEF used
        <3> QED
            BY <2>2, InOrderListsMembers
    <2>4. \A i \in used : Follow(i) \in State /\ Follow(i) # st
        BY ApplicableInTask
    <2>5. ASSUME NEW to, Ways(to) # {}
          PROVE  CanFollow(covered', to)
        <3>1. Ways(to) \in SUBSET Nat /\ Max(Ways(to)) \in Ways(to)
            <4>1. Ways(to) \in SUBSET Nat
                BY <2>2
            <4>2. \A i \in Ways(to) : i <= curr_ind + NumInterchangeable(curr_ind)
                BY <2>2
            <4> HIDE DEF Ways
            <4> QED
                BY <2>2, <2>5, <4>1, <4>2, Lemmas!MaxIsMember DEF Max, Lemmas!Max
        <3> DEFINE last == Max(Ways(to))
        <3>2. last \in left /\ Follow(last) = to
            BY <3>1
        <3>3. covered'[to] = covered[st] \cup {last}
            <4>1. to \in DOMAIN covered'
                BY <1>7, <2>5
            <4> QED
                BY <1>7, <2>5, <4>1
        <3> HIDE DEF last
        <3>4. ASSUME NEW i \in Positions \ covered'[to]
              PROVE  IsApplicable(plan[i], to)
            <4>1. i \in left /\ i # last
                BY <3>3, <3>4
            <4>2. IsApplicable(plan[i], st) /\ IsApplicable(plan[last], st)
                BY <1>3, <3>2, <4>1
            <4>3. StayApplicable(plan[i], plan[last])
                BY <2>1, <3>2, <4>1, Interchangeable
            <4> QED
                BY <1>3, <3>2, <4>2, <4>3 DEF StayApplicable
        <3> QED
            BY <1>4, <3>4 DEF CanFollow
    <2>6. ASSUME NEW old \in DOMAIN covered, CanFollow(covered, old)
          PROVE  old \in DOMAIN covered' /\ CanFollow(covered', old)
        <3>1. old \in DOMAIN covered'
            BY <1>7, <2>6
        <3>2. CASE Ways(old) = {}
            <4>1. covered'[old] = covered[old]
                BY <1>7, <3>1, <3>2
            <4> QED
                BY <1>4, <2>6, <3>1, <4>1 DEF CanFollow
        <3>3. CASE Ways(old) # {}
            BY <2>5, <3>1, <3>3
        <3> QED
            BY <3>2, <3>3
    <2>7. /\ bfs_queue' = Tail(bfs_queue) \o new
          /\ new \in Seq(State) /\ Len(new) = Cardinality(used)
          /\ \A k \in 1 .. Len(new) : /\ new[k] \in DOMAIN covered'
                                      /\ Ways(new[k]) # {}
        <3>1. \A k \in 1 .. Cardinality(used) :
                /\ new[k] = Follow(InOrder(used)[k]) /\ new[k] \in State
                /\ InOrder(used)[k] \in Ways(new[k])
                /\ new[k] \in DOMAIN covered'
            BY <1>7, <2>3, <2>4
        <3>2. new \in [1 .. Cardinality(used) -> State]
            BY <3>1
        <3> HIDE DEF used
        <3>3. new \in Seq(State) /\ Len(new) = Cardinality(used)
            BY <2>2, <3>2
        <3>4. bfs_queue' = Tail(bfs_queue) \o new
            BY <1>7 DEF used
        <3> HIDE DEF new
        <3> QED
            BY <3>1, <3>3, <3>4
    <2> HIDE DEF new, Ways
    <2>8. bfs_queue' \in Seq(State)
        BY <1>2, <2>7
    <2>9. ASSUME NEW k \in 1 .. Len(bfs_queue')
          PROVE  bfs_queue'[k] \in DOMAIN covered' /\ CanFollow(covered', bfs_queue'[k])
        <3>1. CASE k \in 1 .. Len(Tail(bfs_queue))
            <4>1. bfs_queue'[k] = bfs_queue[k + 1] /\ k + 1 \in 1 .. Len(bfs_queue)
                BY <1>2, <2>7, <3>1
            <4> QED
                BY <1>1, <2>6, <4>1
        <3>2. CASE k \notin 1 .. Len(Tail(bfs_queue))
            <4> DEFINE j == k - Len(Tail(bfs_queue))
            <4>1. bfs_queue'[k] = new[j] /\ j \in 1 .. Len(new)
                BY <1>2, <2>7, <3>2
            <4> QED
                BY <2>5, <2>7, <4>1
        <3> QED
            BY <3>1, <3>2
    <2>10. \A k \in 1 .. Len(bfs_queue') : CanFollow(covered, bfs_queue[k])'
        BY <1>4, <2>9 DEF CanFollow
    <2> QED
        BY <1>1, <1>4, <1>5, <2>8, <2>9, <2>10 DEF BreadthInv, NeverCriticalError
<1> QED
    BY <1>3, <1>6, <1>7, Zenon DEF ExpandBreadth

LEMMA BreadthStep ==
    ASSUME IInv, TypeInv', [Next]_vars
    PROVE  BreadthInv'
<1> USE DEF BreadthInv, NeverCriticalError
<1>1. reduce_plan_orders' = reduce_plan_orders
    <2>1. input' = input
        BY DEF Next, vars, Stop, AddPlan, DumpFirstPlan, BeginNeighbours, ExpandBreadth,
               EndNeighbours, Expand, GreedyClean, DumpIntermediate, RemoveNonPlans,
               DumpReorderings, BeginRound, VisitNode, EndSweep, NoMoreRounds, DumpLastPlans
    <2> QED
        BY <2>1 DEF reduce_plan_orders, FindingAdditional
<1>2. ASSUME pc' \notin {"breadth", "critical_error"}
      PROVE  BreadthInv'
    BY <1>2
<1>3. CASE AddPlan
    BY <1>2, <1>3 DEF AddPlan
<1>4. CASE DumpFirstPlan
    BY <1>1, <1>4 DEF DumpFirstPlan
<1>5. CASE BeginNeighbours
    BY <1>5, BeginsApplicable
<1>6. CASE ExpandBreadth
    <2>1. CASE reduce_plan_orders = "NEIGHBOURS_INTERFERE"
        BY <1>6, <2>1, SearchStaysApplicable
    <2>2. CASE reduce_plan_orders # "NEIGHBOURS_INTERFERE"
        <3>1. pc' = pc
            BY <1>6, <2>2 DEF ExpandBreadth
        <3> QED
            BY <1>1, <2>2, <3>1 DEF IInv
    <2> QED
        BY <2>1, <2>2
<1>7. CASE EndNeighbours
    BY <1>2, <1>7 DEF EndNeighbours
<1>8. CASE Expand
    BY <1>2, <1>8 DEF Expand
<1>9. CASE GreedyClean
    BY <1>2, <1>9 DEF GreedyClean
<1>10. CASE DumpIntermediate
    BY <1>2, <1>10 DEF DumpIntermediate
<1>11. CASE RemoveNonPlans
    BY <1>2, <1>11 DEF RemoveNonPlans
<1>12. CASE DumpReorderings
    BY <1>2, <1>12 DEF DumpReorderings
<1>13. CASE BeginRound
    BY <1>2, <1>13 DEF BeginRound
<1>14. CASE \E st \in nodes : VisitNode(st)
    BY <1>2, <1>14 DEF VisitNode
<1>15. CASE EndSweep
    BY <1>2, <1>15 DEF EndSweep
<1>16. CASE NoMoreRounds
    BY <1>2, <1>16 DEF NoMoreRounds
<1>17. CASE DumpLastPlans
    BY <1>2, <1>17 DEF DumpLastPlans
<1>18. CASE UNCHANGED vars
    <2>1. UNCHANGED <<input, bfs_queue, covered, curr_ind, pc>>
        BY <1>18 DEF vars, breadth
    <2>2. Positions' = Positions /\ plan' = plan
        BY <2>1 DEF Positions, NumInterchangeable, plan, reduce_plan_orders, FindingAdditional
    <2>3. \A k \in 1 .. Len(bfs_queue) :
            CanFollow(covered, bfs_queue[k])' <=> CanFollow(covered, bfs_queue[k])
        BY <2>1, <2>2 DEF CanFollow
    <2> QED
        BY <1>1, <2>1, <2>2, <2>3 DEF IInv
<1> QED
    BY <1>3, <1>4, <1>5, <1>6, <1>7, <1>8, <1>9, <1>10, <1>11, <1>12, <1>13, <1>14,
       <1>15, <1>16, <1>17, <1>18 DEF Next, Stop
-------------------------------------------------------------------------------
(* Visiting a node that adds nothing finds the counterparts of all its     *)
(* edges; one that adds edges makes another round necessary.               *)
LEMMA VisitNodeSweeps ==
    ASSUME IInv, NEW st \in nodes, VisitNode(st)
    PROVE  SweepInv'
<1>1. /\ pc = "sweep" /\ pc' = "sweep" /\ visited' = visited \cup {st}
      /\ UNCHANGED <<input, saved, gen, start, change>>
    BY DEF VisitNode
<1>2. Generators' = Generators
    BY <1>1 DEF Generators
<1>3. PICK seen \in SUBSET Outgoing(st) :
      \E new \in {{Permuted(e) : e \in seen} \ edges} :
            /\ seen = Outgoing(st) \/ new # {}
            /\ AddEdges(new)
            /\ curr_change' = (curr_change \/ new # {})
    BY DEF VisitNode
<1> DEFINE new == {Permuted(e) : e \in seen} \ edges
<1>4. /\ seen = Outgoing(st) \/ new # {}
      /\ AddEdges(new)
      /\ curr_change' = (curr_change \/ new # {})
    BY <1>3
<1>5. /\ gen \in 1 .. Len(Generators) /\ gen \in DOMAIN Generators
      /\ ~curr_change => nodes = start /\ Closed(gen, {e \in edges : e[1] \in visited})
      /\ ~change /\ ~curr_change => \A i \in 1 .. gen - 1 : Closed(i, edges)
    BY <1>1, GeneratorFacts DEF IInv, SweepInv, TypeInv
<1>6. ~Exhausted'
    BY <1>1 DEF Exhausted, Reformulating
<1>7. CASE new # {}
    <2>1. curr_change' /\ gen' \in 1 .. Len(Generators)' /\ pc' = "sweep"
        BY <1>1, <1>2, <1>4, <1>5, <1>7
    <2> QED
        BY <1>6, <2>1 DEF SweepInv, ClosedUnderSymmetries
<1>8. CASE new = {}
    <2>1. nodes' = nodes /\ edges' = edges
        BY <1>4, <1>8 DEF AddEdges
    <2>2. \A e \in Outgoing(st) : Counterpart(gen, e) \in edges
        <3>1. \A e \in Outgoing(st) : Permuted(e) \in edges
            BY <1>4, <1>8
        <3>2. \A e \in Outgoing(st) : Counterpart(gen, e) = Permuted(e)
            BY <1>5, CounterpartsAreTransitions
            DEF IInv, TypeInv, GraphInv, Permuted, Outgoing
        <3> QED
            BY <3>1, <3>2
    <2>3. ~curr_change => Closed(gen, {e \in edges : e[1] \in visited \cup {st}})
        BY <1>5, <2>2 DEF Closed, Outgoing
    <2>4. ~curr_change' => ~curr_change
        BY <1>4
    <2>5. \A i : Closed(i, edges)' <=> Closed(i, edges)
        BY <1>2, <2>1 DEF Closed, Counterpart
    <2>6. Closed(gen, {e \in edges : e[1] \in visited})'
            <=> Closed(gen, {e \in edges : e[1] \in visited \cup {st}})
        BY <1>1, <1>2, <2>1 DEF Closed, Counterpart
    <2> HIDE DEF new
    <2> QED
        BY <1>1, <1>2, <1>5, <1>6, <2>1, <2>3, <2>4, <2>5, <2>6
        DEF SweepInv, ClosedUnderSymmetries
<1> QED
    BY <1>7, <1>8

(* A sweep that ends without a change has visited all nodes, so that the   *)
(* graph is closed under one more generator.                               *)
LEMMA EndSweepCloses ==
    ASSUME IInv, EndSweep
    PROVE  SweepInv'
<1>1. /\ pc = "sweep" /\ UNCHANGED <<input, graph>>
      /\ visited = nodes \/ nodes # start
      /\ IF curr_change THEN DumpPlans(number_of_plans) ELSE UNCHANGED saved
      /\ change' = (change \/ curr_change)
      /\ pc' = IF Cardinality(IF FindingAdditional THEN optimal_plans ELSE optimal_plans')
                    >= number_of_plans THEN "last_dump"
               ELSE IF gen < Len(Generators) THEN "sweep"
               ELSE IF change' THEN "round" ELSE "last_dump"
      /\ gen' = IF gen < Len(Generators) THEN gen + 1 ELSE gen
      /\ start' = nodes /\ visited' = {} /\ curr_change' = FALSE
    BY DEF EndSweep, DumpPlans, EnoughPlansFound
<1>2. /\ Generators' = Generators /\ nodes' = nodes /\ edges' = edges
      /\ number_of_plans' = number_of_plans
    BY <1>1 DEF Generators, number_of_plans, FindingAdditional, graph
<1>3. \A i : Closed(i, edges)' <=> Closed(i, edges)
    BY <1>2 DEF Closed, Counterpart
<1>4. /\ gen \in 1 .. Len(Generators) /\ Len(Generators) \in Nat
      /\ DOMAIN Generators = 1 .. Len(Generators)
      /\ ~curr_change => nodes = start /\ Closed(gen, {e \in edges : e[1] \in visited})
      /\ ~change /\ ~curr_change => \A i \in 1 .. gen - 1 : Closed(i, edges)
    BY <1>1, GeneratorFacts DEF IInv, SweepInv, TypeInv
<1>5. ~change' => \A i \in 1 .. gen : Closed(i, edges)
    <2> SUFFICES ASSUME ~change'
                 PROVE  \A i \in 1 .. gen : Closed(i, edges)
        OBVIOUS
    <2>1. ~change /\ ~curr_change /\ visited = nodes
        BY <1>1, <1>4
    <2>2. \A e \in edges : e[1] \in nodes
        BY DEF IInv, TypeInv, GraphInv, IndexesAgree
    <2>3. Closed(gen, edges)
        BY <1>4, <2>1, <2>2 DEF Closed
    <2> QED
        BY <1>4, <2>1, <2>3
<1>6. Cardinality(IF FindingAdditional THEN optimal_plans ELSE optimal_plans')
            >= number_of_plans => EnoughPlansFound'
    <2>1. CASE FindingAdditional
        BY <1>1, <1>2, <2>1 DEF DumpPlans, EnoughPlansFound, saved
    <2>2. CASE ~FindingAdditional
        BY <1>2, <2>2 DEF EnoughPlansFound
    <2> QED
        BY <2>1, <2>2
<1>7. pc' = "sweep" => /\ gen' \in 1 .. Len(Generators)'
                       /\ Closed(gen, {e \in edges : e[1] \in visited})'
                       /\ ~change' => \A i \in 1 .. gen' - 1 : Closed(i, edges)'
    <2> SUFFICES ASSUME pc' = "sweep"
                 PROVE  /\ gen' \in 1 .. Len(Generators)'
                        /\ Closed(gen, {e \in edges : e[1] \in visited})'
                        /\ ~change' => \A i \in 1 .. gen' - 1 : Closed(i, edges)'
        OBVIOUS
    <2>1. gen < Len(Generators)
        BY <1>1
    <2>2. gen' = gen + 1 /\ gen' \in 1 .. Len(Generators)' /\ gen' - 1 = gen
        BY <1>1, <1>2, <1>4, <2>1
    <2>3. Closed(gen, {e \in edges : e[1] \in visited})'
        BY <1>1 DEF Closed
    <2> QED
        BY <1>3, <1>5, <2>2, <2>3
<1>8. pc' = "last_dump" =>
            EnoughPlansFound' \/ \A i \in DOMAIN Generators' : Closed(i, edges)'
    <2> SUFFICES ASSUME pc' = "last_dump", ~EnoughPlansFound'
                 PROVE  \A i \in DOMAIN Generators' : Closed(i, edges)'
        OBVIOUS
    <2>1. ~(gen < Len(Generators)) /\ ~change'
        BY <1>1, <1>6
    <2>2. gen = Len(Generators)
        <3>1. gen \in 1 .. Len(Generators) /\ Len(Generators) \in Nat
            BY <1>4
        <3>2. ~(gen < Len(Generators))
            BY <2>1
        <3> QED
            BY <3>1, <3>2
    <2>3. \A i \in DOMAIN Generators : Closed(i, edges)
        BY <1>4, <1>5, <2>1, <2>2
    <2> QED
        BY <1>2, <1>3, <2>3
<1>9. ~Exhausted'
    BY <1>1 DEF Exhausted, Reformulating
<1> QED
    BY <1>1, <1>2, <1>7, <1>8, <1>9 DEF SweepInv, ClosedUnderSymmetries

LEMMA SweepStep ==
    ASSUME IInv, [Next]_vars
    PROVE  SweepInv'
<1>1. ASSUME ~(pc' \in {"sweep", "last_dump", "done", "reformulate"})
      PROVE  SweepInv'
    BY <1>1 DEF SweepInv, ClosedUnderSymmetries, Exhausted, Reformulating
<1>2. CASE AddPlan
    BY <1>1, <1>2 DEF AddPlan
<1>3. CASE DumpFirstPlan
    BY <1>1, <1>3 DEF DumpFirstPlan
<1>4. CASE BeginNeighbours
    BY <1>1, <1>4 DEF BeginNeighbours
<1>5. CASE ExpandBreadth
    BY <1>1, <1>5 DEF ExpandBreadth
<1>6. CASE EndNeighbours
    BY <1>1, <1>6 DEF EndNeighbours
<1>7. CASE Expand
    BY <1>1, <1>7 DEF Expand
<1>8. CASE GreedyClean
    BY <1>1, <1>8 DEF GreedyClean
<1>9. CASE DumpIntermediate
    BY <1>1, <1>9 DEF DumpIntermediate
<1>10. CASE RemoveNonPlans
    BY <1>1, <1>10 DEF RemoveNonPlans
<1>11. CASE DumpReorderings
    BY <1>1, <1>11 DEF DumpReorderings
<1>12. CASE BeginRound
    <2>1. /\ gen' = 1 /\ start' = nodes /\ visited' = {} /\ ~curr_change' /\ ~change'
          /\ pc' = "sweep" /\ UNCHANGED <<input, nodes, edges>> /\ Generators # <<>>
        BY <1>12 DEF BeginRound, graph
    <2>2. Generators' = Generators
        BY <2>1 DEF Generators
    <2>3. Len(Generators) \in Nat /\ Len(Generators) > 0
        <3>1. Generators \in Seq([state : [State -> State], op : [Op -> Op]])
            BY GeneratorFacts DEF IInv, TypeInv
        <3> QED
            BY <2>1, <3>1
    <2>4. Closed(gen, {e \in edges : e[1] \in visited})'
        BY <2>1 DEF Closed
    <2>5. ~Exhausted'
        BY <2>1 DEF Exhausted, Reformulating
    <2> QED
        BY <2>1, <2>2, <2>3, <2>4, <2>5 DEF SweepInv, ClosedUnderSymmetries
<1>13. CASE \E st \in nodes : VisitNode(st)
    BY <1>13, VisitNodeSweeps
<1>14. CASE EndSweep
    BY <1>14, EndSweepCloses
<1>15. CASE NoMoreRounds
    <2>1. /\ Generators = <<>> \/ EnoughPlansFound
          /\ pc' = "last_dump" /\ UNCHANGED <<input, saved>>
        BY <1>15 DEF NoMoreRounds
    <2>2. Generators' = Generators /\ (EnoughPlansFound' <=> EnoughPlansFound)
        BY <2>1 DEF Generators, EnoughPlansFound, number_of_plans, FindingAdditional, saved
    <2>3. EnoughPlansFound' \/ \A i \in DOMAIN Generators' : Closed(i, edges)'
        BY <2>1, <2>2
    <2> QED
        BY <2>1, <2>3 DEF SweepInv, ClosedUnderSymmetries, Exhausted, Reformulating
<1>16. CASE DumpLastPlans
    <2>1. /\ pc = "last_dump" /\ DumpPlans(number_of_plans)
          /\ pc' = IF FindingAdditional \/ Cardinality(optimal_plans') >= number_of_plans
                   THEN "done" ELSE "reformulate"
          /\ UNCHANGED <<input, nodes, edges>>
        BY <1>16 DEF DumpLastPlans, graph
    <2>2. /\ Generators' = Generators /\ number_of_plans' = number_of_plans
        BY <2>1 DEF Generators, number_of_plans, FindingAdditional
    <2>3. \A i : Closed(i, edges)' <=> Closed(i, edges)
        BY <2>1, <2>2 DEF Closed, Counterpart
    <2>4. CASE EnoughPlansFound
        <3>1. EnoughPlansFound'
            BY <2>1, <2>2, <2>4 DEF DumpPlans, EnoughPlansFound, saved
        <3>2. ~Exhausted'
            BY <2>1, <2>2, <3>1 DEF Exhausted, Reformulating, EnoughPlansFound
        <3> QED
            BY <2>1, <3>2 DEF SweepInv, ClosedUnderSymmetries
    <2>5. CASE ~EnoughPlansFound
        <3>1. \A i \in DOMAIN Generators' : Closed(i, edges)'
            BY <2>1, <2>2, <2>3, <2>5 DEF IInv, SweepInv
        <3>2. ClosedUnderSymmetries'
            BY <3>1 DEF ClosedUnderSymmetries, Closed, Counterpart
        <3> QED
            BY <2>1, <3>2 DEF SweepInv
    <2> QED
        BY <2>4, <2>5
<1>17. CASE UNCHANGED vars
    <2>1. /\ UNCHANGED <<input, nodes, edges, optimal_plans, gen, start, visited>>
          /\ UNCHANGED <<curr_change, change, pc>>
        BY <1>17 DEF vars, graph, saved, sweep
    <2>2. /\ Generators' = Generators /\ number_of_plans' = number_of_plans
        BY <2>1 DEF Generators, number_of_plans, FindingAdditional
    <2>3. \A i : Closed(i, edges)' <=> Closed(i, edges)
        BY <2>1, <2>2 DEF Closed, Counterpart
    <2>4. Closed(gen, {e \in edges : e[1] \in visited})'
            <=> Closed(gen, {e \in edges : e[1] \in visited})
        BY <2>1, <2>2 DEF Closed, Counterpart
    <2>5. /\ EnoughPlansFound' <=> EnoughPlansFound
          /\ ClosedUnderSymmetries' <=> ClosedUnderSymmetries
        BY <2>1, <2>2 DEF EnoughPlansFound, ClosedUnderSymmetries, Exhausted, Reformulating
    <2> QED
        BY <2>1, <2>2, <2>3, <2>4, <2>5 DEF IInv, SweepInv
<1> QED
    BY <1>2, <1>3, <1>4, <1>5, <1>6, <1>7, <1>8, <1>9, <1>10, <1>11, <1>12, <1>13,
       <1>14, <1>15, <1>16, <1>17 DEF Next, Stop
-------------------------------------------------------------------------------
(* The inductive invariant: the graph is made of transitions and its       *)
(* indexes agree, the searches and the rounds keep their promises.         *)
THEOREM Invariance == Spec => []IInv
<1>1. Init => IInv
    BY DEF Init, IInv, TypeInv, GraphInv, IndexesAgree, BreadthInv, NeverCriticalError,
           SweepInv, ClosedUnderSymmetries, Exhausted, Reformulating
<1>2. IInv /\ [Next]_vars => IInv'
    BY TypeStep, BreadthStep, SweepStep DEF IInv
<1> QED
    BY <1>1, <1>2, PTL DEF Spec

(* The edges by source and by operator are the same and join nodes of the  *)
(* graph, after any order of additions, removals and clean-ups.            *)
THEOREM IndexesCorrect == Spec => []IndexesAgree
<1>1. IInv => IndexesAgree
    BY DEF IInv, TypeInv, GraphInv
<1> QED
    BY <1>1, Invariance, PTL

(* add_ops_bfs never meets an operator that is not applicable.             *)
THEOREM InterchangeableApply == Spec => []NeverCriticalError
<1>1. IInv => NeverCriticalError
    BY DEF IInv, BreadthInv
<1> QED
    BY <1>1, Invariance, PTL

(* The graph that is handed over is closed under every generator.          *)
THEOREM SymmetriesCorrect == Spec => []ClosedUnderSymmetries
<1>1. IInv => ClosedUnderSymmetries
    BY DEF IInv, SweepInv
<1> QED
    BY <1>1, Invariance, PTL
-------------------------------------------------------------------------------
(* The cost of operators adds up from the first.                           *)
LEMMA CostSums ==
    ASSUME NEW ops \in Seq(Op)
    PROVE  \E sum \in [0 .. Len(ops) -> Nat] :
                /\ sum[0] = 0 /\ CostOf(ops) = sum[Len(ops)]
                /\ \A i \in 1 .. Len(ops) : sum[i] = sum[i - 1] + Cost[ops[i]]
<1> PICK N : N = Len(ops)
    OBVIOUS
<1> DEFINE F == [y \in Nat \X Nat |-> y[1] + (IF y[2] \in 1 .. N THEN Cost[ops[y[2]]] ELSE 0)]
           sum == CHOOSE g : g = [n \in 0 .. N |-> IF n = 0 THEN 0 ELSE g[n - 1] + Cost[ops[n]]]
<1>1. N \in Nat /\ \A i \in 1 .. N : Cost[ops[i]] \in Nat
    <2>1. \A i \in 1 .. N : ops[i] \in Op
        <3> HIDE DEF F, sum
        <3> QED
            OBVIOUS
    <2> QED
        BY <2>1, PlansGraphAssumption
<1>2. F \in Lemmas!Steps(Nat)
    BY <1>1 DEF Lemmas!Steps
<1>3. PICK g \in [0 .. N -> Nat] : g[0] = 0 /\ \A n \in 1 .. N : g[n] = F[<<g[n - 1], n>>]
    <2> HIDE DEF F
    <2>1. 0 \in Nat
        OBVIOUS
    <2>2. Lemmas!Iterations(Nat, 0, N, F) # {}
        BY <1>1, <1>2, <2>1, Lemmas!IterationExists
    <2> QED
        BY <2>2 DEF Lemmas!Iterations
<1>4. ASSUME NEW n \in 1 .. N
      PROVE  g[n] = g[n - 1] + Cost[ops[n]]
    <2>1. n \in Nat /\ n - 1 \in 0 .. N
        BY <1>1
    <2>2. <<g[n - 1], n>> \in Nat \X Nat
        BY <1>3, <2>1
    <2> QED
        BY <1>3, <2>2
<1>5. g = [n \in 0 .. N |-> IF n = 0 THEN 0 ELSE g[n - 1] + Cost[ops[n]]]
    <2>1. \A n \in 0 .. N : n = 0 \/ n \in 1 .. N
        BY <1>1
    <2> QED
        BY <1>3, <1>4, <2>1
<1>6. sum = [n \in 0 .. N |-> IF n = 0 THEN 0 ELSE sum[n - 1] + Cost[ops[n]]]
    BY <1>5
<1>7. CostOf(ops) = sum[N]
    BY DEF CostOf
<1> HIDE DEF sum
<1>8. sum[0] = 0 /\ \A n \in 1 .. N : sum[n] = sum[n - 1] + Cost[ops[n]]
    <2>1. 0 \in 0 .. N /\ \A n \in 1 .. N : n \in 0 .. N /\ n # 0
        BY <1>1
    <2> QED
        BY <1>6, <2>1
<1> DEFINE Good == {n \in 0 .. N : sum[n] \in Nat}
<1>9. \A n \in 0 .. N : n \in Good
    <2>1. 0 \in Good
        BY <1>1, <1>8
    <2>2. \A n \in 1 .. N : n - 1 \in Good => n \in Good
        BY <1>1, <1>8
    <2> HIDE DEF Good
    <2> QED
        BY <1>1, <2>1, <2>2, Lemmas!UpTo
<1>10. sum \in [0 .. N -> Nat]
    BY <1>6, <1>9
<1> QED
    BY <1>7, <1>8, <1>10

(* A walk on the graph from the initial state.                             *)
IsWalk(ops, states) ==
    /\ ops \in Seq(Op) /\ states \in Seq(State)
    /\ Len(states) = Len(ops) + 1 /\ states[1] = InitialState
    /\ \A i \in 1 .. Len(ops) : <<states[i], ops[i], states[i + 1]>> \in edges

(* What Paths goes through, and what a path becomes by an edge.            *)
PartialPaths == {q \in [ops : Seq(Op), states : Seq(State)] : IsWalk(q.ops, q.states)}
Continued(path, e) == [ops |-> Append(path.ops, e[2]), states |-> Append(path.states, e[3])]

LEMMA ContinuedIsPath ==
    ASSUME GraphInv, NEW path \in PartialPaths, NEW e \in Outgoing(Last(path.states))
    PROVE  /\ Continued(path, e) \in PartialPaths
           /\ Continued(path, e).states = Append(path.states, e[3])
<1> PICK ops, states, n : ops = path.ops /\ states = path.states /\ n = Len(ops)
    OBVIOUS
<1>1. /\ ops \in Seq(Op) /\ states \in Seq(State) /\ n \in Nat
      /\ Len(states) = n + 1 /\ states[1] = InitialState
      /\ \A i \in 1 .. n : <<states[i], ops[i], states[i + 1]>> \in edges
    BY DEF PartialPaths, IsWalk
<1>2. /\ e \in edges /\ e[1] = states[n + 1] /\ e[2] \in Op /\ e[3] \in State
      /\ e = <<e[1], e[2], e[3]>>
    BY <1>1 DEF Outgoing, Last, GraphInv, Transitions
<1> PICK more, further : more = Append(ops, e[2]) /\ further = Append(states, e[3])
    OBVIOUS
<1>3. /\ more \in Seq(Op) /\ Len(more) = n + 1 /\ more[n + 1] = e[2]
      /\ \A i \in 1 .. n : more[i] = ops[i]
    BY <1>1, <1>2
<1>4. /\ further \in Seq(State) /\ Len(further) = n + 2 /\ further[n + 2] = e[3]
      /\ \A i \in 1 .. n + 1 : further[i] = states[i]
    BY <1>1, <1>2
<1>5. ASSUME NEW i \in 1 .. n + 1
      PROVE  <<further[i], more[i], further[i + 1]>> \in edges
    <2>1. CASE i \in 1 .. n
        <3>1. i \in 1 .. n + 1 /\ i + 1 \in 1 .. n + 1
            BY <1>1, <2>1
        <3> QED
            BY <1>1, <1>3, <1>4, <2>1, <3>1
    <2>2. CASE i = n + 1
        <3>1. i + 1 = n + 2
            BY <1>1, <2>2
        <3> QED
            BY <1>2, <1>3, <1>4, <2>2, <3>1
    <2>3. i \in 1 .. n \/ i = n + 1
        BY <1>1
    <2> QED
        BY <2>1, <2>2, <2>3
<1>6. IsWalk(more, further)
    <2>1. 1 \in 1 .. n + 1 /\ Len(further) = Len(more) + 1
        BY <1>1, <1>3, <1>4
    <2>2. further[1] = InitialState
        BY <1>1, <1>4, <2>1
    <2>3. \A i \in 1 .. Len(more) : <<further[i], more[i], further[i + 1]>> \in edges
        BY <1>3, <1>5
    <2> QED
        BY <1>3, <1>4, <2>1, <2>2, <2>3 DEF IsWalk
<1>7. Continued(path, e) = [ops |-> more, states |-> further]
    BY DEF Continued
<1>8. Continued(path, e).ops = more /\ Continued(path, e).states = further
    BY <1>7
<1>9. Continued(path, e) \in [ops : Seq(Op), states : Seq(State)]
    BY <1>3, <1>4, <1>7
<1> QED
    BY <1>6, <1>8, <1>9 DEF PartialPaths

(* Rounds of extension of a set.                                           *)
Rounds(P, Z, N, E) ==
    {g \in [0 .. N -> SUBSET P] :
        /\ g[0] = Z
        /\ \A n \in 1 .. N : g[n] = UNION {{p} \cup E[p] : p \in g[n - 1]}}

LEMMA RoundsExist ==
    ASSUME NEW P, NEW Z \in SUBSET P, NEW N \in Nat, NEW E \in [P -> SUBSET P]
    PROVE  Rounds(P, Z, N, E) # {}
<1> DEFINE D == SUBSET P
           F == [y \in D \X Nat |-> UNION {{p} \cup E[p] : p \in y[1]}]
<1>1. F \in Lemmas!Steps(D) /\ Z \in D
    BY DEF Lemmas!Steps
<1>2. PICK g \in [0 .. N -> D] : g[0] = Z /\ \A n \in 1 .. N : g[n] = F[<<g[n - 1], n>>]
    <2> HIDE DEF F, D
    <2>1. Lemmas!Iterations(D, Z, N, F) # {}
        BY <1>1, Lemmas!IterationExists
    <2> QED
        BY <2>1 DEF Lemmas!Iterations
<1>3. ASSUME NEW n \in 1 .. N
      PROVE  g[n] = UNION {{p} \cup E[p] : p \in g[n - 1]}
    <2>1. n \in Nat /\ n - 1 \in 0 .. N
        OBVIOUS
    <2>2. <<g[n - 1], n>> \in D \X Nat
        BY <1>2, <2>1
    <2> QED
        BY <1>2, <2>2
<1> QED
    BY <1>2, <1>3 DEF Rounds

EmptyPath == [ops |-> <<>>, states |-> <<InitialState>>]

LEMMA EmptyPathIsPath == EmptyPath \in PartialPaths
<1>1. /\ <<>> \in Seq(Op) /\ <<InitialState>> \in Seq(State)
      /\ Len(<<InitialState>>) = 1 /\ <<InitialState>>[1] = InitialState
      /\ Len(<<>>) = 0 /\ 1 .. 0 = {}
    BY ParentAssumption
<1>2. IsWalk(<<>>, <<InitialState>>)
    BY <1>1 DEF IsWalk
<1> QED
    BY <1>1, <1>2 DEF EmptyPath, PartialPaths

(* A path that goes on to a new state meets no state twice.                *)
LEMMA NewStateKeepsInjective ==
    ASSUME NEW S, NEW seq \in Seq(S), IsInjective(seq), NEW x \in S, x \notin ToSet(seq)
    PROVE  IsInjective(Append(seq, x))
<1> PICK n, more : n = Len(seq) /\ more = Append(seq, x)
    OBVIOUS
<1>1. /\ n \in Nat /\ DOMAIN seq = 1 .. n /\ DOMAIN more = 1 .. n + 1
      /\ more[n + 1] = x /\ \A i \in 1 .. n : more[i] = seq[i]
    OBVIOUS
<1>2. \A i \in 1 .. n : seq[i] # x
    BY <1>1 DEF ToSet
<1>3. \A i \in 1 .. n + 1 : i \in 1 .. n \/ i = n + 1
    BY <1>1
<1>4. ASSUME NEW a \in 1 .. n + 1, NEW b \in 1 .. n + 1, more[a] = more[b]
      PROVE  a = b
    BY <1>1, <1>2, <1>3, <1>4 DEF IsInjective
<1> QED
    BY <1>1, <1>4 DEF IsInjective

(* What find_plans_dfs passes are walks to the goal without repetition.    *)
LEMMA SimplePlansAreWalks ==
    ASSUME GraphInv, NEW plan_ops \in SimplePlans
    PROVE  \E states : /\ IsWalk(plan_ops, states) /\ IsInjective(states)
                       /\ IsGoalState(states[Len(plan_ops) + 1])
<1> DEFINE N == Cardinality(nodes)
           May(path, st) == st \notin ToSet(path.states) /\ goal_distance[st] # Unknown
           Extend(path) ==
                {[ops |-> Append(path.ops, e[2]), states |-> Append(path.states, e[3])] :
                    e \in {f \in Outgoing(Last(path.states)) : May(path, f[3])}}
           U == CHOOSE g : g = [n \in 0 .. N |->
                    IF n = 0 THEN {[ops |-> <<>>, states |-> <<InitialState>>]}
                    ELSE UNION {{path} \cup Extend(path) : path \in g[n - 1]}]
           E == [path \in PartialPaths |-> Extend(path)]
<1>1. N \in Nat
    <2>1. IsFiniteSet(nodes)
        BY PlansGraphAssumption, FS_Subset DEF GraphInv
    <2> QED
        BY <2>1, FS_CardinalityType
<1>2. SimplePlans = {path.ops : path \in {q \in U[N] : IsGoalState(Last(q.states))}}
    BY DEF SimplePlans, OpsToGoal, Paths
<1>3. ASSUME NEW path \in PartialPaths, NEW q \in Extend(path)
      PROVE  q \in PartialPaths /\ (IsInjective(path.states) => IsInjective(q.states))
    <2>1. PICK e \in Outgoing(Last(path.states)) :
                q = Continued(path, e) /\ e[3] \notin ToSet(path.states)
        BY <1>3 DEF Continued
    <2>2. e[3] \in State /\ path.states \in Seq(State)
        <3>1. e \in Transitions
            BY DEF GraphInv, Outgoing
        <3>2. IsWalk(path.ops, path.states)
            BY DEF PartialPaths
        <3> QED
            BY <3>1, <3>2 DEF Transitions, IsWalk
    <2>3. q \in PartialPaths /\ q.states = Append(path.states, e[3])
        BY <2>1, ContinuedIsPath
    <2>4. IsInjective(path.states) => IsInjective(Append(path.states, e[3]))
        BY <2>1, <2>2, NewStateKeepsInjective
    <2> QED
        BY <2>3, <2>4
<1>4. E \in [PartialPaths -> SUBSET PartialPaths]
    BY <1>3
<1>5. PICK g \in [0 .. N -> SUBSET PartialPaths] :
            /\ g[0] = {EmptyPath}
            /\ \A n \in 1 .. N : g[n] = UNION {{p} \cup E[p] : p \in g[n - 1]}
    <2> HIDE DEF E, N
    <2>1. Rounds(PartialPaths, {EmptyPath}, N, E) # {}
        BY <1>1, <1>4, EmptyPathIsPath, RoundsExist
    <2> QED
        BY <2>1 DEF Rounds
<1>6. U = [n \in 0 .. N |->
            IF n = 0 THEN {[ops |-> <<>>, states |-> <<InitialState>>]}
            ELSE UNION {{path} \cup Extend(path) : path \in U[n - 1]}]
    <2>1. ASSUME NEW n \in 1 .. N
          PROVE  g[n] = UNION {{path} \cup Extend(path) : path \in g[n - 1]}
        <3>1. n - 1 \in 0 .. N
            BY <1>1
        <3>2. g[n - 1] \subseteq PartialPaths
            BY <1>5, <3>1
        <3>3. \A path \in g[n - 1] : E[path] = Extend(path)
            BY <3>2
        <3> HIDE DEF E, Extend
        <3> QED
            BY <1>5, <3>3
    <2>2. \A n \in 0 .. N : n = 0 \/ n \in 1 .. N
        BY <1>1
    <2>3. g = [n \in 0 .. N |->
            IF n = 0 THEN {[ops |-> <<>>, states |-> <<InitialState>>]}
            ELSE UNION {{path} \cup Extend(path) : path \in g[n - 1]}]
        <3> HIDE DEF E, Extend, N
        <3> QED
            BY <1>5, <2>1, <2>2 DEF EmptyPath
    <2> HIDE DEF Extend, N
    <2> QED
        BY <2>3
<1> HIDE DEF U
<1> DEFINE Fine == {q \in PartialPaths : IsInjective(q.states)}
           Good == {n \in 0 .. N : U[n] \subseteq Fine}
<1>7. \A n \in 0 .. N : n \in Good
    <2>1. 0 \in Good
        <3>1. U[0] = {EmptyPath}
            <4> HIDE DEF Extend, N
            <4> QED
                BY <1>1, <1>6 DEF EmptyPath
        <3>2. IsInjective(EmptyPath.states)
            BY DEF EmptyPath, IsInjective
        <3> QED
            BY <1>1, <3>1, <3>2, EmptyPathIsPath
    <2>2. ASSUME NEW n \in 1 .. N, n - 1 \in Good
          PROVE  n \in Good
        <3>1. U[n] = UNION {{path} \cup Extend(path) : path \in U[n - 1]}
            <4>1. n \in 0 .. N /\ n # 0
                BY <1>1
            <4> HIDE DEF Extend, N
            <4> QED
                BY <1>6, <4>1
        <3>2. U[n - 1] \subseteq Fine
            BY <2>2
        <3>3. \A path \in Fine : Extend(path) \subseteq Fine
            BY <1>3
        <3>4. U[n] \subseteq Fine
            <4> HIDE DEF Extend, Fine
            <4> QED
                BY <3>1, <3>2, <3>3
        <3> QED
            BY <1>1, <3>4
    <2> HIDE DEF Good, N
    <2> QED
        BY <1>1, <2>1, <2>2, Lemmas!UpTo
<1>8. PICK q \in U[N] : IsGoalState(Last(q.states)) /\ plan_ops = q.ops
    BY <1>2
<1>9. q \in Fine
    BY <1>1, <1>7, <1>8
<1>10. IsWalk(q.ops, q.states) /\ IsInjective(q.states)
    BY <1>9 DEF PartialPaths
<1>11. Last(q.states) = q.states[Len(plan_ops) + 1]
    BY <1>8, <1>10 DEF IsWalk, Last
<1> QED
    BY <1>8, <1>10, <1>11

(* Every walk to the goal of at most the given length is among the paths.  *)
LEMMA WalksArePaths ==
    ASSUME GraphInv, NEW N \in Nat, NEW walk, NEW states, IsWalk(walk, states),
           Len(walk) <= N, IsGoalState(states[Len(walk) + 1])
    PROVE  walk \in OpsToGoal(Paths(LAMBDA path, st : TRUE, N))
<1> PICK n : n = Len(walk)
    OBVIOUS
<1> DEFINE Extend(path) ==
                {[ops |-> Append(path.ops, e[2]), states |-> Append(path.states, e[3])] :
                    e \in {f \in Outgoing(Last(path.states)) : TRUE}}
           U == CHOOSE g : g = [k \in 0 .. N |->
                    IF k = 0 THEN {[ops |-> <<>>, states |-> <<InitialState>>]}
                    ELSE UNION {{path} \cup Extend(path) : path \in g[k - 1]}]
           E == [path \in PartialPaths |-> Extend(path)]
           Part(k) == [ops |-> SubSeq(walk, 1, k), states |-> SubSeq(states, 1, k + 1)]
<1>1. OpsToGoal(Paths(LAMBDA path, st : TRUE, N))
        = {path.ops : path \in {q \in U[N] : IsGoalState(Last(q.states))}}
    BY DEF OpsToGoal, Paths
<1>2. /\ walk \in Seq(Op) /\ states \in Seq(State) /\ n \in Nat /\ n <= N
      /\ Len(walk) = n /\ Len(states) = n + 1 /\ states[1] = InitialState
      /\ \A i \in 1 .. n : <<states[i], walk[i], states[i + 1]>> \in edges
    BY DEF IsWalk
<1>3. E \in [PartialPaths -> SUBSET PartialPaths]
    <2>1. ASSUME NEW path \in PartialPaths, NEW q \in Extend(path)
          PROVE  q \in PartialPaths
        <3>1. PICK e \in Outgoing(Last(path.states)) : q = Continued(path, e)
            BY <2>1 DEF Continued
        <3> QED
            BY <3>1, ContinuedIsPath
    <2> QED
        BY <2>1
<1>4. PICK g \in [0 .. N -> SUBSET PartialPaths] :
            /\ g[0] = {EmptyPath}
            /\ \A k \in 1 .. N : g[k] = UNION {{p} \cup E[p] : p \in g[k - 1]}
    <2> HIDE DEF E
    <2>1. Rounds(PartialPaths, {EmptyPath}, N, E) # {}
        BY <1>3, EmptyPathIsPath, RoundsExist
    <2> QED
        BY <2>1 DEF Rounds
<1>5. U = [k \in 0 .. N |->
            IF k = 0 THEN {[ops |-> <<>>, states |-> <<InitialState>>]}
            ELSE UNION {{path} \cup Extend(path) : path \in U[k - 1]}]
    <2>1. ASSUME NEW k \in 1 .. N
          PROVE  g[k] = UNION {{path} \cup Extend(path) : path \in g[k - 1]}
        <3>1. k - 1 \in 0 .. N
            OBVIOUS
        <3>2. g[k - 1] \subseteq PartialPaths
            BY <1>4, <3>1
        <3>3. \A path \in g[k - 1] : E[path] = Extend(path)
            BY <3>2
        <3> HIDE DEF E, Extend
        <3> QED
            BY <1>4, <3>3
    <2>2. \A k \in 0 .. N : k = 0 \/ k \in 1 .. N
        OBVIOUS
    <2>3. g = [k \in 0 .. N |->
            IF k = 0 THEN {[ops |-> <<>>, states |-> <<InitialState>>]}
            ELSE UNION {{path} \cup Extend(path) : path \in g[k - 1]}]
        <3> HIDE DEF E, Extend
        <3> QED
            BY <1>4, <2>1, <2>2 DEF EmptyPath
    <2> HIDE DEF Extend
    <2> QED
        BY <2>3
<1> HIDE DEF U
<1>6. ASSUME NEW k \in 1 .. N
      PROVE  U[k] = UNION {{path} \cup Extend(path) : path \in U[k - 1]}
    <2>1. k \in 0 .. N /\ k # 0
        OBVIOUS
    <2> HIDE DEF Extend
    <2> QED
        BY <1>5, <2>1
<1>7. U[0] = {EmptyPath}
    <2>1. 0 \in 0 .. N
        OBVIOUS
    <2> HIDE DEF Extend
    <2> QED
        BY <1>5, <2>1 DEF EmptyPath
<1>8. Part(0) = EmptyPath
    <2>1. SubSeq(walk, 1, 0) = <<>> /\ SubSeq(states, 1, 0 + 1) = <<InitialState>>
        <3> PICK seq : seq = SubSeq(states, 1, 1)
            OBVIOUS
        <3>1. seq \in Seq(State) /\ Len(seq) = 1 /\ seq[1] = InitialState
            BY <1>2
        <3>2. seq = <<InitialState>>
            <4> PICK one : one = <<InitialState>>
                OBVIOUS
            <4>1. one \in Seq(State) /\ Len(one) = 1 /\ one[1] = InitialState
                BY ParentAssumption
            <4>2. \A i \in 1 .. 1 : i = 1
                OBVIOUS
            <4>3. \A i \in 1 .. Len(seq) : seq[i] = one[i]
                BY <3>1, <4>1, <4>2
            <4> QED
                BY <3>1, <4>1, <4>3, SeqEqual
        <3>3. SubSeq(walk, 1, 0) = <<>>
            BY <1>2
        <3>4. 0 + 1 = 1
            OBVIOUS
        <3> QED
            BY ONLY <3>2, <3>3, <3>4, seq = SubSeq(states, 1, 1)
    <2> QED
        BY <2>1 DEF EmptyPath
<1>9. ASSUME NEW k \in 1 .. n
      PROVE  Part(k) \in Extend(Part(k - 1))
    <2> DEFINE e == <<states[k], walk[k], states[k + 1]>>
    <2>1. k - 1 \in Nat /\ (k - 1) + 1 = k /\ k \in Nat /\ k <= n
        BY <1>2
    <2>2. SubSeq(walk, 1, k) = Append(SubSeq(walk, 1, k - 1), walk[k])
        BY <1>2, <2>1
    <2>3. SubSeq(states, 1, k + 1) = Append(SubSeq(states, 1, k), states[k + 1])
        BY <1>2, <2>1
    <2>4. Last(SubSeq(states, 1, k)) = states[k]
        BY <1>2, <2>1 DEF Last
    <2>5. e \in Outgoing(states[k])
        BY <1>2 DEF Outgoing
    <2>6. /\ Part(k - 1).ops = SubSeq(walk, 1, k - 1)
          /\ Part(k - 1).states = SubSeq(states, 1, k)
        BY <2>1
    <2>7. Part(k) = [ops |-> Append(Part(k - 1).ops, e[2]),
                     states |-> Append(Part(k - 1).states, e[3])]
        BY <2>2, <2>3, <2>6
    <2>8. e \in {f \in Outgoing(Last(Part(k - 1).states)) : TRUE}
        BY <2>4, <2>5, <2>6
    <2> HIDE DEF Part, e
    <2> QED
        BY <2>7, <2>8
<1>10. ASSUME NEW k \in 1 .. N, NEW path \in U[k - 1]
       PROVE  path \in U[k] /\ Extend(path) \subseteq U[k]
    <2> HIDE DEF Extend
    <2>1. U[k] = UNION {{p} \cup Extend(p) : p \in U[k - 1]}
        BY <1>6
    <2>2. {path} \cup Extend(path) \in {{p} \cup Extend(p) : p \in U[k - 1]}
        OBVIOUS
    <2> QED
        BY <2>1, <2>2
<1> DEFINE Good == {k \in 0 .. N : Part(IF k <= n THEN k ELSE n) \in U[k]}
<1>11. \A k \in 0 .. N : k \in Good
    <2> HIDE DEF Part, Extend
    <2>1. 0 \in Good
        BY <1>2, <1>7, <1>8
    <2>2. ASSUME NEW k \in 1 .. N, k - 1 \in Good
          PROVE  k \in Good
        <3>1. CASE k <= n
            <4>1. Part(k - 1) \in U[k - 1] /\ k \in 1 .. n /\ k \in 0 .. N
                BY <1>2, <2>2, <3>1
            <4>2. Part(k) \in U[k]
                BY <1>9, <1>10, <4>1
            <4> QED
                BY <3>1, <4>1, <4>2
        <3>2. CASE ~(k <= n)
            <4>1. Part(n) \in U[k - 1] /\ k \in 0 .. N
                <5>1. k - 1 <= n => k - 1 = n
                    BY <1>2, <3>2
                <5> QED
                    BY <2>2, <5>1
            <4>2. Part(n) \in U[k]
                BY <1>10, <4>1
            <4> QED
                BY <3>2, <4>1, <4>2
        <3> QED
            BY <3>1, <3>2
    <2> HIDE DEF Good
    <2> QED
        BY <2>1, <2>2, Lemmas!UpTo
<1>12. Part(n) \in U[N]
    <2> HIDE DEF Part
    <2>1. (IF N <= n THEN N ELSE n) = n /\ N \in 0 .. N
        BY <1>2
    <2>2. N \in Good
        <3> HIDE DEF Good
        <3> QED
            BY <1>11, <2>1
    <2> QED
        BY <2>1, <2>2
<1>13. Part(n).ops = walk /\ Last(Part(n).states) = states[n + 1]
    <2>1. SubSeq(walk, 1, n) = walk /\ SubSeq(states, 1, n + 1) = states
        BY <1>2
    <2> QED
        BY <1>2, <2>1 DEF Last
<1> HIDE DEF Part
<1> QED
    BY <1>1, <1>12, <1>13

(* The graph is finite, like the task.                                     *)
LEMMA FiniteGraph ==
    ASSUME GraphInv
    PROVE  /\ IsFiniteSet(nodes) /\ Cardinality(nodes) \in Nat
           /\ \A es \in SUBSET edges : IsFiniteSet(es) /\ Cardinality(es) \in Nat
<1> DEFINE leaving == [e \in edges |-> <<e[1], e[2]>>]
<1>1. IsFiniteSet(State \X Op)
    BY PlansGraphAssumption, FS_Product
<1>2. \A e \in edges : /\ e[1] \in State /\ e[2] \in Op
                       /\ e = <<e[1], e[2], Successor(e[2], e[1])>>
    BY DEF GraphInv, Transitions
<1>3. leaving \in [edges -> State \X Op]
    BY <1>2
<1>4. ASSUME NEW e \in edges, NEW f \in edges, leaving[e] = leaving[f]
      PROVE  e = f
    <2>1. e[1] = f[1] /\ e[2] = f[2]
        BY <1>4
    <2> QED
        BY <1>2, <2>1
<1>5. leaving \in Injection(edges, State \X Op)
    <2> HIDE DEF leaving
    <2> QED
        BY <1>3, <1>4 DEF Injection, IsInjective
<1>6. IsFiniteSet(edges)
    <2> HIDE DEF leaving
    <2> QED
        BY <1>1, <1>5, FS_Injection
<1>7. IsFiniteSet(nodes)
    BY PlansGraphAssumption, FS_Subset DEF GraphInv
<1> QED
    BY <1>6, <1>7, FS_Subset, FS_CardinalityType

(* A distance along the edges is never below a lower bound of the task.    *)
LEMMA DistancesAreBounds ==
    ASSUME GraphInv, NEW h, IsLowerBound(h), NEW distance, distance = DistancesToGoal
    PROVE  \A st \in State :
                /\ distance[st] # Unknown => distance[st] \in Nat /\ h[st] <= distance[st]
                /\ st \in nodes /\ IsGoalState(st) => distance[st] = 0 /\ distance[st] # Unknown
<1> DEFINE N == Cardinality(nodes)
           P == State \X Nat
           Z == {<<st, 0>> : st \in {n \in nodes : IsGoalState(n)}}
           Back(c) == {<<e[1], Cost[e[2]] + c[2]>> : e \in {f \in edges : f[3] = c[1]}}
           E == [c \in P |-> Back(c)]
           U == CHOOSE g : g = [k \in 0 .. N |->
                    IF k = 0 THEN {<<st, 0>> : st \in {n \in nodes : IsGoalState(n)}}
                    ELSE UNION {{c} \cup Back(c) : c \in g[k - 1]}]
<1>1. N \in Nat
    BY FiniteGraph
<1>2. distance = Updated([st \in State |-> Unknown], U[N])
    BY DEF DistancesToGoal
<1>3. ASSUME NEW c \in P, NEW b \in Back(c)
      PROVE  b \in P /\ (h[c[1]] <= c[2] => h[b[1]] <= b[2])
    <2>1. PICK e \in edges : e[3] = c[1] /\ b = <<e[1], Cost[e[2]] + c[2]>>
        BY <1>3
    <2>2. /\ e[1] \in State /\ e[2] \in Op /\ e[3] \in State
          /\ <<e[1], e[2]>> \in DOMAIN Succ /\ e[3] = Succ[<<e[1], e[2]>>]
        BY DEF GraphInv, Transitions, IsApplicable, Successor
    <2>3. Cost[e[2]] \in Nat /\ h[e[1]] \in Nat /\ h[e[3]] \in Nat
        BY <2>2, PlansGraphAssumption DEF IsLowerBound
    <2>4. h[e[1]] <= Cost[e[2]] + h[e[3]]
        BY <2>2 DEF IsLowerBound
    <2> QED
        BY <2>1, <2>2, <2>3, <2>4
<1>4. E \in [P -> SUBSET P]
    BY <1>3
<1>5. Z \in SUBSET P /\ \A c \in Z : h[c[1]] <= c[2]
    BY DEF GraphInv, IsLowerBound, IsGoalState
<1>6. PICK g \in [0 .. N -> SUBSET P] :
            /\ g[0] = Z
            /\ \A k \in 1 .. N : g[k] = UNION {{c} \cup E[c] : c \in g[k - 1]}
    <2> HIDE DEF E, P, Z, N
    <2>1. Rounds(P, Z, N, E) # {}
        BY <1>1, <1>4, <1>5, RoundsExist
    <2> QED
        BY <2>1 DEF Rounds
<1>7. U = [k \in 0 .. N |->
            IF k = 0 THEN {<<st, 0>> : st \in {n \in nodes : IsGoalState(n)}}
            ELSE UNION {{c} \cup Back(c) : c \in U[k - 1]}]
    <2>1. ASSUME NEW k \in 1 .. N
          PROVE  g[k] = UNION {{c} \cup Back(c) : c \in g[k - 1]}
        <3>1. k - 1 \in 0 .. N
            BY <1>1
        <3>2. g[k - 1] \subseteq P
            BY <1>6, <3>1
        <3>3. \A c \in g[k - 1] : E[c] = Back(c)
            BY <3>2
        <3> HIDE DEF E, Back
        <3> QED
            BY <1>6, <3>3
    <2>2. \A k \in 0 .. N : k = 0 \/ k \in 1 .. N
        BY <1>1
    <2>3. g = [k \in 0 .. N |->
            IF k = 0 THEN {<<st, 0>> : st \in {n \in nodes : IsGoalState(n)}}
            ELSE UNION {{c} \cup Back(c) : c \in g[k - 1]}]
        <3> HIDE DEF E, Back, N
        <3> QED
            BY <1>6, <2>1, <2>2
    <2> HIDE DEF Back, N
    <2> QED
        BY <2>3
<1> HIDE DEF U
<1> DEFINE Fine == {c \in P : h[c[1]] <= c[2]}
           Good == {k \in 0 .. N : Z \subseteq U[k] /\ U[k] \subseteq Fine}
<1>8. \A k \in 0 .. N : k \in Good
    <2>1. 0 \in Good
        <3>1. U[0] = Z /\ 0 \in 0 .. N
            <4> HIDE DEF Back, N
            <4> QED
                BY <1>1, <1>7
        <3> HIDE DEF Z, N, P
        <3> QED
            BY <1>5, <3>1
    <2>2. ASSUME NEW k \in 1 .. N, k - 1 \in Good
          PROVE  k \in Good
        <3>1. k \in 0 .. N /\ k # 0
            BY <1>1
        <3>2. U[k] = UNION {{c} \cup Back(c) : c \in U[k - 1]}
            <4> HIDE DEF Back, N
            <4> QED
                BY <1>7, <3>1
        <3>3. Z \subseteq U[k - 1] /\ U[k - 1] \subseteq Fine
            BY <2>2
        <3>4. \A c \in Fine : Back(c) \subseteq Fine
            BY <1>3
        <3> HIDE DEF Z, Back, Fine, N
        <3>5. Z \subseteq U[k] /\ U[k] \subseteq Fine
            BY <3>2, <3>3, <3>4
        <3> QED
            BY <3>1, <3>5
    <2> HIDE DEF Good, N
    <2> QED
        BY <1>1, <2>1, <2>2, Lemmas!UpTo
<1>9. Z \subseteq U[N] /\ U[N] \subseteq Fine
    <2>1. N \in Good
        <3> HIDE DEF Good, N
        <3> QED
            BY <1>1, <1>8
    <2> QED
        BY <2>1
<1>10. ASSUME NEW st \in State
       PROVE  /\ distance[st] # Unknown => distance[st] \in Nat /\ h[st] <= distance[st]
              /\ st \in nodes /\ IsGoalState(st) => distance[st] = 0 /\ distance[st] # Unknown
    <2> DEFINE known == ({u[2] : u \in {v \in U[N] : v[1] = st}} \cup {Unknown}) \ {Unknown}
    <2>1. distance[st] = IF known = {} THEN Unknown ELSE Min(known)
        <3>1. [s \in State |-> Unknown][st] = Unknown
            OBVIOUS
        <3> QED
            BY <1>2, <3>1 DEF Updated
    <2>2. \A c \in known : c \in Nat /\ h[st] <= c
        BY <1>9
    <2>3. known \in SUBSET Nat /\ Unknown \notin Nat
        BY <2>2, PlansGraphAssumption
    <2>4. st \in nodes /\ IsGoalState(st) => 0 \in known
        <3>1. st \in nodes /\ IsGoalState(st) => <<st, 0>> \in U[N]
            BY <1>9
        <3> QED
            BY <2>3, <3>1
    <2> HIDE DEF known
    <2>5. CASE known = {}
        BY <2>1, <2>4, <2>5
    <2>6. CASE known # {}
        <3>1. PICK m \in known : \A c \in known : m <= c
            BY <2>3, <2>6, Lemmas!SmallestNumber
        <3>2. distance[st] = m
            BY <2>1, <2>3, <2>6, <3>1, Lemmas!MinIsLeast DEF Min, Lemmas!Min
        <3>3. 0 \in known => m = 0
            BY <2>3, <3>1
        <3> QED
            BY <2>2, <2>3, <2>4, <3>1, <3>2, <3>3
    <2> QED
        BY <2>5, <2>6
<1> QED
    BY <1>10

(* What forward_dijkstra reaches has the initial state and is closed.      *)
LEMMA InitialIsReached ==
    ASSUME GraphInv, NEW es \in SUBSET edges, NEW reached \in SettledStates(es)
    PROVE  InitialState \in reached /\ \A e \in es : e[1] \in reached => e[3] \in reached
<1> DEFINE N == Cardinality(es)
           On(st) == {e[3] : e \in {f \in es : f[1] = st}}
           E == [st \in State |-> On(st)]
           U == CHOOSE g : g = [k \in 0 .. N |->
                    IF k = 0 THEN {InitialState}
                    ELSE UNION {{st} \cup On(st) : st \in g[k - 1]}]
<1>1. N \in Nat /\ InitialState \in State
    BY FiniteGraph, ParentAssumption
<1>2. reached = U[N] /\ \A e \in es : e[1] \in reached => e[3] \in reached
    BY DEF SettledStates, ReachedBy
<1>3. E \in [State -> SUBSET State]
    BY DEF GraphInv, Transitions
<1>4. PICK g \in [0 .. N -> SUBSET State] :
            /\ g[0] = {InitialState}
            /\ \A k \in 1 .. N : g[k] = UNION {{st} \cup E[st] : st \in g[k - 1]}
    <2> HIDE DEF E, N
    <2>1. Rounds(State, {InitialState}, N, E) # {}
        BY <1>1, <1>3, RoundsExist
    <2> QED
        BY <2>1 DEF Rounds
<1>5. U = [k \in 0 .. N |->
            IF k = 0 THEN {InitialState}
            ELSE UNION {{st} \cup On(st) : st \in U[k - 1]}]
    <2>1. ASSUME NEW k \in 1 .. N
          PROVE  g[k] = UNION {{st} \cup On(st) : st \in g[k - 1]}
        <3>1. k - 1 \in 0 .. N
            BY <1>1
        <3>2. g[k - 1] \subseteq State
            BY <1>4, <3>1
        <3>3. \A st \in g[k - 1] : E[st] = On(st)
            BY <3>2
        <3> HIDE DEF E, On
        <3> QED
            BY <1>4, <3>3
    <2>2. \A k \in 0 .. N : k = 0 \/ k \in 1 .. N
        BY <1>1
    <2>3. g = [k \in 0 .. N |->
            IF k = 0 THEN {InitialState}
            ELSE UNION {{st} \cup On(st) : st \in g[k - 1]}]
        <3> HIDE DEF E, On, N
        <3> QED
            BY <1>4, <2>1, <2>2
    <2> HIDE DEF On, N
    <2> QED
        BY <2>3
<1> HIDE DEF U
<1> DEFINE Good == {k \in 0 .. N : InitialState \in U[k]}
<1>6. \A k \in 0 .. N : k \in Good
    <2>1. 0 \in Good
        <3> HIDE DEF On, N
        <3>1. 0 \in 0 .. N /\ U[0] = {InitialState}
            BY <1>1, <1>5
        <3> QED
            BY <3>1
    <2>2. ASSUME NEW k \in 1 .. N, k - 1 \in Good
          PROVE  k \in Good
        <3> HIDE DEF On, N
        <3>1. k \in 0 .. N /\ k # 0
            BY <1>1
        <3>2. U[k] = UNION {{st} \cup On(st) : st \in U[k - 1]}
            BY <1>5, <3>1
        <3>3. {InitialState} \cup On(InitialState) \in {{st} \cup On(st) : st \in U[k - 1]}
            BY <2>2
        <3> QED
            BY <3>1, <3>2, <3>3
    <2> HIDE DEF Good, N
    <2> QED
        BY <1>1, <2>1, <2>2, Lemmas!UpTo
<1>7. N \in Good
    <2> HIDE DEF Good, N
    <2> QED
        BY <1>1, <1>6
<1> QED
    BY <1>2, <1>7

(* A lower bound goes up along a way by no more than its costs, so that    *)
(* what IsCheapest says of a plan is that none of the task is cheaper.     *)
LEMMA BoundAlongWay ==
    ASSUME NEW h, IsLowerBound(h), NEW ops \in Seq(Op), NEW states, LeadThrough(ops, states),
           states[1] = InitialState, NEW sum \in [0 .. Len(ops) -> Nat], sum[0] = 0,
           \A i \in 1 .. Len(ops) : sum[i] = sum[i - 1] + Cost[ops[i]]
    PROVE  \A k \in 0 .. Len(ops) : h[InitialState] <= sum[k] + h[states[k + 1]]
<1> PICK n, bottom : n = Len(ops) /\ bottom = h[InitialState]
    OBVIOUS
<1>1. n \in Nat /\ \A i \in 1 .. n : ops[i] \in Op
    <2>1. n \in Nat /\ DOMAIN ops = 1 .. n
        OBVIOUS
    <2> QED
        BY <2>1
<1>2. \A k \in 1 .. n + 1 : states[k] \in State
    <2>1. states \in Seq(State) /\ Len(states) = n + 1
        BY DEF LeadThrough
    <2> QED
        BY <2>1
<1>3. bottom \in Nat /\ \A st \in State : h[st] \in Nat
    BY ParentAssumption DEF IsLowerBound
<1>4. ASSUME NEW i \in 1 .. n
      PROVE  h[states[i]] <= Cost[ops[i]] + h[states[i + 1]]
    <2> PICK p : p = <<states[i], ops[i]>>
        OBVIOUS
    <2>1. i \in DOMAIN ops
        OBVIOUS
    <2>2. p \in DOMAIN Succ /\ Succ[p] = states[i + 1]
        BY <2>1 DEF LeadThrough, IsApplicable, Successor
    <2>3. h[p[1]] <= Cost[p[2]] + h[Succ[p]]
        BY <2>2 DEF IsLowerBound
    <2> QED
        BY <2>2, <2>3
<1> DEFINE Good == {k \in 0 .. n : bottom <= sum[k] + h[states[k + 1]]}
<1>5. 0 \in Good
    <2>1. 0 \in 0 .. n /\ sum[0] + h[states[0 + 1]] = bottom
        BY <1>1, <1>3
    <2> QED
        BY <1>3, <2>1
<1>6. ASSUME NEW k \in 1 .. n, k - 1 \in Good
      PROVE  k \in Good
    <2>1. k \in 0 .. n /\ k - 1 \in 0 .. n /\ (k - 1) + 1 = k
          /\ k \in 1 .. n + 1 /\ k + 1 \in 1 .. n + 1
        BY <1>1
    <2> PICK before, bound, cost, next :
            /\ before = sum[k - 1] /\ bound = h[states[k]]
            /\ cost = Cost[ops[k]] /\ next = h[states[k + 1]]
        OBVIOUS
    <2>2. before \in Nat /\ bound \in Nat /\ cost \in Nat /\ next \in Nat
        BY <1>1, <1>2, <1>3, <2>1, PlansGraphAssumption
    <2>3. bottom <= before + bound /\ bound <= cost + next
        BY <1>4, <1>6, <2>1
    <2>4. bottom <= (before + cost) + next
        BY ONLY <1>3, <2>2, <2>3
    <2>5. sum[k] = before + cost
        OBVIOUS
    <2>6. k \in 0 .. n /\ bottom <= sum[k] + h[states[k + 1]]
        BY <2>1, <2>4, <2>5
    <2> QED
        BY ONLY <2>6
<1> HIDE DEF Good
<1>7. \A k \in 0 .. n : k \in Good
    BY <1>1, <1>5, <1>6, Lemmas!UpTo
<1> QED
    BY <1>7 DEF Good

LEMMA CheapestIsLeast ==
    ASSUME NEW ops \in Seq(Op), IsCheapest(ops), NEW other \in Seq(Op), NEW states,
           LeadThrough(other, states), states[1] = InitialState,
           states[Len(other) + 1] \in GoalStates
    PROVE  CostOf(ops) <= CostOf(other)
<1> PICK h : IsLowerBound(h) /\ CostOf(ops) <= h[InitialState]
    BY DEF IsCheapest
<1> PICK sum \in [0 .. Len(other) -> Nat] :
            /\ sum[0] = 0 /\ CostOf(other) = sum[Len(other)]
            /\ \A i \in 1 .. Len(other) : sum[i] = sum[i - 1] + Cost[other[i]]
    BY CostSums
<1> PICK n : n = Len(other)
    OBVIOUS
<1>1. n \in Nat /\ n \in 0 .. n
    OBVIOUS
<1>2. h[InitialState] <= sum[n] + h[states[n + 1]]
    BY <1>1, BoundAlongWay
<1>3. h[states[n + 1]] = 0 /\ h[InitialState] \in Nat /\ sum[n] \in Nat
    BY <1>1, ParentAssumption DEF IsLowerBound
<1>4. CostOf(ops) \in Nat
    <2>1. PICK own \in [0 .. Len(ops) -> Nat] : CostOf(ops) = own[Len(ops)]
        BY CostSums
    <2> QED
        BY <2>1
<1>5. CostOf(other) = sum[n] /\ CostOf(ops) <= h[InitialState]
    OBVIOUS
<1> QED
    BY ONLY <1>2, <1>3, <1>4, <1>5

(* What is left of the costs of a walk between the two bounds.             *)
LEMMA LeftIsExact ==
    ASSUME NEW total \in Nat, NEW before \in Nat, NEW left \in Nat, NEW bound \in Nat,
           left + before <= total, bound <= left, total <= before + bound
    PROVE  left + before = total
OBVIOUS

(* What the removal of non-plans keeps of a cheapest plan: its distances   *)
(* are what is left of its cost, neither more, as the search along its     *)
(* edges has settled, nor less, as no plan of the task is cheaper.         *)
LEMMA CleaningKeepsCheapestWalks ==
    ASSUME GraphInv, NEW h, IsLowerBound(h), NEW best, best <= h[InitialState],
           NEW distance, distance = DistancesToGoal, Settled(distance),
           NEW reached, InitialState \in reached,
           \A e \in CheapestEdges(distance) : e[1] \in reached => e[3] \in reached,
           NEW walk, NEW states, IsWalk(walk, states),
           IsGoalState(states[Len(walk) + 1]), CostOf(walk) = best
    PROVE  \A i \in 1 .. Len(walk) :
                /\ <<states[i], walk[i], states[i + 1]>> \in CheapestEdges(distance)
                /\ states[i] \in reached
<1> PICK n : n = Len(walk)
    OBVIOUS
<1>1. /\ walk \in Seq(Op) /\ states \in Seq(State) /\ n \in Nat
      /\ Len(walk) = n /\ Len(states) = n + 1 /\ states[1] = InitialState
      /\ \A i \in 1 .. n : <<states[i], walk[i], states[i + 1]>> \in edges
    BY DEF IsWalk
<1>2. PICK sum \in [0 .. n -> Nat] :
            /\ sum[0] = 0 /\ CostOf(walk) = sum[n]
            /\ \A i \in 1 .. n : sum[i] = sum[i - 1] + Cost[walk[i]]
    <2>1. \E sum \in [0 .. Len(walk) -> Nat] :
                /\ sum[0] = 0 /\ CostOf(walk) = sum[Len(walk)]
                /\ \A i \in 1 .. Len(walk) : sum[i] = sum[i - 1] + Cost[walk[i]]
        BY <1>1, CostSums
    <2> QED
        BY ONLY <2>1, n = Len(walk)
<1>3. /\ \A k \in 1 .. n + 1 : states[k] \in State /\ h[states[k]] \in Nat
      /\ \A i \in 1 .. n : walk[i] \in Op /\ Cost[walk[i]] \in Nat
    BY <1>1, PlansGraphAssumption DEF IsLowerBound
<1>4. ASSUME NEW i \in 1 .. n
      PROVE  /\ h[states[i]] <= Cost[walk[i]] + h[states[i + 1]]
             /\ states[i + 1] \in nodes
             /\ distance[states[i + 1]] # Unknown =>
                    /\ distance[states[i]] # Unknown
                    /\ distance[states[i]] <= distance[states[i + 1]] + Cost[walk[i]]
    <2> DEFINE e == <<states[i], walk[i], states[i + 1]>>
    <2>1. e \in edges /\ e \in Transitions /\ e[3] \in nodes
        BY <1>1 DEF GraphInv, IndexesAgree
    <2>2. e[1] = states[i] /\ e[2] = walk[i] /\ e[3] = states[i + 1]
        OBVIOUS
    <2> HIDE DEF e
    <2>3. <<e[1], e[2]>> \in DOMAIN Succ /\ e[3] = Succ[<<e[1], e[2]>>]
        BY <2>1 DEF Transitions, IsApplicable, Successor
    <2>4. h[e[1]] <= Cost[e[2]] + h[e[3]]
        BY <2>3 DEF IsLowerBound
    <2> QED
        BY <2>1, <2>2, <2>4 DEF Settled
<1>5. ASSUME NEW k \in 0 .. n
      PROVE  best <= sum[k] + h[states[k + 1]]
    <2>1. LeadThrough(walk, states)
        <3>1. ASSUME NEW i \in 1 .. n
              PROVE  IsApplicable(walk[i], states[i]) /\ states[i + 1] = Successor(walk[i], states[i])
            <4>1. <<states[i], walk[i], states[i + 1]>> \in Transitions
                BY <1>1 DEF GraphInv
            <4> QED
                BY ONLY <4>1 DEF Transitions
        <3>2. DOMAIN walk = 1 .. n
            BY <1>1
        <3> QED
            BY ONLY <1>1, <3>1, <3>2 DEF LeadThrough
    <2>2. h[InitialState] <= sum[k] + h[states[k + 1]]
        BY <1>1, <1>2, <2>1, BoundAlongWay
    <2>3. /\ best \in Nat /\ h[InitialState] \in Nat /\ sum[k] \in Nat
          /\ h[states[k + 1]] \in Nat
        <3>1. k + 1 \in 1 .. n + 1 /\ n \in 0 .. n
            BY <1>1
        <3> QED
            BY <1>2, <1>3, <3>1, ParentAssumption DEF IsLowerBound
    <2> QED
        BY ONLY <2>2, <2>3, best <= h[InitialState]
<1> DEFINE Left == {j \in 0 .. n : /\ distance[states[n + 1 - j]] \in Nat
                                  /\ distance[states[n + 1 - j]] # Unknown
                                  /\ distance[states[n + 1 - j]] + sum[n - j] <= sum[n]}
<1>6. ASSUME n > 0
      PROVE  \A j \in 0 .. n : j \in Left
    <2>1. 0 \in Left
        <3>1. n \in 1 .. n /\ n + 1 - 0 = n + 1 /\ n - 0 = n /\ 0 \in 0 .. n /\ n + 1 \in 1 .. n + 1
            BY <1>1, <1>6
        <3>2. states[n + 1] \in nodes /\ states[n + 1] \in State /\ IsGoalState(states[n + 1])
            BY <1>1, <1>3, <1>4, <3>1
        <3>3. distance[states[n + 1]] = 0 /\ distance[states[n + 1]] # Unknown
            BY <3>2, DistancesAreBounds
        <3>4. sum[n] \in Nat /\ 0 + sum[n] <= sum[n]
            BY <1>2, <3>1
        <3> QED
            BY <3>1, <3>3, <3>4
    <2>2. ASSUME NEW j \in 1 .. n, j - 1 \in Left
          PROVE  j \in Left
        <3> PICK i : i = n + 1 - j
            OBVIOUS
        <3>1. /\ i \in 1 .. n /\ n + 1 - (j - 1) = i + 1 /\ n - j = i - 1 /\ n - (j - 1) = i
              /\ j \in 0 .. n /\ i \in 1 .. n + 1 /\ i \in 0 .. n /\ i - 1 \in 0 .. n /\ n \in 0 .. n
            BY <1>1
        <3>2. /\ distance[states[i + 1]] \in Nat /\ distance[states[i + 1]] # Unknown
              /\ distance[states[i + 1]] + sum[i] <= sum[n]
            BY <2>2, <3>1
        <3>3. /\ distance[states[i]] # Unknown
              /\ distance[states[i]] <= distance[states[i + 1]] + Cost[walk[i]]
            BY <1>4, <3>1, <3>2
        <3>4. distance[states[i]] \in Nat
            BY <1>3, <3>1, <3>3, DistancesAreBounds
        <3>5. sum[i] = sum[i - 1] + Cost[walk[i]] /\ sum[i - 1] \in Nat /\ sum[i] \in Nat /\ sum[n] \in Nat
            BY <1>2, <3>1
        <3>6. Cost[walk[i]] \in Nat
            BY <1>3, <3>1
        <3> PICK left, next, before, after, total, cost :
                /\ left = distance[states[i]] /\ next = distance[states[i + 1]]
                /\ before = sum[i - 1] /\ after = sum[i] /\ total = sum[n]
                /\ cost = Cost[walk[i]]
            OBVIOUS
        <3>7. left + before <= total
            <4>1. /\ left \in Nat /\ next \in Nat /\ before \in Nat /\ after \in Nat
                  /\ total \in Nat /\ cost \in Nat /\ next + after <= total
                  /\ after = before + cost /\ left <= next + cost
                BY <3>2, <3>3, <3>4, <3>5, <3>6
            <4> QED
                BY ONLY <4>1
        <3>8. j \in 0 .. n
            BY <3>1
        <3> QED
            BY <3>1, <3>3, <3>4, <3>7, <3>8
    <2> HIDE DEF Left
    <2> QED
        BY <1>1, <2>1, <2>2, Lemmas!UpTo
<1>7. ASSUME NEW k \in 1 .. n + 1, n > 0
      PROVE  /\ distance[states[k]] \in Nat /\ distance[states[k]] # Unknown
             /\ distance[states[k]] + sum[k - 1] = sum[n]
    <2> PICK j : j = n + 1 - k
        OBVIOUS
    <2>1. j \in 0 .. n /\ n + 1 - j = k /\ n - j = k - 1 /\ k - 1 \in 0 .. n /\ n \in 0 .. n
        BY <1>1
    <2>2. j \in Left
        <3> HIDE DEF Left
        <3> QED
            BY <1>6, <1>7, <2>1
    <2>3. /\ distance[states[k]] \in Nat /\ distance[states[k]] # Unknown
          /\ distance[states[k]] + sum[k - 1] <= sum[n]
        BY <2>1, <2>2
    <2>4. h[states[k]] <= distance[states[k]] /\ h[states[k]] \in Nat
        BY <1>3, <2>3, DistancesAreBounds
    <2>5. best <= sum[k - 1] + h[states[k]]
        <3>1. (k - 1) + 1 = k
            BY <1>1
        <3> QED
            BY <1>5, <2>1, <3>1
    <2>6. best = sum[n] /\ sum[n] \in Nat /\ sum[k - 1] \in Nat
        BY <1>2, <2>1
    <2> QED
        BY ONLY <2>3, <2>4, <2>5, <2>6, LeftIsExact
<1> HIDE DEF Left
<1>8. ASSUME NEW i \in 1 .. n
      PROVE  <<states[i], walk[i], states[i + 1]>> \in CheapestEdges(distance)
    <2>1. i \in 1 .. n + 1 /\ i + 1 \in 1 .. n + 1 /\ n > 0 /\ (i + 1) - 1 = i /\ n \in 0 .. n
          /\ i \in 0 .. n /\ i - 1 \in 0 .. n
        BY <1>1
    <2>2. /\ distance[states[i]] \in Nat /\ distance[states[i + 1]] \in Nat
          /\ distance[states[i]] # Unknown /\ distance[states[i + 1]] # Unknown
          /\ distance[states[i]] + sum[i - 1] = sum[n]
          /\ distance[states[i + 1]] + sum[i] = sum[n]
        BY <1>7, <2>1
    <2>3. sum[i] = sum[i - 1] + Cost[walk[i]] /\ Cost[walk[i]] \in Nat
          /\ sum[i] \in Nat /\ sum[i - 1] \in Nat /\ sum[n] \in Nat
        BY <1>2, <1>3, <2>1
    <2>4. distance[states[i]] = distance[states[i + 1]] + Cost[walk[i]]
        <3> PICK left, next, before, after, total, cost :
                /\ left = distance[states[i]] /\ next = distance[states[i + 1]]
                /\ before = sum[i - 1] /\ after = sum[i] /\ total = sum[n]
                /\ cost = Cost[walk[i]]
            OBVIOUS
        <3>1. /\ left \in Nat /\ next \in Nat /\ before \in Nat /\ after \in Nat
              /\ total \in Nat /\ cost \in Nat
              /\ left + before = total /\ next + after = total /\ after = before + cost
            BY <2>2, <2>3
        <3>2. left = next + cost
            BY ONLY <3>1
        <3> QED
            BY <3>2
    <2> QED
        BY <1>1, <2>2, <2>4 DEF CheapestEdges
<1>9. \A k \in 0 .. n : states[k + 1] \in reached
    <2> DEFINE Good == {k \in 0 .. n : states[k + 1] \in reached}
    <2>1. 0 \in Good
        <3>1. 0 \in 0 .. n /\ 0 + 1 = 1
            BY <1>1
        <3> QED
            BY <1>1, <3>1
    <2>2. ASSUME NEW k \in 1 .. n, k - 1 \in Good
          PROVE  k \in Good
        <3>1. (k - 1) + 1 = k /\ k \in 0 .. n
            BY <1>1
        <3>2. states[k] \in reached
            BY <2>2, <3>1
        <3>3. <<states[k], walk[k], states[k + 1]>> \in CheapestEdges(distance)
            BY <1>8
        <3>4. states[k + 1] \in reached
            BY <3>2, <3>3
        <3> QED
            BY <3>1, <3>4
    <2> HIDE DEF Good
    <2>3. \A k \in 0 .. n : k \in Good
        BY <1>1, <2>1, <2>2, Lemmas!UpTo
    <2> QED
        BY <2>3 DEF Good
<1>10. ASSUME NEW i \in 1 .. n
       PROVE  states[i] \in reached
    <2>1. i - 1 \in 0 .. n /\ (i - 1) + 1 = i
        BY <1>1
    <2> QED
        BY <1>9, <2>1
<1> QED
    BY <1>8, <1>10
-------------------------------------------------------------------------------
(* The plans that were saved are walks on the graph from then on.          *)
IsSaved(ops) ==
    /\ CostOf(ops) = best_plan_cost
    /\ \E states : /\ IsWalk(ops, states) /\ IsInjective(states)
                   /\ IsGoalState(states[Len(ops) + 1])

SavedInv == ~FindingAdditional => \A ops \in optimal_plans : IsSaved(ops)

LEMMA DumpingSaves ==
    ASSUME TypeInv, SavedInv, NEW number, DumpPlans(number), UNCHANGED <<input, graph>>
    PROVE  SavedInv'
<1>1. ASSUME NEW ops \in optimal_plans', ops \notin optimal_plans
      PROVE  IsSaved(ops)
    <2>1. ops \in SimplePlans /\ CostOf(ops) = best_plan_cost
        <3>1. PICK found \in {SimplePlans} :
              \E cheapest \in {{o \in found : CostOf(o) = best_plan_cost}} :
                optimal_plans' \in {optimal_plans \cup d :
                    d \in IF Cardinality(cheapest \ optimal_plans)
                                <= number - Cardinality(optimal_plans)
                          THEN {cheapest \ optimal_plans}
                          ELSE kSubset(number - Cardinality(optimal_plans),
                                       cheapest \ optimal_plans)}
            BY <1>1 DEF DumpPlans, saved
        <3> DEFINE cheapest == {o \in SimplePlans : CostOf(o) = best_plan_cost}
                   new == cheapest \ optimal_plans
                   room == number - Cardinality(optimal_plans)
        <3>2. optimal_plans' \in {optimal_plans \cup d :
                    d \in IF Cardinality(new) <= room THEN {new} ELSE kSubset(room, new)}
            BY <3>1
        <3>3. PICK d : /\ optimal_plans' = optimal_plans \cup d
                       /\ d \in IF Cardinality(new) <= room THEN {new} ELSE kSubset(room, new)
            <4> HIDE DEF new, room
            <4> QED
                BY <3>2
        <3>4. d \subseteq new
            <4> HIDE DEF new, room
            <4> QED
                BY <3>3 DEF kSubset
        <3> QED
            BY <1>1, <3>3, <3>4
    <2> QED
        BY <2>1, SimplePlansAreWalks DEF IsSaved, TypeInv
<1>2. FindingAdditional' = FindingAdditional
    BY DEF FindingAdditional
<1>3. ASSUME NEW ops
      PROVE  IsSaved(ops)' = IsSaved(ops)
    <2>1. best_plan_cost' = best_plan_cost
        BY DEF best_plan_cost, plan
    <2>2. edges' = edges
        BY DEF graph
    <2> QED
        BY <2>1, <2>2 DEF IsSaved, IsWalk
<1> QED
    BY <1>1, <1>2, <1>3 DEF SavedInv

(* Nor is one lost when edges are added, or by the removal of non-plans.   *)
LEMMA AddingSaves ==
    ASSUME SavedInv, edges \subseteq edges', UNCHANGED <<input, optimal_plans>>
    PROVE  SavedInv'
<1>1. ASSUME NEW ops, IsSaved(ops)
      PROVE  IsSaved(ops)'
    <2>1. best_plan_cost' = best_plan_cost
        BY DEF best_plan_cost, plan
    <2>2. PICK states : /\ IsWalk(ops, states) /\ IsInjective(states)
                        /\ IsGoalState(states[Len(ops) + 1])
        BY <1>1 DEF IsSaved
    <2>3. IsWalk(ops, states)'
        BY <2>2 DEF IsWalk
    <2> QED
        BY <1>1, <2>1, <2>2, <2>3 DEF IsSaved
<1> QED
    BY <1>1 DEF SavedInv, FindingAdditional

LEMMA CleaningSaves ==
    ASSUME TypeInv, SavedInv, IsCheapest(plan), GreedyClean \/ RemoveNonPlans
    PROVE  SavedInv'
<1>1. UNCHANGED <<input, optimal_plans>>
    BY DEF GreedyClean, RemoveNonPlans, saved
<1>2. \E distance \in SettledDistances : \E reached :
            /\ InitialState \in reached
            /\ \A e \in CheapestEdges(distance) : e[1] \in reached => e[3] \in reached
            /\ edges' = {e \in CheapestEdges(distance) : e[1] \in reached}
    <2>1. InitialState \in State
          /\ \A d : \A e \in CheapestEdges(d) : e \in edges /\ e[3] \in State
        BY ParentAssumption DEF CheapestEdges, TypeInv, GraphInv, Transitions
    <2>2. CASE GreedyClean
        <3>1. PICK distance \in SettledDistances :
                    KeepOnPlans(CheapestEdges(distance), State, distance)
            BY <2>2 DEF GreedyClean
        <3> QED
            BY <2>1, <3>1 DEF KeepOnPlans
    <2>3. CASE RemoveNonPlans
        <3>1. PICK distance \in SettledDistances :
              \E reached \in IF pc = "depth" THEN SettledStates(CheapestEdges(distance))
                             ELSE {State} :
                    KeepOnPlans(CheapestEdges(distance), reached, distance)
            BY <2>3 DEF RemoveNonPlans
        <3>2. PICK reached \in IF pc = "depth" THEN SettledStates(CheapestEdges(distance))
                               ELSE {State} :
                    KeepOnPlans(CheapestEdges(distance), reached, distance)
            BY <3>1
        <3>3. edges' = {e \in CheapestEdges(distance) : e[1] \in reached}
            BY <3>2 DEF KeepOnPlans
        <3>4. CASE pc = "depth"
            <4>1. CheapestEdges(distance) \in SUBSET edges /\ GraphInv
                BY <2>1 DEF TypeInv
            <4>2. reached \in SettledStates(CheapestEdges(distance))
                BY <3>2, <3>4
            <4> QED
                BY <3>3, <4>1, <4>2, InitialIsReached
        <3>5. CASE pc # "depth"
            <4>1. reached = State
                BY <3>2, <3>5
            <4> QED
                BY <2>1, <3>3, <4>1
        <3> QED
            BY <3>4, <3>5
    <2> QED
        BY <2>2, <2>3
<1> PICK distance \in SettledDistances : \E reached :
            /\ InitialState \in reached
            /\ \A e \in CheapestEdges(distance) : e[1] \in reached => e[3] \in reached
            /\ edges' = {e \in CheapestEdges(distance) : e[1] \in reached}
    BY <1>2
<1>3. PICK reached :
            /\ InitialState \in reached
            /\ \A e \in CheapestEdges(distance) : e[1] \in reached => e[3] \in reached
            /\ edges' = {e \in CheapestEdges(distance) : e[1] \in reached}
    OBVIOUS
<1>4. GraphInv /\ distance = DistancesToGoal /\ Settled(distance)
    BY DEF TypeInv, SettledDistances
<1>5. PICK h : IsLowerBound(h) /\ best_plan_cost <= h[InitialState]
    BY DEF IsCheapest, best_plan_cost
<1>6. ASSUME NEW ops, IsSaved(ops)
      PROVE  IsSaved(ops)'
    <2>1. best_plan_cost' = best_plan_cost /\ CostOf(ops) = best_plan_cost
        BY <1>1, <1>6 DEF best_plan_cost, plan, IsSaved
    <2>2. PICK states : /\ IsWalk(ops, states) /\ IsInjective(states)
                        /\ IsGoalState(states[Len(ops) + 1])
        BY <1>6 DEF IsSaved
    <2>3. \A i \in 1 .. Len(ops) :
                /\ <<states[i], ops[i], states[i + 1]>> \in CheapestEdges(distance)
                /\ states[i] \in reached
        BY <1>3, <1>4, <1>5, <2>1, <2>2, CleaningKeepsCheapestWalks
    <2>4. \A i \in 1 .. Len(ops) : <<states[i], ops[i], states[i + 1]>> \in edges'
        BY <1>3, <2>3
    <2>5. IsWalk(ops, states)'
        BY <2>2, <2>4 DEF IsWalk
    <2> QED
        BY <2>1, <2>2, <2>5 DEF IsSaved
<1> QED
    BY <1>1, <1>6 DEF SavedInv, FindingAdditional

(* With a cheapest plan all that was saved is on the graph; a task is only *)
(* written when no additional plans were asked for.                        *)
SavingInv ==
    /\ Reformulating => ~FindingAdditional
    /\ IsCheapest(plan) => SavedInv

LEMMA SavingStep ==
    ASSUME IInv, SavingInv, [Next]_vars
    PROVE  SavingInv'
<1>1. input' = input
    BY DEF Next, vars, AddPlan, DumpFirstPlan, BeginNeighbours, ExpandBreadth,
           EndNeighbours, Expand, GreedyClean, DumpIntermediate, RemoveNonPlans,
           DumpReorderings, BeginRound, VisitNode, EndSweep, NoMoreRounds,
           DumpLastPlans, Stop
<1>2. Reformulating' => ~FindingAdditional'
    <2>1. ASSUME Reformulating'
          PROVE  DumpLastPlans \/ pc' = pc
        BY <2>1 DEF Next, vars, Reformulating, AddPlan, DumpFirstPlan, BeginNeighbours,
               ExpandBreadth, EndNeighbours, Expand, GreedyClean, DumpIntermediate,
               RemoveNonPlans, DumpReorderings, BeginRound, VisitNode, EndSweep,
               NoMoreRounds, DumpLastPlans, Stop
    <2> QED
        <3>1. CASE DumpLastPlans
            BY ONLY <1>1, <3>1 DEF Reformulating, FindingAdditional, DumpLastPlans
        <3>2. CASE pc' = pc
            BY <1>1, <3>2 DEF SavingInv, Reformulating, FindingAdditional
        <3> QED
            BY <2>1, <3>1, <3>2
<1>3. ASSUME IsCheapest(plan), SavedInv, TypeInv
      PROVE  SavedInv'
    <2>1. ASSUME edges' = edges, optimal_plans' = optimal_plans
          PROVE  SavedInv'
        BY <1>1, <1>3, <2>1, AddingSaves
    <2>2. ASSUME edges \subseteq edges', optimal_plans' = optimal_plans
          PROVE  SavedInv'
        BY <1>1, <1>3, <2>2, AddingSaves
    <2>3. ASSUME NEW number, DumpPlans(number), UNCHANGED graph
          PROVE  SavedInv'
        BY <1>1, <1>3, <2>3, DumpingSaves
    <2>4. CASE AddPlan
        <3>1. CASE FindingAdditional
            BY <1>1, <3>1 DEF SavedInv, FindingAdditional
        <3>2. CASE ~FindingAdditional
            <4> DEFINE states == Visits(plan)
                       new == {<<states[i], plan[i], states[i + 1]>> : i \in DOMAIN plan}
            <4>1. edges' = edges \cup new /\ optimal_plans' = optimal_plans
                BY <2>4, <3>2 DEF AddPlan, AddEdges
            <4> HIDE DEF new
            <4> QED
                BY <2>2, <4>1
        <3> QED
            BY <3>1, <3>2
    <2>5. CASE DumpFirstPlan
        BY <2>3, <2>5 DEF DumpFirstPlan
    <2>6. CASE BeginNeighbours \/ EndNeighbours \/ BeginRound \/ NoMoreRounds
                \/ UNCHANGED vars
        BY <2>1, <2>6 DEF BeginNeighbours, EndNeighbours, BeginRound, NoMoreRounds, vars,
                          graph, saved
    <2>7. CASE ExpandBreadth
        <3> DEFINE st == Head(bfs_queue)
                   left == Positions \ covered[st]
                   Follow(i) == Successor(plan[i], st)
                   used == {i \in left : /\ IsApplicable(plan[i], st)
                                         /\ Follow(i) \notin closed \cup {st}}
                   new == {<<st, plan[i], Follow(i)>> : i \in used}
        <3>1. (UNCHANGED graph \/ edges' = edges \cup new) /\ optimal_plans' = optimal_plans
            BY <2>7 DEF ExpandBreadth, AddEdges, saved
        <3> HIDE DEF new
        <3>2. edges \subseteq edges' /\ optimal_plans' = optimal_plans
            BY <3>1 DEF graph
        <3> QED
            BY ONLY <2>2, <3>2
    <2>8. CASE Expand
        <3> DEFINE curr == Last(dfs_queue)
                   st == Last(curr.path)
                   Target(i) == Successor(curr.remaining[i], st)
                   used == {i \in DOMAIN curr.remaining :
                                /\ \A j \in 1 .. i - 1 : curr.remaining[j] # curr.remaining[i]
                                /\ IsApplicable(curr.remaining[i], st)
                                /\ reduce_plan_orders = "NAIVE_ALL_DFS_NODUP" =>
                                        Target(i) \notin ToSet(curr.path)}
                   new == {<<st, curr.remaining[i], Target(i)>> : i \in used}
        <3>1. edges' = edges \cup new /\ optimal_plans' = optimal_plans
            BY <2>8 DEF Expand, AddEdges, saved
        <3> HIDE DEF new
        <3>2. edges \subseteq edges' /\ optimal_plans' = optimal_plans
            BY ONLY <3>1
        <3> QED
            BY ONLY <2>2, <3>2
    <2>9. CASE GreedyClean \/ RemoveNonPlans
        BY <1>3, <2>9, CleaningSaves
    <2>10. CASE DumpIntermediate
        BY <2>3, <2>10 DEF DumpIntermediate
    <2>11. CASE DumpReorderings
        BY <2>3, <2>11 DEF DumpReorderings
    <2>12. CASE \E st \in nodes : VisitNode(st)
        <3>1. edges \subseteq edges' /\ optimal_plans' = optimal_plans
            BY <2>12 DEF VisitNode, AddEdges, saved
        <3> QED
            BY <2>2, <3>1
    <2>13. CASE EndSweep
        BY <2>1, <2>3, <2>13 DEF EndSweep, graph, saved
    <2>14. CASE DumpLastPlans
        BY <2>3, <2>14 DEF DumpLastPlans
    <2> QED
        BY <2>4, <2>5, <2>6, <2>7, <2>8, <2>9, <2>10, <2>11, <2>12, <2>13, <2>14
           DEF Next, Stop
<1>4. plan' = plan /\ IsCheapest(plan)' = IsCheapest(plan)
    BY <1>1 DEF plan, IsCheapest
<1>5. IsCheapest(plan)' => SavedInv'
    <2>1. TypeInv /\ (IsCheapest(plan) => SavedInv)
        BY DEF SavingInv, IInv
    <2> QED
        BY <1>3, <1>4, <2>1
<1> QED
    BY ONLY <1>2, <1>5 DEF SavingInv

(* A walk that meets no state twice is no longer than the graph has nodes. *)
LEMMA SimpleWalksAreShort ==
    ASSUME GraphInv, NEW ops, NEW states, IsWalk(ops, states), IsInjective(states)
    PROVE  Len(ops) <= Cardinality(nodes)
<1> PICK n : n = Len(ops)
    OBVIOUS
<1>1. /\ n \in Nat /\ states \in Seq(State) /\ DOMAIN states = 1 .. n + 1
      /\ \A i \in 1 .. n : <<states[i], ops[i], states[i + 1]>> \in edges
    BY DEF IsWalk
<1> DEFINE first == [i \in 1 .. n |-> states[i]]
<1>2. first \in [1 .. n -> nodes]
    <2>1. \A e \in edges : e[1] \in nodes
        BY DEF GraphInv, IndexesAgree
    <2>2. \A i \in 1 .. n : states[i] \in nodes
        BY ONLY <1>1, <2>1
    <2> QED
        BY <2>2
<1>3. \A i, j \in 1 .. n : first[i] = first[j] => i = j
    BY <1>1 DEF IsInjective
<1>4. first \in Injection(1 .. n, nodes)
    <2> HIDE DEF first
    <2> QED
        BY <1>2, <1>3 DEF Injection, IsInjective
<1>5. Cardinality(1 .. n) <= Cardinality(nodes)
    <2> HIDE DEF first
    <2> QED
        BY <1>4, FiniteGraph, FS_Injection
<1>6. Cardinality(1 .. n) = n
    <2>1. n \in Nat /\ 1 \in Int /\ n \in Int
        BY <1>1
    <2>2. Cardinality(1 .. n) = IF 1 > n THEN 0 ELSE n - 1 + 1
        BY ONLY <2>1, FS_Interval
    <2> QED
        BY ONLY <2>1, <2>2
<1> QED
    BY <1>5, <1>6

(* A plan that was saved is not found again: when the plan read is one of  *)
(* the cheapest of the task, whatever was saved before, in between or      *)
(* after the graph was cleaned leads to a goal of the graph that the next  *)
(* task forbids.                                                           *)
THEOREM SavedPlansAreForbidden == Spec => [](IsCheapest(plan) => ForbidsAllSavedPlans)
<1>1. Init => SavingInv
    BY DEF Init, SavingInv, Reformulating, SavedInv
<1>2. IInv /\ SavingInv /\ [Next]_vars => SavingInv'
    BY SavingStep
<1>3. ASSUME IInv, SavingInv, IsCheapest(plan)
      PROVE  ForbidsAllSavedPlans
    <2>1. GraphInv /\ Cardinality(nodes) \in Nat
        BY <1>3, FiniteGraph DEF IInv, TypeInv
    <2>2. ASSUME Reformulating, NEW ops \in optimal_plans
          PROVE  ops \in OpsToGoal(Paths(LAMBDA path, st : TRUE, Cardinality(nodes)))
        <3>1. PICK states : /\ IsWalk(ops, states) /\ IsInjective(states)
                            /\ IsGoalState(states[Len(ops) + 1])
            BY <1>3, <2>2 DEF SavingInv, SavedInv, IsSaved
        <3>2. Len(ops) <= Cardinality(nodes)
            BY <2>1, <3>1, SimpleWalksAreShort
        <3> QED
            BY <2>1, <3>1, <3>2, WalksArePaths
    <2> QED
        BY <2>2 DEF ForbidsAllSavedPlans
<1> QED
    BY <1>1, <1>2, <1>3, Invariance, PTL DEF Spec
-------------------------------------------------------------------------------
(* The graph as the constructor of GraphForbidReformulatedTask reads it.   *)
GraphToForbid ==
    [init |-> InitialState,
     edge |-> [p \in {<<e[1], e[2]>> : e \in edges} |->
                    (CHOOSE e \in edges : <<e[1], e[2]>> = p)[3]],
     origins |-> origins]

Forbidding == INSTANCE GraphForbid
    WITH Node <- State, InputGraphs <- {}, Nowhere <- Unknown, MaxSteps <- 0,
         graph <- GraphToForbid, s <- InitialState, possible <- 1, following <- <<>>,
         walk <- InitialState, steps <- 0

(* What GraphForbid assumes of the graphs it is given is what this process *)
(* hands over, whatever it did to the graph before: an operator leaves a   *)
(* state at most once, and both indexes say where.                         *)
THEOREM HandsOverGraph == Spec => [](Reformulating => Forbidding!IsGraph(GraphToForbid))
<1>1. ASSUME IInv
      PROVE  Forbidding!IsGraph(GraphToForbid)
    <2> DEFINE g == GraphToForbid
               pairs == {<<e[1], e[2]>> : e \in edges}
    <2>1. edges \subseteq Transitions /\ IndexesAgree /\ DOMAIN origins \subseteq Op
        BY <1>1 DEF IInv, TypeInv, GraphInv
    <2>2. g.init = InitialState /\ g.origins = origins /\ DOMAIN g.edge = pairs
        BY DEF GraphToForbid
    <2>3. ASSUME NEW p \in pairs
          PROVE  g.edge[p] \in State /\ p \in State \X Op
        <3> DEFINE e == CHOOSE f \in edges : <<f[1], f[2]>> = p
        <3>1. e \in edges /\ <<e[1], e[2]>> = p
            OBVIOUS
        <3>2. g.edge[p] = e[3]
            BY DEF GraphToForbid
        <3> HIDE DEF e
        <3> QED
            BY <2>1, <3>1, <3>2 DEF Transitions
    <2>4. \A st, o : <<st, o>> \in pairs <=> \E e \in edges : e[1] = st /\ e[2] = o
        OBVIOUS
    <2>5. ASSUME NEW o \in Op \ DOMAIN origins, NEW st \in State
          PROVE  <<st, o>> \notin pairs
        BY <2>1, <2>4 DEF IndexesAgree
    <2>6. ASSUME NEW o \in DOMAIN origins
          PROVE  origins[o] = {st \in State : <<st, o>> \in pairs}
        BY <2>1, <2>4 DEF IndexesAgree
    <2> HIDE DEF g, pairs
    <2>7. /\ g.init \in State /\ DOMAIN g.edge \subseteq State \X Op
          /\ \A e \in DOMAIN g.edge : g.edge[e] \in State
        BY <2>2, <2>3, ParentAssumption
    <2>8. /\ \A o \in Op \ DOMAIN g.origins, n \in State : <<n, o>> \notin DOMAIN g.edge
          /\ DOMAIN g.origins \subseteq Op
          /\ \A o \in DOMAIN g.origins :
                g.origins[o] = {n \in State : <<n, o>> \in DOMAIN g.edge}
        BY <2>1, <2>2, <2>5, <2>6
    <2> QED
        BY <2>7, <2>8 DEF Forbidding!IsGraph, g
<1> QED
    BY <1>1, Invariance, PTL
===============================================================================
