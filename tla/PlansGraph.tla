------------------------------ MODULE PlansGraph ------------------------------
(***************************************************************************)
(* PlansGraph (plans/plans_graph.cc) as FORBID_MULTIPLE_PLANS uses it, in  *)
(* create_forbid_graph_and_dump_multiple_plans, and as                     *)
(* NONE_FIND_ADDITIONAL_PLANS does: the graph starts with a plan, one of   *)
(* the searches adds reorderings of its operators, what is on no cheapest  *)
(* path is removed, symmetries are applied until nothing is added, and the *)
(* plans on the graph are saved in between.  One action per expansion of a *)
(* search, per visit of a node in add_symmetry and per other call.         *)
(*                                                                         *)
(* add_symmetry iterates over the unordered containers it inserts into.    *)
(* A container that grows meanwhile may show the iteration the new         *)
(* elements or not and, when it rehashes, skip old ones.                   *)
(***************************************************************************)
EXTENDS ParentTask, Integers, SequencesExt

CONSTANTS
    Cost,           \* costs of the operators
    Groups,         \* per name of a symmetry group, the sequence of its
                    \* generators: records of a permutation of the states
                    \* and one of the operators
    Interfere,      \* the pairs of operators that OperatorInteraction finds
                    \* to interfere
    Inputs,         \* what a process may be given: a cheapest plan of the task,
                    \* and the options reformulate, number_of_plans,
                    \* reduce_plan_orders, symmetry_group and greedy_clean
                    \* (number_of_edges_until_greedy_clean)
    Unknown         \* a distance that was not computed

(* A generator is an automorphism of the task that fixes its initial state. *)
IsSymmetry(gen) ==
    /\ gen.state[InitialState] = InitialState
    /\ \A st \in State : IsGoalState(st) <=> IsGoalState(gen.state[st])
    /\ \A p \in DOMAIN Succ :
        /\ IsApplicable(gen.op[p[2]], gen.state[p[1]])
        /\ Successor(gen.op[p[2]], gen.state[p[1]]) = gen.state[Succ[p]]
        /\ Cost[gen.op[p[2]]] = Cost[p[2]]

(* The states an operator sequence visits, and its cost. *)
Visits(ops) == FoldLeft(LAMBDA seq, o : Append(seq, Successor(o, Last(seq))),
                        <<InitialState>>, ops)
CostOf(ops) ==
    LET sum[n \in 0 .. Len(ops)] == IF n = 0 THEN 0 ELSE sum[n - 1] + Cost[ops[n]]
    IN  sum[Len(ops)]

(* The operators can be applied in turn and lead through the states. *)
LeadThrough(ops, states) ==
    /\ states \in Seq(State)
    /\ Len(states) = Len(ops) + 1
    /\ \A i \in DOMAIN ops : /\ IsApplicable(ops[i], states[i])
                             /\ states[i + 1] = Successor(ops[i], states[i])

(* What is never more than the way to the goal costs, because no operator  *)
(* that is applied changes it by more than its cost.                       *)
IsLowerBound(h) ==
    /\ h \in [State -> Nat]
    /\ \A st \in GoalStates : h[st] = 0
    /\ \A p \in DOMAIN Succ : h[p[1]] <= Cost[p[2]] + h[Succ[p]]

(* No plan of the task is cheaper. *)
IsCheapest(ops) == \E h \in [State -> Nat] : IsLowerBound(h) /\ CostOf(ops) <= h[InitialState]

(* Where both operators are applicable, each still is after the other. *)
StayApplicable(o1, o2) ==
    \A st \in State :
        IsApplicable(o1, st) /\ IsApplicable(o2, st) =>
            /\ IsApplicable(o1, Successor(o2, st))
            /\ IsApplicable(o2, Successor(o1, st))

ASSUME PlansGraphAssumption ==
    /\ IsFiniteSet(State) /\ IsFiniteSet(Op)
    /\ Cost \in [Op -> Nat]
    /\ \A name \in DOMAIN Groups :
            /\ Groups[name] \in Seq([state : [State -> State], op : [Op -> Op]])
            /\ \A i \in DOMAIN Groups[name] : IsSymmetry(Groups[name][i])
    /\ \A o1, o2 \in Op : <<o1, o2>> \in Interfere \/ StayApplicable(o1, o2)
    /\ Inputs \subseteq [plan : Seq(Op), number_of_plans : Nat \ {0},
                         reformulate : {"FORBID_MULTIPLE_PLANS",
                                        "NONE_FIND_ADDITIONAL_PLANS"},
                         reduce_plan_orders : {"NONE", "NEIGHBOURS_INTERFERE", "NAIVE_ALL",
                                        "NAIVE_ALL_DFS", "NAIVE_ALL_DFS_NODUP"},
                         symmetry_group : DOMAIN Groups,
                         greedy_clean : Nat \cup {-1}]
    /\ \A in \in Inputs : LeadThrough(in.plan, Visits(in.plan))
    /\ Unknown \notin Nat

VARIABLES
    input,              \* what this process was given
    nodes, edges,       \* the graph: states, and triples <<from, op, to>>
    origins,            \* origin_states_by_operators
    goal_distance,      \* per state, Unknown when not computed
    dfs_queue,          \* stack of the depth-first search for reorderings
    goals_counted,      \* count_goal_states of that search
    edges_since_clean,  \* num_edges_since_greedy_clean
    goals_since_dump,   \* num_goal_states_since_dump_intermediate
    bfs_queue,          \* queue of the breadth-first searches
    closed,             \* states they expanded
    covered,            \* positions of the plan passed on the way to a state
    curr_ind,           \* positions handled by add_plan_reduce_order_neighbors
    optimal_plans,      \* plans saved
    non_optimal_plans,  \* other plans found on the graph
    gen,                \* index of the generator applied
    start,              \* the nodes when its application began
    visited,            \* nodes visited by it
    curr_change,        \* whether it changed the graph
    change,             \* whether the round over the generators did
    pc                  \* the call that is next

plan == input.plan
FindingAdditional == input.reformulate = "NONE_FIND_ADDITIONAL_PLANS"

(* The plan read counts as one of the plans when additional ones are asked for. *)
number_of_plans == input.number_of_plans + (IF FindingAdditional THEN 1 ELSE 0)

reduce_plan_orders ==
    IF FindingAdditional THEN "NEIGHBOURS_INTERFERE" ELSE input.reduce_plan_orders

Generators == Groups[input.symmetry_group]

graph == <<nodes, edges, origins, goal_distance>>
search == <<dfs_queue, goals_counted, edges_since_clean, goals_since_dump>>
breadth == <<bfs_queue, closed, covered, curr_ind>>
saved == <<optimal_plans, non_optimal_plans>>
sweep == <<gen, start, visited, curr_change, change>>
vars == <<input, graph, search, breadth, saved, sweep, pc>>

best_plan_cost == CostOf(plan)

Init ==
    /\ input \in Inputs
    /\ nodes = {}
    /\ edges = {}
    /\ origins = <<>>
    /\ goal_distance = [st \in State |-> Unknown]
    /\ dfs_queue = <<>>
    /\ goals_counted = 0
    /\ edges_since_clean = 0
    /\ goals_since_dump = 0
    /\ bfs_queue = <<>>
    /\ closed = {}
    /\ covered = <<>>
    /\ curr_ind = 0
    /\ optimal_plans = {}
    /\ non_optimal_plans = {}
    /\ gen = 1
    /\ start = {}
    /\ visited = {}
    /\ curr_change = FALSE
    /\ change = FALSE
    /\ pc = "add_plan"
-------------------------------------------------------------------------------
(* A set of positions of a plan, in their order. *)
InOrder(positions) ==
    [k \in 1 .. Cardinality(positions) |->
        CHOOSE i \in positions : Cardinality({j \in positions : j < i}) = k - 1]

Outgoing(st) == {e \in edges : e[1] = st}

(* add_edge, for all of the given edges. *)
AddEdges(new) ==
    /\ nodes' = nodes \cup {e[1] : e \in new} \cup {e[3] : e \in new}
    /\ edges' = edges \cup new
    /\ origins' = [o \in DOMAIN origins \cup {e[2] : e \in new} |->
            (IF o \in DOMAIN origins THEN origins[o] ELSE {})
                \cup {e[1] : e \in {n \in new : n[2] = o}}]

(* update_goal_distance, for all of the given pairs of state and distance. *)
Updated(distances, updates) ==
    [st \in State |->
        LET values == {u[2] : u \in {v \in updates : v[1] = st}} \cup {distances[st]}
            known == values \ {Unknown}
        IN  IF known = {} THEN Unknown ELSE Min(known)]

(* The paths of the graph from the initial state, as operators and states, *)
(* along edges that May continue them.                                     *)
Paths(May(_, _), length) ==
    LET Extend(path) ==
            {[ops |-> Append(path.ops, e[2]), states |-> Append(path.states, e[3])] :
                e \in {f \in Outgoing(Last(path.states)) : May(path, f[3])}}
        UpTo[n \in 0 .. length] ==
            IF n = 0 THEN {[ops |-> <<>>, states |-> <<InitialState>>]}
            ELSE UNION {{path} \cup Extend(path) : path \in UpTo[n - 1]}
    IN  UpTo[length]
OpsToGoal(paths) == {path.ops : path \in {q \in paths : IsGoalState(Last(q.states))}}

(* The plans find_plans_dfs passes: it follows edges to states of known    *)
(* distance and no state twice.                                            *)
SimplePlans ==
    OpsToGoal(Paths(LAMBDA path, st : /\ st \notin ToSet(path.states)
                                      /\ goal_distance[st] # Unknown,
                    Cardinality(nodes)))

(* dump_plans: saves the cheapest plans of the graph until the given       *)
(* number of them is saved, in the order of its search.                    *)
DumpPlans(number) ==
    IF Cardinality(optimal_plans) >= number
    THEN UNCHANGED saved
    ELSE \E found \in {SimplePlans} :
         \E cheapest \in {{ops \in found : CostOf(ops) = best_plan_cost}} :
            LET new == cheapest \ optimal_plans
                room == number - Cardinality(optimal_plans)
            IN  /\ optimal_plans' \in {optimal_plans \cup d :
                        d \in IF Cardinality(new) <= room THEN {new}
                              ELSE kSubset(room, new)}
                /\ non_optimal_plans' = non_optimal_plans \cup (found \ cheapest)

EnoughPlansFound == Cardinality(optimal_plans) >= number_of_plans

(* add_plan_no_reduce, with the distances along the plan; the plan read is *)
(* one of the plans found when additional ones are asked for.              *)
AddPlan ==
    /\ pc = "add_plan"
    /\ LET states == Visits(plan)
           Remaining(i) == best_plan_cost - CostOf(SubSeq(plan, 1, i - 1))
       IN  /\ AddEdges({<<states[i], plan[i], states[i + 1]>> : i \in DOMAIN plan})
           /\ goal_distance' = IF plan = <<>> THEN goal_distance
                  ELSE Updated(goal_distance,
                               {<<states[i], Remaining(i)>> : i \in DOMAIN states})
    /\ IF FindingAdditional
       THEN pc' = "neighbours" /\ optimal_plans' = {plan}
       ELSE pc' = "dump_first" /\ UNCHANGED optimal_plans
    /\ UNCHANGED <<input, search, breadth, non_optimal_plans, sweep>>

(* dump_plans(plan_manager, 1), and the start of the reordering. *)
DumpFirstPlan ==
    /\ pc = "dump_first"
    /\ DumpPlans(1)
    /\ CASE reduce_plan_orders = "NONE" ->
                pc' = "dump" /\ UNCHANGED <<dfs_queue, breadth>>
         [] reduce_plan_orders = "NEIGHBOURS_INTERFERE" ->
                pc' = "neighbours" /\ UNCHANGED <<dfs_queue, breadth>>
         [] reduce_plan_orders = "NAIVE_ALL" ->
                /\ pc' = "breadth"
                /\ bfs_queue' = <<InitialState>>
                /\ covered' = [st \in {InitialState} |-> {}]
                /\ UNCHANGED <<dfs_queue, closed, curr_ind>>
         [] OTHER ->
                /\ pc' = "depth"
                /\ dfs_queue' = <<[path |-> <<InitialState>>, remaining |-> plan]>>
                /\ UNCHANGED breadth
    /\ UNCHANGED <<input, graph, goals_counted, edges_since_clean, goals_since_dump,
                   sweep>>
-------------------------------------------------------------------------------
(* Mutation of NumInterchangeable: operators need only be applicable. *)
NumApplicable(from) ==
    LET current == Visits(plan)[from + 1]
    IN  Min({k \in 1 .. Len(plan) - from :
                \/ from + k = Len(plan)
                \/ ~IsApplicable(plan[from + k + 1], current)})

(* check_interchangeability: how many operators of the plan, after the     *)
(* first from, are applicable then and do not interfere with each other.   *)
NumInterchangeable(from) ==
    LET current == Visits(plan)[from + 1]
        Stops(op_no, before) ==
            \/ ~IsApplicable(op_no, current)
            \/ \E j \in before : <<op_no, plan[j]>> \in Interfere
    IN  Min({k \in 1 .. Len(plan) - from :
                \/ from + k = Len(plan)
                \/ Stops(plan[from + k + 1], from + 1 .. from + k)})

(* add_plan_reduce_order_neighbors takes the next interchangeable operators. *)
BeginNeighbours ==
    /\ pc = "neighbours"
    /\ curr_ind < Len(plan)
    /\ LET current == Visits(plan)[curr_ind + 1]
       IN  /\ bfs_queue' = <<current>>
           /\ covered' = [st \in {current} |-> {}]
    /\ closed' = {}
    /\ pc' = "breadth"
    /\ UNCHANGED <<input, graph, search, saved, sweep, curr_ind>>

(* The positions of the plan that a breadth-first search reorders. *)
Positions ==
    IF reduce_plan_orders = "NAIVE_ALL" THEN DOMAIN plan
    ELSE curr_ind + 1 .. curr_ind + NumInterchangeable(curr_ind)

(* add_ops_bfs keeps the goal distances of the states it leads to. *)
DistancesAfter(st, used) ==
    IF reduce_plan_orders = "NAIVE_ALL" THEN goal_distance
    ELSE Updated(goal_distance,
                 {<<Successor(plan[i], st), goal_distance[st] - Cost[plan[i]]>> : i \in used})

(* add_plan_bfs_naive and add_ops_bfs: the next state of the queue.  The   *)
(* positions passed on the way to a state are those of the last way found. *)
(* add_ops_bfs takes it for an error if an operator is not applicable.     *)
ExpandBreadth ==
    /\ pc = "breadth"
    /\ bfs_queue # <<>>
    /\ LET st == Head(bfs_queue)
           left == Positions \ covered[st]
           Follow(i) == Successor(plan[i], st)
           used == {i \in left : /\ IsApplicable(plan[i], st)
                                 /\ Follow(i) \notin closed \cup {st}}
           Ways(to) == {i \in used : Follow(i) = to}
           Fails == /\ reduce_plan_orders = "NEIGHBOURS_INTERFERE"
                    /\ \E i \in left : ~IsApplicable(plan[i], st)
       IN  \/ /\ st \in closed
              /\ bfs_queue' = Tail(bfs_queue)
              /\ UNCHANGED <<graph, closed, covered, pc>>
           \/ /\ st \notin closed
              /\ Fails
              /\ pc' = "critical_error"
              /\ UNCHANGED <<graph, bfs_queue, closed, covered>>
           \/ /\ st \notin closed
              /\ ~Fails
              /\ AddEdges({<<st, plan[i], Follow(i)>> : i \in used})
              /\ bfs_queue' = Tail(bfs_queue)
                      \o [k \in 1 .. Cardinality(used) |-> Follow(InOrder(used)[k])]
              /\ covered' = [to \in DOMAIN covered \cup {Follow(i) : i \in used} |->
                      IF Ways(to) = {} THEN covered[to]
                      ELSE covered[st] \cup {Max(Ways(to))}]
              /\ goal_distance' = DistancesAfter(st, used)
              /\ closed' = closed \cup {st}
              /\ UNCHANGED pc
    /\ UNCHANGED <<input, search, saved, sweep, curr_ind>>

(* The search over interchangeable operators is done, or all of them are. *)
EndNeighbours ==
    /\ reduce_plan_orders = "NEIGHBOURS_INTERFERE"
    /\ \/ /\ pc = "breadth"
          /\ bfs_queue = <<>>
          /\ curr_ind' = curr_ind + NumInterchangeable(curr_ind)
          /\ pc' = "neighbours"
       \/ /\ pc = "neighbours"
          /\ curr_ind = Len(plan)
          /\ pc' = IF FindingAdditional THEN "round" ELSE "dump"
          /\ UNCHANGED curr_ind
    /\ UNCHANGED <<input, graph, search, bfs_queue, closed, covered, saved, sweep>>
-------------------------------------------------------------------------------
(* Mutation of Expand: every edge counts as a goal state. *)
ExpandCountsEveryEdge ==
    /\ pc = "depth"
    /\ dfs_queue # <<>>
    /\ goals_counted < number_of_plans
    /\ LET curr == Last(dfs_queue)
           st == Last(curr.path)
           Target(i) == Successor(curr.remaining[i], st)
           Follow(i) == [path |-> Append(curr.path, Target(i)),
                         remaining |-> RemoveAt(curr.remaining, i)]
           used == {i \in DOMAIN curr.remaining :
                        /\ \A j \in 1 .. i - 1 : curr.remaining[j] # curr.remaining[i]
                        /\ IsApplicable(curr.remaining[i], st)
                        /\ Target(i) \notin ToSet(curr.path)}
           followed == {i \in used : ~IsGoalState(Target(i))}
           successors == [k \in 1 .. Cardinality(followed) |-> Follow(InOrder(followed)[k])]
       IN   /\ AddEdges({<<st, curr.remaining[i], Target(i)>> : i \in used})
            /\ dfs_queue' = Front(dfs_queue) \o Reverse(successors)
            /\ goals_counted' = goals_counted + Cardinality(used)
    /\ UNCHANGED <<input, goal_distance, edges_since_clean, goals_since_dump, breadth,
                   saved, sweep, pc>>

(* add_plan_dfs_naive and add_plan_dfs_naive_no_duplicate_detection: the   *)
(* next node of the stack.  Each operator that remains is tried once, in   *)
(* the order of the plan.  The latter skips one that leads back to a state *)
(* of the path and does not follow one that leads to the goal, and with no *)
(* successor to follow it may clean the graph.                             *)
Expand ==
    /\ pc = "depth"
    /\ dfs_queue # <<>>
    /\ goals_counted < number_of_plans
    /\ LET no_duplicates == reduce_plan_orders = "NAIVE_ALL_DFS_NODUP"
           curr == Last(dfs_queue)
           st == Last(curr.path)
           Target(i) == Successor(curr.remaining[i], st)
           Follow(i) == [path |-> Append(curr.path, Target(i)),
                         remaining |-> RemoveAt(curr.remaining, i)]
           used == {i \in DOMAIN curr.remaining :
                        /\ \A j \in 1 .. i - 1 : curr.remaining[j] # curr.remaining[i]
                        /\ IsApplicable(curr.remaining[i], st)
                        /\ no_duplicates => Target(i) \notin ToSet(curr.path)}
           followed == {i \in used : no_duplicates => ~IsGoalState(Target(i))}
           successors == [k \in 1 .. Cardinality(followed) |-> Follow(InOrder(followed)[k])]
           added == {<<st, curr.remaining[i], Target(i)>> : i \in used}
           goals == Cardinality({i \in used : IsGoalState(Target(i))})
           since_clean == edges_since_clean + Cardinality(added \ edges)
       IN   /\ AddEdges(added)
            /\ dfs_queue' = Front(dfs_queue) \o Reverse(successors)
            /\ goals_counted' = goals_counted + goals
            /\ IF no_duplicates /\ input.greedy_clean # -1
               THEN /\ edges_since_clean' = since_clean
                    /\ goals_since_dump' = goals_since_dump + goals
                    /\ pc' = IF successors = <<>> /\ since_clean > input.greedy_clean
                             THEN "clean" ELSE pc
               ELSE UNCHANGED <<edges_since_clean, goals_since_dump, pc>>
    /\ UNCHANGED <<input, goal_distance, breadth, saved, sweep>>

(* backwards_dijkstra: the cost to the goal along the edges. *)
DistancesToGoal ==
    LET Costs[k \in 0 .. Cardinality(nodes)] ==
            IF k = 0 THEN {<<st, 0>> : st \in {n \in nodes : IsGoalState(n)}}
            ELSE UNION {{c} \cup {<<e[1], Cost[e[2]] + c[2]>> :
                                    e \in {f \in edges : f[3] = c[1]}} :
                        c \in Costs[k - 1]}
    IN  Updated([st \in State |-> Unknown], Costs[Cardinality(nodes)])

(* Its queue is empty: no edge improves a distance, and every distance but  *)
(* that of a goal state was set along an edge.                             *)
Settled(distance) ==
    /\ \A e \in edges :
            distance[e[3]] # Unknown =>
                /\ distance[e[1]] # Unknown
                /\ distance[e[1]] <= distance[e[3]] + Cost[e[2]]
    /\ \A st \in nodes :
            IsGoalState(st) \/ distance[st] = Unknown
                \/ \E e \in Outgoing(st) : /\ distance[e[3]] # Unknown
                                           /\ distance[st] = distance[e[3]] + Cost[e[2]]
SettledDistances == {distance \in {DistancesToGoal} : Settled(distance)}

(* Mutation of CheapestEdges: every operator is taken to cost 1. *)
UnitCostEdges(distance) ==
    {e \in edges : /\ distance[e[1]] # Unknown
                   /\ distance[e[3]] # Unknown
                   /\ distance[e[1]] = distance[e[3]] + 1}

(* remove_non_plans_naive: the edges that it keeps. *)
CheapestEdges(distance) ==
    {e \in edges : /\ distance[e[1]] # Unknown
                   /\ distance[e[3]] # Unknown
                   /\ distance[e[1]] = distance[e[3]] + Cost[e[2]]}

(* The states a set of edges leads to from the initial state. *)
ReachedBy(es) ==
    LET Round[k \in 0 .. Cardinality(es)] ==
            IF k = 0 THEN {InitialState}
            ELSE UNION {{st} \cup {e[3] : e \in {f \in es : f[1] = st}} :
                        st \in Round[k - 1]}
    IN  Round[Cardinality(es)]

(* forward_dijkstra ends when no edge leads on from what it reached. *)
SettledStates(es) ==
    {reached \in {ReachedBy(es)} : \A e \in es : e[1] \in reached => e[3] \in reached}

(* Mutation of KeepOnPlans: the index by operators keeps the edges out of reach. *)
KeepOnPlansAndOrigins(on_plans, reached, distance) ==
    /\ edges' = {e \in on_plans : e[1] \in reached}
    /\ nodes' = {st \in nodes \cap reached :
                    IsGoalState(st) \/ \E e \in on_plans : e[1] = st}
    /\ origins' = [o \in DOMAIN origins |->
            {st \in origins[o] : \E e \in on_plans : e[1] = st /\ e[2] = o}]
    /\ goal_distance' = [st \in State |->
            IF st \in nodes THEN distance[st] ELSE goal_distance[st]]

(* The removal of the edges that are not on_plans, of the nodes left       *)
(* without edges, and of the nodes that were not reached.                  *)
KeepOnPlans(on_plans, reached, distance) ==
    /\ edges' = {e \in on_plans : e[1] \in reached}
    /\ nodes' = {st \in nodes \cap reached :
                    IsGoalState(st) \/ \E e \in on_plans : e[1] = st}
    /\ origins' = [o \in DOMAIN origins |->
            {st \in origins[o] : \E e \in edges' : e[1] = st /\ e[2] = o}]
    /\ goal_distance' = [st \in State |->
            IF st \in nodes THEN distance[st] ELSE goal_distance[st]]

(* The greedy clean in the middle of the search, and the dump after it if  *)
(* the search met a goal state since the last one.                         *)
GreedyClean ==
    /\ pc = "clean"
    /\ \E distance \in SettledDistances :
            KeepOnPlans(CheapestEdges(distance), State, distance)
    /\ edges_since_clean' = 0
    /\ pc' = IF goals_since_dump > 0 THEN "dump_intermediate" ELSE "depth"
    /\ UNCHANGED <<input, dfs_queue, goals_counted, goals_since_dump, breadth, saved,
                   sweep>>

DumpIntermediate ==
    /\ pc = "dump_intermediate"
    /\ DumpPlans(number_of_plans)
    /\ goals_since_dump' = 0
    /\ pc' = "depth"
    /\ UNCHANGED <<input, graph, dfs_queue, goals_counted, edges_since_clean, breadth,
                   sweep>>

(* What follows the searches: backwards_dijkstra and                       *)
(* remove_non_plans_naive leave the edges on cheapest paths to the goal;   *)
(* after the depth-first ones, forward_dijkstra and                        *)
(* remove_init_unreachable those reachable from the initial state.         *)
RemoveNonPlans ==
    /\ \/ /\ pc = "depth"
          /\ dfs_queue = <<>> \/ goals_counted >= number_of_plans
       \/ /\ pc = "breadth"
          /\ bfs_queue = <<>>
          /\ reduce_plan_orders = "NAIVE_ALL"
    /\ \E distance \in SettledDistances :
       \E on_plans \in {CheapestEdges(distance)} :
       \E reached \in IF pc = "depth" THEN SettledStates(on_plans) ELSE {State} :
            KeepOnPlans(on_plans, reached, distance)
    /\ pc' = "dump"
    /\ UNCHANGED <<input, search, breadth, saved, sweep>>

(* dump_plans after add_plan. *)
DumpReorderings ==
    /\ pc = "dump"
    /\ DumpPlans(number_of_plans)
    /\ pc' = "round"
    /\ UNCHANGED <<input, graph, search, breadth, sweep>>
-------------------------------------------------------------------------------
(* Mutation of BeginRound: the change of the last round is not reset. *)
BeginRoundKeepsTheChange ==
    /\ pc = "round"
    /\ Generators # <<>>
    /\ ~EnoughPlansFound
    /\ change' = change
    /\ gen' = 1
    /\ start' = nodes
    /\ visited' = {}
    /\ curr_change' = FALSE
    /\ pc' = "sweep"
    /\ UNCHANGED <<input, graph, search, breadth, saved>>

(* The next round over the generators, unless enough plans are found. *)
BeginRound ==
    /\ pc = "round"
    /\ Generators # <<>>
    /\ ~EnoughPlansFound
    /\ change' = FALSE
    /\ gen' = 1
    /\ start' = nodes
    /\ visited' = {}
    /\ curr_change' = FALSE
    /\ pc' = "sweep"
    /\ UNCHANGED <<input, graph, search, breadth, saved>>

(* The counterpart of an edge under the generator applied. *)
Permuted(e) ==
    LET g == Generators[gen]
    IN  <<g.state[e[1]], g.op[e[2]], Successor(g.op[e[2]], g.state[e[1]])>>

(* Mutation of VisitNode: permuted nodes get no goal distance. *)
VisitNodeWithoutDistances(st) ==
    /\ pc = "sweep"
    /\ st \in nodes \ visited
    /\ \E seen \in SUBSET Outgoing(st) :
       \E new \in {{Permuted(e) : e \in seen} \ edges} :
            /\ \/ seen = Outgoing(st)
               \/ Generators[gen].state[st] = st /\ new # {}
            /\ AddEdges(new)
            /\ curr_change' = (curr_change \/ new # {})
    /\ visited' = visited \cup {st}
    /\ UNCHANGED <<input, goal_distance, search, breadth, saved, gen, start,
                   change, pc>>

(* add_symmetry visits a node: the counterparts of its edges are added.    *)
(* When they leave the node itself, some of its edges may be missed.       *)
VisitNode(st) ==
    /\ pc = "sweep"
    /\ st \in nodes \ visited
    /\ \E seen \in SUBSET Outgoing(st) :
       \E new \in {{Permuted(e) : e \in seen} \ edges} :
            /\ \/ seen = Outgoing(st)
               \/ Generators[gen].state[st] = st /\ new # {}
            /\ AddEdges(new)
            /\ goal_distance' = Updated(goal_distance,
                    {<<Generators[gen].state[st], goal_distance[st]>>} \cup
                    {<<Permuted(e)[3], goal_distance[e[3]]>> :
                        e \in {f \in seen : Permuted(f) \in new}})
            /\ curr_change' = (curr_change \/ new # {})
    /\ visited' = visited \cup {st}
    /\ UNCHANGED <<input, search, breadth, saved, gen, start, change, pc>>

(* Mutation of EndSweep: the generators are applied in one round only. *)
EndSweepWithoutAnotherRound ==
    /\ pc = "sweep"
    /\ visited = nodes \/ nodes # start
    /\ IF curr_change THEN DumpPlans(number_of_plans) ELSE UNCHANGED saved
    /\ change' = (change \/ curr_change)
    /\ pc' = IF Cardinality(optimal_plans') < number_of_plans /\ gen < Len(Generators)
             THEN "sweep" ELSE "last_dump"
    /\ gen' = IF gen < Len(Generators) THEN gen + 1 ELSE gen
    /\ start' = nodes
    /\ visited' = {}
    /\ curr_change' = FALSE
    /\ UNCHANGED <<input, graph, search, breadth>>

(* add_symmetry returns; plans are saved if it changed the graph, and the  *)
(* round goes on unless they are enough.  When additional plans are asked  *)
(* for, step looks at their number before it saves more.                   *)
EndSweep ==
    /\ pc = "sweep"
    /\ visited = nodes \/ nodes # start
    /\ IF curr_change THEN DumpPlans(number_of_plans) ELSE UNCHANGED saved
    /\ change' = (change \/ curr_change)
    /\ pc' = IF Cardinality(IF FindingAdditional THEN optimal_plans ELSE optimal_plans')
                    >= number_of_plans THEN "last_dump"
             ELSE IF gen < Len(Generators) THEN "sweep"
             ELSE IF change' THEN "round" ELSE "last_dump"
    /\ gen' = IF gen < Len(Generators) THEN gen + 1 ELSE gen
    /\ start' = nodes
    /\ visited' = {}
    /\ curr_change' = FALSE
    /\ UNCHANGED <<input, graph, search, breadth>>

NoMoreRounds ==
    /\ pc = "round"
    /\ Generators = <<>> \/ EnoughPlansFound
    /\ pc' = "last_dump"
    /\ UNCHANGED <<input, graph, search, breadth, saved, sweep>>

(* The last dump_plans; with enough plans no task is written. *)
DumpLastPlans ==
    /\ pc = "last_dump"
    /\ DumpPlans(number_of_plans)
    /\ pc' = IF FindingAdditional \/ Cardinality(optimal_plans') >= number_of_plans
             THEN "done" ELSE "reformulate"
    /\ UNCHANGED <<input, graph, search, breadth, sweep>>

Running == pc \notin {"done", "reformulate", "critical_error"}

(* The process has ended. *)
Stop == ~Running /\ UNCHANGED vars

Next ==
    \/ AddPlan \/ DumpFirstPlan
    \/ BeginNeighbours \/ ExpandBreadth \/ EndNeighbours
    \/ Expand \/ GreedyClean \/ DumpIntermediate
    \/ RemoveNonPlans \/ DumpReorderings
    \/ BeginRound
    \/ \E st \in nodes : VisitNode(st)
    \/ EndSweep \/ NoMoreRounds
    \/ DumpLastPlans
    \/ Stop

(* The program is sequential: while it runs it has a next step, and takes   *)
(* it.  This is weak fairness of the steps but Stop, which are enabled as   *)
(* long as the process is Running: else TLC would report a deadlock.        *)
Fairness == []<>~Running \/ []<><<Next>>_vars
Spec == Init /\ [][Next]_vars /\ Fairness
-------------------------------------------------------------------------------
Reformulating == pc = "reformulate"

(* The process ends with fewer plans than it was asked for. *)
Exhausted ==
    \/ Reformulating
    \/ pc = "done" /\ ~EnoughPlansFound

(* The graph consists of states and operators of the task, and a goal      *)
(* distance is a natural number once it is known.                          *)
TypeOK ==
    /\ input \in Inputs
    /\ nodes \subseteq State
    /\ \A e \in edges : e \in State \X Op \X State
    /\ \A o \in DOMAIN origins : o \in Op /\ origins[o] \subseteq State
    /\ goal_distance \in [State -> Nat \cup {Unknown}]
    /\ optimal_plans \subseteq Seq(Op)
    /\ non_optimal_plans \subseteq Seq(Op)
    /\ gen \in 1 .. Len(Generators) + 1
    /\ start \subseteq State /\ visited \subseteq nodes
    /\ curr_change \in BOOLEAN /\ change \in BOOLEAN
    /\ bfs_queue \in Seq(State) /\ closed \subseteq State
    /\ \A st \in DOMAIN covered : st \in State /\ covered[st] \subseteq DOMAIN plan
    /\ curr_ind \in 0 .. Len(plan)
    /\ pc \in {"add_plan", "dump_first", "neighbours", "breadth", "depth", "clean",
              "dump_intermediate", "dump", "round", "sweep", "last_dump", "done",
              "reformulate", "critical_error"}

(* What GraphForbidReformulatedTask relies on: the edges it finds by       *)
(* source and by operator are the same and join nodes of the graph, after  *)
(* any order of additions and removals.                                    *)
IndexesAgree ==
    /\ \A e \in edges : {e[1], e[3]} \subseteq nodes /\ e[2] \in DOMAIN origins
    /\ \A o \in DOMAIN origins :
            origins[o] = {st \in State : \E e \in edges : e[1] = st /\ e[2] = o}

IsExecutable(ops) ==
    \A i \in DOMAIN ops : IsApplicable(ops[i], Last(Visits(SubSeq(ops, 1, i - 1))))

(* The positions of the plan between which operators may move. *)
Boundaries ==
    LET From[i \in 0 .. Len(plan)] ==
            IF i = Len(plan) THEN {i} ELSE {i} \cup From[i + NumInterchangeable(i)]
    IN  CASE reduce_plan_orders = "NAIVE_ALL_DFS_NODUP" /\ input.greedy_clean = -1 -> {}
          [] reduce_plan_orders = "NEIGHBOURS_INTERFERE" -> From[0]
          [] OTHER -> DOMAIN plan

(* All orders with these boundaries in which the operators of the plan     *)
(* lead to the goal, visit no state twice and pass no other goal state.    *)
Reorderings ==
    LET Keeps(f, b) == \A i \in DOMAIN plan : i <= b <=> f[i] <= b
    IN  UNION {{[i \in DOMAIN plan |-> plan[f[i]]] :
                    f \in {g \in Permutations(DOMAIN plan) : \A b \in bounds : Keeps(g, b)}} :
                bounds \in {Boundaries}}

SimpleReorderings ==
    {ops \in Reorderings :
        /\ IsExecutable(ops)
        /\ Cardinality(ToSet(Visits(ops))) = Len(ops) + 1
        /\ \A i \in 1 .. Len(ops) + 1 : IsGoalState(Visits(ops)[i]) <=> i = Len(ops) + 1}

(* Every reordering of the plan read that the option promises is found     *)
(* before the task that excludes it is written, or before the process ends *)
(* without enough plans, whatever the searches take for covered.           *)
SavesAllReorderings == Exhausted => SimpleReorderings \subseteq optimal_plans

(* Operators that do not interfere can be applied in any order: the        *)
(* search over them does not end in the error it checks for.               *)
NeverCriticalError == pc # "critical_error"

(* The symmetries are applied until the graph is closed under each of      *)
(* them, whatever the iterations over the growing containers skip.         *)
ClosedUnderSymmetries ==
    Exhausted =>
        \A i \in DOMAIN Generators : \A e \in edges :
            <<Generators[i].state[e[1]], Generators[i].op[e[2]],
              Generators[i].state[e[3]]>> \in edges

(* Every plan that the graph excludes from the next task was saved: no     *)
(* plan is lost between the dumps and the reformulation.                   *)
ForbidsOnlySavedPlans ==
    Reformulating =>
        OpsToGoal(Paths(LAMBDA path, st : TRUE, Cardinality(nodes))) \subseteq optimal_plans

(* Every plan that was saved is excluded from the next task, also one      *)
(* saved before the graph was cleaned: it is not found again.              *)
ForbidsAllSavedPlans ==
    Reformulating =>
        optimal_plans \subseteq OpsToGoal(Paths(LAMBDA path, st : TRUE, Cardinality(nodes)))

(* The closure under the symmetries ends. *)
Terminates == <>(pc \in {"done", "reformulate"})
===============================================================================
