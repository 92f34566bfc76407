---------------------------- MODULE AbstractSearch -----------------------------
(***************************************************************************)
(* The searches in an abstraction (cegar/abstract_search.cc): A* for the   *)
(* trace that the refinement follows, which also raises the estimates, and *)
(* the distances of all states.  A queue is the sequence of its pushes;    *)
(* the entry popped is the last one of the least key.                      *)
(***************************************************************************)
EXTENDS CartesianAbstraction

CONSTANT INF       \* larger than every finite cost

Cost(a, o) == a.task.operators[o].cost

PlusCost(g, cost) == IF cost = INF THEN INF ELSE g + cost

(* The index of the entry <<key, state>> that pop takes. *)
TopOf(queue) ==
    CHOOSE i \in DOMAIN queue :
        \A j \in DOMAIN queue : /\ queue[i][1] <= queue[j][1]
                                /\ j > i => queue[i][1] < queue[j][1]

(* One transition <<o, succ>> out of a state with the value g.  A better    *)
(* value of a state known to be a dead end is kept, but not its parent.    *)
RelaxTransition(a, h, w, state, tr) ==
    LET g == PlusCost(w.g[state], Cost(a, tr[1]))
    IN  IF g >= w.g[tr[2]] THEN w
        ELSE IF h[tr[2]] = INF THEN [w EXCEPT !.g[tr[2]] = g]
        ELSE [w EXCEPT !.g[tr[2]] = g,
                       !.parent[tr[2]] = <<tr[1], state>>,
                       !.queue = Append(@, <<g + h[tr[2]], tr[2]>>)]

RECURSIVE AStar(_, _, _)
AStar(a, h, w) ==
    IF w.queue = <<>> THEN [w EXCEPT !.goal = 0]
    ELSE LET top == w.queue[TopOf(w.queue)]
             popped == [w EXCEPT !.queue = RemoveAt(@, TopOf(w.queue))]
         IN  IF w.g[top[2]] + h[top[2]] < top[1] THEN AStar(a, h, popped)
             ELSE IF top[2] \in a.goals THEN [popped EXCEPT !.goal = top[2]]
             ELSE AStar(a, h, FoldLeft(LAMBDA acc, tr : RelaxTransition(a, h, acc, top[2], tr),
                                       popped, a.out[top[2]]))

RECURSIVE TraceTo(_, _, _)
TraceTo(a, parent, state) ==
    IF state = a.init THEN <<>>
    ELSE Append(TraceTo(a, parent, parent[state][2]), <<parent[state][1], state>>)

(* update_goal_distances: what the search of the trace shows of the states *)
(* it reached.                                                             *)
UpdateGoalDistances(h, g, cost) ==
    [s \in DOMAIN h |-> IF g[s] < INF /\ cost - g[s] > h[s] THEN cost - g[s] ELSE h[s]]

(* AbstractSearch::find_solution *)
FindSolution(a, h) ==
    LET unknown == [s \in DOMAIN a.states |-> INF]
        w == AStar(a, h, [g |-> [unknown EXCEPT ![a.init] = 0],
                          parent |-> [s \in DOMAIN a.states |-> <<0, 0>>],
                          queue |-> << <<h[a.init], a.init>> >>, goal |-> 0])
        trace == TraceTo(a, w.parent, w.goal)
        cost == FoldLeft(LAMBDA acc, step : acc + Cost(a, step[1]), 0, trace)
    IN  IF w.goal = 0 THEN [found |-> FALSE, trace |-> <<>>, h |-> [h EXCEPT ![a.init] = INF]]
        ELSE [found |-> TRUE, trace |-> trace, h |-> UpdateGoalDistances(h, w.g, cost)]

(* Mutation of CopyHToChildren: the new half takes the value of the last state. *)
CopyLastHToChildren(h, id) == Append(h, Last(h))

(* Since h values only increase, a value of a state is one of its halves. *)
CopyHToChildren(h, id) == Append(h, h[id])

RECURSIVE Dijkstra(_, _, _)
Dijkstra(a, lists, w) ==
    IF w.queue = <<>> THEN w.g
    ELSE LET top == w.queue[TopOf(w.queue)]
             popped == [w EXCEPT !.queue = RemoveAt(@, TopOf(w.queue))]
             none == [s \in DOMAIN lists |-> 0]
         IN  IF w.g[top[2]] < top[1] THEN Dijkstra(a, lists, popped)
             ELSE Dijkstra(a, lists,
                      FoldLeft(LAMBDA acc, tr : RelaxTransition(a, none, acc, top[2], tr),
                               popped, lists[top[2]]))

(* compute_distances *)
Distances(a, lists, starts) ==
    Dijkstra(a, lists,
        [g |-> [s \in DOMAIN lists |-> IF s \in starts THEN 0 ELSE INF],
         parent |-> [s \in DOMAIN lists |-> <<0, 0>>],
         queue |-> [i \in 1 .. Cardinality(starts) |-> <<0, SetToSeq(starts)[i]>>]])
===============================================================================
