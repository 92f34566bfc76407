------------------------- MODULE CartesianAbstraction -------------------------
(***************************************************************************)
(* The Cartesian abstraction of a task (cegar/abstraction.cc): how a state *)
(* is split, how the transition system is rewired around the two new       *)
(* states, and how the refinement hierarchy remembers the split.  An       *)
(* abstraction a is a record                                               *)
(*   task         the task, without axioms and conditional effects          *)
(*   states       state id |-> its Cartesian set, one set of values for     *)
(*                every variable                                           *)
(*   nodes        state id |-> its node of the hierarchy                    *)
(*   hierarchy    the nodes [var, value, left, right, state]; var = 0 is    *)
(*                a leaf                                                   *)
(*   init, goals  the initial state id and the goal state ids               *)
(*   out, inc     state id |-> the list of <<operator, other state id>>     *)
(*   loops        state id |-> the list of operators that stay in it        *)
(***************************************************************************)
EXTENDS TaskSemantics

Domain(t, v) == 0 .. t.domains[v] - 1

ValuesOf(facts, v) == {f[2] : f \in {g \in facts : g[1] = v}}

(* The set of all states, and the set of the states with these facts. *)
CartesianSetOf(t, facts) ==
    [v \in Vars(t) |-> IF ValuesOf(facts, v) = {} THEN Domain(t, v)
                       ELSE ValuesOf(facts, v)]

Includes(set, s) == \A v \in DOMAIN set : s[v] \in set[v]

IncludesFacts(set, facts) == \A f \in facts : f[2] \in set[f[1]]

(* The value o needs of v, and the value v has after o; empty if undefined. *)
Precondition(t, o, v) == ValuesOf(t.operators[o].pre, v)

EffectValue(t, o, v) == {e.val : e \in {x \in t.operators[o].effects : x.var = v}}

Postcondition(t, o, v) ==
    IF EffectValue(t, o, v) # {} THEN EffectValue(t, o, v) ELSE Precondition(t, o, v)

TrivialAbstraction(t) ==
    [task |-> t,
     states |-> <<CartesianSetOf(t, {})>>,
     nodes |-> <<1>>,
     hierarchy |-> <<[var |-> 0, value |-> 0, left |-> 0, right |-> 0, state |-> 1]>>,
     init |-> 1, goals |-> {1},
     out |-> << <<>> >>, inc |-> << <<>> >>,
     loops |-> << [o \in Ops(t) |-> o] >>]
-------------------------------------------------------------------------------
(* TransitionSystem::rewire.  The state v has become v1, with its id and   *)
(* the set c1, and v2, with a new id and the set c2; they differ in var.   *)
AddTransition(a, u, o, w) ==
    [a EXCEPT !.out[u] = Append(@, <<o, w>>), !.inc[w] = Append(@, <<o, u>>)]

AddLoop(a, u, o) == [a EXCEPT !.loops[u] = Append(@, o)]

(* The lists of the neighbours in old lose what they have to say of v. *)
RemoveTransitions(lists, old, v) ==
    LET neighbours == {tr[2] : tr \in Range(old)}
    IN  [u \in DOMAIN lists |->
            IF u \in neighbours THEN SelectSeq(lists[u], LAMBDA tr : tr[2] # v)
            ELSE lists[u]]

(* v1, v2 or both, by which of them the values can be in.  An operator that *)
(* does not mention var can join two states whose values of var intersect. *)
JoinedHalves(split, values) ==
    LET with1 == values \cap split.c1[split.var] # {}
        with2 == values \cap split.c2[split.var] # {}
    IN  (IF with1 THEN <<split.v1>> ELSE <<>>)
        \o (IF ~with1 \/ with2 THEN <<split.v2>> ELSE <<>>)

HalfWith(split, values) ==
    IF values \subseteq split.c1[split.var] THEN <<split.v1>> ELSE <<split.v2>>

IncomingHalves(a, split, o, u) ==
    LET post == Postcondition(a.task, o, split.var)
    IN  IF post = {} THEN JoinedHalves(split, a.states[u][split.var])
        ELSE HalfWith(split, post)

(* Mutation of OutgoingHalves: the half is told by where the operator ends. *)
OutgoingHalvesByEnd(a, split, o, w) ==
    LET post == Postcondition(a.task, o, split.var)
    IN  IF post = {} THEN JoinedHalves(split, a.states[w][split.var])
        ELSE HalfWith(split, post)

OutgoingHalves(a, split, o, w) ==
    LET pre == Precondition(a.task, o, split.var)
        post == Postcondition(a.task, o, split.var)
    IN  CASE post = {} -> JoinedHalves(split, a.states[w][split.var])
          [] post # {} /\ pre = {} -> <<split.v1, split.v2>>
          [] OTHER -> HalfWith(split, pre)

RewireIncoming(a, old, split) ==
    FoldLeft(LAMBDA acc, tr :
                FoldLeft(LAMBDA b, half : AddTransition(b, tr[2], tr[1], half),
                         acc, IncomingHalves(a, split, tr[1], tr[2])),
             [a EXCEPT !.out = RemoveTransitions(@, old, split.v1)], old)

RewireOutgoing(a, old, split) ==
    FoldLeft(LAMBDA acc, tr :
                FoldLeft(LAMBDA b, half : AddTransition(b, half, tr[1], tr[2]),
                         acc, OutgoingHalves(a, split, tr[1], tr[2])),
             [a EXCEPT !.inc = RemoveTransitions(@, old, split.v1)], old)

(* A loop starts and ends in one of the halves or in both. *)
RewireLoop(a, o, split) ==
    LET pre == Precondition(a.task, o, split.var)
        post == Postcondition(a.task, o, split.var)
        Join(acc, u, w) == IF u = w THEN AddLoop(acc, u, o) ELSE AddTransition(acc, u, o, w)
        start == HalfWith(split, pre)[1]
        end == HalfWith(split, post)[1]
    IN  CASE pre = {} /\ post = {} -> AddLoop(AddLoop(a, split.v1, o), split.v2, o)
          [] pre = {} /\ post # {} -> Join(Join(a, split.v1, end), split.v2, end)
          [] OTHER -> Join(a, start, end)

Rewire(a, split) ==
    LET oldIncoming == a.inc[split.v1]
        oldOutgoing == a.out[split.v1]
        oldLoops == a.loops[split.v1]
        cleared == [a EXCEPT !.inc = Append([@ EXCEPT ![split.v1] = <<>>], <<>>),
                             !.out = Append([@ EXCEPT ![split.v1] = <<>>], <<>>),
                             !.loops = Append([@ EXCEPT ![split.v1] = <<>>], <<>>)]
    IN  FoldLeft(LAMBDA acc, o : RewireLoop(acc, o, split),
                 RewireOutgoing(RewireIncoming(cleared, oldIncoming, split),
                                oldOutgoing, split),
                 oldLoops)
-------------------------------------------------------------------------------

(* RefinementHierarchy::split: the wanted values lead to the right child,  *)
(* which all helper nodes share; the other values to the last left child.  *)
SplitNode(hierarchy, node, var, wanted, v1, v2) ==
    LET Leaf(state) == [var |-> 0, value |-> 0, left |-> 0, right |-> 0, state |-> state]
        right == Len(hierarchy) + 1
        Helper(w, value) ==
            [hierarchy |-> Append([w.hierarchy EXCEPT ![w.helper] =
                                      [var |-> var, value |-> value, right |-> right,
                                       left |-> Len(w.hierarchy) + 1, state |-> 0]],
                                  Leaf(v1)),
             helper |-> Len(w.hierarchy) + 1]
        split == FoldLeft(Helper, [hierarchy |-> Append(hierarchy, Leaf(v2)),
                                   helper |-> node], wanted)
    IN  [hierarchy |-> split.hierarchy, left |-> split.helper, right |-> right]

(* RefinementHierarchy::get_abstract_state_id; the path meets every node at *)
(* most once.                                                              *)
AbstractStateOf(hierarchy, s) ==
    LET node[n \in 0 .. Len(hierarchy)] ==
            IF n = 0 THEN hierarchy[1]
            ELSE LET at == node[n - 1]
                 IN  IF at.var = 0 THEN at
                     ELSE hierarchy[IF s[at.var] = at.value THEN at.right ELSE at.left]
    IN  node[Len(hierarchy)].state

(* A vector of values is in increasing order. *)
SortedValues(t, v, values) ==
    SelectSeq([i \in 1 .. t.domains[v] |-> i - 1], LAMBDA x : x \in values)

(* Abstraction::refine: v1 keeps the id and gets the unwanted values. *)
RefineState(a, id, var, wanted) ==
    LET v2 == Len(a.states) + 1
        c1 == [a.states[id] EXCEPT ![var] = @ \ wanted]
        c2 == [a.states[id] EXCEPT ![var] = wanted]
        node == SplitNode(a.hierarchy, a.nodes[id], var,
                          SortedValues(a.task, var, wanted), id, v2)
        halves == {x \in {<<id, c1>>, <<v2, c2>>} : IncludesFacts(x[2], a.task.goal)}
        rewired == Rewire(a, [v1 |-> id, v2 |-> v2, c1 |-> c1, c2 |-> c2, var |-> var])
    IN  [rewired EXCEPT
            !.states = Append([@ EXCEPT ![id] = c1], c2),
            !.nodes = Append([@ EXCEPT ![id] = node.left], node.right),
            !.hierarchy = node.hierarchy,
            !.init = IF @ # id \/ Includes(c1, a.task.init) THEN @ ELSE v2,
            !.goals = IF id \notin @ THEN @ ELSE (@ \ {id}) \cup {x[1] : x \in halves}]

MarkAllStatesAsGoals(a) == [a EXCEPT !.goals = DOMAIN a.states]
===============================================================================
