------------------------------ MODULE GraphForbid ------------------------------
(***************************************************************************)
(* GraphForbidReformulatedTask: forbids every operator sequence that is a  *)
(* path of a plans graph from its initial node.  One variable "possible"   *)
(* says that the run is still such a path, and one variable per node       *)
(* ("following") marks the node it has reached.  A behaviour is a run of   *)
(* the reformulated task, one action per operator type of get_op_type.     *)
(* "walk" is history: the node a walk along the operators reaches, or      *)
(* Nowhere once there is none.                                             *)
(***************************************************************************)
EXTENDS ParentTask, Integers

CONSTANTS
    Node,           \* the node names a graph may use
    InputGraphs,    \* the graphs the constructor may be given
    Nowhere,        \* not a node
    MaxSteps        \* bound on the length of a run

(* A graph keeps its edges twice: outgoing_edges gives the successor node  *)
(* of a node and an operator, origin_states_by_operators the nodes an      *)
(* operator leaves.  An operator leaves a node at most once because nodes  *)
(* are states and operators are deterministic.  An operator all of whose   *)
(* edges were removed again stays in the latter, without nodes.            *)
IsGraph(g) ==
    /\ g.init \in Node
    /\ DOMAIN g.edge \subseteq Node \X Op
    /\ \A e \in DOMAIN g.edge : g.edge[e] \in Node
    /\ \A o \in Op \ DOMAIN g.origins, n \in Node : <<n, o>> \notin DOMAIN g.edge
    /\ DOMAIN g.origins \subseteq Op
    /\ \A o \in DOMAIN g.origins :
            g.origins[o] = {n \in Node : <<n, o>> \in DOMAIN g.edge}

ASSUME GraphAssumption ==
    /\ \A g \in InputGraphs : IsGraph(g)
    /\ Nowhere \notin Node
    /\ MaxSteps \in Nat

VARIABLES
    graph,          \* the forbidding graph
    s,              \* state of the parent's variables
    possible,       \* 1 while the run may still be a path of the graph
    following,      \* per node, 1 when the run has reached it
    walk,           \* history: where the operators lead in the graph
    steps           \* history: length of the run

vars == <<graph, s, possible, following, walk, steps>>

Init ==
    /\ graph \in InputGraphs
    /\ s = InitialState
    /\ possible = 1
    /\ following = [n \in Node |-> IF n = graph.init THEN 1 ELSE 0]
    /\ walk = graph.init
    /\ steps = 0

IsOperatorOnGraph(o) == o \in DOMAIN graph.origins

HasEdge(n, o) == <<n, o>> \in DOMAIN graph.edge

(* The node an operator leads to from a node of the graph. *)
Walk(g, n, o) == IF <<n, o>> \in DOMAIN g.edge THEN g.edge[<<n, o>>] ELSE Nowhere

(* The part of every copy of operator o that is delegated to the parent. *)
ApplyParentOp(o) ==
    /\ steps < MaxSteps
    /\ IsApplicable(o, s)
    /\ s' = Successor(o, s)
    /\ walk' = Walk(graph, walk, o)
    /\ steps' = steps + 1
    /\ UNCHANGED graph

(* get_operator_precondition: what a copy of o requires besides the        *)
(* parent's preconditions, for types 0, 1, 2 and type 3 along an edge.     *)
PreNotOnGraph(o) == ~IsOperatorOnGraph(o)
PreDiscarded(o) == IsOperatorOnGraph(o) /\ possible = 0
(* Mutation of PreDiscarding: one unmarked origin is enough. *)
PreDiscardingAnywhere(o) ==
    /\ IsOperatorOnGraph(o)
    /\ possible = 1
    /\ \E n \in graph.origins[o] : following[n] = 0

PreDiscarding(o) ==
    /\ IsOperatorOnGraph(o)
    /\ possible = 1
    /\ \A n \in graph.origins[o] : following[n] = 0
PreFollowing(n, o) ==
    /\ HasEdge(n, o)
    /\ possible = 1
    /\ following[n] = 1

(* Mutation of NotOnGraph: the variable is decremented, not set. *)
NotOnGraphDecrements(o) ==
    /\ PreNotOnGraph(o)
    /\ ApplyParentOp(o)
    /\ possible' = possible - 1
    /\ UNCHANGED following

(* Type 0. *)
NotOnGraph(o) ==
    /\ PreNotOnGraph(o)
    /\ ApplyParentOp(o)
    /\ possible' = 0
    /\ UNCHANGED following

(* Type 1. *)
AlreadyDiscarded(o) ==
    /\ PreDiscarded(o)
    /\ ApplyParentOp(o)
    /\ UNCHANGED <<possible, following>>

(* Type 2. *)
Discard(o) ==
    /\ PreDiscarding(o)
    /\ ApplyParentOp(o)
    /\ possible' = 0
    /\ UNCHANGED following

(* Mutation of Follow: set before reset, which loses the mark on a loop. *)
FollowSetsBeforeReset(n, o) ==
    /\ PreFollowing(n, o)
    /\ ApplyParentOp(o)
    /\ following' = [following EXCEPT ![graph.edge[<<n, o>>]] = 1, ![n] = 0]
    /\ UNCHANGED possible

(* Type 3, for the edge of o that leaves node n. *)
Follow(n, o) ==
    /\ PreFollowing(n, o)
    /\ ApplyParentOp(o)
    /\ following' = [following EXCEPT ![n] = 0, ![graph.edge[<<n, o>>]] = 1]
    /\ UNCHANGED possible

Next ==
    \E o \in Op :
        \/ NotOnGraph(o)
        \/ AlreadyDiscarded(o)
        \/ Discard(o)
        \/ \E n \in Node : Follow(n, o)

Spec == Init /\ [][Next]_vars

(* get_goal_fact: the parent's goals, and the graph is left. *)
AtGoal == IsGoalState(s) /\ possible = 0
-------------------------------------------------------------------------------
(* The added variables are binary, and the walk stays on the graph.        *)
TypeOK ==
    /\ graph \in InputGraphs
    /\ s \in State
    /\ possible \in 0 .. 1
    /\ following \in [Node -> 0 .. 1]
    /\ walk \in Node \cup {Nowhere}
    /\ steps \in 0 .. MaxSteps

(* While the run is a path of the graph, exactly the node it has reached   *)
(* is marked; the run counts as discarded exactly when no path is left.    *)
MarksTheWalk ==
    /\ possible = 1 <=> walk # Nowhere
    /\ possible = 1 => \A n \in Node : following[n] = 1 <=> n = walk

(* In every state each operator of the parent has exactly one copy whose   *)
(* added preconditions hold.                                               *)
ExactlyOneCopy ==
    \A o \in Op :
        LET edges == {n \in Node : PreFollowing(n, o)}
            others == {i \in 0 .. 2 : \/ i = 0 /\ PreNotOnGraph(o)
                                      \/ i = 1 /\ PreDiscarded(o)
                                      \/ i = 2 /\ PreDiscarding(o)}
        IN  \/ others = {} /\ \E n \in edges : edges = {n}
            \/ edges = {} /\ \E i \in others : others = {i}

GraphInit(g) == g.init
IsPath(g, n) == n # Nowhere

Promise == INSTANCE ForbiddingTask WITH
                Givens <- InputGraphs, given <- graph,
                hist <- walk, accepted <- AtGoal,
                EmptyHistory <- GraphInit, Extend <- Walk,
                Forbidden <- IsPath

(* The reformulated task accepts exactly the plans of the parent that are  *)
(* not paths of the graph.                                                 *)
ImplementsForbiddingTask == Promise!Spec
===============================================================================
