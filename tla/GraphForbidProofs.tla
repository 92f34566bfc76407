--------------------------- MODULE GraphForbidProofs ---------------------------
(***************************************************************************)
(* The reformulation that forbids the paths of a plans graph is correct    *)
(* for every parent task, every graph and every length of the runs.        *)
(***************************************************************************)
EXTENDS GraphForbid, TLAPS

(* The mark follows the walk: inductive together with the types. *)
IInv == TypeOK /\ MarksTheWalk

-------------------------------------------------------------------------------
(* An edge of a graph joins two of its nodes, its operator is indexed under *)
(* the node it leaves, and nothing leaves Nowhere.                         *)
LEMMA GraphFacts ==
    ASSUME NEW g \in InputGraphs
    PROVE  /\ g.init \in Node
           /\ \A n, o : <<n, o>> \in DOMAIN g.edge =>
                    n \in Node /\ o \in Op /\ g.edge[<<n, o>>] \in Node
           /\ \A n \in Node, o \in Op : <<n, o>> \in DOMAIN g.edge <=>
                    o \in DOMAIN g.origins /\ n \in g.origins[o]
           /\ \A o \in DOMAIN g.origins : g.origins[o] \subseteq Node
           /\ \A o : <<Nowhere, o>> \notin DOMAIN g.edge
<1>1. IsGraph(g) /\ Nowhere \notin Node
    BY GraphAssumption
<1>2. \A n, o : <<n, o>> \in DOMAIN g.edge => n \in Node /\ o \in Op
    BY <1>1 DEF IsGraph
<1>3. \A n \in Node, o \in Op : <<n, o>> \in DOMAIN g.edge <=>
            o \in DOMAIN g.origins /\ n \in g.origins[o]
    BY <1>1 DEF IsGraph
<1>4. g.init \in Node /\ \A e \in DOMAIN g.edge : g.edge[e] \in Node
    BY <1>1 DEF IsGraph
<1>5. \A n, o : <<n, o>> \in DOMAIN g.edge => g.edge[<<n, o>>] \in Node
    BY <1>4
<1>6. \A o \in DOMAIN g.origins : g.origins[o] \subseteq Node
    BY <1>1 DEF IsGraph
<1>7. \A o : <<Nowhere, o>> \notin DOMAIN g.edge
    BY <1>1, <1>2
<1> QED
    BY <1>2, <1>3, <1>4, <1>5, <1>6, <1>7

(* The walk stays on the graph or ends. *)
LEMMA WalkType ==
    ASSUME NEW g \in InputGraphs, NEW n, NEW o
    PROVE  Walk(g, n, o) \in Node \cup {Nowhere}
BY GraphFacts DEF Walk

(* The successor of a state in which an operator applies is a state. *)
LEMMA SuccessorIsState ==
    ASSUME NEW o \in Op, NEW st \in State, IsApplicable(o, st)
    PROVE  Successor(o, st) \in State
BY ParentAssumption DEF IsApplicable, Successor

(* Initially the mark is at the first node, where the empty walk is. *)
LEMMA InitInvariant == Init => IInv
<1> SUFFICES ASSUME Init PROVE IInv
    OBVIOUS
<1>1. graph.init \in Node /\ Nowhere \notin Node
    BY GraphFacts, GraphAssumption DEF Init
<1> QED
    BY <1>1, ParentAssumption, GraphAssumption DEF Init, IInv, TypeOK, MarksTheWalk

(* What every copy of an operator does, whatever its type. *)
LEMMA ApplyParentOpFacts ==
    ASSUME TypeOK, NEW o \in Op, ApplyParentOp(o)
    PROVE  /\ graph' = graph /\ graph \in InputGraphs
           /\ s' \in State
           /\ walk' = Walk(graph, walk, o)
           /\ walk' \in Node \cup {Nowhere}
           /\ steps' \in 0 .. MaxSteps
<1>1. graph \in InputGraphs /\ s \in State /\ steps \in 0 .. MaxSteps
    BY DEF TypeOK
<1>2. steps' \in 0 .. MaxSteps
    BY <1>1, GraphAssumption DEF ApplyParentOp
<1> QED
    BY <1>1, <1>2, WalkType, SuccessorIsState DEF ApplyParentOp

(* A copy that gives up the graph: no edge of the operator leaves the node *)
(* reached.                                                                *)
LEMMA LeavingKeepsInvariant ==
    ASSUME IInv, NEW o \in Op, ApplyParentOp(o), possible' = 0, UNCHANGED following,
           ~HasEdge(walk, o)
    PROVE  IInv'
<1>1. TypeOK'
    BY ApplyParentOpFacts DEF IInv, TypeOK
<1>2. walk' = Nowhere
    BY ApplyParentOpFacts DEF IInv, Walk, HasEdge
<1> QED
    BY <1>1, <1>2 DEF IInv, MarksTheWalk

(* The copy of an operator on no edge discards the run, which is no path. *)
LEMMA NotOnGraphKeepsInvariant ==
    ASSUME IInv, NEW o \in Op, NotOnGraph(o) PROVE IInv'
<1>1. ~HasEdge(walk, o)
    BY GraphFacts DEF IInv, TypeOK, NotOnGraph, PreNotOnGraph, IsOperatorOnGraph, HasEdge
<1> QED
    BY <1>1, LeavingKeepsInvariant DEF NotOnGraph

(* A discarded run stays one: no extension of it is a path. *)
LEMMA AlreadyDiscardedKeepsInvariant ==
    ASSUME IInv, NEW o \in Op, AlreadyDiscarded(o) PROVE IInv'
<1>1. possible = 0 /\ walk = Nowhere /\ graph \in InputGraphs
    BY DEF IInv, TypeOK, MarksTheWalk, AlreadyDiscarded, PreDiscarded
<1>2. ~HasEdge(walk, o)
    BY <1>1, GraphFacts DEF HasEdge
<1> QED
    BY <1>1, <1>2, LeavingKeepsInvariant DEF AlreadyDiscarded

(* The copy that discards is open only where the marked node has no edge for*)
(* it.                                                                      *)
LEMMA DiscardKeepsInvariant ==
    ASSUME IInv, NEW o \in Op, Discard(o) PROVE IInv'
<1>1. /\ graph \in InputGraphs /\ walk \in Node
      /\ following[walk] = 1
      /\ \A n \in graph.origins[o] : following[n] = 0
    BY DEF IInv, TypeOK, MarksTheWalk, Discard, PreDiscarding
<1>2. walk \notin graph.origins[o]
    BY <1>1
<1>3. ~HasEdge(walk, o)
    BY <1>1, <1>2, GraphFacts DEF HasEdge
<1> QED
    BY <1>3, LeavingKeepsInvariant DEF Discard

(* The copy of an edge moves the mark along it. *)
LEMMA FollowKeepsInvariant ==
    ASSUME IInv, NEW o \in Op, NEW n \in Node, Follow(n, o) PROVE IInv'
<1>1. /\ graph \in InputGraphs /\ possible = 1 /\ walk = n
      /\ HasEdge(n, o) /\ ApplyParentOp(o)
      /\ possible' = possible
      /\ following \in [Node -> 0 .. 1]
      /\ following' = [following EXCEPT ![n] = 0, ![graph.edge[<<n, o>>]] = 1]
      /\ \A x \in Node : following[x] = 1 <=> x = n
    BY DEF IInv, TypeOK, MarksTheWalk, Follow, PreFollowing
<1>2. walk' = graph.edge[<<n, o>>] /\ walk' \in Node /\ walk' # Nowhere
    BY <1>1, ApplyParentOpFacts, GraphFacts, GraphAssumption DEF IInv, Walk, HasEdge
<1>3. \A x \in Node : following'[x] = IF x = walk' THEN 1
                                      ELSE IF x = n THEN 0 ELSE following[x]
    BY <1>1, <1>2
<1>4. TypeOK'
    BY <1>1, <1>2, ApplyParentOpFacts DEF IInv, TypeOK
<1>5. MarksTheWalk'
    BY <1>1, <1>2, <1>3 DEF MarksTheWalk
<1> QED
    BY <1>4, <1>5 DEF IInv

(* Every step keeps the invariant. *)
LEMMA NextKeepsInvariant == IInv /\ [Next]_vars => IInv'
<1> SUFFICES ASSUME IInv, [Next]_vars PROVE IInv'
    OBVIOUS
<1>1. ASSUME NEW o \in Op, NotOnGraph(o) PROVE IInv'
    BY <1>1, NotOnGraphKeepsInvariant
<1>2. ASSUME NEW o \in Op, AlreadyDiscarded(o) PROVE IInv'
    BY <1>2, AlreadyDiscardedKeepsInvariant
<1>3. ASSUME NEW o \in Op, Discard(o) PROVE IInv'
    BY <1>3, DiscardKeepsInvariant
<1>4. ASSUME NEW o \in Op, NEW n \in Node, Follow(n, o) PROVE IInv'
    BY <1>4, FollowKeepsInvariant
<1>5. CASE UNCHANGED vars
    BY <1>5 DEF vars, IInv, TypeOK, MarksTheWalk
<1> QED
    BY <1>1, <1>2, <1>3, <1>4, <1>5 DEF Next

(* The inductive invariant: the added variables keep to their domains and   *)
(* the mark is where the walk is.                                          *)
THEOREM Invariance == Spec => []IInv
BY InitInvariant, NextKeepsInvariant, PTL DEF Spec

(* The added variables stay in their domains, and every node marked is one  *)
(* of the graph.                                                           *)
THEOREM TypeCorrect == Spec => []TypeOK
BY Invariance, PTL DEF IInv
-------------------------------------------------------------------------------
(* While the run is a path of the graph exactly the node reached is marked, *)
(* and it counts as discarded exactly when no path is left, for every graph *)
(* with any loops, joins and removed edges.                                *)
THEOREM MarkCorrect == Spec => []MarksTheWalk
BY Invariance, PTL DEF IInv

(* The preconditions added to the copies of an operator partition the       *)
(* reachable states: exactly one copy is open in each.                     *)
THEOREM CopiesPartition == Spec => []ExactlyOneCopy
<1>1. IInv => ExactlyOneCopy
    <2> SUFFICES ASSUME IInv, NEW o \in Op
                 PROVE  LET edges == {n \in Node : PreFollowing(n, o)}
                            others == {i \in 0 .. 2 :
                                        \/ i = 0 /\ PreNotOnGraph(o)
                                        \/ i = 1 /\ PreDiscarded(o)
                                        \/ i = 2 /\ PreDiscarding(o)}
                        IN  \/ others = {} /\ \E n \in edges : edges = {n}
                            \/ edges = {} /\ \E i \in others : others = {i}
        BY DEF ExactlyOneCopy
    <2> DEFINE edges == {n \in Node : PreFollowing(n, o)}
               others == {i \in 0 .. 2 : \/ i = 0 /\ PreNotOnGraph(o)
                                         \/ i = 1 /\ PreDiscarded(o)
                                         \/ i = 2 /\ PreDiscarding(o)}
    <2>1. /\ graph \in InputGraphs /\ possible \in 0 .. 1
          /\ walk \in Node \cup {Nowhere} /\ following \in [Node -> 0 .. 1]
        BY DEF IInv, TypeOK
    <2>2. CASE ~IsOperatorOnGraph(o)
        <3>1. edges = {}
            BY <2>1, <2>2, GraphFacts DEF PreFollowing, HasEdge, IsOperatorOnGraph
        <3>2. others = {0}
            BY <2>2 DEF PreNotOnGraph, PreDiscarded, PreDiscarding
        <3> QED
            BY <3>1, <3>2
    <2>3. CASE IsOperatorOnGraph(o) /\ possible = 0
        <3>1. edges = {}
            BY <2>3 DEF PreFollowing
        <3>2. others = {1}
            BY <2>3 DEF PreNotOnGraph, PreDiscarded, PreDiscarding
        <3> QED
            BY <3>1, <3>2
    <2>4. CASE IsOperatorOnGraph(o) /\ possible = 1
        <3>1. /\ walk \in Node
              /\ \A n \in Node : following[n] = 1 <=> n = walk
            BY <2>1, <2>4 DEF IInv, MarksTheWalk
        <3>2. \A n \in Node : following[n] = 0 <=> n # walk
            BY <2>1, <3>1
        <3>3. /\ ~PreNotOnGraph(o) /\ ~PreDiscarded(o)
              /\ PreDiscarding(o) <=> ~HasEdge(walk, o)
            BY <2>1, <2>4, <3>1, <3>2, GraphFacts
            DEF PreNotOnGraph, PreDiscarded, PreDiscarding, HasEdge, IsOperatorOnGraph
        <3>4. edges = {n \in Node : n = walk /\ HasEdge(walk, o)}
            BY <2>4, <3>1 DEF PreFollowing
        <3>5. CASE HasEdge(walk, o)
            <4>1. edges = {walk} /\ others = {}
                BY <3>1, <3>3, <3>4, <3>5
            <4> QED
                BY <4>1
        <3>6. CASE ~HasEdge(walk, o)
            <4>1. edges = {} /\ others = {2}
                BY <3>3, <3>4, <3>6
            <4> QED
                BY <4>1
        <3> QED
            BY <3>5, <3>6
    <2> QED
        BY <2>1, <2>2, <2>3, <2>4
<1> QED
    BY <1>1, Invariance, PTL
-------------------------------------------------------------------------------
(* The goal facts hold exactly in the goal states of the parent that no     *)
(* path of the graph reaches with the same operators.                      *)
GoalForbidsPaths == AtGoal <=> IsGoalState(s) /\ ~IsPath(graph, walk)

(* The invariant gives what the goal facts mean. *)
LEMMA InvariantGivesGoal == IInv => GoalForbidsPaths
BY DEF IInv, TypeOK, MarksTheWalk, GoalForbidsPaths, AtGoal, IsPath

(* Every application of a copy is an application of the parent's operator   *)
(* in the abstract task.                                                   *)
LEMMA CopyImplementsApply ==
    ASSUME GoalForbidsPaths', NEW o \in Op, ApplyParentOp(o)
    PROVE  Promise!Apply(o)
<1>1. /\ IsApplicable(o, s) /\ s' = Successor(o, s)
      /\ walk' = Walk(graph, walk, o)
      /\ UNCHANGED graph
    BY DEF ApplyParentOp
<1>2. AtGoal' <=> IsGoalState(s') /\ ~IsPath(graph', walk')
    BY DEF GoalForbidsPaths
<1> QED
    BY <1>1, <1>2
    DEF Promise!Apply, Promise!IsApplicable, Promise!Successor,
        Promise!IsGoalState, IsApplicable, Successor, IsGoalState

(* The initial states are those of the promise. *)
LEMMA InitRefines == Init /\ GoalForbidsPaths => Promise!Init
<1> SUFFICES ASSUME Init, GoalForbidsPaths PROVE Promise!Init
    OBVIOUS
<1>1. /\ graph \in InputGraphs /\ s = InitialState
      /\ walk = GraphInit(graph)
    BY DEF Init, GraphInit
<1>2. AtGoal = (IsGoalState(s) /\ ~IsPath(graph, walk))
    BY DEF GoalForbidsPaths, AtGoal
<1> QED
    BY <1>1, <1>2 DEF Promise!Init, Promise!IsGoalState, IsGoalState

(* Every step is a step of the promise or changes nothing there. *)
LEMMA NextRefines ==
    GoalForbidsPaths' /\ [Next]_vars => [Promise!Next]_(Promise!vars)
<1> SUFFICES ASSUME GoalForbidsPaths', [Next]_vars
             PROVE  [Promise!Next]_(Promise!vars)
    OBVIOUS
<1>1. ASSUME NEW o \in Op, ApplyParentOp(o) PROVE Promise!Next
    BY <1>1, CopyImplementsApply DEF Promise!Next
<1>2. CASE UNCHANGED vars
    BY <1>2 DEF vars, Promise!vars, AtGoal, IsGoalState
<1> QED
    BY <1>1, <1>2 DEF Next, NotOnGraph, AlreadyDiscarded, Discard, Follow

(* The reformulated task has exactly the runs of the parent, and its goal   *)
(* holds exactly after the plans that are not paths of the graph.          *)
THEOREM ForbidsExactlyThePaths == Spec => ImplementsForbiddingTask
<1>1. Spec => []GoalForbidsPaths
    BY Invariance, InvariantGivesGoal, PTL
<1> QED
    BY <1>1, InitRefines, NextRefines, PTL
    DEF Spec, ImplementsForbiddingTask, Promise!Spec
===============================================================================
