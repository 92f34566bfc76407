------------------------------ MODULE SearchSpace ------------------------------
(***************************************************************************)
(* SearchSpace: what the search remembers of a registered state, and how   *)
(* the plan is traced back from a goal state.  The registry is a sequence  *)
(* of states; the number of a state is its index.  A node is the record    *)
(* SearchNodeInfo of the state with the same index.                        *)
(***************************************************************************)
EXTENDS SymmetryGroup

NoState == 0
NoOperator == 0

NewNode == [status |-> "NEW", g |-> -1, d |-> -1, real_g |-> -1,
            parent |-> NoState, op |-> NoOperator]

(* SearchNode::open_initial. *)
InitialNode == [status |-> "OPEN", g |-> 0, d |-> 0, real_g |-> 0,
                parent |-> NoState, op |-> NoOperator]

(* SearchNode::open and SearchNode::reopen; update_parent keeps the status. *)
NodeReachedBy(status, id, node, o, cost, adjusted_cost) ==
    [status |-> status, g |-> node.g + adjusted_cost, d |-> node.d + 1,
     real_g |-> node.real_g + cost, parent |-> id, op |-> o]

(* insert_id_or_pop_state: a state that is known keeps its number. *)
Register(registry, s) == IF s \in Range(registry) THEN registry ELSE Append(registry, s)

StateId(registry, s) == CHOOSE i \in DOMAIN registry : registry[i] = s

(* The nodes from the goal node back to the initial one. *)
WithParent(nodes, trace) ==
    LET info == nodes[trace[Len(trace)]]
    IN  IF info.op = NoOperator THEN trace ELSE Append(trace, info.parent)

NodeTrace(nodes, goal) ==
    LET trace[n \in 0 .. Len(nodes)] ==
            IF n = 0 THEN <<goal>> ELSE LET before == trace[n - 1] IN WithParent(nodes, before)
    IN  trace[Len(nodes)]

(* trace_path without symmetries: the creating operators. *)
TracePath(nodes, goal) ==
    LET trace == NodeTrace(nodes, goal)
    IN  Reverse([i \in 1 .. Len(trace) - 1 |-> nodes[trace[i]].op])
-------------------------------------------------------------------------------
(* trace_path_with_symmetries.  Step i of the trace is the i-th node from  *)
(* the goal; its state was reached as "reached", of which the registered   *)
(* state may be a symmetric one.                                           *)
ReachedState(t, registry, nodes, id) ==
    IF nodes[id].op = NoOperator THEN t.init
    ELSE Successor(t, nodes[id].op, registry[nodes[id].parent])

(* The number the state reached at step i gets in the registry that        *)
(* generates it: the search's own registry for OSS, a fresh one for DKS,   *)
(* which numbers the states in the order of the trace.  The initial state  *)
(* always comes from the search's registry.                                *)
ReachedId(t, symmetries, registry, nodes, trace, i) ==
    LET reached(j) == ReachedState(t, registry, nodes, trace[j])
        fresh == FoldLeft(Register, <<>>, [j \in 1 .. i |-> reached(j)])
    IN  IF nodes[trace[i]].op = NoOperator THEN StateId(registry, t.init)
        ELSE IF symmetries = "DKS" THEN StateId(fresh, reached(i))
        ELSE IF reached(i) \in Range(registry) THEN StateId(registry, reached(i))
        ELSE Len(registry) + 1

(* The permutation of step i: the identity when the numbers agree. *)
StepPermutation(t, symmetries, group, registry, nodes, trace, i) ==
    IF ReachedId(t, symmetries, registry, nodes, trace, i) # trace[i]
    THEN FromStateToState(t, group, registry[trace[i]],
                          ReachedState(t, registry, nodes, trace[i]))
    ELSE IdentityPermutation(t)

(* The states of the trace, mapped to the run from the initial state. *)
StateTrace(t, symmetries, group, registry, nodes, trace) ==
    LET composed[i \in 1 .. Len(trace) + 1] ==
            IF i = Len(trace) + 1 THEN IdentityPermutation(t)
            ELSE Compose(StepPermutation(t, symmetries, group, registry, nodes, trace, i),
                         composed[i + 1])
    IN  [i \in 1 .. Len(trace) |-> PermuteState(t, composed[i], registry[trace[i]])]

(* The cheapest operators from one state to the other, the first of them   *)
(* in the generator's order; none when there is no operator at all.        *)
CheapestOperator(t, ops, from, to) ==
    LET found == SelectSeq(ops, LAMBDA o : Successor(t, o, from) = to)
        cheapest == SelectSeq(found, LAMBDA o : \A p \in Range(found) :
                                t.operators[o].cost <= t.operators[p].cost)
    IN  IF found = <<>> THEN NoOperator ELSE Head(cheapest)

(* The path; NoOperator stands where the code gives up with                *)
(* SEARCH_CRITICAL_ERROR.  Generator[s] are the applicable operators.      *)
TracePathWithSymmetries(t, symmetries, group, Generator, registry, nodes, goal) ==
    LET trace == NodeTrace(nodes, goal)
        states == StateTrace(t, symmetries, group, registry, nodes, trace)
    IN  Reverse([i \in 1 .. Len(trace) - 1 |->
            CheapestOperator(t, Generator[states[i + 1]], states[i + 1], states[i])])
===============================================================================
