----------------------------- MODULE TaskSemantics -----------------------------
(***************************************************************************)
(* What a planning task means, stated without the algorithms of the code:  *)
(* the values of derived variables, successor states, and the least costs  *)
(* of paths.  The searches and heuristics are checked against it.          *)
(***************************************************************************)
EXTENDS FDRTask

(* The values the axioms give by definition: layer by layer, a variable of *)
(* the layer holds when it is in every set closed under the layer's rules. *)
StratifiedModel(t, s) ==
    LET layer[l \in -1 .. LastLayer(t)] ==
            IF l = -1 THEN [v \in Vars(t) |-> IF v \in Derived(t) THEN 0 ELSE s[v]]
            ELSE LET below == layer[l - 1]
                     here == {v \in Derived(t) : t.layers[v] = l}
                     With(set) == [v \in Vars(t) |-> IF v \in set THEN 1 ELSE below[v]]
                     closed == {set \in SUBSET here : \A i \in DOMAIN t.axioms :
                                    (/\ t.axioms[i].var \in here
                                     /\ Holds(t.axioms[i].cond, With(set)))
                                        => t.axioms[i].var \in set}
                 IN  With({v \in here : \A set \in closed : v \in set})
    IN  layer[LastLayer(t)]

ReferenceSuccessor(t, o, s) == StratifiedModel(t, ApplyEffects(t, o, s))

(* Triples <<state, cost, length>>, for every state that can be reached    *)
(* from s the least cost of a path to it, and the least length of such a   *)
(* path.                                                                   *)
Cheapest(reached) ==
    {x \in reached : \A y \in reached : y[1] = x[1] =>
        x[2] < y[2] \/ (x[2] = y[2] /\ x[3] <= y[3])}

Extended(t, costs, reached) ==
    reached \cup
        UNION {{<<ReferenceSuccessor(t, o, x[1]), x[2] + costs[o], x[3] + 1>> :
                    o \in {p \in Ops(t) : IsApplicable(t, p, x[1])}} : x \in reached}

PathCosts(t, costs, s) ==
    LET rounds[n \in 0 .. Cardinality(States(t))] ==
            IF n = 0 THEN {<<s, 0, 0>>} ELSE Cheapest(Extended(t, costs, rounds[n - 1]))
    IN  rounds[Cardinality(States(t))]

GoalCosts(t, costs, s) == {x \in PathCosts(t, costs, s) : IsGoalState(t, x[1])}

FreeCosts(t) == [o \in Ops(t) |-> 0]
OperatorCosts(t) == [o \in Ops(t) |-> t.operators[o].cost]
===============================================================================
