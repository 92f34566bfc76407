----------------------------- MODULE MCPlansGraph -----------------------------
(* The task has three parts that share the initial state.  In the first, A B  *)
(* C leads to the goal, or the detour B C to the state after A, from which B  *)
(* C must be applied again; y and z set a flag each at any time, so that      *)
(* plans have many orders.  In the second, three operators A_i lead to the    *)
(* same place, and from there B_j C_j to the goal on two ways; the generators *)
(* exchange A_i with A_i+1 and the two ways, so that plans combine and states *)
(* can stay while operators are exchanged.  The third is a task in            *)
(* finite-domain representation, for which the interference of operators is   *)
(* the one OperatorInteraction computes: a vehicle, in place 0 or 1, takes    *)
(* two packages, each waiting, loaded or delivered, from place 0 to place 1,  *)
(* by one of two moves; the generators exchange the packages and the moves.   *)
(* A state of the first two parts is a place and the set of flags.            *)
EXTENDS PlansGraph

Following(moves) ==
    [p \in {<<m[1], m[2]>> : m \in moves} |-> (CHOOSE m \in moves : <<m[1], m[2]>> = p)[3]]
Operators(names, indexes) == names \X indexes
Flags == {<<"y", 0>>, <<"z", 0>>}
At(place) == <<place, {}>>

Detours == {<<0, "A", 1>>, <<0, "B", 2>>, <<2, "C", 1>>, <<1, "B", 3>>, <<3, "C", 4>>}
OrderMoves ==
    {<<<<m[1], f>>, <<m[2], 0>>, <<m[3], f>>>> : m \in Detours, f \in SUBSET Flags}
        \cup {<<<<p, f>>, o, <<p, f \cup {o}>>>> :
                    p \in 0 .. 4, f \in SUBSET Flags, o \in Flags}
RouteMoves ==
    {<<At(0), <<"A", i>>, At(10)>> : i \in 1 .. 3}
        \cup UNION {{<<At(10), <<"B", j>>, At(10 + j)>>, <<At(10 + j), <<"C", j>>, At(13)>>} :
                        j \in 1 .. 2}

Interaction == INSTANCE OperatorInteraction

Operator(pre, facts, cost) ==
    [pre |-> pre, effects |-> {[var |-> f[1], val |-> f[2], cond |-> {}] : f \in facts},
     cost |-> cost]
Place == 1
Load(package) == Operator({<<Place, 0>>, <<package, 0>>}, {<<package, 1>>}, 0)
Move == Operator({<<Place, 0>>}, {<<Place, 1>>}, 2)
Drop(package) == Operator({<<Place, 1>>, <<package, 1>>}, {<<package, 2>>}, 1)
Delivery ==
    [domains |-> <<2, 3, 3>>,
     operators |-> <<Load(2), Load(3), Move, Move, Drop(2), Drop(3)>>,
     axioms |-> <<>>, layers |-> <<>>,
     init |-> <<0, 0, 0>>,
     goal |-> {<<2, 2>>, <<3, 2>>}]
D(i) == <<"D", i>>
Loads == {0, 1, 2}
DeliveryStates == {0, 1} \X Loads \X Loads
DeliveryMoves ==
    {<<<<0, 0, b>>, 1, <<0, 1, b>>>> : b \in Loads}
        \cup {<<<<0, a, 0>>, 2, <<0, a, 1>>>> : a \in Loads}
        \cup {<<<<0, a, b>>, i, <<1, a, b>>>> : a \in Loads, b \in Loads, i \in {3, 4}}
        \cup {<<<<1, 1, b>>, 5, <<1, 2, b>>>> : b \in Loads}
        \cup {<<<<1, a, 1>>, 6, <<1, a, 2>>>> : a \in Loads}
ASSUME MovesAreThoseOfTheTask ==
    /\ DeliveryStates = Interaction!States(Delivery)
    /\ DeliveryMoves =
            {<<q[1], q[2], Interaction!Successor(Delivery, q[2], q[1])>> :
                q \in {p \in DeliveryStates \X Interaction!Ops(Delivery) :
                            Interaction!IsApplicable(Delivery, p[2], p[1])}}

(* The parts share their initial state. *)
InDelivery(s) == IF s = <<0, 0, 0>> THEN At(0) ELSE s
ThirdMoves == {<<InDelivery(m[1]), D(m[2]), InDelivery(m[3])>> : m \in DeliveryMoves}

MCState == ((0 .. 4) \X SUBSET Flags) \cup {At(p) : p \in 10 .. 13}
                \cup {InDelivery(s) : s \in DeliveryStates}
MCOp == Operators({"A", "B", "C"}, 0 .. 2) \cup {<<"A", 3>>} \cup Flags
            \cup {D(i) : i \in 1 .. 6}
MCSucc == Following(OrderMoves \cup RouteMoves \cup ThirdMoves)
MCInit == At(0)
MCGoals == {<<4, Flags>>, At(13)}
                \cup {<<p, 2, 2>> : p \in {0, 1}}
MCCost == [o \in MCOp |->
    CASE o = <<"z", 0>> -> 0
      [] o \in {<<"C", 1>>, <<"C", 2>>} -> 2
      [] o[1] = "D" -> Delivery.operators[o[2]].cost
      [] OTHER -> 1]
(* Operators of the other parts, for which no plan asks that search, are    *)
(* taken to interfere.                                                      *)
MCInterfere ==
    {<<D(p[1]), D(p[2])>> :
        p \in {q \in Interaction!Ops(Delivery) \X Interaction!Ops(Delivery) :
                    Interaction!InterferingPair(Delivery, q[1], q[2])}}
        \cup {p \in MCOp \X MCOp : p[1][1] # "D" \/ p[2][1] # "D"}

Other(k, i, j) == CASE k = i -> j [] k = j -> i [] OTHER -> k
ExchangeFirst(i, j) ==
    [state |-> [st \in MCState |-> st],
     op |-> [o \in MCOp |-> IF o[1] = "A" THEN <<"A", Other(o[2], i, j)>> ELSE o]]
ExchangeWays ==
    [state |-> [st \in MCState |->
                    IF Len(st) = 2 THEN <<Other(st[1], 11, 12), st[2]>> ELSE st],
     op |-> [o \in MCOp |-> IF o[1] \in {"B", "C"} THEN <<o[1], Other(o[2], 1, 2)>> ELSE o]]
ExchangePackages ==
    [state |-> [s \in MCState |->
                    IF Len(s) = 3 THEN InDelivery(<<s[1], s[3], s[2]>>) ELSE s],
     op |-> [o \in MCOp |-> IF o[1] = "D" THEN D(Other(Other(o[2], 1, 2), 5, 6)) ELSE o]]
ExchangeMoves ==
    [state |-> [s \in MCState |-> s],
     op |-> [o \in MCOp |-> IF o[1] = "D" THEN D(Other(o[2], 3, 4)) ELSE o]]
MCGroups ==
    [none |-> <<>>,
     routes |-> <<ExchangeFirst(2, 3), ExchangeWays, ExchangeFirst(1, 2)>>,
     delivery |-> <<ExchangePackages, ExchangeMoves>>]

Given(plans, numbers, reorderings, groups) ==
    [plan : plans, number_of_plans : numbers, reformulate : {"FORBID_MULTIPLE_PLANS"},
     reduce_plan_orders : reorderings, symmetry_group : groups, greedy_clean : {-1}]
Cleaning(inputs, edges_until) ==
    {[i EXCEPT !.greedy_clean = n] : i \in inputs, n \in edges_until}
Plain(names) == [i \in DOMAIN names |-> <<names[i], 0>>]
OrderPlans == {Plain(<<"A", "y", "B", "C", "z">>), Plain(<<"z", "A", "B", "y", "C">>)}
RoutePlans == {<<<<"A", i>>, <<"B", i>>, <<"C", i>>>> : i \in 1 .. 2}
DeliveryPlans == {[i \in 1 .. 5 |-> D(order[i])] :
                    order \in {<<1, 2, 3, 5, 6>>, <<2, 1, 4, 6, 5>>}}
MCInputs ==
    Given(OrderPlans, {1, 2, 7, 20, 25}, {"NAIVE_ALL_DFS_NODUP"}, {"none"})
        \cup Cleaning(Given(OrderPlans, {25}, {"NAIVE_ALL_DFS_NODUP"}, {"none"}), {3})
        \cup Given(RoutePlans, {2, 4, 7}, {"NONE"}, {"routes"})
        \cup Given(RoutePlans, {5}, {"NAIVE_ALL_DFS_NODUP"}, {"routes"})
        \cup Given(DeliveryPlans, {2, 30}, {"NEIGHBOURS_INTERFERE"}, {"none", "delivery"})
        \cup Given(DeliveryPlans, {2, 30}, {"NAIVE_ALL", "NAIVE_ALL_DFS"}, {"none"})
        \cup Cleaning(Given(DeliveryPlans, {2, 30}, {"NAIVE_ALL_DFS_NODUP"}, {"none"}),
                      {-1, 0, 2, 4})
        \cup {[i EXCEPT !.reformulate = "NONE_FIND_ADDITIONAL_PLANS"] :
                i \in Given(DeliveryPlans, {1, 30}, {"NONE"}, {"none", "delivery"})}

(* The plans read are cheapest ones: what the way to the goal costs, or 4   *)
(* where it costs more, is a lower bound that they meet.                    *)
MCRemaining ==
    LET Round[k \in 0 .. 6] ==
            IF k = 0 THEN [st \in MCState |-> IF st \in MCGoals THEN 0 ELSE 4]
            ELSE [st \in MCState |->
                    Min({Round[k - 1][st]} \cup
                        {MCCost[p[2]] + Round[k - 1][MCSucc[p]] :
                            p \in {q \in DOMAIN MCSucc : q[1] = st}})]
    IN  Round[6]
ASSUME PlansAreCheapest ==
    /\ IsLowerBound(MCRemaining)
    /\ \A in \in MCInputs : CostOf(in.plan) <= MCRemaining[MCInit]
===============================================================================
