-------------------------------- MODULE MCCEGAR --------------------------------
(* Tasks with landmarks that have to be left again, zero costs, and values  *)
(* that can be combined.                                                   *)
EXTENDS CEGAR

Op(pre, eff, c) ==
    [pre |-> pre, cost |-> c,
     effects |-> {[var |-> f[1], val |-> f[2], cond |-> {}] : f \in eff}]

Task(domains, operators, goal, init) ==
    [domains |-> domains, operators |-> operators, axioms |-> <<>>,
     layers |-> <<>>, goal |-> goal, init |-> init]

(* Fetch and bring back: position, the load, a door that closes behind. *)
Fetch ==
    Task(<<3, 3, 2>>,
         <<Op({<<1, 0>>}, {<<1, 1>>}, 1), Op({<<1, 1>>}, {<<1, 2>>, <<3, 1>>}, 2),
           Op({<<1, 2>>, <<2, 0>>}, {<<2, 1>>}, 1), Op({<<1, 2>>}, {<<1, 1>>}, 1),
           Op({<<1, 1>>}, {<<1, 0>>}, 0), Op({<<1, 0>>, <<2, 1>>}, {<<2, 2>>, <<3, 0>>}, 1)>>,
         {<<2, 2>>, <<1, 1>>}, <<0, 0, 0>>)

(* Two ways to both goals, one of them a dead end for the other. *)
Choice ==
    Task(<<4, 2>>,
         <<Op({<<1, 0>>}, {<<1, 1>>}, 2), Op({<<1, 0>>}, {<<1, 2>>}, 1),
           Op({<<1, 1>>}, {<<1, 3>>, <<2, 0>>}, 1), Op({<<1, 2>>}, {<<1, 3>>}, 0),
           Op({<<1, 1>>}, {<<2, 1>>}, 1), Op({<<1, 3>>, <<2, 0>>}, {<<1, 0>>}, 1),
           Op({}, {<<2, 1>>}, 4)>>,
         {<<1, 3>>, <<2, 1>>}, <<0, 0>>)

(* A longer way, found when the shorter one has already been used. *)
Detour ==
    Task(<<4, 3>>,
         <<Op({<<1, 0>>}, {<<1, 1>>}, 1), Op({<<1, 1>>}, {<<1, 2>>}, 2),
           Op({<<1, 2>>}, {<<1, 3>>}, 1), Op({<<2, 0>>}, {<<2, 1>>}, 1),
           Op({<<2, 1>>}, {<<2, 2>>}, 0), Op({<<2, 2>>}, {<<1, 2>>}, 1)>>,
         {<<1, 3>>}, <<0, 0>>)

PlanCosts(t) ==
    UNION {{<<x[1], y[2]>> : y \in GoalCosts(t, OperatorCosts(t), x[1])} :
               x \in PathCosts(t, OperatorCosts(t), t.init)}

InputOf(t, list) ==
    [task |-> t, generators |-> list, planCosts |-> PlanCosts(t)]

MCInputs ==
    {InputOf(Detour, <<"landmarks">>), InputOf(Fetch, <<"landmarks">>), InputOf(Fetch, <<"goals">>),
     InputOf(Choice, <<"landmarks", "goals">>), InputOf(Choice, <<"original", "original">>)}
===============================================================================
