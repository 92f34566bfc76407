----------------------------- MODULE MCLandmarkCut -----------------------------
(* Tasks with zero costs, shared effects and conditional effects.            *)
EXTENDS LandmarkCut

Effect(v, d, cond) == [var |-> v, val |-> d, cond |-> cond]

Op(pre, eff, c) == [pre |-> pre, effects |-> {Effect(f[1], f[2], {}) : f \in eff}, cost |-> c]

CondOp(pre, effects, c) == [pre |-> pre, effects |-> effects, cost |-> c]

Task(domains, operators, goal, init) ==
    [domains |-> domains, operators |-> operators, axioms |-> <<>>,
     layers |-> <<>>, goal |-> goal, init |-> init]

Pool ==
    <<Op({<<1, 0>>}, {<<1, 1>>}, 2), Op({<<1, 1>>}, {<<1, 2>>, <<2, 1>>}, 1),
      Op({<<1, 0>>, <<2, 1>>}, {<<1, 2>>}, 1), Op({}, {<<2, 1>>}, 3),
      Op({<<2, 0>>}, {<<2, 1>>, <<1, 1>>}, 3), Op({<<1, 1>>}, {<<3, 1>>}, 0),
      Op({<<2, 1>>, <<3, 1>>}, {<<1, 2>>}, 0),
      CondOp({}, {Effect(1, 2, {<<2, 1>>}), Effect(2, 1, {}), Effect(3, 1, {<<1, 1>>})}, 2),
      CondOp({<<3, 0>>}, {Effect(1, 1, {<<2, 1>>}), Effect(2, 1, {<<1, 1>>})}, 1)>>

MCTasks ==
    {Task(<<3, 2, 2>>, [i \in 1 .. 5 |-> Pool[SortSeq(SetToSeq(chosen), <)[i]]],
          {<<1, 2>>, <<2, 1>>, <<3, 1>>}, <<0, 0, 0>>) :
        chosen \in {c \in SUBSET DOMAIN Pool : Cardinality(c) = 5}}
===============================================================================
