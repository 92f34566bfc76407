---------------------------- MODULE MCMergeAndShrink ----------------------------
(* Four tasks: one with operators of cost 0 and interchangeable operators,    *)
(* one of unit cost with dead ends and states out of reach, one with          *)
(* conditional effects, and one with two pairs of values that are bisimilar.  *)
EXTENDS MergeAndShrink

Effect(v, d, cond) == [var |-> v, val |-> d, cond |-> cond]
Op(pre, eff, c) == [pre |-> pre, effects |-> {Effect(f[1], f[2], {}) : f \in eff}, cost |-> c]
CondOp(pre, effects, c) == [pre |-> pre, effects |-> effects, cost |-> c]
Task(domains, operators, goal, init) ==
    [domains |-> domains, operators |-> operators, axioms |-> <<>>,
     layers |-> <<>>, goal |-> goal, init |-> init]

Transport ==
    Task(<<3, 2, 2>>,
         <<Op({<<1, 0>>}, {<<1, 1>>}, 1), Op({<<1, 0>>}, {<<1, 1>>}, 1),
           Op({<<1, 1>>, <<2, 0>>}, {<<2, 1>>}, 0), Op({<<1, 1>>, <<3, 0>>}, {<<3, 1>>}, 2),
           Op({<<1, 1>>}, {<<1, 2>>}, 2), Op({<<1, 2>>, <<2, 0>>}, {<<2, 1>>}, 1),
           Op({<<2, 1>>, <<3, 0>>}, {<<3, 1>>, <<1, 0>>}, 1)>>,
         {<<2, 1>>, <<3, 1>>}, <<0, 0, 0>>)

DeadEnds ==
    Task(<<4, 2, 2>>,
         <<Op({<<1, 0>>}, {<<1, 1>>}, 1), Op({<<1, 0>>, <<2, 0>>}, {<<1, 2>>}, 1),
           Op({<<1, 3>>}, {<<1, 2>>, <<2, 1>>}, 1), Op({<<1, 1>>, <<2, 1>>}, {<<1, 2>>}, 1),
           Op({<<1, 0>>}, {<<2, 1>>}, 1), Op({<<2, 0>>}, {<<3, 1>>}, 1),
           Op({<<1, 1>>, <<3, 0>>}, {<<3, 1>>}, 1), Op({<<1, 3>>, <<3, 1>>}, {<<2, 1>>}, 1)>>,
         {<<1, 2>>, <<3, 1>>}, <<0, 0, 0>>)

Switches ==
    Task(<<3, 2, 2>>,
         <<CondOp({}, {Effect(1, 1, {<<1, 0>>}), Effect(1, 2, {<<1, 1>>, <<2, 1>>})}, 1),
           CondOp({<<3, 0>>}, {Effect(3, 1, {<<1, 1>>}), Effect(2, 1, {})}, 0),
           Op({<<3, 0>>}, {<<2, 1>>}, 2), CondOp({<<1, 2>>}, {Effect(3, 1, {<<2, 0>>})}, 1),
           Op({<<2, 1>>}, {<<2, 0>>}, 1)>>,
         {<<1, 2>>, <<3, 1>>}, <<0, 0, 0>>)

Pairs ==
    Task(<<4, 2>>,
         <<Op({<<1, 0>>}, {<<1, 2>>}, 1), Op({<<1, 1>>}, {<<1, 2>>}, 1),
           Op({<<1, 2>>}, {<<1, 0>>}, 2), Op({<<1, 3>>}, {<<1, 0>>}, 2),
           Op({<<1, 2>>}, {<<2, 1>>}, 1), Op({<<1, 3>>}, {<<2, 1>>}, 1)>>,
         {<<2, 1>>}, <<1, 0>>)

MCTasks == <<Transport, DeadEnds, Switches, Pairs>>

Bisimulation(greedy, at_limit) == [name |-> "bisimulation", greedy |-> greedy, at_limit |-> at_limit]
FH(f_high, h_high) == [name |-> "fh", f_high |-> f_high, h_high |-> h_high]

Regular == <<1, 2, 3, 4, 5>>
Shuffled == <<4, 2, 5, 1, 3>>
ShuffledAgain == <<2, 5, 1, 4, 3>>

Reduction(method, order, before_shrinking, before_merging) ==
    [method |-> method, order |-> order, before_shrinking |-> before_shrinking,
     before_merging |-> before_merging]
Two == Reduction("TWO_TRANSITION_SYSTEMS", Regular, TRUE, FALSE)
All == Reduction("ALL_TRANSITION_SYSTEMS", Reverse(Regular), FALSE, TRUE)
AllShuffled == Reduction("ALL_TRANSITION_SYSTEMS", ShuffledAgain, FALSE, TRUE)
Fixpoint == Reduction("ALL_TRANSITION_SYSTEMS_WITH_FIXPOINT", Regular, TRUE, TRUE)
FixpointShuffled == Reduction("ALL_TRANSITION_SYSTEMS_WITH_FIXPOINT", Shuffled, TRUE, TRUE)
NoReduction == Reduction("TWO_TRANSITION_SYSTEMS", Regular, FALSE, FALSE)

(* The order of the indices that factors of a task can have. *)
OrderFor(t, order) == SelectSeq(order, LAMBDA i : i < 2 * Len(t.domains))

Given(tasks, strategies, sizes, reductions, pruning) ==
    {[task |-> x[1], strategy |-> x[2], max_states |-> x[3][1], max_before |-> x[3][2],
      threshold |-> x[3][3], reduction |-> [x[4] EXCEPT !.order = OrderFor(MCTasks[x[1]], @)],
      prune_unreachable |-> x[5][1],
      prune_irrelevant |-> x[5][2], merge_distances |-> x[5][3]] :
        x \in tasks \X strategies \X sizes \X reductions \X pruning}

Full == <<TRUE, TRUE, FALSE>>
None == <<FALSE, FALSE, FALSE>>
MCInputs ==
    Given(1 .. 4, {Bisimulation(FALSE, "RETURN")}, {<<-1, -1, 1>>}, {Two, All, Fixpoint, FixpointShuffled},
          {Full, None})
        \cup Given(1 .. 4, {Bisimulation(TRUE, "RETURN"), Bisimulation(FALSE, "USE_UP")},
                   {<<6, 4, -1>>}, {Two, Fixpoint}, {Full, <<TRUE, FALSE, TRUE>>})
        \cup Given(1 .. 4, {FH(TRUE, FALSE), FH(FALSE, TRUE)}, {<<-1, 2, -1>>, <<7, -1, 2>>},
                   {All, AllShuffled}, {Full, <<FALSE, TRUE, FALSE>>})
        \cup Given(1 .. 3, {[name |-> "random"]}, {<<7, 3, -1>>}, {Fixpoint, NoReduction},
                   {None, <<TRUE, FALSE, FALSE>>})
===============================================================================
