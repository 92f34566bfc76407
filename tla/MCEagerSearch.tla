----------------------------- MODULE MCEagerSearch -----------------------------
(* Tasks with their symmetries, pruning methods and heuristics.              *)
EXTENDS EagerSearch, SuccessorGenerator, StubbornSets

MCINFTY == 40

Op(pre, eff, cost) ==
    [pre |-> pre, effects |-> {[var |-> f[1], val |-> f[2], cond |-> {}] : f \in eff},
     cost |-> cost]

Task(domains, operators, goal, init) ==
    [domains |-> domains, operators |-> operators, axioms |-> <<>>,
     layers |-> <<>>, goal |-> goal, init |-> init]

(* An explicit graph: one variable, an operator per edge <<from, to, cost>>. *)
GraphTask(size, edges, goal) ==
    Task(<<size>>, [i \in DOMAIN edges |->
            Op({<<1, edges[i][1]>>}, {<<1, edges[i][2]>>}, edges[i][3])],
         {<<1, goal>>}, <<0>>)

AllOps(t) == [s \in States(t) |-> Ops(t)]

Blind(t) == [s \in States(t) |-> 0]

Options == [shortest |-> TRUE, reopen_closed |-> TRUE, cost_type |-> "NORMAL",
            bound |-> MCINFTY]

Astar == [Options EXCEPT !.shortest = FALSE]

Problem(t, options, h, improved, symmetries, group, kept) ==
    [task |-> t, shortest |-> options.shortest, reopen_closed |-> options.reopen_closed,
     cost_type |-> options.cost_type, bound |-> options.bound,
     symmetries |-> symmetries, group |-> group,
     applicable |-> [s \in States(t) |-> GenerateApplicableOps(t, s)],
     kept |-> [s \in States(t) |-> Prune(GenerateApplicableOps(t, s), kept[s])],
     estimate |-> h, lazy |-> h # improved, improved |-> improved]

Plain(t, options, h, improved) ==
    Problem(t, options, h, improved, "NONE", <<>>, AllOps(t))

(* The perfect estimates, and all tables of estimates that are zero, half  *)
(* of them or all of them in every state.                                  *)
Perfect(t, cost_type) ==
    [s \in States(t) |->
        LET adjusted == [o \in Ops(t) |-> CostIn(t, cost_type, o)]
            costs == {x[2] : x \in GoalCosts(t, adjusted, s)}
        IN  IF costs = {} THEN MCINFTY ELSE CHOOSE c \in costs : \A d \in costs : c <= d]

Scaled(h, parts) ==
    [s \in DOMAIN h |-> IF parts[s] = 2 THEN h[s]
                        ELSE IF parts[s] = 1 /\ h[s] # MCINFTY THEN h[s] \div 2
                        ELSE 0]

Admissible(perfect) == {Scaled(perfect, parts) : parts \in [DOMAIN perfect -> 0 .. 2]}
-------------------------------------------------------------------------------
Detours == GraphTask(5, <<<<0, 1, 1>>, <<0, 2, 3>>, <<1, 2, 1>>, <<2, 3, 4>>,
                          <<3, 4, 1>>, <<1, 4, 8>>>>, 4)
FreeCycles == GraphTask(4, <<<<0, 1, 0>>, <<1, 0, 0>>, <<1, 2, 0>>, <<2, 1, 0>>,
                             <<0, 2, 1>>, <<2, 3, 0>>, <<1, 3, 1>>>>, 3)
EqualCosts == GraphTask(5, <<<<0, 1, 1>>, <<1, 2, 1>>, <<0, 2, 2>>, <<2, 3, 1>>,
                             <<2, 1, 0>>, <<0, 4, 4>>, <<1, 4, 1>>>>, 3)
Unsolvable == GraphTask(4, <<<<0, 1, 1>>, <<1, 0, 0>>, <<1, 2, 1>>, <<2, 0, 1>>>>, 3)
Diamond == GraphTask(5, <<<<0, 1, 1>>, <<0, 2, 1>>, <<1, 3, 1>>, <<2, 3, 1>>, <<3, 4, 2>>>>, 4)
Graphs == {Detours, FreeCycles, EqualCosts, Unsolvable, Diamond}

(* Two paths of the same cost, of which the shorter one is found last. *)
Shortcut == GraphTask(6, <<<<0, 1, 1>>, <<0, 4, 1>>, <<1, 2, 1>>, <<2, 3, 1>>, <<4, 3, 2>>,
                           <<3, 5, 1>>>>, 5)
ToLastStep == [s \in States(Shortcut) |-> <<3, 2, 1, 0, 2, 0>>[s[1] + 1]]

GraphProblems ==
    UNION {{Plain(t, o, h, h) : h \in Admissible(Perfect(t, "NORMAL")), o \in {Options, Astar}} :
             t \in Graphs}

(* An evaluator that learns: half of the perfect estimates, or none, at first. *)
LazyProblems ==
    UNION {{Plain(t, o, Scaled(Perfect(t, "NORMAL"), parts), Perfect(t, "NORMAL")) :
              parts \in {[[s \in States(t) |-> 2] EXCEPT ![x] = 0, ![y] = 1] :
                            x, y \in States(t)},
              o \in {Options, Astar}} : t \in Graphs}

ASSUME EstimatesAreAdmissible == \A p \in GraphProblems \cup LazyProblems : IsAdmissible(p)

OptionProblems ==
    LET P(o) == {Plain(Detours, o, h, h) : h \in
                    {Blind(Detours), Perfect(Detours, o.cost_type),
                     Scaled(Perfect(Detours, o.cost_type),
                            [s \in States(Detours) |-> IF s = <<1>> THEN 2 ELSE 0])}}
    IN  UNION {P([o EXCEPT !.cost_type = c, !.reopen_closed = r, !.bound = b]) :
                 o \in {Options, Astar}, c \in {"NORMAL", "ONE", "PLUSONE"},
                 r \in BOOLEAN, b \in {MCINFTY, 7, 8}}
-------------------------------------------------------------------------------
(* Symmetric tasks.  Two balls that a robot moves; tokens that help each   *)
(* other; and a choice between two equal sides, which differ in the cost   *)
(* of crossing from one to the other.                                      *)
Balls ==
    Task(<<2, 3, 3>>,
         <<Op({<<1, 0>>}, {<<1, 1>>}, 2), Op({<<1, 1>>}, {<<1, 0>>}, 2)>>
         \o [i \in 1 .. 2 |-> Op({<<1, 0>>, <<i + 1, 0>>}, {<<i + 1, 2>>}, 1)]
         \o [i \in 1 .. 2 |-> Op({<<1, 1>>, <<i + 1, 2>>}, {<<i + 1, 1>>}, 1)],
         {<<2, 1>>, <<3, 1>>}, <<0, 0, 0>>)

Tokens ==
    LET pairs == <<<<1, 2>>, <<2, 3>>, <<3, 1>>, <<2, 1>>, <<3, 2>>, <<1, 3>>>>
    IN  Task(<<3, 3, 3>>,
             [i \in 1 .. 3 |-> Op({<<i, 0>>}, {<<i, 1>>}, 1)]
             \o [i \in 1 .. 3 |-> Op({<<i, 1>>}, {<<i, 2>>}, 3)]
             \o [i \in 1 .. 6 |-> Op({<<pairs[i][1], 1>>, <<pairs[i][2], 1>>},
                                     {<<pairs[i][1], 2>>}, 1)],
             {<<1, 2>>, <<2, 2>>, <<3, 2>>}, <<0, 0, 1>>)

Sides ==
    GraphTask(5, <<<<0, 1, 5>>, <<2, 3, 5>>, <<0, 3, 1>>, <<2, 1, 1>>,
                   <<1, 4, 1>>, <<3, 4, 1>>>>, 4)

(* Permutations of variables, and of the values of the only variable. *)
Renaming(t, pi) == [f \in Facts(t) |-> <<pi[f[1]], f[2]>>]
SwapSides == [f \in Facts(Sides) |-> <<1, <<2, 3, 0, 1, 4>>[f[2] + 1]>>]

SymmetricTasks ==
    {<<Balls, <<Renaming(Balls, <<1, 3, 2>>)>>>>,
     <<Tokens, <<Renaming(Tokens, <<2, 1, 3>>), Renaming(Tokens, <<1, 3, 2>>)>>>>,
     <<Tokens, <<Renaming(Tokens, <<2, 3, 1>>)>>>>,
     <<Sides, <<SwapSides>>>>}

ASSUME \A x \in SymmetricTasks : \A p \in Range(x[2]) : IsAutomorphism(x[1], p)

SymmetricProblems ==
    UNION {{Problem(x[1], o, h, h, "OSS", x[2], AllOps(x[1])) :
              o \in {Options, Astar}, h \in {Blind(x[1]), Perfect(x[1], "NORMAL")}} :
             x \in SymmetricTasks}

(* The same with duplicates kept (DKS). *)
DKSProblems == {Problem(Sides, Astar, Blind(Sides), Blind(Sides), "DKS", <<SwapSides>>, AllOps(Sides))}
-------------------------------------------------------------------------------
(* Tasks of four operators, with all methods of pruning. *)
Pool ==
    <<Op({<<1, 0>>}, {<<1, 1>>}, 1), Op({<<1, 1>>}, {<<1, 2>>}, 1),
      Op({<<1, 0>>, <<2, 1>>}, {<<1, 2>>}, 1), Op({<<2, 0>>}, {<<2, 1>>}, 1),
      Op({<<2, 0>>}, {<<2, 1>>, <<1, 0>>}, 0), Op({}, {<<1, 2>>, <<2, 0>>}, 2),
      Op({<<1, 1>>, <<2, 0>>}, {<<2, 1>>}, 0), Op({<<1, 2>>}, {<<1, 1>>}, 0)>>

PoolTasks ==
    {Task(<<3, 2>>, [i \in 1 .. 4 |-> Pool[SetToSortSeq(chosen, <)[i]]],
          {<<1, 2>>, <<2, 1>>}, <<0, 0>>) :
        chosen \in {c \in SUBSET DOMAIN Pool : Cardinality(c) = 4}}

KeptBySimple(t) ==
    [s \in States(t) |-> IF IsGoalState(t, s) THEN {} ELSE SimpleStubbornSet(t, s)]

KeptByAtomCentric(t, strategy, shortcut) ==
    [s \in States(t) |-> IF IsGoalState(t, s) THEN {}
                         ELSE AtomCentricStubbornSet(t, s, strategy, shortcut)]

PruningTables(t) ==
    {KeptBySimple(t)} \cup
    {KeptByAtomCentric(t, strategy, shortcut) : shortcut \in BOOLEAN, strategy \in
        {"fast_downward", "quick_skip", "static_small", "dynamic_small"}}

PruningProblems ==
    UNION {{Problem(t, Options, Blind(t), Blind(t), "NONE", <<>>, kept) :
              kept \in PruningTables(t)} : t \in PoolTasks}

(* The first operator takes effect only before the second. *)
BeforeSwitch ==
    Task(<<2, 2>>,
         <<[pre |-> {}, cost |-> 1, effects |-> {[var |-> 2, val |-> 1, cond |-> {<<1, 0>>}]}],
           Op({}, {<<1, 1>>}, 1)>>,
         {<<1, 1>>, <<2, 1>>}, <<0, 0>>)

ConditionalProblems ==
    {Problem(BeforeSwitch, Astar, Blind(BeforeSwitch), Blind(BeforeSwitch), "NONE", <<>>,
             KeptBySimple(BeforeSwitch))}
-------------------------------------------------------------------------------
(* Axioms: variable 3 holds where 1 or 2 have moved, 4 where 3 holds and 2  *)
(* is on, and, one layer up, 5 where 4 does not hold and 1 is at 2.        *)
Axiom(cond, v) == [cond |-> cond, var |-> v, val |-> 1]

Derivation ==
    LET t == [Task(<<3, 2, 2, 2, 2>>,
                 <<Op({<<1, 0>>}, {<<1, 1>>}, 1), Op({<<1, 1>>, <<4, 1>>}, {<<1, 2>>}, 1),
                   Op({<<2, 0>>}, {<<2, 1>>}, 1), Op({<<2, 1>>, <<3, 1>>}, {<<2, 0>>}, 0)>>,
                 {<<5, 1>>}, <<0, 0, 0, 0, 0>>)
              EXCEPT !.axioms = <<Axiom({<<4, 0>>, <<1, 2>>}, 5), Axiom({<<3, 1>>, <<2, 1>>}, 4),
                                  Axiom({<<1, 1>>}, 3), Axiom({<<1, 2>>}, 3)>>,
                     !.layers = 3 :> 0 @@ 4 :> 0 @@ 5 :> 1]
    IN  [t EXCEPT !.init = Evaluate(t, t.init)]

(* A conditional effect: the second variable switches what the operator    *)
(* makes of the first.                                                     *)
Switch ==
    Task(<<3, 2>>,
         <<[pre |-> {}, cost |-> 1, effects |->
               {[var |-> 1, val |-> 1, cond |-> {<<2, 0>>}],
                [var |-> 1, val |-> 2, cond |-> {<<1, 1>>, <<2, 1>>}],
                [var |-> 2, val |-> 1, cond |-> {<<1, 1>>}]}],
           Op({<<2, 1>>}, {<<2, 0>>}, 0)>>,
         {<<1, 2>>, <<2, 0>>}, <<0, 0>>)

MoreProblems ==
    {Plain(t, o, Blind(t), Blind(t)) : t \in {Derivation, Switch}, o \in {Options, Astar}}
    \cup {Plain(Shortcut, o, ToLastStep, ToLastStep) : o \in {Options, Astar}}

MCProblems ==
    UNION {GraphProblems, LazyProblems, OptionProblems, SymmetricProblems,
           PruningProblems, MoreProblems}
===============================================================================
