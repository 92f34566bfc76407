--------------------------------- MODULE CEGAR ---------------------------------
(***************************************************************************)
(* The additive Cartesian heuristic (cegar/cost_saturation.cc, cegar.cc,   *)
(* subtask_generators.cc).  For every subtask a Cartesian abstraction is   *)
(* refined along the flaws of its abstract solutions, until a limit is     *)
(* reached; its goal distances become a heuristic function, and the costs  *)
(* they use up are taken from what the next subtasks may spend.            *)
(***************************************************************************)
EXTENDS AbstractSearch, Landmarks

CONSTANTS
    Inputs,         \* records [task, generators, planCosts]: the generators are
                    \* a sequence, planCosts has a pair of state and cost for
                    \* the plans from the states the search meets
    MaxFunctions    \* bound: functions built, as the limits on their sizes do

VARIABLES
    input, useGeneralCosts,
    generators,     \* the generators still to come
    subtasks,       \* the subtasks of the current one still to come
    pc,             \* generate, subtask, separate, refine, saturate, done
    abstraction, h, valueMap, nextVar,
    remainingCosts, functions

vars == <<input, useGeneralCosts, generators, subtasks, pc, abstraction, h, valueMap,
          nextVar, remainingCosts, functions>>

refinement == <<abstraction, h, valueMap, nextVar>>
-------------------------------------------------------------------------------
(* DomainAbstractedTaskFactory: the values in groups of two or more become *)
(* one value, numbered after the values that stay alone.                   *)
CombineValues(t, v, group) ==
    [x \in Domain(t, v) |->
        IF Cardinality(group) < 2 THEN x
        ELSE IF x \in group THEN t.domains[v] - Cardinality(group)
        ELSE Cardinality((0 .. x - 1) \ group)]

ValueMapOf(t, facts) == [v \in Vars(t) |-> CombineValues(t, v, ValuesOf(facts, v))]

MapFacts(map, facts) == {<<f[1], map[f[1]][f[2]]>> : f \in facts}

MapState(map, s) == [v \in DOMAIN s |-> map[v][s[v]]]

DomainAbstractedTask(t, map) ==
    [t EXCEPT
        !.domains = [v \in Vars(t) |-> Cardinality({map[v][x] : x \in Domain(t, v)})],
        !.init = MapState(map, @),
        !.goal = MapFacts(map, @),
        !.operators = [o \in Ops(t) |->
            [@[o] EXCEPT !.pre = MapFacts(map, @),
                         !.effects = {[e EXCEPT !.val = map[e.var][@]] : e \in @}]]]

(* The subtasks of a generator, in no particular order; for a landmark the *)
(* landmarks before it are combined.                                       *)
Unreached(t, facts) == {f \in facts : ~Holds({f}, t.init)}

GoalSubtasks(t) == {[goal |-> {f}, combine |-> {}] : f \in Unreached(t, t.goal)}

LandmarkSubtasks(t) ==
    LET table == LandmarkTable(t)
        parents == LandmarkParents(t, table)
    IN  {[goal |-> {f}, combine |-> PrevLandmarks(parents, f)] :
            f \in Unreached(t, FactLandmarks(t, table))}

SubtasksOf(t, generator) ==
    CASE generator = "landmarks" -> LandmarkSubtasks(t)
      [] generator = "goals" -> GoalSubtasks(t)
      [] generator = "original" -> {[goal |-> t.goal, combine |-> {}]}

ModifiedTask(t, subtask, costs) ==
    [t EXCEPT !.goal = subtask.goal,
              !.operators = [o \in Ops(t) |-> [@[o] EXCEPT !.cost = costs[o]]]]
-------------------------------------------------------------------------------
(* compute_possibly_before_facts: what can be reached, deletes ignored, by *)
(* operators that do not achieve the last fact.                            *)
RECURSIVE PossiblyBefore(_, _, _)
PossiblyBefore(t, last, facts) ==
    LET more == UNION {EffectsOf(t, o) : o \in {p \in Ops(t) :
                           last \notin EffectsOf(t, p) /\ t.operators[p].pre \subseteq facts}}
    IN  IF more \subseteq facts THEN facts ELSE PossiblyBefore(t, last, facts \cup more)

RelaxedPossibleBefore(t, fact) ==
    PossiblyBefore(t, fact, {<<v, t.init[v]>> : v \in Vars(t)}) \cup {fact}

(* CEGAR::find_flaw: the abstract trace is followed in the task until it   *)
(* deviates.  The flaw has the states reached and the Cartesian set the    *)
(* trace would have liked to be in.                                        *)
Regress(a, set, o) ==
    [v \in DOMAIN set |->
        IF Precondition(a.task, o, v) # {} THEN Precondition(a.task, o, v)
        ELSE IF EffectValue(a.task, o, v) # {} THEN Domain(a.task, v)
        ELSE set[v]]

FollowStep(a, w, step) ==
    LET succ == ApplyEffects(a.task, step[1], w.concrete)
    IN  IF w.deviated THEN w
        ELSE IF ~IsApplicable(a.task, step[1], w.concrete)
        THEN [w EXCEPT !.deviated = TRUE,
                       !.desired = CartesianSetOf(a.task, a.task.operators[step[1]].pre)]
        ELSE IF ~Includes(a.states[step[2]], succ)
        THEN [w EXCEPT !.deviated = TRUE,
                       !.desired = Regress(a, a.states[step[2]], step[1])]
        ELSE [w EXCEPT !.concrete = succ, !.abstract = step[2]]

FindFlaw(a, trace) ==
    FoldLeft(LAMBDA w, step : FollowStep(a, w, step),
             [concrete |-> a.task.init, abstract |-> a.init, deviated |-> FALSE,
              desired |-> CartesianSetOf(a.task, a.task.goal)], trace)

IsConcreteSolution(a, flaw) == ~flaw.deviated /\ IsGoalState(a.task, flaw.concrete)

(* Flaw::get_possible_splits *)
PossibleSplits(a, flaw) ==
    {<<v, a.states[flaw.abstract][v] \cap flaw.desired[v]>> :
        v \in {x \in Vars(a.task) : flaw.concrete[x] \notin flaw.desired[x]}}
-------------------------------------------------------------------------------
(* Mutation of NeededCosts: loops need no costs. *)
NeededOffLoops(a, goalDistance, initDistance, general, o) ==
    LET alive == {s \in DOMAIN a.states : initDistance[s] # INF /\ goalDistance[s] # INF}
        steps == UNION {{<<s, tr[2]>> : tr \in {x \in Range(a.out[s]) : x[1] = o}} : s \in alive}
    IN  {goalDistance[p[1]] - goalDistance[p[2]] :
            p \in {q \in steps : goalDistance[q[2]] # INF}}
        \cup (IF general THEN {} ELSE {0})

(* compute_saturated_costs: the least costs under which the goal distances *)
(* stay what they are.                                                     *)
NeededCosts(a, goalDistance, initDistance, general, o) ==
    LET alive == {s \in DOMAIN a.states : initDistance[s] # INF /\ goalDistance[s] # INF}
        steps == UNION {{<<s, tr[2]>> : tr \in {x \in Range(a.out[s]) : x[1] = o}} : s \in alive}
    IN  {goalDistance[p[1]] - goalDistance[p[2]] :
            p \in {q \in steps : goalDistance[q[2]] # INF}}
        \cup (IF ~general \/ \E s \in alive : o \in Range(a.loops[s]) THEN {0} ELSE {})

SaturatedCosts(a, goalDistance, initDistance, general) ==
    [o \in Ops(a.task) |->
        LET needed == NeededCosts(a, goalDistance, initDistance, general, o)
        IN  IF needed = {} THEN -INF ELSE Max(needed)]

(* CostSaturation::reduce_remaining_costs *)
Reduce(remaining, saturated) ==
    CASE remaining = INF -> INF
      [] remaining # INF /\ saturated = -INF -> INF
      [] OTHER -> remaining - saturated

(* CartesianHeuristicFunction::get_value *)
ValueAt(function, s) ==
    function.h[AbstractStateOf(function.hierarchy, MapState(function.map, s))]

IsDeadEnd(fs, s) == \E i \in DOMAIN fs : ValueAt(fs[i], s) = INF

(* AdditiveCartesianHeuristic::compute_heuristic *)
AdditiveEstimate(s) ==
    IF IsDeadEnd(functions, s) THEN INF
    ELSE FoldLeft(LAMBDA acc, f : acc + ValueAt(f, s), 0, functions)
-------------------------------------------------------------------------------
Init ==
    /\ input \in Inputs
    /\ useGeneralCosts \in BOOLEAN
    /\ generators = input.generators
    /\ subtasks = {} /\ pc = "generate"
    /\ abstraction = <<>> /\ h = <<>> /\ valueMap = <<>> /\ nextVar = 1
    /\ remainingCosts = [o \in Ops(input.task) |-> input.task.operators[o].cost]
    /\ functions = <<>>

(* The limits on states, transitions, time and memory can be reached at any *)
(* time; a dead end as initial state stops the generation.                 *)
Generate ==
    /\ pc = "generate" /\ generators # <<>>
    /\ subtasks' = SubtasksOf(input.task, Head(generators))
    /\ generators' = Tail(generators)
    /\ pc' = "subtask"
    /\ UNCHANGED <<input, useGeneralCosts, refinement, remainingCosts, functions>>

Abort ==
    /\ pc \in {"generate", "subtask"} /\ functions # <<>>
    /\ pc' = "done"
    /\ UNCHANGED <<input, useGeneralCosts, generators, subtasks, refinement,
                   remainingCosts, functions>>

GeneratorDone ==
    /\ pc = "subtask" /\ subtasks = {}
    /\ pc' = IF generators = <<>> \/ IsDeadEnd(functions, input.task.init) THEN "done" ELSE "generate"
    /\ UNCHANGED <<input, useGeneralCosts, generators, subtasks, refinement,
                   remainingCosts, functions>>

StartSubtask ==
    /\ pc = "subtask" /\ Len(functions) < MaxFunctions
    /\ ~IsDeadEnd(functions, input.task.init)
    /\ \E subtask \in subtasks :
        LET map == ValueMapOf(input.task, subtask.combine)
            modified == ModifiedTask(input.task, subtask, remainingCosts)
        IN  /\ subtasks' = subtasks \ {subtask}
            /\ abstraction' = TrivialAbstraction(DomainAbstractedTask(modified, map))
            /\ valueMap' = map
            /\ pc' = IF Cardinality(subtask.goal) = 1 THEN "separate" ELSE "refine"
    /\ h' = <<0>> /\ nextVar' = 1
    /\ UNCHANGED <<input, useGeneralCosts, generators, remainingCosts, functions>>

(* One variable of CEGAR::separate_facts_unreachable_before_goal. *)
UnreachableValues(t, v) ==
    LET goal == CHOOSE f \in t.goal : TRUE
    IN  Domain(t, v) \ ValuesOf(RelaxedPossibleBefore(t, goal), v)

SeparateFacts ==
    /\ pc = "separate" /\ nextVar \in Vars(abstraction.task)
    /\ LET unwanted == UnreachableValues(abstraction.task, nextVar)
       IN  abstraction' = IF unwanted = {} THEN abstraction
                          ELSE RefineState(abstraction, abstraction.init, nextVar, unwanted)
    /\ nextVar' = nextVar + 1
    /\ UNCHANGED <<input, useGeneralCosts, generators, subtasks, pc, h, valueMap,
                   remainingCosts, functions>>

(* After the last variable, or when a limit is reached; a limit stays       *)
(* reached, so nothing is refined after it.                                *)
MarkGoals ==
    /\ pc = "separate"
    /\ abstraction' = MarkAllStatesAsGoals(abstraction)
    /\ h' = [s \in DOMAIN abstraction.states |-> 0]
    /\ pc' = IF nextVar \in Vars(abstraction.task) THEN "saturate" ELSE "refine"
    /\ UNCHANGED <<input, useGeneralCosts, generators, subtasks, valueMap, nextVar,
                   remainingCosts, functions>>

(* One round of CEGAR::refinement_loop; any split strategy may choose. *)
Refine ==
    /\ pc = "refine"
    /\ LET solution == FindSolution(abstraction, h)
           flaw == FindFlaw(abstraction, solution.trace)
       IN  /\ solution.found /\ ~IsConcreteSolution(abstraction, flaw)
           /\ \E split \in PossibleSplits(abstraction, flaw) :
                abstraction' = RefineState(abstraction, flaw.abstract, split[1], split[2])
           /\ h' = CopyHToChildren(solution.h, flaw.abstract)
    /\ UNCHANGED <<input, useGeneralCosts, generators, subtasks, pc, valueMap, nextVar,
                   remainingCosts, functions>>

(* The abstraction is unsolvable or has a concrete solution. *)
FinishRefinement ==
    /\ pc = "refine"
    /\ LET solution == FindSolution(abstraction, h)
       IN  /\ \/ ~solution.found
              \/ IsConcreteSolution(abstraction, FindFlaw(abstraction, solution.trace))
           /\ h' = solution.h
    /\ pc' = "saturate"
    /\ UNCHANGED <<input, useGeneralCosts, generators, subtasks, abstraction, valueMap,
                   nextVar, remainingCosts, functions>>

StopRefining ==
    /\ pc = "refine"
    /\ pc' = "saturate"
    /\ UNCHANGED <<input, useGeneralCosts, generators, subtasks, refinement,
                   remainingCosts, functions>>

(* The rest of the round of CostSaturation::build_abstractions. *)
Saturate ==
    /\ pc = "saturate"
    /\ LET a == abstraction
           initDistance == Distances(a, a.out, {a.init})
           goalDistance == Distances(a, a.inc, a.goals)
           saturated == SaturatedCosts(a, goalDistance, initDistance, useGeneralCosts)
       IN  /\ functions' = Append(functions, [hierarchy |-> a.hierarchy, map |-> valueMap,
                                              h |-> goalDistance])
           /\ remainingCosts' = [o \in Ops(a.task) |-> Reduce(remainingCosts[o], saturated[o])]
    /\ pc' = IF IsDeadEnd(functions', input.task.init) THEN "done" ELSE "subtask"
    /\ abstraction' = <<>> /\ h' = <<>> /\ valueMap' = <<>> /\ nextVar' = 1
    /\ UNCHANGED <<input, useGeneralCosts, generators, subtasks>>

Next ==
    \/ Generate \/ Abort \/ GeneratorDone \/ StartSubtask \/ SeparateFacts \/ MarkGoals
    \/ StopRefining \/ Refine \/ FinishRefinement \/ Saturate

Spec == Init /\ [][Next]_vars
-------------------------------------------------------------------------------
(* The transitions of an abstraction by definition: an operator leads from *)
(* a to b if it leads from a state in a to a state in b.                   *)
InducedTransitions(a) ==
    {tr \in (DOMAIN a.states) \X Ops(a.task) \X (DOMAIN a.states) :
        \E s \in States(a.task) :
            /\ Includes(a.states[tr[1]], s) /\ IsApplicable(a.task, tr[2], s)
            /\ Includes(a.states[tr[3]], ApplyEffects(a.task, tr[2], s))}

OutTransitions(a) ==
    UNION {{<<s, tr[1], tr[2]>> : tr \in Range(a.out[s])} : s \in DOMAIN a.states}
InTransitions(a) ==
    UNION {{<<tr[2], tr[1], s>> : tr \in Range(a.inc[s])} : s \in DOMAIN a.states}
Loops(a) == UNION {{<<s, o, s>> : o \in Range(a.loops[s])} : s \in DOMAIN a.states}

(* However often states were split, the lists hold exactly the transitions *)
(* that the task induces between the states, each once, and both views of  *)
(* them agree (TransitionSystem::rewire).                                  *)
TransitionsAreInduced ==
    pc \in {"separate", "refine", "saturate"} =>
        LET a == abstraction
            induced == InducedTransitions(a)
        IN  /\ OutTransitions(a) = {tr \in induced : tr[1] # tr[3]}
            /\ InTransitions(a) = OutTransitions(a)
            /\ Loops(a) = {tr \in induced : tr[1] = tr[3]}
            /\ \A s \in DOMAIN a.states : /\ IsInjective(a.out[s]) /\ IsInjective(a.inc[s])
                                          /\ IsInjective(a.loops[s])

(* The costs of the cheapest ways to a goal, by as many rounds of          *)
(* relaxation as there are states.                                         *)
GoalDistances(a) ==
    FoldLeft(LAMBDA d, round :
                {<<p[1], CHOOSE c \in {q[2] : q \in {r \in d : r[1] = p[1]}} :
                            \A q \in d : q[1] = p[1] => c <= q[2]>> : p \in d}
                    \cup UNION {{<<tr[1], PlusCost(p[2], Cost(a, tr[2]))>> :
                                    tr \in {x \in OutTransitions(a) : x[3] = p[1]}} : p \in d},
             {<<s, 0>> : s \in a.goals}, [i \in 1 .. Len(a.states) |-> i])

(* The estimates of the states, raised along the solutions of all earlier   *)
(* rounds and copied to both halves of every split, never exceed the costs *)
(* of the cheapest ways to a goal in the abstraction as it is now.  So the *)
(* next solution found is a cheapest one, and there is none only if every  *)
(* way costs infinitely much (AbstractSearch::find_solution).              *)
EstimatesStayBelowDistances ==
    pc = "refine" =>
        LET a == abstraction
            distances == GoalDistances(a)
            solution == FindSolution(a, h)
            cost == FoldLeft(LAMBDA acc, step : acc + Cost(a, step[1]), 0, solution.trace)
        IN  /\ DOMAIN h = DOMAIN a.states
            /\ \A d \in distances : h[d[1]] <= d[2]
            /\ IF solution.found THEN <<a.init, cost>> \in distances
               ELSE \A d \in distances : d[1] = a.init => d[2] = INF

(* Whatever the subtasks and the order in which they spend the costs, for   *)
(* the states the search can meet the sum of the functions built so far    *)
(* never exceeds the cost of a plan, and no step lowers it by more than    *)
(* its own cost (documented in additive_cartesian_heuristic.cc).           *)
SumIsAdmissible ==
    pc \in {"subtask", "done"} =>
        \A p \in input.planCosts :
            /\ AdditiveEstimate(p[1]) <= p[2]
            /\ \A o \in {x \in Ops(input.task) : IsApplicable(input.task, x, p[1])} :
                LET next == AdditiveEstimate(ApplyEffects(input.task, o, p[1]))
                IN  next = INF \/ AdditiveEstimate(p[1]) <= input.task.operators[o].cost + next

(* The landmark subtasks are for the facts without which the goal cannot   *)
(* be reached, and combined for each are all facts that have to come       *)
(* before it, although the edges that others imply were taken out and the  *)
(* tables shrank level by level (LandmarkFactoryHM::generate_landmarks).   *)
LandmarksAreInOrder ==
    LET t == input.task
        needed == {f \in Unreached(t, Facts(t)) : ~(t.goal \subseteq ReachableWithout(t, f))}
    IN  pc = "subtask" /\ functions = <<>> /\ Head(input.generators) = "landmarks" =>
            subtasks = {[goal |-> {f}, combine |-> {g \in Facts(t) : HasToComeBefore(t, g, f)}] :
                            f \in needed}
===============================================================================
