----------------------------- MODULE MergeAndShrink -----------------------------
(***************************************************************************)
(* The merge-and-shrink heuristic: build_factored_transition_system and    *)
(* main_loop of merge_and_shrink_algorithm.cc, and how                     *)
(* merge_and_shrink_heuristic.cc makes estimates of the factors that are   *)
(* left.  One action per step of the loop; the loop ends early when a      *)
(* factor is unsolvable or, between any two steps, when the time is over.  *)
(* Which factors are merged is left open, which covers every merge         *)
(* strategy.                                                               *)
(***************************************************************************)
EXTENDS ShrinkStrategies, TaskSemantics

CONSTANTS
    Tasks,      \* sequence of tasks without axioms, as the heuristic asks for
    Inputs      \* records of the index of a task and of options: strategy,
                \* max_states, max_before and threshold (-1 when not given),
                \* reduction (method, order, before_shrinking, before_merging),
                \* prune_unreachable, prune_irrelevant, merge_distances
                \* (whether the merge strategy requires distances)

(* No limit may be below 1. *)
Size == Nat \ {0}

Options ==
    [task : DOMAIN Tasks,
     strategy : [name : {"bisimulation"}, greedy : BOOLEAN,
                 at_limit : {"RETURN", "USE_UP"}]
                \cup [name : {"fh"}, f_high : BOOLEAN, h_high : BOOLEAN]
                \cup [name : {"random"}],
     max_states : Size \cup {-1}, max_before : Size \cup {-1}, threshold : Size \cup {-1},
     reduction : [method : {"TWO_TRANSITION_SYSTEMS", "ALL_TRANSITION_SYSTEMS",
                            "ALL_TRANSITION_SYSTEMS_WITH_FIXPOINT"},
                  order : Seq(Nat), before_shrinking : BOOLEAN, before_merging : BOOLEAN],
     prune_unreachable : BOOLEAN, prune_irrelevant : BOOLEAN, merge_distances : BOOLEAN]

(* An effect condition asks for one value of a variable, and no plan through *)
(* a state costs as much as an int can hold: no distance along it overflows. *)
ConsistentConditions(t) ==
    \A o \in Ops(t) : \A e \in t.operators[o].effects :
        \A f1, f2 \in e.cond : f1[1] = f2[1] => f1 = f2

PlanCostsBelowINF(t) ==
    \A x \in PathCosts(t, OperatorCosts(t), t.init) :
        \A y \in GoalCosts(t, OperatorCosts(t), x[1]) : x[2] + y[2] < INF

ASSUME MergeAndShrinkAssumption ==
    /\ Inputs \subseteq Options
    /\ \A x \in Inputs : IsSystemOrder(Tasks[x.task], x.reduction.order)
    /\ \A i \in DOMAIN Tasks :
        /\ IsTask(Tasks[i]) /\ Tasks[i].domains # <<>>
        /\ Tasks[i].axioms = <<>> /\ Tasks[i].layers = <<>>
        /\ ConsistentConditions(Tasks[i])
        /\ PlanCostsBelowINF(Tasks[i])

VARIABLES
    input,          \* the task and the options
    fts,            \* the labels and the active factors
    num_indices,    \* of factors there ever were
    index,          \* the atomic factor that is pruned next, or the one just merged
    merge_indices,  \* the factors that are merged next
    kept,           \* the factors the heuristic consists of
    pc

vars == <<input, fts, num_indices, index, merge_indices, kept, pc>>

task == Tasks[input.task]

limits == ShrinkLimits(input.max_states, input.max_before, input.threshold)

compute_init_distances ==
    RequiresInitDistances(input.strategy) \/ input.merge_distances \/ input.prune_unreachable
compute_goal_distances ==
    RequiresGoalDistances(input.strategy) \/ input.merge_distances \/ input.prune_irrelevant

Init ==
    /\ input \in Inputs
    /\ fts = CreateFTS(task, compute_init_distances, compute_goal_distances)
    /\ num_indices = Len(task.domains)
    /\ index = 1
    /\ merge_indices = <<>>
    /\ kept = {}
    /\ pc = "prune_atomic"
-------------------------------------------------------------------------------
(* prune_step *)
Pruned(f) ==
    IF input.prune_unreachable \/ input.prune_irrelevant
    THEN ApplyAbstraction(f, KeptStates(f, input.prune_unreachable, input.prune_irrelevant))
    ELSE f

SetFactor(i, f) == fts' = [fts EXCEPT !.factors[i] = f]

PruneAtomicFactor ==
    /\ pc = "prune_atomic"
    /\ LET pruned == Pruned(fts.factors[index])
       IN  /\ SetFactor(index, pruned)
           /\ pc' = CASE ~IsSolvable(pruned) -> "extract"
                      [] IsSolvable(pruned) /\ index = num_indices -> "next_merge"
                      [] OTHER -> pc
    /\ index' = index + 1
    /\ UNCHANGED <<input, num_indices, merge_indices, kept>>

(* The merge strategy is asked for the next factors to merge. *)
GetNext ==
    /\ pc = "next_merge"
    /\ Cardinality(DOMAIN fts.factors) > 1
    /\ \E i, j \in DOMAIN fts.factors : i # j /\ merge_indices' = <<i, j>>
    /\ pc' = "reduce_before_shrinking"
    /\ UNCHANGED <<input, fts, num_indices, index, kept>>

AllMerged ==
    /\ pc = "next_merge"
    /\ Cardinality(DOMAIN fts.factors) = 1
    /\ pc' = "extract"
    /\ UNCHANGED <<input, fts, num_indices, index, merge_indices, kept>>

(* LabelReduction::reduce, where the options ask for it. *)
ReduceLabels(enabled) ==
    fts' = IF ~enabled THEN fts
           ELSE Reduce(fts, input.reduction.method, input.reduction.order,
                       merge_indices, num_indices)

ReduceBeforeShrinking ==
    /\ pc = "reduce_before_shrinking"
    /\ ReduceLabels(input.reduction.before_shrinking)
    /\ pc' = "shrink"
    /\ UNCHANGED <<input, num_indices, index, merge_indices, kept>>

(* shrink_before_merge_step; both target sizes are those of the sizes before. *)
Shrink ==
    /\ pc = "shrink"
    /\ LET f1 == fts.factors[merge_indices[1]]
           f2 == fts.factors[merge_indices[2]]
           new_sizes == ShrinkSizes(f1.size, f2.size, limits)
       IN  \E s1 \in ShrunkFactors(f1, input.strategy, new_sizes[1], limits),
              s2 \in ShrunkFactors(f2, input.strategy, new_sizes[2], limits) :
              fts' = [fts EXCEPT !.factors[merge_indices[1]] = s1,
                                 !.factors[merge_indices[2]] = s2]
    /\ pc' = "reduce_before_merging"
    /\ UNCHANGED <<input, num_indices, index, merge_indices, kept>>

ReduceBeforeMerging ==
    /\ pc = "reduce_before_merging"
    /\ ReduceLabels(input.reduction.before_merging)
    /\ pc' = "merge"
    /\ UNCHANGED <<input, num_indices, index, merge_indices, kept>>

(* FactoredTransitionSystem::merge *)
Merge ==
    /\ pc = "merge"
    /\ LET old == {merge_indices[1], merge_indices[2]}
           merged == ComputeDistances(
                        MergeFactors(fts.labels, fts.factors[merge_indices[1]],
                                     fts.factors[merge_indices[2]]),
                        compute_init_distances, compute_goal_distances)
       IN  fts' = [fts EXCEPT !.factors =
                    [i \in (DOMAIN @ \ old) \cup {num_indices + 1} |->
                        IF i = num_indices + 1 THEN merged ELSE @[i]]]
    /\ num_indices' = num_indices + 1
    /\ index' = num_indices + 1
    /\ pc' = "prune"
    /\ UNCHANGED <<input, merge_indices, kept>>

PruneMergedFactor ==
    /\ pc = "prune"
    /\ LET pruned == Pruned(fts.factors[index])
       IN  /\ SetFactor(index, pruned)
           /\ pc' = IF IsSolvable(pruned) THEN "next_merge" ELSE "extract"
    /\ UNCHANGED <<input, num_indices, index, merge_indices, kept>>

(* ran_out_of_time, after each step of the main loop. *)
RunOutOfTime ==
    /\ pc \in {"reduce_before_shrinking", "shrink", "reduce_before_merging", "merge",
               "prune", "next_merge"}
    /\ pc' = "extract"
    /\ UNCHANGED <<input, fts, num_indices, index, merge_indices, kept>>

(* extract_factors: the first unsolvable factor, or all that are not trivial. *)
ExtractFactors ==
    /\ pc = "extract"
    /\ LET Final(f) == IF f.h = NotComputed THEN ComputeDistances(f, FALSE, TRUE) ELSE f
           active == DOMAIN fts.factors
           unsolvable == {i \in active : ~IsSolvable(fts.factors[i])}
           extracted == IF unsolvable # {} THEN {Min(unsolvable)}
                        ELSE {i \in active : ~IsTrivial(fts.factors[i])}
       IN  kept' = {Final(fts.factors[i]) : i \in extracted}
    /\ pc' = "done"
    /\ UNCHANGED <<input, fts, num_indices, index, merge_indices>>

Next ==
    \/ PruneAtomicFactor
    \/ GetNext \/ AllMerged
    \/ ReduceBeforeShrinking \/ Shrink \/ ReduceBeforeMerging
    \/ Merge \/ PruneMergedFactor
    \/ RunOutOfTime
    \/ ExtractFactors

Spec == Init /\ [][Next]_vars

(* compute_heuristic, INF standing for a dead end. *)
Heuristic(s) ==
    LET Cost(f) == IF f.value[s] = PRUNED_STATE THEN INF ELSE f.h[f.value[s]]
    IN  Max({0} \cup {Cost(f) : f \in kept})
-------------------------------------------------------------------------------
(* What the tasks themselves say: the states that can be reached with the     *)
(* costs of their cheapest plans, and the steps between them.                *)
Reached(i) == {x[1] : x \in PathCosts(Tasks[i], FreeCosts(Tasks[i]), Tasks[i].init)}

PerfectEstimate(i, s) ==
    Min({INF} \cup {x[2] : x \in GoalCosts(Tasks[i], OperatorCosts(Tasks[i]), s)})

PerfectEstimates ==
    UNION {{<<i, s, PerfectEstimate(i, s)>> : s \in Reached(i)} : i \in DOMAIN Tasks}

TaskSteps ==
    UNION {UNION {{<<i, s, o, ReferenceSuccessor(Tasks[i], o, s)>> :
                        o \in {x \in Ops(Tasks[i]) : IsApplicable(Tasks[i], x, s)}} :
                  s \in Reached(i)} : i \in DOMAIN Tasks}

EstimatesOfTask == {x \in PerfectEstimates : x[1] = input.task}
StepsOfTask == {x \in TaskSteps : x[1] = input.task}

Active == {fts.factors[i] : i \in DOMAIN fts.factors}

(* The distances that a factor carries are those of its transitions, however *)
(* it was abstracted and its labels reduced since they were computed: taking *)
(* them over in Distances::apply_abstraction is right.                       *)
DistancesAreUpToDate ==
    \A f \in Active :
        /\ f.g # NotComputed => f.g = InitDistances(f)
        /\ f.h # NotComputed => f.h = GoalDistances(f)

(* Every factor is an abstraction of the task: the initial state, goal states *)
(* and every step between states that are not pruned have their images, and   *)
(* only states that lie on no plan are pruned.                                *)
FactorsAreAbstractions ==
    \A f \in Active :
        LET Alive(s) == f.value[s] # PRUNED_STATE
            Edge(o) == UNION {x.transitions : x \in {y \in f.groups :
                                    /\ fts.label_of[o] \in y.labels
                                    /\ y.cost <= task.operators[o].cost}}
            Images(o) == {<<f.value[x[2]], f.value[x[4]]>> :
                            x \in {y \in StepsOfTask :
                                    y[3] = o /\ Alive(y[2]) /\ Alive(y[4])}}
        IN  /\ Alive(task.init) => f.init = f.value[task.init]
            /\ \A x \in EstimatesOfTask :
                /\ x[3] # INF => Alive(x[2])
                /\ Alive(x[2]) /\ IsGoalState(task, x[2]) => f.value[x[2]] \in f.goals
            /\ \A o \in Ops(task) : Images(o) \subseteq Edge(o)

(* The estimates are lower bounds, whenever the loop was stopped, and a state *)
(* called a dead end is one.                                                  *)
EstimatesAreLowerBounds ==
    pc = "done" => \A x \in EstimatesOfTask : Heuristic(x[2]) <= x[3]

(* Exact bisimulation without a limit, with any label reduction, loses        *)
(* nothing: when all factors are merged the estimates are perfect (for tasks  *)
(* without conditional effects, which factors only approximate).              *)
UnlimitedBisimulation ==
    /\ input.strategy.name = "bisimulation"
    /\ ~input.strategy.greedy
    /\ limits.max_states > Cardinality(States(task))
    /\ limits.max_states_before_merge > Cardinality(States(task))

HasConditionalEffects == \E o \in Ops(task) : \E e \in task.operators[o].effects : e.cond # {}

BisimulationIsPerfect ==
    (/\ pc = "done"
     /\ UnlimitedBisimulation
     /\ ~HasConditionalEffects
     /\ Cardinality(DOMAIN fts.factors) = 1)
        => \A x \in EstimatesOfTask : Heuristic(x[2]) = x[3]

(* Strategies that can reach any size keep the factors within the limits, so  *)
(* that a product is no larger than max_states.  Bisimulation may not: it     *)
(* never combines states with different goal distances.                       *)
SizesWithinLimits ==
    input.strategy.name # "bisimulation" =>
        /\ pc \in {"reduce_before_merging", "merge"} =>
                \A i \in {1, 2} :
                    fts.factors[merge_indices[i]].size <= limits.max_states_before_merge
        /\ pc = "prune" => fts.factors[index].size <= limits.max_states

===============================================================================
