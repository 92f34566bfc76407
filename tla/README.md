# Forbid-iterative planning in TLA+

ForbidIterative finds several plans of a planning task by repetition: a
planner returns one plan, the task is *reformulated* so that this plan (and what
counts as the same plan) is no longer one of its solutions, and the planner is
called again on the new task. Everything rests on two promises. Each
reformulation must exclude exactly what it is meant to exclude: a plan it loses
is never found, a plan it keeps is found again for ever. And the loop around it
must keep its books (plan files, their costs, the current task) consistent
although three kinds of processes write them and any of these may be cut off.
A third promise is made by the planner that is called: the plan it returns is a
cheapest one, with symmetries, pruning and inconsistent estimates at work. These
modules state the promises and check them.

## 1. Inventory

Paths are relative to `src/`; `search/` stands for `src/search/` there.

### The reformulated tasks (`search/tasks/*_forbid_reformulated_task.cc`)

Each class wraps a task and presents another one: more binary or counting
variables, several copies of each operator with more preconditions and effects,
more goals, sometimes free auxiliary operators. The classes compute all of it
from operator indices, per call, without materialising it.

| class | forbids | added state | operator copies |
|---|---|---|---|
| `PlanForbid...` | one operator sequence | `possible`, one mark per position | not on the plan; already discarded; deviating; one per position |
| `GraphForbid...` | all paths of a plans graph | `possible`, one mark per node | not on the graph; already discarded; deviating; one per edge |
| `MultisetsForbid...` | all submultisets of several multisets | one bit per multiset, one saturating counter per operator | not on the plans; beyond all plans; one per counter value |
| `MultisetForbid...` | all submultisets of a union of plans | `possible`, one counter per operator | not on the plan; already discarded; deviating; one per counter value |
| `SuperMultisetsForbid...` | all supermultisets of several multisets | counters, a tracking variable | one per counter value; auxiliary operators that pass the multisets in order |
| `SupersetsForbid...` | all sets comparable to several sets | one bit per operator, one per set, a tracking variable | one; auxiliary operators that pass the sets in order |

What is hard: the copies of an operator must partition the reachable states (a
gap loses plans, an overlap finds plans twice), counters saturate, an operator
may occur several times on a plan, a graph may have loops, and mistakes show
only after several steps of a particular run. What makes them correct: the runs
of the new task are the runs of the parent, and its goal holds exactly when the
parent's does and the run is not forbidden.

### The plans graph (`search/plans/plans_graph.cc`, `search/forbid_iterative_search.cc`)

For top-k planning one process reads a plan and builds a graph of states and
operators whose paths are to be forbidden. State: nodes, edges by source and an
index of sources by operator, goal distances, the plans saved so far. Operations:
add a plan; search for the reorderings of its operators (depth first, with or
without duplicate detection; breadth first; or by exchanging neighbours that do
not interfere); remove what is on no cheapest path, in one of the searches also in
the middle of it (the greedy clean); apply each symmetry generator to the graph, in
rounds, until nothing changes; save ("dump") the plans on the graph, at most as many
as asked for; reformulate, or just hand out the additional plans. What is hard:
`add_symmetry` iterates over hash containers while it inserts into them; the two
indexes must agree after any order of insertions and removals; a clean-up may remove
what the search has not connected to the goal yet; and a plan that the graph forbids
but no dump saved is lost without a trace.

### The iteration (`forbiditerative/plan.py`, `iterative/planners.py`, `iterative/plan_manager.py`, `iterative/task_manager.py`)

`find_plans` calls external processes in sequence: the planner for one more
plan, for some planners an extension of that plan to its reorderings, the
reformulation; then it takes over the new task. They communicate through files:
numbered plan files and the reformulated task. State: the costs of the plans
counted so far (their number is the counter), the best known bound, the current
task. What is hard: a reformulation *forgets* the last plan so that the process
can write it again; the number of plans to ask for, whether enough plans are
found and which files are results all depend on a bound that follows the last
call; a call may be cut off and leave a truncated file; and the loop must end.

### The reformulation process (`search/forbid_iterative_search.cc`)

Before the tasks that forbid multisets or sets are made, the plans read are closed
under the generators of the symmetry group, in rounds over a frontier, with plans
counted as duplicates when their multisets are equal (or their sets comparable).
What is hard: the limit on the number of plans is looked at between generators
only, plans found in a round have to be permuted in the next by the generators
before the one that found them, and five classes are handed views of the same plans.

### The search (`search/search_engines/*eager_search.cc`, `search/search_space.cc`)

`astar` and `shortest_astar` (written for this system: it orders and reopens
by cost, then length). State: the registry of states, a node per state
(status, cost, length, parent), an open list whose entries become stale, cached
estimates, the successors still to be made. What is hard: reopening, dead ends
found on the second evaluation, operators of cost 0, a bound on real costs while
the order is by adjusted costs, pruning, states that stand for all symmetric ones
and the plan that has to be traced back through the permutations between them. It
relies on the successor generator (a decision tree over sorted preconditions), the
axiom evaluator (counters, layers), the stubborn sets (marks and shortcuts) and the
group (canonical states).

### LM-cut (`search/heuristics/*lm_cut_landmarks.cc`)

The estimate of the planner calls, in one version for tasks without and one for
tasks with conditional effects. State: the costs left, h^max with a supporter per
operator, a priority queue, the landmarks found. What is hard: after every cut the
values are repaired instead of computed again, and a supporter may have to change.

### CEGAR (`search/cegar/`)

The additive Cartesian heuristic: for every subtask (a goal, or a landmark with a
domain abstraction) an abstraction is refined along flaws of its abstract
solutions; then its goal distances become a function and the costs they need are
taken from the next subtasks. State: the abstraction with transitions in two
directions and loops, the hierarchy of splits, estimates of the abstract search,
the costs left. What is hard: transitions are rewired locally and estimates carried
over from one refinement to the next, limits may end any loop, costs may become
minus infinity, and the landmark tables shrink after they were used.

### Merge-and-shrink (`search/merge_and_shrink/`)

Starts with one factor per variable, a small transition system with a table that
maps states of the task to its states; then combines labels, shrinks two factors,
replaces them by their product and prunes it, until one is left, one is unsolvable or
the time is over. State: the labels, the factors with their label groups and
distances. What is hard: labels are replaced in all factors at once, distances are
carried over instead of computed again, label groups must stay exactly local
equivalence, and the sizes follow from three limits any of which may be missing.

### The rest

Other engines, heuristics and abstractions of Fast Downward, the computation of
symmetries with its vendored library, the translator, the driver and the scripts.
`PROJECT.json` lists each part with its status and the reason; section 8 repeats the
important ones.

## 2. Plan of the development

1. *Done first*: the six reformulated tasks against the abstract tasks
   `ForbiddingTask` and `FinishingTask`; the plans graph with the rounds over the
   symmetries; the loop of `find_plans`; the proofs for `MultisetsForbid`, whose
   class serves the unordered and top-quality planners, and for `GraphForbid`, whose
   class serves the top-k planner.
2. *Done since*: the closure of the plans under the symmetries and the composition
   of all reformulations made from the same plans (`Reformulations`); `astar` and
   `shortest_astar` with what they are built on (`EagerSearch`), which checks what
   `FindPlans` assumes of the planner (`Candidates`); LM-cut and CEGAR.
3. *Done since, too*: all searches for reorderings of the plans graph, the interaction
   of operators, the clean-up in the middle of a search.
4. *Done since, too*: merge-and-shrink with its shrink strategies and label reduction
   (`MergeAndShrink`).
5. *Proved since*: the other four reformulations and their composition
   (`Reformulations`), the safety properties of the loop (`FindPlans`), the indexes,
   the symmetries and the interchangeable operators of the plans graph, that the graph it
   hands over to `GraphForbid` has all plans saved, the interaction of operators, the search up to the
   optimality of its plan (`EagerSearch`), the costs of paths that this is measured by
   (`TaskSemantics`), LM-cut, and that merge-and-shrink is admissible (`MergeAndShrink`).
6. *Next proofs*: `DistancesAreUpToDate` of `MergeAndShrink` (that the distances carried over are
   also the greatest that no transition contradicts, and that shrinking keeps them so);
   `TransitionsAreInduced` of `CEGAR`, whose modules would have to do without `RECURSIVE` first;
   `ForbidsWholeOrbits`, whose closure would have to be written as a state machine.

## 3. Modules

`ParentTask` is the task a reformulation delegates to: a set of states, a set of
operators and a partial transition function, for any planning task. It is all
that the reformulations use of the parent, because they only ever add to
preconditions, effects and goals.

`ForbiddingTask` is the abstract specification of a reformulation that is watched
after every operator: the state of the parent, a *history* of the run and whether
the run is accepted. Its parameters say what a history is (`EmptyHistory`,
`Extend`) and which ones are forbidden. `FinishingTask` is its counterpart for
the two classes that look at a run only at its end: a run ends with `Finish`, and
only if its history is not forbidden.

| module | code | state | actions |
|---|---|---|---|
| `PlanForbid` | `plan_forbid_reformulated_task.cc` | `possible`, `following` (per position) | one per operator type: `NotOnPlan`, `AlreadyDiscarded`, `Discard`, `Follow` |
| `GraphForbid` | `graph_forbid_reformulated_task.cc` | `possible`, `following` (per node) | the same, `Follow` along an edge |
| `MultisetsForbid` | `multisets_forbid_reformulated_task.cc` | `max_count`, `still_possible`, `counter` | `ReadMultiset` (the constructor's loop), `NotOnPlans`, `BeyondPlans`, `CountingOp` |
| `MultisetForbid` | `multiset_forbid_reformulated_task.cc`, `create_reformulated_task_multiset` | `forbidding_multiset`, `possible`, `following` | `UnionWithPlan`, then one per operator type |
| `SuperMultisetsForbid` | `super_multisets_forbid_reformulated_task.cc` | `max_count`, `counter`, `tracking` | `ReadMultiset`, `Copy`, `AchieveGoal` |
| `SupersetsForbid` | `supersets_forbid_reformulated_task.cc` | `op_applied`, `outside_applied`, `tracking` | `ApplyOriginal`, `AchieveGoal` |
| `ForbidIterativeSearch` | the closure and the choice of tasks in `forbid_iterative_search.cc` | none: a function of the plans read | `Closure`, `Reformulation` |
| `Reformulations` | the tasks made from the same plans, composed | those of the five modules above but `GraphForbid` | `Construct`, `ApplyCopies`, `AchieveSuperGoal`, `AchieveSetGoal` |
| `PlansGraph` | `plans_graph.cc`, the graph part of `forbid_iterative_search.cc` | `nodes`, `edges`, `origins`, `goal_distance`, the stack of the search, the plans saved, the position in the rounds | `AddPlan`, `DumpFirstPlan`, `Expand`, `GreedyClean`, `DumpIntermediate`, `BeginNeighbours`, `ExpandBreadth`, `EndNeighbours`, `RemoveNonPlans`, `DumpReorderings`, `BeginRound`, `VisitNode`, `EndSweep`, `NoMoreRounds`, `DumpLastPlans`; `Stop` is the only step of a process that has exited |
| `OperatorInteraction` | `operator_interaction.cc` | none | `InterferingPair` |
| `FindPlans` | `plan.py`, `planners.py`, `plan_manager.py`, `task_manager.py`, `step` of the search | `files`, `plan_costs`, `best_known_bound`, `forbidden`, `reformulated`, `pc` | one per call and outcome (`PlannerFindsPlan`, `PlannerIsInterrupted`, ...), `AddTask`, `Finalize` |
| `FDRTask`, `TaskSemantics` | task proxies, `axioms.cc`, `get_successor_state`; and their meaning by definition, to compare with | none | `Successor`, `Evaluate`; `ReferenceSuccessor`, `GoalCosts` |
| `SuccessorGenerator` | `successor_generator_factory.cc` | none | `GenerateApplicableOps` |
| `StubbornSets` | `stubborn_sets.cc`, `..._simple.cc`, `..._atom_centric.cc` | none | `SimpleStubbornSet`, `AtomCentricStubbornSet` |
| `SymmetryGroup` | `group.cc`, `permutation.cc` | none | `Canonical`, `FromStateToState` |
| `SearchSpace` | `search_space.cc` | none | `NodeReachedBy`, `TracePathWithSymmetries` |
| `EagerSearch` | `eager_search.cc`, `shortest_eager_search.cc`, open list, registry | `registry`, `nodes`, `estimates`, `open_list`, `node`, `applicable_ops`, `plan` | one per exit of the loops of `step`: `SkipEntry`, `FindDeadEnd`, `Reevaluate`, `ReachGoal`, `Expand`; `OverBound`, `MarkDeadEnd`, `Open`, `Reopen`, `UpdateParent`, `KeepOldPath`; `TimeOut` |
| `LandmarkCut` | `lm_cut_landmarks.cc`, `ce_lm_cut_landmarks.cc` | `h_max_cost`, `queue`, `unsatisfied`, `supporter`, `supporter_cost`, `pending` (the operators still to be repaired), `cost`, `landmarks` | `PopFirst`, `EndFirst`, `FindCut`, `PopIncremental`, `Repair`, `EndIncremental`, `EndLoop` |
| `CartesianAbstraction`, `AbstractSearch`, `Landmarks` | `abstraction.cc`, `transition_system.cc`, `refinement_hierarchy.cc`; `abstract_search.cc`; `landmark_factory_h_m.cc` with m = 1 | none | `RefineState`; `FindSolution`, `Distances`; `LandmarkTable` |
| `CEGAR` | `cegar.cc`, `cost_saturation.cc`, `subtask_generators.cc`, the modified tasks | `abstraction`, `h`, `valueMap`, `remainingCosts`, `functions`, subtasks left | `Generate`, `StartSubtask`, `SeparateFacts`, `MarkGoals`, `Refine`, `StopRefining`, `FinishRefinement`, `Saturate`, `Abort` |
| `FactoredTransitionSystem`, `ShrinkStrategies` | `factored_transition_system.cc`, `transition_system.cc`, `fts_factory.cc`, `labels.cc`, `label_*.cc`, `distances.cc`, `merge_and_shrink_representation.cc`; `shrink_*.cc`, `utils.cc` | none | `MergeFactors`, `ApplyAbstraction`, `ApplyLabelMapping`, `Reduce`; `Bisimulations`, `BucketAbstractions` |
| `MergeAndShrink` | `merge_and_shrink_algorithm.cc`, `merge_and_shrink_heuristic.cc` | `fts`, `num_indices`, `merge_indices`, `kept` | `PruneAtomicFactor`, `GetNext`, `ReduceBeforeShrinking`, `Shrink`, `ReduceBeforeMerging`, `Merge`, `PruneMergedFactor`, `RunOutOfTime`, `ExtractFactors` |

Proofs stand in modules of their own: `GraphForbidProofs`, `ReformulationsProofs` (the
other five tasks, and all of them together), `FindPlansProofs`, `PlansGraphProofs`,
`EagerSearchProofs`, `LandmarkCutProofs`, `MergeAndShrinkProofs`; and `TaskLemmas` with what they
share: what holds of planning tasks (successors, paths, the interaction of operators), of
sets of numbers and of functions defined step by step.

In the reformulations a behaviour is a run of the *reformulated task*: a step is
the application of one operator copy, enabled by the preconditions that
`get_operator_precondition` adds and changing what `get_operator_effect` adds. The
`Pre...` operators are those preconditions by themselves, so that the properties
can speak of copies that the parent's preconditions happen to disable. History
variables (`plan`, `walk`, `applied`, `used`) remember what was really applied and
guard nothing but the bounds.

In `PlansGraph` the containers are sets, and what the C++ leaves open about
iterating over an unordered container while inserting into it is a choice: a
sweep visits the nodes in any order, may stop before nodes when the container
grew, and may miss edges of the very node it inserts into.

In `FindPlans` a plan is an element of a set with a cost, a length and the plans
that count as the same one (`Reorderings`); a file holds a plan or is
`Incomplete`. The processes are seen through the files they write: which plan
the planner may return (`Candidates`: a cheapest one, and a shortest one of those
for the planners that ask for `shortest_astar`), from which number files are
written (`SavePlans`), which plans a reformulation excludes.

`Reformulations` runs five reformulations of the same plans in lockstep, on what the
process hands to their constructors: for every operator of the parent each task
applies its one copy that is open. So the promises of all classes are checked on
the plans that the closure really makes, and the tasks can be compared with one
another. Two plans are comparable as sets only when iterations cannot produce
them together (a set found later is incomparable to all that were forbidden), and
the closure drops such plans; whole orbits of sets are forbidden in the other
cases (`SetsAreIncomparable`).

`EagerSearch` is parameterised by a *problem*: a task, the options of the engine, a
table of estimates, a second table for an evaluator that learns, generators, and
which operators the pruning method keeps. Estimates and stubborn sets are functions
of the state, so that tables cover the tables a heuristic could give; the
stubborn sets and the applicable operators are those the two modules compute. Only
the order in which the code visits things is kept where it decides something: the
buckets of the open list, the order of the successors, the numbers of states.

`LandmarkCut` keeps the order of the queue open among equal costs, and the order in
which the operators of a proposition are repaired. `CEGAR` keeps
open which split is taken, in which order subtasks come, where a limit is reached
(`StopRefining`, `Abort`) and whether general costs are used; the queues of the abstract
search are exact, since ties decide which flaw is found. `MergeAndShrink` merges any
two factors, which is what any merge strategy may ask for, and keeps open the random
choices of the bucket strategies and the order in which bisimulation splits groups.

Operators whose comment begins with "Mutation of" are not part of the models:
each is a plausible mistake in the definition it names, and with it in place a
run reports the property it is listed with (`mutants` in `PROJECT.json`).

## 4. Runs

`reformulations` and `cegar` take about a minute and a half each, `search` a minute,
`find_plans`, `plans_graph` and `merge_and_shrink` about half a minute, the others
seconds.

| run | instance | checked | distinct states |
|---|---|---|---|
| `graph` | every partial edge function over 2 nodes and 2 operators, with or without an operator whose edges were all removed; one larger graph; runs of up to 5 | `TypeOK` `MarksTheWalk` `ExactlyOneCopy` `ImplementsForbiddingTask` | 4610 |
| `reformulations` | one or two plans of up to 4 operators out of 4, two generators, with and without a limit; runs of up to 4 and auxiliary operators | `TypeOK` `StillPossibleIffContained` `ExactlyOneCopy` `GoalIsAchievable` `ForbidsWholeOrbits` `ImplementsForbiddingTask` `TasksImplementPromises` | 86238 |
| `plans_graph` | 2 plans with a detour and interleaved operators, 5 limits on the number of plans; 2 plans under 3 generators, 4 limits; a delivery of two packages in finite-domain representation, 2 plans, with and without generators, every search for reorderings, additional plans, greedy cleans after 0, 2 and 4 edges | `IndexesAgree` `SavesAllReorderings` `ClosedUnderSymmetries` `ForbidsOnlySavedPlans` `ForbidsAllSavedPlans` `NeverCriticalError` `Terminates` | 8801 |
| `find_plans` | 7 command lines over 6 plans (see below), every cost up to 2, every tie, every call possibly cut off | `CountedPlansAreOnDisk` `NoPlanTwice` `NeverCrashes` `CopiesTopK` `CopiesTopQuality` `LosesAtMostTheLastPlan` `Terminates` | 84087 |
| `search` | 5 graphs with every table of estimates that is 0, half or all of the perfect one; learning evaluators; options; 4 symmetric tasks with orbit space search; all tasks of 4 out of 8 operators with 9 pruning methods; axioms and conditional effects | `FindsCheapestPlan` `GivesUpOnlyWithoutPlan` `OpenNodesAreQueued` `ClosedNodesAreRelaxed` | 18956 |
| `lmcut` | all tasks of 5 out of 9 operators, some free, some with conditional effects | `HMaxIsUpToDate` `LandmarksAreAdmissible` | 9461 |
| `cegar` | 3 tasks, by goals, by landmarks, by both, or twice the original | `TransitionsAreInduced` `EstimatesStayBelowDistances` `SumIsAdmissible` `LandmarksAreInOrder` | 17698 |
| `merge_and_shrink` | 4 tasks (costs of 0, dead ends, conditional effects, bisimilar values), 4 shrink strategies with limits given and missing, label reduction with one or all factors, in regular, reverse and shuffled orders, pruning; every merge order, stopped anywhere | `DistancesAreUpToDate` `FactorsAreAbstractions` `EstimatesAreLowerBounds` `BisimulationIsPerfect` `SizesWithinLimits` | 97766 |

What they show. *Reformulations*: each class forbids exactly what it should, in
both directions, its operator copies partition the states, and whole orbits are
forbidden. *Plans graph*: for
the tasks of the run, every reordering that visits no state twice is saved before
it is forbidden; the graph is closed under the symmetries however the containers
are iterated; and a plan that is forbidden was saved. Every search the options
offer keeps what it promises: all reorderings, or those that exchange neighbours which do not interfere; every plan saved is excluded
by the graph, and a greedy clean may leave reorderings to later iterations but
loses none. *Loop*: the books match the
folder all along; every iteration excludes all plans counted and only those (and
what counts as the same); top-k results are k best plans and unordered
top-quality results stand for exactly the plans within the bound; if a call is
cut off, the top-k planner loses at most the plan it was working on; if the handler of
the failed call fails as well, nothing is copied, but those plans are still counted and in their files. *Search*: the
plan returned is executable, cheapest, and shortest where that is asked for; the
search ends without a plan only if there is none below the bound; it keeps an entry
for every open node that is not known to be a dead end, and no edge of a closed node is
better than what is known of its target. *LM-cut*: the repaired values are
those of a new exploration, and no plan is cheaper than the cuts. *CEGAR*: the
rewired abstraction is the one the operators induce, the estimates carried over from
round to round never exceed its goal distances (so that every solution refined along is a
cheapest one), and no sum of the functions exceeds the cost of a plan. *Merge-and-shrink*: every factor stays an
abstraction of the task with exact distances, whatever was merged,
shrunk, reduced and pruned before; the estimates are lower bounds whenever it stops;
and without limits exact bisimulation with any label reduction makes perfect ones.

### Bounds, and why they are enough

- *Reformulations*: a parent task with three states on a cycle and operators that
  go forward, backward and (one of them) only from one state, so that runs reach
  the goal in many ways and some copies are disabled by the parent. Multiplicity 2
  is the first at which counters have an inner value; 4 applications go beyond every
  counter and past the saturation; two multisets are enough for every case of one
  that is discarded while the other is not. Four positions on a plan allow the
  same operator three times and every overlap of positions. Two generators that
  commute make orbits of up to eight plans, which take two rounds. The proofs of
  section 6 remove these bounds from every property but `ForbidsWholeOrbits`, and
  likewise those of the loop, and those of the plans graph and the search as far as
  section 6 goes.
- `MaxSteps` and `MaxApplications` bound the runs in the guards; but for
  `MaxFunctions` below no other guard is added to the code's.
- *Plans graph*: the task has a detour that costs more (so that pruning matters), an
  operator of cost 0, states from which the search for reorderings meets a state
  of its own path, and generators that move states, that keep all states and
  exchange operators, and that need several rounds. The limits lie below, at and
  above the number of plans. The delivery has pairs of operators that commute, that
  disable one another on one side only and that conflict. `MCPlansGraph` assumes, and TLC
  evaluates, that the plans read are cheapest ones by a lower bound that they meet, so that the
  instance is one of `SavedPlansAreForbidden` (section 6).
- *Search*: graphs of four to six states have a cheaper path found late, cycles of
  cost 0, equal costs with different lengths and a goal out of reach, and the
  tables of estimates make every node be closed too early somewhere. Four
  operators over two variables give the enabling, disabling and conflicting pairs
  that stubborn sets are built from. Two balls, three tokens and two sides need
  permutations to be composed along a plan. The number of operators generated is
  not bounded: the search ends by itself. `MCEagerSearch` assumes `IsAdmissible` of the graphs
  and the learning problems, which TLC evaluates: with the operators that the successor
  generator gives, they are instances of the two theorems about the classic search
  (section 6).
- *LM-cut*: three variables and five operators give up to four cuts and supporters
  that change; nothing is bounded.
- *CEGAR*: three variables with up to four values, operators of cost 0, loops, a dead
  end and a landmark that has to be left again; `MaxFunctions` bounds the number
  of functions (the code bounds their sizes), so that costs are saturated three times.
- *Merge-and-shrink*: three variables give two merges, after each of which labels can
  be reduced for up to five factors; the limits of 2 to 7 states lie below and above
  the sizes of the factors (up to 16), so that each of the cases of
  `compute_shrink_sizes` occurs. Labels are reduced in the regular and in the reverse order of
the factors and in shuffled ones (`IsSystemOrder`: any permutation, since `RANDOM`, the default,
shuffles once); the runs take two of them, the proofs any. Nothing is bounded. The proofs of section 6 remove these bounds from
  `FactorsAreAbstractions`, `EstimatesAreLowerBounds` and `SizesWithinLimits`.
- *Loop*: six plans, three of which count as the same and two of which are a plan
  and a submultiset of it, with all costs up to 2, give every order in which plans
  of equal and different cost may come; the limits (4 and 5 plans, 2 plans together with
  a bound, quality bounds 1.5 and 2) stop the loop inside, at and beyond a group of equal
  plans. The command lines are two of top-k planning, two of unordered top-quality
  planning, and one each of the planners that extend plans or go through top-k.

### Fairness

Only `FindPlans` and `PlansGraph` have liveness properties. The code is sequential:
`Fairness` in `PlansGraph` says that the process is not stopped between two
steps of its own loop (it is weak fairness of `Next`, written with `Running`, the
states from which the loop goes on, since `ENABLED` of the whole loop is costly; that
such a state always has a next step is checked as the absence of deadlock). In `FindPlans`, `WF_vars(Calls)` says that a call that is
made returns; the outcomes in which a call is cut off are not part of the
fairness, so that the loop has to end without them. The other runs need none: they
state safety, and that a search does not go on for ever follows from
`NodesOnlyImprove` (theorem `NodesImprove`, section 6) over finitely many states rather
than from the scheduling.

## 5. Where code and comments differ

Four runs expect a violation; each checks one property that a comment, a check or
the README of the repository states (`findings` in `PROJECT.json`):

- `find_topk_extending`: top-k planning via unordered top-quality loses the plan it
  extends, because the file number passed to the extension is that of the plan it
  has just forgotten while the called process takes that plan as saved.
- `find_topq_via_topk`: `finalize` of top-quality planning via top-k copies the plans
  up to the best known bound, which has become the cost of a plan beyond the
  quality bound.
- `search_dks`: with duplicate detection by canonical states, tracing a plan compares
  numbers of states of two registries (`search_space.cc:200`); when they happen to be
  equal, the identity is taken for the permutation between different states, and
  the plan that comes out costs 6 where there is one of cost 2. The planner calls of
  this repository ask for orbit space search, for which the run `search` holds.
- `search_pruning`: the check that refuses conditional effects is commented out
  (`stubborn_sets.cc:41`), but interference ignores effect conditions: the search
  ends without the plan of a task with two operators.

Smaller ones met on the way, without a run of their own:

- With a cycle of operators of cost 0 `GraphForbid` excludes walks around the cycle
  which no dump saved (dumps follow no state twice).
- When a split brings the number of groups exactly to the limit, bisimulation stops in
  the middle of it (`shrink_bisimulation.cc:335`): the last new group gets one state,
  and states with its signature stay behind with others.
- A missing threshold for shrinking becomes `max_states`, and the assertion that it is
  at most `max_states_before_merge` fails. In a build without assertions factors above
  that size are shrunk all the same (`SizesWithinLimits` holds), because
  `shrink_factor` also looks at the target size.
- `plans_graph.cc:121`: for a task that starts in a goal state the empty plan adds no
  node, and the reformulation ends with the check on the initial state at
  `graph_forbid_reformulated_task.cc:57-60`.
- `planner_call.py:157`, `:164`, `:200` and `:202` pass options of `limited_pruning` to
  `stubborn_sets_simple`, whose parser declares none; `option_parser.cc:165-168`
  rejects keywords that were not declared.
- A comment in `cegar/abstraction.cc` (lines 99-100) says that the second half of a
  split is never the new initial state and the first never a goal state. In
  `separate_facts_unreachable_before_goal` (`cegar.cc:118-139`) the second half
  collects the unreachable values, so the first half keeps the initial state and may
  be the goal state as well. The code handles all four cases (`abstraction.cc:102-125`)
  and does not rely on the comment.
- `search_engine.cc:92` reads the timer after a step that solved the task: the status
  is then a time-out although a plan was set (`FindsCheapestPlan` is about plans that
  were set, whatever the status).
- `supersets_forbid_reformulated_task.h:12` speaks of supersets only; plans whose
  operator set is a proper subset of a given set cannot finish either
  (`SupersetsForbid!IsForbidden` is comparability, and the run holds with it).
- `super_multisets_forbid_reformulated_task.h:12` says "subset"; the class forbids
  supermultisets (`SuperMultisetsForbid!IsForbidden`).
- `multisets_forbid_reformulated_task.cc:90` asserts that the counting variable is
  looked up for copies of type 2 only; `get_operator_precondition` (line 272) looks
  it up for type 1. `multiset_forbid_reformulated_task.cc:155` asserts fact values
  of at most 1 for counters that go up to a multiplicity.
- `plan_manager.py:249` says that the bound can only improve; it follows the last
  plans found and rises.
- `plan_manager.py:297`: `delete_existing_plans` deletes only counted plans, of which
  there are none when it is called. Left files would be counted with the first new
  plan. The runs start in an empty folder, which the scripts create.
- `planners.py:554` adds 1 to a bound that is `None` when no plan was found: a crash
  where `plan.py:73` calls the failure of the planner normal. `NeverCrashes` is stated
  for the iterations in which no call is cut off.
- `plan.py:64` and `:157` decode the output of a call that failed, which is `None` if its time
  ran out before it wrote any: the handler raises, and nothing is finalized or copied
  (`PlannerIsInterrupted` may end in `crashed`; `LosesAtMostTheLastPlan` says what is left then).
- `planners.py:654`: with `--symmetries` the extension of a plan writes symmetric plans
  as well, while the reformulation of the planners that extend passes no symmetries on:
  a plan that counts as found may be found again.
- A multiset reformulation that is cut off while it writes the counted plans again
  leaves one of them truncated, and `finalize` copies it: `CountedPlansAreOnDisk`
  states how far the damage goes.

## 6. What is proved

Every theorem holds for every value of the constants that meets the assumptions named
with it; TLC evaluates those in the runs, so that they hold of the instances there.
The inductive invariants were checked by TLC before they were proved; that of merge-and-shrink, which
speaks of paths of any length, with the cheapest ones only.

### The reformulations

The first part of `ReformulationsProofs` is about `MultisetsForbid`. It holds for every
parent task, every sequence of multisets and every bound; the assumptions are `ParentAssumption` (initial state and
successors are states) and `MultisetsAssumption` (multisets are functions into the
naturals).

- `Invariance`: the inductive invariant `IInv`. `TypeOK` and
  `StillPossibleIffContained` are not inductive: that a copy of type 1 may discard
  all plans needs that a saturated counter has seen as many applications as any
  multiset allows. The missing facts are `MaxCountIsUpperBound` (`max_count` bounds
  the multisets *read so far*, which is what the constructor's loop preserves),
  `CounterSaturates` (a counter is the minimum of the true number of applications
  and `max_count`), and `NothingAppliedWhileReading` (so that raising `max_count`
  does not break the second). One lemma per action; `ContainedAfter` says what one
  more application means for containment and is shared by all.
- `TypeCorrect`, `PossibleCorrect`, `CopiesPartition`: the three invariants of the run.
- `ForbidsExactlyTheSubmultisets`: refinement of `ForbiddingTask`. From the invariant
  follows that the goal facts hold exactly for goal states with a run that is not
  contained (`GoalForbidsContained`); then reading is a stuttering step and every
  copy maps to `Apply` of its operator.

`GraphForbidProofs` holds for every parent task, every set of graphs and every
length of a run, from `ParentAssumption` and `GraphAssumption` (the two indexes of
a graph agree, which `HandsOverGraph` below proves of `PlansGraph`; no node is called
`Nowhere`).

- `Invariance`: `IInv == TypeOK /\ MarksTheWalk` is inductive. The step that needs
  care is `Follow` along an edge that loops: the mark is reset before it is set.
  A copy of type 2 needs that the index of origins and the edges agree
  (`GraphFacts`), since its precondition is about the former and the walk about the
  latter.
- `TypeCorrect`, `MarkCorrect`, `CopiesPartition`: the invariants of the run.
- `ForbidsExactlyThePaths`: refinement of `ForbiddingTask` with the walk as history.

The rest of `ReformulationsProofs` does the same for the other four tasks and then for all
five that `Reformulations` runs in lockstep. Its assumption, `ReformulationsAssumption`, says
that the inputs are what the closure makes of the plans read; the assumptions of the
single tasks are that plans are sequences, multisets functions and sets sets of operators.

- `PlanForbid` (`PlanInv`): while the run is possible, it is a prefix of the plan and the
  mark stands at its end; a run that was discarded is no prefix any more. The operator may
  occur at several positions, so the copies are told apart by the mark alone.
- `MultisetForbid` (`UnionInv`): the counters are the exact numbers of applications
  while the run is possible. The union grows plan by plan before the first operator.
- `SuperMultisetsForbid` (`SuperInv`): as in `MultisetsForbid`, counters are minima
  with `max_count`; the tracking variable has passed only multisets which the run does not
  contain, and after it has begun to move nothing is applied any more.
- `SupersetsForbid` (`SetInv`): each set is marked when an operator outside it was
  used, and passed only when it is incomparable to the operators used.
- For each: the copies partition the states, and the task implements `ForbiddingTask` or
  `FinishingTask`. `SuperGoalIsAchievable` and `SetGoalIsAchievable` are the other half
  of `FinishesNo...`: the auxiliary operators never get stuck before a multiset or set that
  does not forbid the run.
- All together: a step of `Reformulations` is a step, or a stutter, of each task
  (`ApplyCopies` opens exactly one copy in each, since the copies partition), so that
  each task's `Spec` follows from `SpecAll` and with it its theorems
  (`AllTasksImplementPromises`, `GoalsAreAchievable`, `MultisetsCorrect`).

### The loop

`FindPlansProofs` assumes `FindPlansAssumption` (finitely many plans; what counts as
the same plan costs the same and is excluded with it; what a multiset reformulation excludes
besides is shorter and no more expensive; the options are those that `validate_input` lets
through), that the folder is empty at the start (section 5 says why), and that
the task is solvable (an unsolvable one runs into `planners.py:554`, section 5). The
planners that extend are without `--symmetries`, as said in section 5.

`IInv` goes through every call and every way in which one is cut off:
`CountedPlansAreOnDisk` with `FilesAreCounted` (which files are counted at which call, and
which one may be truncated), `CostsFollowTheBound` and `OpenPlansCostMore` (the costs
counted ascend, and no plan left open undercuts them: this is where `Candidates` is used),
`GraphTaskExcludes` and `MultisetTaskExcludes` (the task in use and the one just made exclude
the counted plans, except the one just forgotten), `FoundPlansAreCounted`,
`LosesAtMostTheLastPlan`, `EndsWithBound`. None of the run's properties is inductive
without the others: that a plan is not counted twice needs what the task excludes, which
needs which files were read, which needs what the last call left behind.

- `BooksMatchFolder`, `PlansAreCountedOnce`, `OperationsSucceed`, `LosesAtMostOnePlan`:
  the invariants of the run. The last one includes the handler that fails.
- `TopKCorrect`, `TopQualityCorrect`: what is copied at the end, from two more
  invariants, `TopKInv` and `TopQualityInv`, which say why the loop ended. A
  cheapest open plan exists because the costs are numbers (`SmallestNumber`).

### The plans graph

`TaskLemmas` proves `InterchangeableOperators` for tasks without
axioms and conditional effects, which is what the predicate is defined on: two operators
between which it sees no interference stay applicable after one another and commute.

`PlansGraphProofs` assumes `ParentAssumption` and `PlansGraphAssumption`: the
generators are symmetries, operators that do not interfere stay applicable (which
`InterchangeableOperators` justifies), the plan read can be executed, states and operators are
finitely many.

- `IndexesCorrect`: edges are transitions of the task, and the indexes agree. That pruning
  keeps this needs that the goal distances it looks at are settled (`Settled`): removal
  by the index of origins and by the edges would otherwise differ. The proof uses only what
  a finished Dijkstra search guarantees; that one exists is left to TLC, which computes it.
- `InterchangeableApply`: the breadth-first search over a group of operators never
  exits with the critical error. `BreadthInv` says that each queued state can be left by
  each operator that was not passed on the way to it, although the vector of passed positions is
  overwritten by the last way.
- `SymmetriesCorrect`: `SweepInv` says that a sweep without a change has found the
  counterpart of every edge of the nodes visited, and a round without a change leaves the graph
  closed under the generators before the present one. That a sweep may skip nodes after
  the containers grew does no harm, because then there was a change and another round comes.
- `HandsOverGraph`: the graph is one that `GraphForbidProofs` assumes. So the two
  theorems compose: what the process hands over is what the task forbids.
- `SavedPlansAreForbidden`: `ForbidsAllSavedPlans` as the run states it, when the plan read is one
  of the cheapest of the task. `IsCheapest` says this by a lower bound: numbers that are 0 at goals, that no
  operator lowers by more than its cost and that are at least the plan's cost at the initial state.
  Then no plan of the task is cheaper (`CheapestIsLeast`), and where none is, the costs to the goal,
  cut off at the plan's, are such numbers. `SavedInv`: every plan saved is a walk to a goal on the
  graph that meets no state twice. Dumps save only such walks (`SimplePlansAreWalks`), searches and
  symmetries only add edges, and a clean-up, in whichever search and whatever it has not connected yet,
  keeps every edge of them (`CleaningKeepsCheapestWalks`): along a walk as cheap as the plan the settled
  distances are exactly what is left of its cost, not more because the walk itself is on the graph and
  not less because the task has no cheaper plan (`DistancesAreBounds`). Without that hypothesis the theorem would be
  false: the clean-up keeps what is on cheapest paths only, while the dumps save what costs as much as the
  plan read. At the end a walk without repetition is no longer than the graph has nodes
  (`SimpleWalksAreShort`), so it is among the paths (`WalksArePaths`).

### The search

`EagerSearchProofs` assumes `EagerSearchAssumption`: costs and estimates are naturals,
successors and canonical states are states, pruning keeps a sequence of operators, and
`NoOperator` is none of them. Nothing is
assumed of the estimates (they may be inadmissible, inconsistent and change once), of
the generators or of the pruning; where a theorem needs more, its statement says so.

- `Invariance`: besides types, every state is registered once and with `DKS` every orbit
  (`RegistryInv`); `ControlInv` says what each status goes with; `NodeInv` that a reached node
  has numbers, an estimate that the evaluator really gives, and, with real costs, the cost that is
  compared with the bound; `StartInv` that the initial state is known at no cost unless it is a dead
  end; `EntryInv` that no entry, however old, promises more than is known of its node;
  `SortedInv` that the entries are sorted. With `OpenNodesAreQueued` and
  `ClosedNodesAreRelaxed` these are inductive. The actions that change one node are
  instances of one `NodeStep`, for which most of the work is done once
  (`NodeStepPreserves`); what remains per action is the edge it adds.
- `QueueCorrect`, `ClosedRelaxed`: the properties of the run. `NodesImprove`: what is known of a
  node only improves.
- `FailsOnlyWithoutPath`, `FindsCheapestGoal`: for `reopen_closed` and real costs. A
  *path of the search* (`IsSearchPath`) uses the operators that pruning keeps and the states
  registered for others, stays below the bound, and no evaluation of a state on it exceeds
  the cost of its rest; estimates elsewhere are arbitrary. On such a path the
  first state is known (`PathStarts`), behind a closed node the next is (`PathContinues`, from
  `ClosedNodesAreRelaxed`), so that one is open (`OpenOnPath`) with an entry that promises
  no more than the path costs (`EntryOnPath`). An empty open list therefore refutes every path, and
  the first entry, if it is the goal's, is as good as any: in cost, and for
  `shortest_astar` in length.
- `PathInvariance`: what the parents of nodes are worth while nodes get better paths.
  `PathInv`: the parent of a node, as it is *now*, and its operator promise a path that is
  as good as what the node knows; it may be better, because the parent was improved after the
  node. `AncestryInv`: no set of nodes has all its parents within itself. Operators may cost
  nothing, so costs alone do not show this. It is kept because a node gets another parent only if that
  makes it strictly better, in cost or, for the shortest search, at the same cost in length: a
  descendant, which is never better than the node, cannot do so.
- `PlanIsPlan`: what the search sets as its plan is one, for a task without axioms and
  symmetries if pruning keeps applicable operators only (`IsPlain`), with any estimates, adjusted or
  real costs, reopening or not. By `AncestryInv` a trace never meets a node twice, so it fits
  into the registry (`TraceIsShort`) and `NodeTrace`, which extends it as many times, ends at the
  initial state (`TraceIsComplete`). Along it `PathInv` adds up: the plan costs no more than the
  goal node says (`TraceIsPlan`).
- `PathCostsAreLeast` (in `TaskLemmas`): `PathCosts`, the definition that optimality is
  measured by, is exact. Each of its rounds improves all states by one step; it stops after as
  many rounds as there are states, while paths may be of any length. `RoundSettles`: among the states that
  a round has not settled, one with the least path of all has its predecessor on that path settled, so
  the round settles it; after the last round none is left. `PathCostsAreReal` is the converse.
- `ClassicSearchIsOptimal`, `ClassicSearchIsComplete`: `FindsCheapestPlan` and
  `GivesUpOnlyWithoutPlan` as the run states them, for the classic search (`IsClassic`:
  `IsPlain`, no applicable operator pruned, real costs, reopening, and estimates, even
  when they are improved later, that no plan from the state undercuts). Whatever else
  the estimates do, and for every bound and both searches. A cost in `GoalCosts` belongs to a path of the task
  (`PathCostsAreReal`); what is left of it from each of its states is again a path
  (`SuffixPath`), so by `PathCostsAreLeast` the estimate there does not exceed it, and it is a
  path of the search (`GoalPathIsSearchPath`). Then `FindsCheapestGoal` and `TraceIsPlan`, or
  `FailsOnlyWithoutPath`, apply.

The attempt to prove `OpenNodesAreQueued` in its first form failed for a reason: a node that is
opened again is evaluated then, and if the evaluator finds it dead at that moment, `OpenList::insert`
(`open_list.h:147`) leaves it out although its status is `OPEN`. The model had inserted it;
`InsertEntry` is the correction, the property now excepts such nodes, and an instance in which they
occur was added to the run. `FindsCheapestPlan` was too strong in its first form: with adjusted
costs and a bound, which is about real costs (`eager_search.cc:223`), a plan that is cheaper by
adjusted costs may be above the bound. It claims optimality now where the costs are real or there
is no bound.

### LM-cut

`LandmarkCutProofs` assumes `LandmarkCutAssumption`: well-formed tasks without axioms, with
or without conditional effects. Costs of 0, empty preconditions and states in which the goal
holds already are included.

- `ExplorationInvariance`: the inductive invariant `ExploreInv`. Two of its parts carry the
  rest. `SupportInv` bounds the values from above: what an operator was reached for is at
  least what its preconditions cost, its effects cost no more than that and the operator, and
  where the supporter has become cheaper this is still waiting, in the queue or among the
  operators to be repaired. `SoundInv` bounds them from below, and is not about the
  computation at all: whenever costs of a set of propositions *explain themselves* (each
  is 0 in the state or due to an operator and one of its preconditions), h^max reaches
  nothing else and at no lower cost. Written so, it survives a change of the costs of
  operators without knowing what was computed before.
- `HMaxStaysUpToDate`: when the next cut is to be found, both bounds meet in the fixpoint by
  which `HMaxIsUpToDate` defines h^max. That its rounds reach the fixpoint within as many
  rounds as there are propositions (`NothingIsLeft`): if a round settled no further value, the cheapest ones missing
  could be raised by one and would still explain themselves, against `SoundInv`.
- `LandmarksShareCosts`: each landmark *separates* (`CutInv`): a set of propositions holds the
  state and not the goal, and only operators of the landmark lead out of it. The code looks at
  supporters only, backwards from the goal and forwards from the state; that is enough because a
  supporter outside the set is a precondition outside the set. `CostInv`: what the landmarks took from an
  operator and what is left is its cost.
- `LandmarksStayAdmissible`: `LandmarksAreAdmissible` as the run states it. Along every path
  of the task the first operator that leaves the separating set is one of the
  landmark (`CutOffFromGoal`), so the path pays for it (`PathsPayForLandmarks`), and by `CostInv`
  no operator pays twice. A dead end of the relaxed task is one of the task (`DeadEnd`).

### Merge-and-shrink

`MergeAndShrinkProofs` assumes `MergeAndShrinkAssumption`: well-formed tasks without axioms and with
at least one variable, limits that the option parser accepts, effect conditions that ask for one value of a variable
(`ConsistentConditions`; the code keeps the last one it reads), and `PlanCostsBelowINF`: no plan costs
as much as an `int` can hold. The code adds costs without a test, and the model adds numbers without
overflow: distances off the plans that exceed an `int` are outside of it. Conditional
effects, costs of 0, any strategy, any limits, any method and order of label reduction, every choice of the factors to
merge and the end of time after any step are included.

- `Invariance`: the inductive invariant `IInv`, with one lemma for each kind of step.
  `FactorsAreAbstractions` is not inductive: it speaks of reachable states and of the operators'
  steps between them, while the transformations know neither. `Abstracts` says it of *all*
  states of the task: unless pruned, a goal state is mapped to a goal and a step to a transition for
  the operator's label, and what lies on a plan is not pruned. That a pruned state is on no plan needs
  `AreBounds`: the distances are consistent with the transitions (`IsGoalBound`: zero at goals, and no
  transition makes up for more than it costs), so a state of a plan has finite ones (`GoalDistanceOfPaths`, with
  `PlanCostsBelowINF`). This bound, weaker than being exact, is what Dijkstra's algorithm
  establishes and what survives shrinking, merging and label reduction without a new computation. `CostsFit` and `LabelsFit`: a group
  costs no more than any of its labels, and a label as much as the operators it stands for, since reduction only joins
  labels of equal cost. `Independent`: factors look at different variables, so that every pair of states
  of two factors is that of a state of the task, and the table of their product has no gaps.
- `FactorsStayAbstractions` is then the property of the run, and `EstimatesStayLowerBounds` adds up what a plan
  costs along the transitions of one factor; the heuristic is the maximum over the factors kept.
- The lemmas about the operators: Dijkstra's rounds settle every state (`TakeNext` takes the nearest one);
  each shrink strategy returns a partition of the factor's states, and all but bisimulation of at most the target
  size (`StrategyParts`; bisimulation by splitting groups of a partition, whatever the order and the limit); `ApplyAbstraction` of any
  partition (`AppliedIsGood`), the product (`MergedIsAbstraction`), a reduction of equivalent and of arbitrary labels
  (`EquivalentGroupsFollow`, `ArbitraryGroupsFollow`) and the atomic factors (`AtomicIsAbstraction`) are
  abstractions. A reduction that is repeated in any order of the factors, or until nothing changes, needs no more
  than that one keeps the system good (`VisitIsGood`).
- `SizesStayWithinLimits`: `IInv` carries from the shrinking to the merge that both factors are within the limit before merging
  and their product within `max_states` (`SizesFit`). Label reduction comes in between and keeps the sizes;
  the arithmetic of `compute_shrink_sizes` is in `ShrinkSizesParts`, with the square root rounded down.

The attempt to prove `EstimatesAreLowerBounds` found two things that the first assumption had left open, and
that are now part of it: an effect with two conditions on the same variable, and costs that reach `INF`, where a state
on a plan is taken for a dead end and pruned.

### Only model-checked

- Liveness (`Terminates` twice): the prover has no rule for fairness here.
- What folds and fixpoints compute for every input, where an argument by rounds was not
  carried through (`Closure`, `AStar`, and for the plans graph that it has every reordering). Of
  recursive functions on numbers facts can be proved: `TaskLemmas` gets the induction from the
  smallest number at which they fail, and LM-cut, the search, the plans graph and merge-and-shrink use it.
  `SavesAllReorderings` and `ForbidsWholeOrbits` are not proved.
- `ForbidsOnlySavedPlans`, which does not hold of every task: a cycle of operators that cost nothing is
  on the graph after a clean-up, so that the task forbids plans that go round it, while the dumps
  follow no state twice and save none of them. In the run the only operators without cost set a flag or load
  a package once.
- `FindsCheapestPlan` and `GivesUpOnlyWithoutPlan` beyond the classic search: that symmetries
  and stubborn sets leave a path of the search as cheap as a cheapest plan, and that plans are
  traced rightly through permutations; tasks with axioms; adjusted costs without a bound; and that a
  search without reopening and without a bound gives up only on tasks without a plan.
- CEGAR, with `EstimatesStayBelowDistances` and `SumIsAdmissible`. Its modules use `RECURSIVE` operators, with which the SMT backend is not available.
- `DistancesAreUpToDate` and `BisimulationIsPerfect` of merge-and-shrink. What is proved about
  distances (no transition contradicts them) is what admissibility needs; that they are not too small is a matter
  of accuracy and needs, for every way of carrying them over, the converse along cheapest paths. That bisimulation loses
  nothing needs that label reduction is exact, which is about pairs of states in all factors at once.

## 7. Hazards

`PROJECT.json` lists what is hard to test in this code, with the line where it would
bite and the properties that watch it. The ones without a property are: cycles of operators
without cost on the plans graph (`ForbidsOnlySavedPlans` does not hold with them), late
writers after a call that was killed, bisimulation at its limit, and `--symmetries` for the planners that extend plans; `note` says why.

## 8. What is not modelled, and why

- *Diverse and extended unordered planners*: their results are chosen by a
  post-processing program that is not in the repository. `MultisetForbid`, their
  reformulation, is modelled.
- *Computation of symmetries* (`structural_symmetries`, bliss): the generators are a
  parameter of `PlansGraph`, `ForbidIterativeSearch` and `EagerSearch`, assumed to be
  automorphisms of the task (`IsSymmetry`, `IsAutomorphism`); the assumption is checked for
  the instances.
- *In the search*: preferred operators, path-dependent evaluators, other open lists and
  engines, `stubborn_sets_ec`; statistics; the packing of states. `limited_pruning` switches
  between a pruning method and none, which the problems with and without cover one by one.
- *In CEGAR*: mutexes, the choice among splits (all are taken), the reduction of orders by
  `mk_acyclic_graph`, conjunctive landmarks and m > 1; memory padding.
- *In merge-and-shrink*: the merge strategies (any pair is merged). Bisimulation may
  exceed the limits when there are more goal distances than states allowed; the code
  says so (`shrink_bisimulation.cc:257`), and `SizesWithinLimits` is about the others.
- *Other heuristics and abstractions*: no planner class asks for them, except for the
  satisficing call of the diverse planners; `EagerSearch` stands for any that give
  admissible estimates per state. Linear programs are out of reach of a finite instance.
- *Translator, preprocessor, driver, option parser*: run before the iteration or only
  pass strings on.
- *Output*: names of facts and operators, logging, JSON, dumping of tasks in the SAS
  format.
- *Time*: the budget that `find_plans` hands to calls is not counted; a call that runs
  out of time is a call that is cut off.
