----------------------------- MODULE Reformulations -----------------------------
(***************************************************************************)
(* The process ForbidIterativeSearch and the tasks it makes of the same    *)
(* plans: one that forbids the first plan (PlanForbid), those that forbid  *)
(* multisets (MultisetsForbid, which this module extends), their union     *)
(* (MultisetForbid), what contains one of them (SuperMultisetsForbid), and *)
(* what is comparable as a set (SupersetsForbid).  A behaviour is one run  *)
(* of the parent task, followed by all of them: for every operator each    *)
(* task applies the one copy of it that is applicable.  The two tasks that *)
(* check a plan after its last operator then apply auxiliary operators.    *)
(***************************************************************************)
EXTENDS MultisetsForbid, ForbidIterativeSearch

CONSTANTS
    Inputs,     \* what was read, and what was made of it
    InputPlans, \* with InputMultisets: what the constructors
    InputSets,  \* are given for these
    MaxSteps    \* bound on the length of a run

VARIABLES
    input,
    run,                \* history: the operators applied
    forbidding_plan, plan_possible, plan_following,         \* PlanForbid
    union, possible, following,                             \* MultisetForbid
    super_counter, super_tracking,                          \* SuperMultisetsForbid
    forbidding_sets, op_applied, outside_applied, tracking  \* SupersetsForbid

planVars == <<forbidding_plan, plan_possible, plan_following>>
unionVars == <<union, possible, following>>
superVars == <<super_counter, super_tracking>>
setVars == <<forbidding_sets, op_applied, outside_applied, tracking>>

allVars == <<vars, input, run, planVars, unionVars, superVars, setVars>>

PlanTask == INSTANCE PlanForbid WITH
    possible <- plan_possible, following <- plan_following, plan <- run

UnionTask == INSTANCE MultisetForbid WITH
    InputPlans <- InputMultisets, plans <- forbidding_multisets,
    forbidding_multiset <- union

SuperTask == INSTANCE SuperMultisetsForbid WITH
    counter <- super_counter, tracking <- super_tracking

SetTask == INSTANCE SupersetsForbid WITH
    used <- Range(run)

(* What the constructors may rely on. *)
ASSUME ReformulationsAssumption ==
    /\ Operators = Op
    /\ \A i \in Inputs : i = Reformulation(i.number_of_plans, i.plans)
    /\ InputPlans = {i.forbidding_plan : i \in Inputs}
    /\ InputMultisets = {i.forbidding_multisets : i \in Inputs}
    /\ InputSets = {i.forbidding_sets : i \in Inputs}
    /\ MaxApplications >= MaxSteps
    /\ PlanTask!PlanAssumption
    /\ UnionTask!MultisetAssumption
    /\ SuperTask!SuperMultisetsAssumption
    /\ SetTask!SupersetsAssumption
-------------------------------------------------------------------------------
InitAll ==
    /\ input \in Inputs
    /\ run = <<>>
    /\ forbidding_plan = input.forbidding_plan
    /\ forbidding_multisets = input.forbidding_multisets
    /\ forbidding_sets = input.forbidding_sets
    /\ Init
    /\ PlanTask!Init
    /\ UnionTask!Init
    /\ SuperTask!Init
    /\ SetTask!Init

(* The loops over the multisets. *)
Construct ==
    /\ ReadMultiset
    /\ UnionTask!UnionWithPlan
    /\ SuperTask!ReadMultiset
    /\ UNCHANGED <<input, run, planVars, super_tracking, setVars>>

(* Every task applies a copy of operator o. *)
ApplyCopies(o) ==
    /\ \/ PlanTask!NotOnPlan(o)
       \/ PlanTask!AlreadyDiscarded(o)
       \/ PlanTask!Discard(o)
       \/ \E i \in PlanTask!PlanIndexes(o) : PlanTask!Follow(i)
    /\ \/ NotOnPlans(o)
       \/ BeyondPlans(o)
       \/ \E i \in 0 .. max_count[o] : CountingOp(o, i)
    /\ \/ UnionTask!NotOnPlan(o)
       \/ UnionTask!AlreadyDiscarded(o)
       \/ UnionTask!Discard(o)
       \/ \E i \in 0 .. union[o] - 1 : UnionTask!Follow(o, i)
    /\ \E i \in 0 .. max_count[o] : SuperTask!Copy(o, i)
    /\ SetTask!ApplyOriginal(o)
    /\ UNCHANGED input

(* The auxiliary operators of the last two tasks. *)
AchieveSuperGoal ==
    /\ \E j \in PlanIndex, o \in Op :
          \E i \in 0 .. forbidding_multisets[j][o] : SuperTask!AchieveGoal(j, o, i)
    /\ UNCHANGED <<still_possible, counter, input, run, planVars, unionVars, setVars>>

AchieveSetGoal ==
    /\ read = Len(forbidding_multisets)
    /\ UNCHANGED <<vars, input, run, planVars, unionVars, superVars>>
    /\ \E i \in DOMAIN forbidding_sets : \E o \in forbidding_sets[i] : SetTask!AchieveGoal(i, o)

NextAll ==
    \/ Construct
    \/ \E o \in Op : ApplyCopies(o)
    \/ AchieveSuperGoal
    \/ AchieveSetGoal

SpecAll == InitAll /\ [][NextAll]_allVars
-------------------------------------------------------------------------------

(* The auxiliary operators never block a plan that is not forbidden.       *)
GoalIsAchievable ==
    /\ SuperTask!GoalIsAchievable
    /\ SetTask!GoalIsAchievable

(* Every task keeps its promise: the runs of the parent, all of them, and  *)
(* accepted exactly when not forbidden by what its constructor was given.  *)
TasksImplementPromises ==
    /\ PlanTask!ImplementsForbiddingTask
    /\ UnionTask!ImplementsForbiddingTask
    /\ SuperTask!ImplementsFinishingTask
    /\ SetTask!ImplementsFinishingTask

(* The group, from the generators: by products until nothing is new. *)
Products(group) ==
    {[o \in Op |-> g[p[o]]] : g \in Range(Generators), p \in group}

SymmetryGroup ==
    FoldLeft(LAMBDA group, n : group \cup Products(group), {[o \in Op |-> o]},
             [n \in 1 .. Cardinality(Op) ^ Len(Generators) |-> n])

SymmetricPlans ==
    {PermutePlan(p, plan) : p \in SymmetryGroup, plan \in Range(input.plans)}

(* The sets read are such as the iterations produce: an iteration finds no *)
(* plan comparable to a set that was forbidden, nor to a symmetric one.    *)
SetsAreIncomparable ==
    \A p, q \in SymmetricPlans :
        IsComparable(Range(p), Range(q)) => Range(p) = Range(q)

(* The task made of the plans read forbids what is symmetric to one of     *)
(* them just as the plan itself: the closure has reached every product of  *)
(* generators unless the limit ended it, and then no task is made.         *)
ForbidsWholeOrbits ==
    Running =>
        /\ AtGoal <=>
              /\ IsGoalState(s)
              /\ \A p \in SymmetricPlans : ~Contained(applied, PlanToMultiset(p))
        /\ super_tracking = Len(forbidding_multisets) =>
              \A p \in SymmetricPlans : ~Contained(PlanToMultiset(p), applied)
        /\ (SetsAreIncomparable /\ tracking = Len(forbidding_sets)) =>
              \A p \in SymmetricPlans : ~IsComparable(Range(p), Range(run))

===============================================================================
