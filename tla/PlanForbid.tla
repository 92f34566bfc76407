------------------------------- MODULE PlanForbid -------------------------------
(***************************************************************************)
(* PlanForbidReformulatedTask: forbids one operator sequence.  "possible"  *)
(* says that the run is still a prefix of it and following[i] marks that   *)
(* its first i operators were applied.  One action per operator type of    *)
(* get_op_type; "plan" is history.                                         *)
(***************************************************************************)
EXTENDS ParentTask, Naturals, Sequences

CONSTANTS
    InputPlans,     \* the operator sequences the constructor may be given
    MaxSteps        \* bound on the length of a run

(* What the constructor relies on. *)
PlanAssumption ==
    /\ InputPlans \subseteq Seq(Op)
    /\ MaxSteps \in Nat

VARIABLES
    forbidding_plan,    \* the argument of the constructor
    s,                  \* state of the parent's variables
    possible,           \* 1 while the run may still follow the plan
    following,          \* following[i] = 1 when i operators were followed
    plan                \* history: the operators applied

vars == <<forbidding_plan, s, possible, following, plan>>

Positions == 0 .. Len(forbidding_plan)

(* plan_operators_indexes_by_parent_operator: where o appears, from 0. *)
PlanIndexes(o) ==
    {i \in 0 .. Len(forbidding_plan) - 1 : forbidding_plan[i + 1] = o}

IsOperatorOnPlan(o) == PlanIndexes(o) # {}

Init ==
    /\ forbidding_plan \in InputPlans
    /\ s = InitialState
    /\ possible = 1
    /\ following = [i \in Positions |-> IF i = 0 THEN 1 ELSE 0]
    /\ plan = <<>>

(* The part of every copy of operator o that is delegated to the parent. *)
ApplyParentOp(o) ==
    /\ Len(plan) < MaxSteps
    /\ IsApplicable(o, s)
    /\ s' = Successor(o, s)
    /\ plan' = Append(plan, o)
    /\ UNCHANGED forbidding_plan

(* get_operator_precondition: what a copy of o requires besides the        *)
(* parent's preconditions, for types 0, 1, 2 and type 3 at position i.     *)
PreNotOnPlan(o) == ~IsOperatorOnPlan(o)
PreDiscarded(o) == IsOperatorOnPlan(o) /\ possible = 0
PreDiscarding(o) ==
    /\ IsOperatorOnPlan(o)
    /\ possible = 1
    /\ \A i \in PlanIndexes(o) : following[i] = 0
PreFollowing(i, o) ==
    /\ i \in PlanIndexes(o)
    /\ possible = 1
    /\ following[i] = 1

(* Type 0. *)
NotOnPlan(o) ==
    /\ PreNotOnPlan(o)
    /\ ApplyParentOp(o)
    /\ possible' = 0
    /\ UNCHANGED following

(* Type 1. *)
AlreadyDiscarded(o) ==
    /\ PreDiscarded(o)
    /\ ApplyParentOp(o)
    /\ UNCHANGED <<possible, following>>

(* Type 2. *)
Discard(o) ==
    /\ PreDiscarding(o)
    /\ ApplyParentOp(o)
    /\ possible' = 0
    /\ UNCHANGED following

(* Type 3, for the operator at position i of the plan. *)
Follow(i) ==
    /\ PreFollowing(i, forbidding_plan[i + 1])
    /\ ApplyParentOp(forbidding_plan[i + 1])
    /\ following' = [following EXCEPT ![i] = 0, ![i + 1] = 1]
    /\ UNCHANGED possible

Next ==
    \/ \E o \in Op : NotOnPlan(o) \/ AlreadyDiscarded(o) \/ Discard(o)
    \/ \E i \in 0 .. Len(forbidding_plan) - 1 : Follow(i)

Spec == Init /\ [][Next]_vars

(* get_goal_fact: the parent's goals, and the plan is discarded. *)
AtGoal == IsGoalState(s) /\ possible = 0
-------------------------------------------------------------------------------
(* The added variables stay in the domains get_variable_domain_size gives  *)
(* them, and the run stays one of operators of the task.                  *)
TypeOK ==
    /\ forbidding_plan \in InputPlans
    /\ s \in State
    /\ possible \in 0 .. 1
    /\ following \in [Positions -> 0 .. 1]
    /\ plan \in Seq(Op)

(* The run is the forbidden plan or a part of it from its first operator. *)
IsPrefixOf(p, q) ==
    Len(p) <= Len(q) /\ \A i \in 1 .. Len(p) : p[i] = q[i]

(* Exactly one position is marked while the run follows the plan, and it   *)
(* is the run's length: a repeated operator cannot mark a second one.      *)
MarksThePosition ==
    /\ possible = 1 <=> IsPrefixOf(plan, forbidding_plan)
    /\ possible = 1 => \A i \in Positions : following[i] = 1 <=> i = Len(plan)

(* In every state each operator of the parent has exactly one copy whose   *)
(* added preconditions hold: sequences that deviate from the forbidden     *)
(* plan at any position survive, and none survives twice.                  *)
ExactlyOneCopy ==
    \A o \in Op :
        LET positions == {i \in PlanIndexes(o) : PreFollowing(i, o)}
            others == {i \in 0 .. 2 : \/ i = 0 /\ PreNotOnPlan(o)
                                      \/ i = 1 /\ PreDiscarded(o)
                                      \/ i = 2 /\ PreDiscarding(o)}
        IN  \/ others = {} /\ \E i \in positions : positions = {i}
            \/ positions = {} /\ \E i \in others : others = {i}

EmptyPlan(p) == <<>>
Appended(p, h, o) == Append(h, o)
IsForbidden(p, h) == IsPrefixOf(h, p)

Promise == INSTANCE ForbiddingTask WITH
                Givens <- InputPlans, given <- forbidding_plan,
                hist <- plan, accepted <- AtGoal,
                EmptyHistory <- EmptyPlan, Extend <- Appended,
                Forbidden <- IsForbidden

(* The reformulated task accepts exactly the plans of the parent that are  *)
(* not the given plan or a prefix of it.                                   *)
ImplementsForbiddingTask == Promise!Spec
===============================================================================
