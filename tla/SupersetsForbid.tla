---------------------------- MODULE SupersetsForbid ----------------------------
(***************************************************************************)
(* SupersetsForbidReformulatedTask, used for subset top-quality planning.  *)
(* It records which operators of the forbidding sets were applied and, per *)
(* set, whether an operator outside it was; once the parent's goal holds,  *)
(* free auxiliary operators move "tracking" over the sets one by one.  The *)
(* two actions are the two kinds of operators; "used" is history.          *)
(***************************************************************************)
EXTENDS ParentTask, Naturals, Sequences

CONSTANTS InputSets     \* what the constructor may be given: sequences of
                        \* sets of operators

(* What the constructor relies on. *)
SupersetsAssumption == InputSets \subseteq Seq(SUBSET Op) \ {<<>>}

VARIABLES
    forbidding_sets,    \* the argument of the constructor
    s,                  \* state of the parent's variables
    op_applied,         \* per operator of the sets, 1 once it was applied
    outside_applied,    \* per set, 1 once an operator outside it was applied
    tracking,           \* sets passed by the auxiliary operators
    used                \* history: the operators applied

vars == <<forbidding_sets, s, op_applied, outside_applied, tracking, used>>

NumSets == Len(forbidding_sets)
SetIndex == 1 .. NumSets
OpsOnPlans == UNION {forbidding_sets[i] : i \in SetIndex}
IsOperatorOnPlans(o) == o \in OpsOnPlans

Init ==
    /\ forbidding_sets \in InputSets
    /\ s = InitialState
    /\ op_applied = [o \in OpsOnPlans |-> 0]
    /\ outside_applied = [i \in SetIndex |-> 0]
    /\ tracking = 0
    /\ used = {}

(* forbidding_ops_to_sets: the sets an operator is not in. *)
SetsWithout(o) == {i \in SetIndex : o \notin forbidding_sets[i]}

(* The copy of the parent's operator o. *)
ApplyOriginal(o) ==
    /\ tracking = 0
    /\ IsApplicable(o, s)
    /\ s' = Successor(o, s)
    /\ op_applied' = [p \in OpsOnPlans |-> IF p = o THEN 1 ELSE op_applied[p]]
    /\ outside_applied' = [i \in SetIndex |->
            IF i \in SetsWithout(o) THEN 1 ELSE outside_applied[i]]
    /\ used' = used \cup {o}
    /\ UNCHANGED <<forbidding_sets, tracking>>

(* Mutation of PreAchieveGoal: sets can be skipped. *)
PreAchieveGoalAnyOrder(i, o) ==
    /\ o \in forbidding_sets[i]
    /\ IsGoalState(s)
    /\ op_applied[o] = 0
    /\ tracking < i
    /\ outside_applied[i] = 1

(* get_operator_precondition of the auxiliary operator of o for set i. *)
PreAchieveGoal(i, o) ==
    /\ o \in forbidding_sets[i]
    /\ IsGoalState(s)
    /\ op_applied[o] = 0
    /\ tracking = i - 1
    /\ outside_applied[i] = 1

(* The auxiliary goal-achieving operator of cost 0 for o and set i. *)
AchieveGoal(i, o) ==
    /\ PreAchieveGoal(i, o)
    /\ tracking' = i
    /\ UNCHANGED <<forbidding_sets, s, op_applied, outside_applied, used>>

Next ==
    \/ \E o \in Op : ApplyOriginal(o)
    \/ \E i \in SetIndex : \E o \in forbidding_sets[i] : AchieveGoal(i, o)

Spec == Init /\ [][Next]_vars

(* get_goal_fact: the parent's goals, and all sets were tracked. *)
AtGoal == IsGoalState(s) /\ tracking = NumSets
-------------------------------------------------------------------------------
(* The added variables are binary but tracking, which passes the sets one  *)
(* by one.                                                                 *)
TypeOK ==
    /\ forbidding_sets \in InputSets
    /\ s \in State
    /\ op_applied \in [OpsOnPlans -> 0 .. 1]
    /\ outside_applied \in [SetIndex -> 0 .. 1]
    /\ tracking \in 0 .. NumSets
    /\ used \subseteq Op

(* A set of operators is blocked when it is comparable to a given set. *)
Comparable(p, q) == p \subseteq q \/ q \subseteq p
IsForbidden(fs, h) == \E i \in DOMAIN fs : Comparable(fs[i], h)

(* The auxiliary operators never block a plan whose operator set is        *)
(* incomparable to the next given set: from the parent's goal on, one of   *)
(* them is applicable until all sets are passed.                           *)
GoalIsAchievable ==
    /\ IsGoalState(s)
    /\ tracking < NumSets
    /\ ~Comparable(forbidding_sets[tracking + 1], used)
    => \E o \in forbidding_sets[tracking + 1] : PreAchieveGoal(tracking + 1, o)

NothingUsed(fs) == {}
AddOperator(fs, h, o) == h \cup {o}

Promise == INSTANCE FinishingTask WITH
                Givens <- InputSets, given <- forbidding_sets,
                hist <- used, finished <- (tracking = NumSets),
                EmptyHistory <- NothingUsed, Extend <- AddOperator,
                Forbidden <- IsForbidden

(* The reformulated task finishes only plans of the parent whose operator  *)
(* set is neither a superset nor a subset of a given set.                  *)
ImplementsFinishingTask == Promise!Spec
===============================================================================
