-------------------------- MODULE SuperMultisetsForbid --------------------------
(***************************************************************************)
(* SuperMultisetsForbidReformulatedTask, used for submultiset top-quality  *)
(* planning.  Saturating counters record how often each operator of the    *)
(* forbidding multisets was applied; once the parent's goal holds, free    *)
(* auxiliary operators move "tracking" over the multisets one by one, each *)
(* showing an operator applied fewer times than the multiset has it.       *)
(* ReadMultiset is the constructor's loop, the other actions are the two   *)
(* kinds of operators; "applied" is history.                               *)
(***************************************************************************)
EXTENDS ParentTask, Integers, Sequences

CONSTANTS
    InputMultisets,     \* what the constructor may be given: sequences of
                        \* functions from Op to multiplicities
    MaxApplications     \* bound on the applications of one operator

(* What the constructor relies on. *)
SuperMultisetsAssumption ==
    /\ InputMultisets \subseteq Seq([Op -> Nat]) \ {<<>>}
    /\ MaxApplications \in Nat

VARIABLES
    forbidding_multisets,   \* the argument of the constructor
    read,                   \* multisets the constructor has read so far
    max_count,              \* per operator, its largest multiplicity in those
    s,                      \* state of the parent's variables
    counter,                \* saturating count of the applications
    tracking,               \* multisets shown not to be contained in the run
    applied                 \* history: exact count of the applications

vars == <<forbidding_multisets, read, max_count, s, counter, tracking, applied>>

NumMultisets == Len(forbidding_multisets)
PlanIndex == 1 .. NumMultisets
Running == read = NumMultisets

IsOperatorOnPlans(o) == max_count[o] > 0

Init ==
    /\ forbidding_multisets \in InputMultisets
    /\ read = 0
    /\ max_count = [o \in Op |-> 0]
    /\ s = InitialState
    /\ counter = [o \in Op |-> 0]
    /\ tracking = 0
    /\ applied = [o \in Op |-> 0]

(* One round of the constructor's loop that builds max_count. *)
ReadMultiset ==
    /\ read < NumMultisets
    /\ read' = read + 1
    /\ max_count' = [o \in Op |->
            IF forbidding_multisets[read + 1][o] > max_count[o]
            THEN forbidding_multisets[read + 1][o] ELSE max_count[o]]
    /\ UNCHANGED <<forbidding_multisets, s, counter, tracking, applied>>

(* The preconditions added to copy i of the parent's operator o, for i up  *)
(* to its largest multiplicity, and those of the auxiliary operator that   *)
(* shows o to be applied i times only, less than multiset j has it.        *)
PreCopy(o, i) ==
    /\ i \in 0 .. max_count[o]
    /\ tracking = 0
    /\ IsOperatorOnPlans(o) => counter[o] = i
(* Mutation of PreAchieveGoal: the value 0 of the counter is skipped. *)
PreAchieveGoalFromOne(j, o, i) ==
    /\ i \in 1 .. forbidding_multisets[j][o] - 1
    /\ IsGoalState(s)
    /\ counter[o] = i
    /\ tracking = j - 1

PreAchieveGoal(j, o, i) ==
    /\ i \in 0 .. forbidding_multisets[j][o] - 1
    /\ IsGoalState(s)
    /\ counter[o] = i
    /\ tracking = j - 1

(* Copy i of operator o counts on unless its counter is saturated. *)
Copy(o, i) ==
    /\ Running
    /\ PreCopy(o, i)
    /\ applied[o] < MaxApplications
    /\ IsApplicable(o, s)
    /\ s' = Successor(o, s)
    /\ counter' = [counter EXCEPT ![o] = IF i < max_count[o] THEN i + 1 ELSE @]
    /\ applied' = [applied EXCEPT ![o] = @ + 1]
    /\ UNCHANGED <<forbidding_multisets, read, max_count, tracking>>

(* The auxiliary goal-achieving operator of cost 0 for o, i and multiset j. *)
AchieveGoal(j, o, i) ==
    /\ Running
    /\ PreAchieveGoal(j, o, i)
    /\ tracking' = j
    /\ UNCHANGED <<forbidding_multisets, read, max_count, s, counter, applied>>

Next ==
    \/ ReadMultiset
    \/ \E o \in Op : \E i \in 0 .. max_count[o] : Copy(o, i)
    \/ \E j \in PlanIndex, o \in Op :
           \E i \in 0 .. forbidding_multisets[j][o] : AchieveGoal(j, o, i)

Spec == Init /\ [][Next]_vars

(* get_goal_fact: the parent's goals, and all multisets were tracked. *)
AtGoal == IsGoalState(s) /\ tracking = NumMultisets
-------------------------------------------------------------------------------
Contained(m, h) == \A o \in Op : m[o] <= h[o]

(* Every counter stays in its domain, 0 to the largest multiplicity, and   *)
(* tracking passes the multisets one by one.                               *)
TypeOK ==
    /\ forbidding_multisets \in InputMultisets
    /\ read \in 0 .. NumMultisets
    /\ max_count \in [Op -> Nat]
    /\ s \in State
    /\ counter \in [Op -> Nat]
    /\ \A o \in Op : counter[o] <= max_count[o]
    /\ tracking \in 0 .. NumMultisets
    /\ applied \in [Op -> Nat]

(* The auxiliary operators never block a plan that contains no forbidden   *)
(* multiset: from the parent's goal on, the next of them is applicable     *)
(* until all multisets are passed.                                         *)
GoalIsAchievable ==
    /\ Running
    /\ IsGoalState(s)
    /\ tracking < NumMultisets
    /\ ~Contained(forbidding_multisets[tracking + 1], applied)
    => \E o \in Op : \E i \in 0 .. forbidding_multisets[tracking + 1][o] :
           PreAchieveGoal(tracking + 1, o, i)

(* Before the goal-achieving phase every operator has exactly one copy     *)
(* whose added preconditions hold.                                         *)
ExactlyOneCopy ==
    Running /\ tracking = 0 =>
        \A o \in Op : \E i \in 0 .. max_count[o] :
            {k \in 0 .. max_count[o] : PreCopy(o, k)} = {i}

IsForbidden(ms, h) == \E j \in DOMAIN ms : Contained(ms[j], h)
NoOperators(ms) == [o \in Op |-> 0]
AddOperator(ms, h, o) == [h EXCEPT ![o] = @ + 1]

Promise == INSTANCE FinishingTask WITH
                Givens <- InputMultisets, given <- forbidding_multisets,
                hist <- applied, finished <- (tracking = NumMultisets),
                EmptyHistory <- NoOperators, Extend <- AddOperator,
                Forbidden <- IsForbidden

(* The reformulated task finishes only plans of the parent that contain    *)
(* none of the given multisets: no plan is found that only adds operators  *)
(* to an earlier one.                                                      *)
ImplementsFinishingTask == Promise!Spec
===============================================================================
