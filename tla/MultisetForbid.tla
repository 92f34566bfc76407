----------------------------- MODULE MultisetForbid -----------------------------
(***************************************************************************)
(* MultisetForbidReformulatedTask, used for diverse planning: forbids      *)
(* every plan contained in the union of the multisets of the plans read.   *)
(* UnionWithPlan is the loop of create_reformulated_task_multiset; the     *)
(* other actions are one per operator type of get_op_type, and "applied"   *)
(* counts the operators of the run (history).                              *)
(***************************************************************************)
EXTENDS ParentTask, Integers, Sequences

CONSTANTS
    InputPlans,         \* sequences of plans, each a function from Op to Nat
    MaxApplications     \* bound on the applications of one operator

(* What the constructor relies on. *)
MultisetAssumption ==
    /\ InputPlans \subseteq Seq([Op -> Nat])
    /\ MaxApplications \in Nat

VARIABLES
    plans,                  \* the plans read from the files, as multisets
    read,                   \* how many of them are in the union
    forbidding_multiset,    \* the union: per operator the largest multiplicity
    s,                      \* state of the parent's variables
    possible,               \* 1 while the run is contained in the union
    following,              \* per operator, how often it was applied meanwhile
    applied                 \* history: exact count of the applications

vars == <<plans, read, forbidding_multiset, s, possible, following, applied>>

Running == read = Len(plans)

Init ==
    /\ plans \in InputPlans
    /\ read = 0
    /\ forbidding_multiset = [o \in Op |-> 0]
    /\ s = InitialState
    /\ possible = 1
    /\ following = [o \in Op |-> 0]
    /\ applied = [o \in Op |-> 0]

(* multiset_union: the larger multiplicity per operator. *)
MultisetUnion(m, from) == [o \in Op |-> IF from[o] > m[o] THEN from[o] ELSE m[o]]

UnionWithPlan ==
    /\ read < Len(plans)
    /\ read' = read + 1
    /\ forbidding_multiset' = MultisetUnion(forbidding_multiset, plans[read + 1])
    /\ UNCHANGED <<plans, s, possible, following, applied>>

IsOperatorOnPlan(o) == forbidding_multiset[o] > 0

(* The part of every copy of operator o that is delegated to the parent. *)
ApplyParentOp(o) ==
    /\ Running
    /\ applied[o] < MaxApplications
    /\ IsApplicable(o, s)
    /\ s' = Successor(o, s)
    /\ applied' = [applied EXCEPT ![o] = @ + 1]
    /\ UNCHANGED <<plans, read, forbidding_multiset>>

(* get_operator_precondition: what a copy of o requires besides the        *)
(* parent's preconditions, for types 0, 1, 2 and type 3 with value i.      *)
PreNotOnPlan(o) == ~IsOperatorOnPlan(o)

PreDiscarded(o) == IsOperatorOnPlan(o) /\ possible = 0
PreDiscarding(o) ==
    /\ IsOperatorOnPlan(o)
    /\ possible = 1
    /\ following[o] = forbidding_multiset[o]
PreFollowing(o, i) ==
    /\ i \in 0 .. forbidding_multiset[o] - 1
    /\ possible = 1
    /\ following[o] = i

(* Type 0. *)
NotOnPlan(o) ==
    /\ PreNotOnPlan(o)
    /\ ApplyParentOp(o)
    /\ possible' = 0
    /\ UNCHANGED following

(* Type 1. *)
AlreadyDiscarded(o) ==
    /\ PreDiscarded(o)
    /\ ApplyParentOp(o)
    /\ UNCHANGED <<possible, following>>

(* Type 2. *)
Discard(o) ==
    /\ PreDiscarding(o)
    /\ ApplyParentOp(o)
    /\ possible' = 0
    /\ UNCHANGED following

(* Type 3, from value i to i + 1. *)
Follow(o, i) ==
    /\ PreFollowing(o, i)
    /\ ApplyParentOp(o)
    /\ following' = [following EXCEPT ![o] = i + 1]
    /\ UNCHANGED possible

Next ==
    \/ UnionWithPlan
    \/ \E o \in Op :
        \/ NotOnPlan(o)
        \/ AlreadyDiscarded(o)
        \/ Discard(o)
        \/ \E i \in 0 .. forbidding_multiset[o] - 1 : Follow(o, i)

Spec == Init /\ [][Next]_vars

(* get_goal_fact: the parent's goals, and the multiset is left. *)
AtGoal == IsGoalState(s) /\ possible = 0
-------------------------------------------------------------------------------
(* The domain of the counter of an operator is 0 to its multiplicity.      *)
TypeOK ==
    /\ plans \in InputPlans
    /\ read \in 0 .. Len(plans)
    /\ forbidding_multiset \in [Op -> Nat]
    /\ s \in State
    /\ possible \in 0 .. 1
    /\ following \in [Op -> Nat]
    /\ \A o \in Op : following[o] <= forbidding_multiset[o]
    /\ applied \in [Op -> Nat]

(* In every state each operator of the parent has exactly one copy whose   *)
(* added preconditions hold, also after the multiset was left with         *)
(* counters at their limit.                                                *)
ExactlyOneCopy ==
    Running => \A o \in Op :
        LET copies == {i \in 0 .. 2 : \/ i = 0 /\ PreNotOnPlan(o)
                                      \/ i = 1 /\ PreDiscarded(o)
                                      \/ i = 2 /\ PreDiscarding(o)}
            following_copies == {i \in 0 .. forbidding_multiset[o] : PreFollowing(o, i)}
        IN  \/ copies = {} /\ \E i \in following_copies : following_copies = {i}
            \/ following_copies = {} /\ \E i \in copies : copies = {i}

(* A run is forbidden when for every operator some plan has it as often:   *)
(* different operators may take their multiplicity from different plans.   *)
IsForbidden(ps, h) ==
    \A o \in Op : h[o] = 0 \/ \E j \in DOMAIN ps : h[o] <= ps[j][o]

NoOperators(ps) == [o \in Op |-> 0]
AddOperator(ps, h, o) == [h EXCEPT ![o] = @ + 1]

Promise == INSTANCE ForbiddingTask WITH
                Givens <- InputPlans, given <- plans,
                hist <- applied, accepted <- AtGoal,
                EmptyHistory <- NoOperators, Extend <- AddOperator,
                Forbidden <- IsForbidden

(* The reformulated task accepts exactly the plans of the parent that      *)
(* apply some operator more often than every plan read.                    *)
ImplementsForbiddingTask == Promise!Spec
===============================================================================
