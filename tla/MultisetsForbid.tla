---------------------------- MODULE MultisetsForbid ----------------------------
(***************************************************************************)
(* MultisetsForbidReformulatedTask: forbids every plan that, as a multiset *)
(* of operators, is contained in one of the given multisets.  The          *)
(* constructor's loop over the multisets is the action ReadMultiset; after *)
(* it, a behaviour is a run of the reformulated task, one action per       *)
(* operator type of get_op_type.  "applied" counts the operators of the    *)
(* run: it is history and guards nothing but the bound.                    *)
(***************************************************************************)
EXTENDS ParentTask, Integers, Sequences

CONSTANTS
    InputMultisets,         \* what the constructor may be given: sequences of
                            \* functions from Op to multiplicities
    MaxApplications         \* bound on the applications of one operator

ASSUME MultisetsAssumption ==
    /\ InputMultisets \subseteq Seq([Op -> Nat])
    /\ MaxApplications \in Nat

VARIABLES
    forbidding_multisets,   \* the argument of the constructor
    read,               \* multisets the constructor has read so far
    max_count,          \* per operator, its largest multiplicity in those
    s,                  \* state of the parent's variables
    still_possible,     \* 1 while the run is contained in multiset j
    counter,            \* saturating count of the applications of an operator
    applied             \* history: exact count of the applications

vars == <<forbidding_multisets, read, max_count, s, still_possible, counter,
          applied>>

PlanIndex == 1 .. Len(forbidding_multisets)

IsOperatorOnPlans(o) == max_count[o] > 0

Init ==
    /\ forbidding_multisets \in InputMultisets
    /\ read = 0
    /\ max_count = [o \in Op |-> 0]
    /\ s = InitialState
    /\ still_possible = [j \in PlanIndex |-> 1]
    /\ counter = [o \in Op |-> 0]
    /\ applied = [o \in Op |-> 0]

(* One round of the constructor's loop over the forbidding multisets. *)
ReadMultiset ==
    /\ read < Len(forbidding_multisets)
    /\ read' = read + 1
    /\ max_count' = [o \in Op |->
            IF forbidding_multisets[read + 1][o] > max_count[o]
            THEN forbidding_multisets[read + 1][o] ELSE max_count[o]]
    /\ UNCHANGED <<forbidding_multisets, s, still_possible, counter, applied>>

(* The part of every copy of operator o that is delegated to the parent. *)
ApplyParentOp(o) ==
    /\ read = Len(forbidding_multisets)
    /\ applied[o] < MaxApplications
    /\ IsApplicable(o, s)
    /\ s' = Successor(o, s)
    /\ applied' = [applied EXCEPT ![o] = @ + 1]
    /\ UNCHANGED <<forbidding_multisets, read, max_count>>

(* Mutation of DiscardAllPlans: the loop stops one multiset early. *)
DiscardAllPlansButLast ==
    still_possible' = [j \in PlanIndex |->
        IF j < Len(forbidding_multisets) THEN 0 ELSE still_possible[j]]

DiscardAllPlans == still_possible' = [j \in PlanIndex |-> 0]

(* get_operator_precondition: what a copy of o requires besides the        *)
(* parent's preconditions, for types 0, 1 and type 2 with index i.         *)
PreNotOnPlans(o) == ~IsOperatorOnPlans(o)
(* Mutation of PreBeyondPlans: the limit is one too low. *)
PreBeyondPlansOffByOne(o) == IsOperatorOnPlans(o) /\ counter[o] = max_count[o] - 1

PreBeyondPlans(o) == IsOperatorOnPlans(o) /\ counter[o] = max_count[o]
(* Mutation of PreCountingOp: one copy too many, beyond the domain of the counter. *)
PreCountingOpOneMore(o, i) == i \in 0 .. max_count[o] /\ counter[o] = i

PreCountingOp(o, i) == i \in 0 .. max_count[o] - 1 /\ counter[o] = i

(* Type 0: an operator on no plan deviates from all of them. *)
NotOnPlans(o) ==
    /\ PreNotOnPlans(o)
    /\ ApplyParentOp(o)
    /\ DiscardAllPlans
    /\ UNCHANGED counter

(* Type 1: o was already applied as often as on any plan. *)
BeyondPlans(o) ==
    /\ PreBeyondPlans(o)
    /\ ApplyParentOp(o)
    /\ DiscardAllPlans
    /\ UNCHANGED counter

(* Mutation of CountingOp: the plans with one operator more are discarded. *)
CountingOpKeepsPlans(o, i) ==
    /\ PreCountingOp(o, i)
    /\ ApplyParentOp(o)
    /\ counter' = [counter EXCEPT ![o] = i + 1]
    /\ still_possible' = [j \in PlanIndex |->
            IF forbidding_multisets[j][o] = i + 1 THEN 0 ELSE still_possible[j]]

(* Type 2, index i: the application of o that is number i + 1 is one more  *)
(* than the plans with exactly i of them have.                             *)
CountingOp(o, i) ==
    /\ PreCountingOp(o, i)
    /\ ApplyParentOp(o)
    /\ counter' = [counter EXCEPT ![o] = i + 1]
    /\ still_possible' = [j \in PlanIndex |->
            IF forbidding_multisets[j][o] = i THEN 0 ELSE still_possible[j]]

Next ==
    \/ ReadMultiset
    \/ \E o \in Op :
        \/ NotOnPlans(o)
        \/ BeyondPlans(o)
        \/ \E i \in 0 .. max_count[o] : CountingOp(o, i)

Spec == Init /\ [][Next]_vars

(* get_goal_fact: the parent's goals, and every plan is discarded. *)
AtGoal == IsGoalState(s) /\ \A j \in PlanIndex : still_possible[j] = 0
-------------------------------------------------------------------------------
Running == read = Len(forbidding_multisets)

Contained(h, m) == \A o \in Op : h[o] <= m[o]

(* A multiset is forbidden when some given multiset contains it. *)
IsForbidden(ms, h) == \E j \in DOMAIN ms : Contained(h, ms[j])

NoOperators(ms) == [o \in Op |-> 0]

AddOperator(ms, h, o) == [h EXCEPT ![o] = @ + 1]

(* The values the added variables take (get_variable_domain_size).         *)
TypeOK ==
    /\ forbidding_multisets \in InputMultisets
    /\ read \in 0 .. Len(forbidding_multisets)
    /\ max_count \in [Op -> Nat]
    /\ s \in State
    /\ still_possible \in [PlanIndex -> 0 .. 1]
    /\ counter \in [Op -> Nat]
    /\ \A o \in Op : counter[o] <= max_count[o]
    /\ applied \in [Op -> Nat]

(* A plan is still possible exactly while the multiset of the operators    *)
(* applied is contained in it, whatever the order and however often the    *)
(* saturated counters were passed.                                         *)
StillPossibleIffContained ==
    Running => \A j \in PlanIndex :
        still_possible[j] = 1 <=> Contained(applied, forbidding_multisets[j])

(* In every state each operator of the parent has exactly one copy whose   *)
(* added preconditions hold: no plan is lost and none is found twice under *)
(* different copies.                                                       *)
ExactlyOneCopy ==
    Running => \A o \in Op :
        LET following == {i \in 0 .. max_count[o] : PreCountingOp(o, i)}
        IN  \/ PreNotOnPlans(o) /\ ~PreBeyondPlans(o) /\ following = {}
            \/ ~PreNotOnPlans(o) /\ PreBeyondPlans(o) /\ following = {}
            \/ /\ ~PreNotOnPlans(o) /\ ~PreBeyondPlans(o)
               /\ \E i \in following : following = {i}

Promise == INSTANCE ForbiddingTask WITH
                Givens <- InputMultisets, given <- forbidding_multisets,
                hist <- applied, accepted <- AtGoal,
                EmptyHistory <- NoOperators, Extend <- AddOperator,
                Forbidden <- IsForbidden

(* The reformulated task accepts exactly the plans of the parent whose     *)
(* multiset no given multiset contains.                                    *)
ImplementsForbiddingTask == Promise!Spec
===============================================================================
