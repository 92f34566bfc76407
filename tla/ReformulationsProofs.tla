-------------------------- MODULE ReformulationsProofs --------------------------
(***************************************************************************)
(* The tasks made of the same plans are correct, each of them and all      *)
(* following one run: for every parent task, all plans and any bounds.     *)
(* The first section is about MultisetsForbid alone, the module the others *)
(* build on: its IInv is the invariant of that reformulation.              *)
(***************************************************************************)
EXTENDS Reformulations, TLAPS
-------------------------------------------------------------------------------
(* MultisetsForbid: the reformulation that forbids submultisets is correct *)
(* for every parent task, every sequence of multisets and every bound.     *)

(* The largest multiplicity of every multiset read so far is known. *)
MaxCountIsUpperBound ==
    \A k \in 1 .. read, o \in Op : forbidding_multisets[k][o] <= max_count[o]

(* A counter is exact until it saturates. *)
CounterSaturates ==
    \A o \in Op : counter[o] = IF applied[o] < max_count[o]
                               THEN applied[o] ELSE max_count[o]

(* No operator is applied while the constructor is still reading. *)
NothingAppliedWhileReading ==
    ~Running => \A o \in Op : applied[o] = 0

PossibleIffContained ==
    \A j \in PlanIndex :
        still_possible[j] = 1 <=> Contained(applied, forbidding_multisets[j])

IInv ==
    /\ TypeOK
    /\ MaxCountIsUpperBound
    /\ CounterSaturates
    /\ NothingAppliedWhileReading
    /\ PossibleIffContained

-------------------------------------------------------------------------------
(* Every given multiset gives every operator a multiplicity. *)
LEMMA MultisetsAreFunctions ==
    ASSUME forbidding_multisets \in InputMultisets
    PROVE  /\ Len(forbidding_multisets) \in Nat
           /\ forbidding_multisets \in Seq([Op -> Nat])
           /\ \A j \in PlanIndex : forbidding_multisets[j] \in [Op -> Nat]
           /\ \A j \in PlanIndex, o \in Op : forbidding_multisets[j][o] \in Nat
BY MultisetsAssumption DEF PlanIndex

(* The successor of a state in which an operator applies is a state. *)
LEMMA SuccessorIsState ==
    ASSUME NEW o \in Op, NEW st \in State, IsApplicable(o, st)
    PROVE  Successor(o, st) \in State
BY ParentAssumption DEF IsApplicable, Successor

(* Before a multiset is read no bound is set and no operator applied. *)
LEMMA InitInvariant == Init => IInv
<1> SUFFICES ASSUME Init PROVE IInv
    OBVIOUS
<1>1. TypeOK
    BY MultisetsAreFunctions, ParentAssumption DEF Init, TypeOK, PlanIndex
<1>2. MaxCountIsUpperBound /\ CounterSaturates /\ NothingAppliedWhileReading
    BY MultisetsAreFunctions
    DEF Init, MaxCountIsUpperBound, CounterSaturates, NothingAppliedWhileReading
<1>3. PossibleIffContained
    BY MultisetsAreFunctions DEF Init, PossibleIffContained, Contained, PlanIndex
<1> QED
    BY <1>1, <1>2, <1>3 DEF IInv

(* Reading a multiset raises the bounds to its multiplicities, while the   *)
(* counters are zero.                                                      *)
LEMMA ReadMultisetKeepsInvariant == IInv /\ ReadMultiset => IInv'
<1> SUFFICES ASSUME IInv, ReadMultiset PROVE IInv'
    OBVIOUS
<1> USE MultisetsAreFunctions DEF IInv
<1>1. /\ TypeOK
      /\ read < Len(forbidding_multisets)
      /\ UNCHANGED <<forbidding_multisets, s, still_possible, counter, applied>>
    BY DEF ReadMultiset
<1>2. /\ read \in Nat /\ read + 1 \in PlanIndex /\ read' = read + 1
      /\ \A o \in Op : max_count'[o] =
            IF forbidding_multisets[read + 1][o] > max_count[o]
            THEN forbidding_multisets[read + 1][o] ELSE max_count[o]
      /\ max_count' \in [Op -> Nat]
    BY DEF TypeOK, ReadMultiset, PlanIndex
<1>3. \A o \in Op : /\ max_count[o] \in Nat /\ max_count'[o] \in Nat
                    /\ max_count[o] <= max_count'[o]
                    /\ forbidding_multisets[read + 1][o] <= max_count'[o]
    BY <1>1, <1>2 DEF TypeOK
<1>4. TypeOK'
    BY <1>1, <1>2, <1>3 DEF TypeOK, PlanIndex
<1>5. MaxCountIsUpperBound'
    <2> SUFFICES ASSUME NEW k \in 1 .. read + 1, NEW o \in Op
                 PROVE  forbidding_multisets[k][o] <= max_count'[o]
        BY <1>1, <1>2 DEF MaxCountIsUpperBound
    <2>1. CASE k = read + 1
        BY <2>1, <1>3
    <2>2. CASE k \in 1 .. read
        <3>1. /\ forbidding_multisets[k][o] <= max_count[o]
              /\ forbidding_multisets[k][o] \in Nat
            BY <2>2, <1>1, <1>2, SMTT(30) DEF MaxCountIsUpperBound, TypeOK, PlanIndex
        <3> QED
            BY <3>1, <1>3
    <2> QED
        BY <1>2, <2>1, <2>2
<1>6. CounterSaturates' /\ NothingAppliedWhileReading'
    <2>1. \A o \in Op : applied[o] = 0 /\ counter[o] = 0
        BY <1>1, <1>3 DEF NothingAppliedWhileReading, Running, CounterSaturates
    <2> QED
        BY <1>1, <1>3, <2>1
        DEF CounterSaturates, NothingAppliedWhileReading, Running
<1>7. PossibleIffContained'
    BY <1>1 DEF PossibleIffContained, Contained, PlanIndex
<1> QED
    BY <1>4, <1>5, <1>6, <1>7

(* What every copy of an operator does, whatever its type. *)
LEMMA ApplyParentOpFacts ==
    ASSUME TypeOK, NEW o \in Op, ApplyParentOp(o)
    PROVE  /\ Running /\ Running'
           /\ UNCHANGED <<forbidding_multisets, read, max_count>>
           /\ s' \in State
           /\ applied' = [applied EXCEPT ![o] = applied[o] + 1]
           /\ applied' \in [Op -> Nat]
           /\ \A x \in Op : applied'[x] = IF x = o THEN applied[x] + 1
                                                  ELSE applied[x]
BY SuccessorIsState DEF ApplyParentOp, TypeOK, Running

(* Multiset j contains the operators applied after o is applied once more. *)
LEMMA ContainedAfter ==
    ASSUME TypeOK, NEW o \in Op, ApplyParentOp(o), NEW j \in PlanIndex
    PROVE  Contained(applied', forbidding_multisets[j])
             <=> /\ Contained(applied, forbidding_multisets[j])
                 /\ applied[o] + 1 <= forbidding_multisets[j][o]
<1>1. \A x \in Op : applied[x] \in Nat /\ forbidding_multisets[j][x] \in Nat
    BY MultisetsAreFunctions DEF TypeOK
<1> QED
    BY <1>1, ApplyParentOpFacts DEF Contained

(* An application that leaves every plan behind: the invariant survives     *)
(* when the counter was already as high as every plan goes.                *)
LEMMA DiscardAllPlansKeepsInvariant ==
    ASSUME IInv, NEW o \in Op, ApplyParentOp(o), DiscardAllPlans,
           UNCHANGED counter, counter[o] = max_count[o]
    PROVE  IInv'
<1> USE MultisetsAreFunctions, ApplyParentOpFacts DEF IInv
<1>1. /\ \A x \in Op : /\ applied[x] \in Nat /\ max_count[x] \in Nat
                       /\ counter[x] \in Nat
      /\ read = Len(forbidding_multisets)
    BY DEF TypeOK, Running
<1>2. TypeOK'
    BY DEF TypeOK, DiscardAllPlans, PlanIndex
<1>3. MaxCountIsUpperBound' /\ NothingAppliedWhileReading'
    BY SMTT(30) DEF MaxCountIsUpperBound, NothingAppliedWhileReading
<1>4. CounterSaturates'
    BY <1>1 DEF CounterSaturates
<1>5. PossibleIffContained'
    <2> SUFFICES ASSUME NEW j \in PlanIndex
                 PROVE  ~Contained(applied', forbidding_multisets[j])
        BY DEF PossibleIffContained, DiscardAllPlans, PlanIndex
    <2>1. /\ forbidding_multisets[j][o] <= max_count[o]
          /\ forbidding_multisets[j][o] \in Nat
        BY <1>1 DEF MaxCountIsUpperBound, PlanIndex, TypeOK
    <2>2. max_count[o] <= applied[o]
        BY <1>1 DEF CounterSaturates
    <2> QED
        BY <1>1, <2>1, <2>2, ContainedAfter
<1> QED
    BY <1>2, <1>3, <1>4, <1>5

(* An operator on no plan takes every plan out of reach. *)
LEMMA NotOnPlansKeepsInvariant ==
    ASSUME IInv, NEW o \in Op, NotOnPlans(o) PROVE IInv'
<1>1. counter[o] = max_count[o]
    BY DEF IInv, TypeOK, NotOnPlans, PreNotOnPlans, IsOperatorOnPlans
<1> QED
    BY <1>1, DiscardAllPlansKeepsInvariant DEF NotOnPlans

(* An operator applied more often than in any multiset does so too. *)
LEMMA BeyondPlansKeepsInvariant ==
    ASSUME IInv, NEW o \in Op, BeyondPlans(o) PROVE IInv'
BY DiscardAllPlansKeepsInvariant DEF BeyondPlans, PreBeyondPlans

(* The copy that counts takes those plans out that contain its operator less*)
(* often.                                                                   *)
LEMMA CountingOpKeepsInvariant ==
    ASSUME IInv, NEW o \in Op, NEW i \in 0 .. max_count[o], CountingOp(o, i)
    PROVE  IInv'
<1>0. /\ ApplyParentOp(o) /\ counter[o] = i /\ i \in Nat /\ i < max_count[o]
      /\ counter' = [counter EXCEPT ![o] = i + 1]
      /\ still_possible' = [j \in PlanIndex |->
            IF forbidding_multisets[j][o] = i THEN 0 ELSE still_possible[j]]
    BY DEF CountingOp, PreCountingOp, IInv, TypeOK
<1> USE <1>0, MultisetsAreFunctions, ApplyParentOpFacts DEF IInv
<1>1. /\ \A x \in Op : /\ applied[x] \in Nat /\ max_count[x] \in Nat
                       /\ counter[x] \in Nat /\ counter[x] <= max_count[x]
      /\ read = Len(forbidding_multisets)
    BY DEF TypeOK, Running
<1>2. applied[o] = i
    BY <1>1 DEF CounterSaturates
<1>3. TypeOK'
    <2>1. counter' \in [Op -> Nat] /\ \A x \in Op : counter'[x] <= max_count[x]
        BY <1>1, SMTT(30) DEF TypeOK
    <2>2. still_possible' \in [PlanIndex -> {0, 1}]
        BY DEF TypeOK
    <2>3. UNCHANGED <<forbidding_multisets, read, max_count>> /\ PlanIndex' = PlanIndex
        BY DEF PlanIndex
    <2> QED
        BY <2>1, <2>2, <2>3, SMTT(30) DEF TypeOK
<1>4. MaxCountIsUpperBound' /\ NothingAppliedWhileReading'
    BY SMTT(30) DEF MaxCountIsUpperBound, NothingAppliedWhileReading
<1>5. CounterSaturates'
    BY <1>1, <1>2 DEF CounterSaturates, TypeOK
<1>6. PossibleIffContained'
    <2> SUFFICES ASSUME NEW j \in PlanIndex
                 PROVE  still_possible'[j] = 1
                          <=> Contained(applied', forbidding_multisets[j])
        BY DEF PossibleIffContained, PlanIndex
    <2>1. still_possible[j] = 1 <=> Contained(applied, forbidding_multisets[j])
        BY DEF PossibleIffContained
    <2>2. forbidding_multisets[j][o] \in Nat
        BY DEF TypeOK
    <2>3. Contained(applied, forbidding_multisets[j])
            => i <= forbidding_multisets[j][o]
        BY <1>2 DEF Contained
    <2>4. still_possible'[j] = IF forbidding_multisets[j][o] = i
                               THEN 0 ELSE still_possible[j]
        BY DEF PlanIndex
    <2> QED
        BY <1>2, <2>1, <2>2, <2>3, <2>4, ContainedAfter
<1> QED
    BY <1>3, <1>4, <1>5, <1>6

(* Every step keeps the invariant. *)
LEMMA NextKeepsInvariant == IInv /\ [Next]_vars => IInv'
<1> SUFFICES ASSUME IInv, [Next]_vars PROVE IInv'
    OBVIOUS
<1>1. CASE ReadMultiset
    BY <1>1, ReadMultisetKeepsInvariant
<1>2. ASSUME NEW o \in Op, NotOnPlans(o) PROVE IInv'
    BY <1>2, NotOnPlansKeepsInvariant
<1>3. ASSUME NEW o \in Op, BeyondPlans(o) PROVE IInv'
    BY <1>3, BeyondPlansKeepsInvariant
<1>4. ASSUME NEW o \in Op, NEW i \in 0 .. max_count[o], CountingOp(o, i)
      PROVE  IInv'
    BY <1>4, CountingOpKeepsInvariant
<1>5. CASE UNCHANGED vars
    BY <1>5 DEF vars, IInv, TypeOK, MaxCountIsUpperBound, CounterSaturates,
        NothingAppliedWhileReading, Running, PossibleIffContained, Contained,
        PlanIndex
<1> QED
    BY <1>1, <1>2, <1>3, <1>4, <1>5 DEF Next

(* The bounds are those of the multisets read, the counters are exact until*)
(* they saturate, and a plan is possible exactly while it contains the run.*)
THEOREM Invariance == Spec => []IInv
BY InitInvariant, NextKeepsInvariant, PTL DEF Spec
-------------------------------------------------------------------------------
(* The added variables keep to their domains: no counter ever passes the    *)
(* largest multiplicity, however long the run.                             *)
THEOREM TypeCorrect == Spec => []TypeOK
BY Invariance, PTL DEF IInv

(* A plan is still possible exactly while it contains the run, whatever the *)
(* number of plans, their multiplicities and the length of the run.        *)
THEOREM PossibleCorrect == Spec => []StillPossibleIffContained
<1>1. IInv => StillPossibleIffContained
    BY DEF IInv, PossibleIffContained, StillPossibleIffContained
<1> QED
    BY <1>1, Invariance, PTL

(* The preconditions added to the copies of an operator partition the       *)
(* reachable states: exactly one copy is open in each.                     *)
THEOREM CopiesPartition == Spec => []ExactlyOneCopy
<1>1. IInv => ExactlyOneCopy
    <2> SUFFICES ASSUME IInv, NEW o \in Op
                 PROVE  LET counting == {i \in 0 .. max_count[o] :
                                            PreCountingOp(o, i)}
                        IN  \/ /\ PreNotOnPlans(o) /\ ~PreBeyondPlans(o)
                               /\ counting = {}
                            \/ /\ ~PreNotOnPlans(o) /\ PreBeyondPlans(o)
                               /\ counting = {}
                            \/ /\ ~PreNotOnPlans(o) /\ ~PreBeyondPlans(o)
                               /\ \E i \in counting : counting = {i}
        BY DEF ExactlyOneCopy
    <2> DEFINE counting == {i \in 0 .. max_count[o] : PreCountingOp(o, i)}
    <2>1. /\ max_count[o] \in Nat /\ counter[o] \in Nat
          /\ counter[o] <= max_count[o]
        BY DEF IInv, TypeOK
    <2>2. CASE counter[o] = max_count[o]
        <3>1. counting = {}
            BY <2>1, <2>2 DEF PreCountingOp
        <3> QED
            BY <2>1, <2>2, <3>1
            DEF PreNotOnPlans, PreBeyondPlans, IsOperatorOnPlans
    <2>3. CASE counter[o] < max_count[o]
        <3>1. counting = {counter[o]}
            BY <2>1, <2>3 DEF PreCountingOp
        <3>2. ~PreNotOnPlans(o) /\ ~PreBeyondPlans(o)
            BY <2>1, <2>3 DEF PreNotOnPlans, PreBeyondPlans, IsOperatorOnPlans
        <3> QED
            BY <3>1, <3>2
    <2> QED
        BY <2>1, <2>2, <2>3
<1> QED
    BY <1>1, Invariance, PTL
-------------------------------------------------------------------------------
(* The goal facts hold exactly in the goal states of the parent whose run   *)
(* is contained in no given multiset.                                      *)
GoalForbidsContained ==
    AtGoal <=> IsGoalState(s) /\ ~IsForbidden(forbidding_multisets, applied)

(* The invariant gives what the goal facts mean. *)
LEMMA InvariantGivesGoal == IInv => GoalForbidsContained
<1> SUFFICES ASSUME IInv PROVE GoalForbidsContained
    OBVIOUS
<1>1. DOMAIN forbidding_multisets = PlanIndex
    BY MultisetsAreFunctions DEF IInv, TypeOK, PlanIndex
<1>2. \A j \in PlanIndex : still_possible[j] \in 0 .. 1
    BY DEF IInv, TypeOK
<1> QED
    BY <1>1, <1>2
    DEF GoalForbidsContained, AtGoal, IsForbidden, IInv, PossibleIffContained

(* Every application of a copy is an application of the parent's operator  *)
(* in the abstract task.                                                   *)
LEMMA CopyImplementsApply ==
    ASSUME GoalForbidsContained', NEW o \in Op, ApplyParentOp(o)
    PROVE  Promise!Apply(o)
<1>1. /\ IsApplicable(o, s) /\ s' = Successor(o, s)
      /\ applied' = AddOperator(forbidding_multisets, applied, o)
      /\ UNCHANGED forbidding_multisets
    BY DEF ApplyParentOp, AddOperator
<1>2. AtGoal' <=> /\ IsGoalState(s')
                  /\ ~IsForbidden(forbidding_multisets', applied')
    BY DEF GoalForbidsContained
<1> QED
    BY <1>1, <1>2
    DEF Promise!Apply, Promise!IsApplicable, Promise!Successor,
        Promise!IsGoalState, IsApplicable, Successor, IsGoalState

(* The initial states are those of the promise. *)
LEMMA InitRefines == Init /\ GoalForbidsContained => Promise!Init
<1> SUFFICES ASSUME Init, GoalForbidsContained PROVE Promise!Init
    OBVIOUS
<1>1. /\ forbidding_multisets \in InputMultisets /\ s = InitialState
      /\ applied = NoOperators(forbidding_multisets)
    BY DEF Init, NoOperators
<1>2. AtGoal = (IsGoalState(s) /\ ~IsForbidden(forbidding_multisets, applied))
    BY DEF GoalForbidsContained, AtGoal
<1> QED
    BY <1>1, <1>2 DEF Promise!Init, Promise!IsGoalState, IsGoalState

(* Every step is a step of the promise; reading a multiset changes nothing *)
(* there.                                                                  *)
LEMMA NextRefines ==
    GoalForbidsContained /\ GoalForbidsContained' /\ [Next]_vars
      => [Promise!Next]_(Promise!vars)
<1> SUFFICES ASSUME GoalForbidsContained, GoalForbidsContained', [Next]_vars
             PROVE  [Promise!Next]_(Promise!vars)
    OBVIOUS
<1>1. CASE ReadMultiset
    BY <1>1 DEF ReadMultiset, Promise!vars, AtGoal, PlanIndex, IsGoalState
<1>2. ASSUME NEW o \in Op, ApplyParentOp(o) PROVE Promise!Next
    BY <1>2, CopyImplementsApply DEF Promise!Next
<1>3. CASE UNCHANGED vars
    BY <1>3 DEF vars, Promise!vars, AtGoal, PlanIndex, IsGoalState
<1> QED
    BY <1>1, <1>2, <1>3 DEF Next, NotOnPlans, BeyondPlans, CountingOp

(* The reformulated task has exactly the runs of the parent, and its goal   *)
(* holds exactly after the plans that no given multiset contains: nothing   *)
(* forbidden is found again and nothing else is lost.                      *)
THEOREM ForbidsExactlyTheSubmultisets == Spec => ImplementsForbiddingTask
<1>1. Spec => []GoalForbidsContained
    BY Invariance, InvariantGivesGoal, PTL
<1> QED
    BY <1>1, InitRefines, NextRefines, PTL
    DEF Spec, ImplementsForbiddingTask, Promise!Spec
-------------------------------------------------------------------------------
(* PlanForbid: the mark is at the length of the run while that is a prefix. *)
PlanInv == PlanTask!TypeOK /\ PlanTask!MarksThePosition

(* The plan read is a sequence of operators. *)
LEMMA PlanFacts ==
    ASSUME forbidding_plan \in InputPlans
    PROVE  /\ forbidding_plan \in Seq(Op) /\ Len(forbidding_plan) \in Nat
           /\ \A i \in 1 .. Len(forbidding_plan) : forbidding_plan[i] \in Op
BY ReformulationsAssumption DEF PlanTask!PlanAssumption

(* Initially the mark is at position 0, the length of the empty run. *)
LEMMA PlanInitInvariant == PlanTask!Init => PlanInv
<1> SUFFICES ASSUME PlanTask!Init PROVE PlanInv
    OBVIOUS
<1> USE PlanFacts DEF PlanTask!Init, PlanTask!Positions
<1>1. PlanTask!TypeOK
    BY ParentAssumption DEF PlanTask!TypeOK
<1>2. PlanTask!MarksThePosition
    BY DEF PlanTask!MarksThePosition, PlanTask!IsPrefixOf
<1> QED
    BY <1>1, <1>2 DEF PlanInv

(* What every copy of an operator does: the run is a prefix of the plan     *)
(* after it just when it was one before and the plan goes on with o.       *)
LEMMA PlanApply ==
    ASSUME PlanTask!TypeOK, NEW o \in Op, PlanTask!ApplyParentOp(o)
    PROVE  /\ UNCHANGED forbidding_plan
           /\ s' \in State
           /\ run' \in Seq(Op) /\ Len(run') = Len(run) + 1 /\ Len(run) \in Nat
           /\ PlanTask!IsPrefixOf(run', forbidding_plan)
                <=> /\ PlanTask!IsPrefixOf(run, forbidding_plan)
                    /\ Len(run) \in PlanTask!PlanIndexes(o)
<1>1. /\ s \in State /\ s' = Successor(o, s) /\ IsApplicable(o, s)
      /\ run \in Seq(Op) /\ run' = Append(run, o) /\ forbidding_plan' = forbidding_plan
      /\ forbidding_plan \in InputPlans
    BY DEF PlanTask!TypeOK, PlanTask!ApplyParentOp, PlanTask!IsApplicable,
           PlanTask!Successor, IsApplicable, Successor
<1>2. /\ run' \in Seq(Op) /\ Len(run') = Len(run) + 1 /\ Len(run) \in Nat
      /\ run'[Len(run) + 1] = o
      /\ \A i \in 1 .. Len(run) : run'[i] = run[i]
    BY <1>1
<1>3. PlanTask!IsPrefixOf(run', forbidding_plan)
        <=> /\ PlanTask!IsPrefixOf(run, forbidding_plan)
            /\ Len(run) \in PlanTask!PlanIndexes(o)
    BY <1>1, <1>2, PlanFacts, SMTT(30)
    DEF PlanTask!IsPrefixOf, PlanTask!PlanIndexes
<1> QED
    BY <1>1, <1>2, <1>3, SuccessorIsState

(* A copy that leaves the plan: the plan does not go on with the operator. *)
LEMMA PlanLeavingKeepsInvariant ==
    ASSUME PlanInv, NEW o \in Op, PlanTask!ApplyParentOp(o), plan_possible' = 0,
           UNCHANGED plan_following,
           ~PlanTask!IsPrefixOf(run, forbidding_plan) \/ Len(run) \notin PlanTask!PlanIndexes(o)
    PROVE  PlanInv'
<1>1. PlanTask!TypeOK'
    BY PlanApply DEF PlanInv, PlanTask!TypeOK, PlanTask!Positions
<1>2. PlanTask!MarksThePosition'
    BY PlanApply DEF PlanInv, PlanTask!MarksThePosition
<1> QED
    BY <1>1, <1>2 DEF PlanInv

(* The copy for position i moves the mark from i, where it was alone, to i +*)
(* 1.                                                                       *)
LEMMA PlanFollowKeepsInvariant ==
    ASSUME PlanInv, NEW i \in 0 .. Len(forbidding_plan) - 1, PlanTask!Follow(i)
    PROVE  PlanInv'
<1> DEFINE o == forbidding_plan[i + 1]
<1>1. /\ forbidding_plan \in Seq(Op) /\ Len(forbidding_plan) \in Nat /\ o \in Op
      /\ i \in PlanTask!Positions /\ i + 1 \in PlanTask!Positions
    BY PlanFacts DEF PlanInv, PlanTask!TypeOK, PlanTask!Positions
<1>2. /\ i \in PlanTask!PlanIndexes(o) /\ plan_possible = 1 /\ plan_following[i] = 1
      /\ PlanTask!ApplyParentOp(o) /\ plan_possible' = 1
      /\ plan_following' = [plan_following EXCEPT ![i] = 0, ![i + 1] = 1]
      /\ plan_following \in [PlanTask!Positions -> 0 .. 1]
    BY DEF PlanTask!Follow, PlanTask!PreFollowing, PlanInv, PlanTask!TypeOK
<1>3. /\ PlanTask!IsPrefixOf(run, forbidding_plan) /\ i = Len(run)
      /\ \A k \in PlanTask!Positions : plan_following[k] = 1 <=> k = i
    BY <1>1, <1>2 DEF PlanInv, PlanTask!MarksThePosition
<1>4. /\ \A k \in PlanTask!Positions :
            plan_following'[k] = IF k = i + 1 THEN 1 ELSE IF k = i THEN 0
                                 ELSE plan_following[k]
      /\ plan_following' \in [PlanTask!Positions -> 0 .. 1]
    BY <1>1, <1>2
<1>5. PlanTask!TypeOK'
    BY <1>2, <1>4, <1>1, PlanApply DEF PlanInv, PlanTask!TypeOK, PlanTask!Positions
<1>6. \A k \in PlanTask!Positions : plan_following'[k] = 1 <=> k = i + 1
    BY <1>1, <1>3, <1>4 DEF PlanTask!Positions
<1>7. PlanTask!MarksThePosition'
    BY <1>1, <1>2, <1>3, <1>6, PlanApply
    DEF PlanInv, PlanTask!MarksThePosition, PlanTask!Positions
<1> QED
    BY <1>5, <1>7 DEF PlanInv

(* Every step of the plan task keeps the invariant. *)
LEMMA PlanNextKeepsInvariant ==
    PlanInv /\ [PlanTask!Next]_(PlanTask!vars) => PlanInv'
<1> SUFFICES ASSUME PlanInv, [PlanTask!Next]_(PlanTask!vars) PROVE PlanInv'
    OBVIOUS
<1>1. ASSUME NEW o \in Op, PlanTask!NotOnPlan(o) PROVE PlanInv'
    BY <1>1, PlanLeavingKeepsInvariant
    DEF PlanTask!NotOnPlan, PlanTask!PreNotOnPlan, PlanTask!IsOperatorOnPlan
<1>2. ASSUME NEW o \in Op, PlanTask!AlreadyDiscarded(o) PROVE PlanInv'
    <2>1. plan_possible = 0 /\ plan_possible' = 0
        BY <1>2 DEF PlanTask!AlreadyDiscarded, PlanTask!PreDiscarded
    <2>2. ~PlanTask!IsPrefixOf(run, forbidding_plan)
        BY <2>1 DEF PlanInv, PlanTask!MarksThePosition
    <2> QED
        BY <1>2, <2>1, <2>2, PlanLeavingKeepsInvariant DEF PlanTask!AlreadyDiscarded
<1>3. ASSUME NEW o \in Op, PlanTask!Discard(o) PROVE PlanInv'
    <2>1. /\ plan_possible = 1 /\ \A i \in PlanTask!PlanIndexes(o) : plan_following[i] = 0
          /\ PlanTask!PlanIndexes(o) \subseteq PlanTask!Positions
        BY <1>3, PlanFacts
        DEF PlanTask!Discard, PlanTask!PreDiscarding, PlanTask!PlanIndexes,
            PlanTask!Positions, PlanInv, PlanTask!TypeOK
    <2>2. Len(run) \notin PlanTask!PlanIndexes(o)
        BY <2>1 DEF PlanInv, PlanTask!MarksThePosition
    <2> QED
        BY <1>3, <2>2, PlanLeavingKeepsInvariant DEF PlanTask!Discard
<1>4. ASSUME NEW i \in 0 .. Len(forbidding_plan) - 1, PlanTask!Follow(i) PROVE PlanInv'
    BY <1>4, PlanFollowKeepsInvariant
<1>5. CASE UNCHANGED PlanTask!vars
    BY <1>5 DEF PlanTask!vars, PlanInv, PlanTask!TypeOK, PlanTask!MarksThePosition,
        PlanTask!Positions, PlanTask!IsPrefixOf
<1> QED
    BY <1>1, <1>2, <1>3, <1>4, <1>5 DEF PlanTask!Next

(* While a run of the task follows the plan, the one position marked is the *)
(* length of the run, and the plan counts as discarded just when the run is *)
(* no prefix of it, however often the plan repeats operators.              *)
THEOREM PlanMarkCorrect == PlanTask!Spec => []PlanInv
BY PlanInitInvariant, PlanNextKeepsInvariant, PTL DEF PlanTask!Spec

(* The preconditions added to the copies of an operator partition the       *)
(* reachable states: exactly one copy is open in each.                     *)
THEOREM PlanCopiesPartition == PlanTask!Spec => []PlanTask!ExactlyOneCopy
<1>1. PlanInv => PlanTask!ExactlyOneCopy
    <2> SUFFICES ASSUME PlanInv, NEW o \in Op
                 PROVE  LET positions == {i \in PlanTask!PlanIndexes(o) :
                                            PlanTask!PreFollowing(i, o)}
                            others == {i \in 0 .. 2 :
                                        \/ i = 0 /\ PlanTask!PreNotOnPlan(o)
                                        \/ i = 1 /\ PlanTask!PreDiscarded(o)
                                        \/ i = 2 /\ PlanTask!PreDiscarding(o)}
                        IN  \/ others = {} /\ \E i \in positions : positions = {i}
                            \/ positions = {} /\ \E i \in others : others = {i}
        BY DEF PlanTask!ExactlyOneCopy
    <2> DEFINE positions == {i \in PlanTask!PlanIndexes(o) : PlanTask!PreFollowing(i, o)}
               others == {i \in 0 .. 2 : \/ i = 0 /\ PlanTask!PreNotOnPlan(o)
                                         \/ i = 1 /\ PlanTask!PreDiscarded(o)
                                         \/ i = 2 /\ PlanTask!PreDiscarding(o)}
    <2>1. /\ plan_possible \in 0 .. 1 /\ plan_following \in [PlanTask!Positions -> 0 .. 1]
          /\ PlanTask!PlanIndexes(o) \subseteq PlanTask!Positions
        BY PlanFacts DEF PlanInv, PlanTask!TypeOK, PlanTask!PlanIndexes, PlanTask!Positions
    <2>2. CASE PlanTask!PlanIndexes(o) = {}
        <3>1. positions = {} /\ others = {0}
            BY <2>2 DEF PlanTask!PreNotOnPlan, PlanTask!PreDiscarded,
                PlanTask!PreDiscarding, PlanTask!IsOperatorOnPlan
        <3> QED
            BY <3>1
    <2>3. CASE PlanTask!PlanIndexes(o) # {} /\ plan_possible = 0
        <3>1. positions = {} /\ others = {1}
            BY <2>3 DEF PlanTask!PreNotOnPlan, PlanTask!PreDiscarded,
                PlanTask!PreDiscarding, PlanTask!IsOperatorOnPlan, PlanTask!PreFollowing
        <3> QED
            BY <3>1
    <2>4. CASE PlanTask!PlanIndexes(o) # {} /\ plan_possible = 1
        <3>1. /\ \A i \in PlanTask!PlanIndexes(o) : plan_following[i] = 1 <=> i = Len(run)
              /\ \A i \in PlanTask!PlanIndexes(o) : plan_following[i] = 0 <=> i # Len(run)
            BY <2>1, <2>4 DEF PlanInv, PlanTask!MarksThePosition
        <3>2. positions = {i \in PlanTask!PlanIndexes(o) : i = Len(run)}
            BY <2>4, <3>1 DEF PlanTask!PreFollowing
        <3>3. /\ ~PlanTask!PreNotOnPlan(o) /\ ~PlanTask!PreDiscarded(o)
              /\ PlanTask!PreDiscarding(o) <=> Len(run) \notin PlanTask!PlanIndexes(o)
            BY <2>4, <3>1 DEF PlanTask!PreNotOnPlan, PlanTask!PreDiscarded,
                PlanTask!PreDiscarding, PlanTask!IsOperatorOnPlan
        <3>4. CASE Len(run) \in PlanTask!PlanIndexes(o)
            <4>1. positions = {Len(run)} /\ others = {}
                BY <3>2, <3>3, <3>4
            <4> QED
                BY <4>1
        <3>5. CASE Len(run) \notin PlanTask!PlanIndexes(o)
            <4>1. positions = {} /\ others = {2}
                BY <3>2, <3>3, <3>5
            <4> QED
                BY <4>1
        <3> QED
            BY <3>4, <3>5
    <2> QED
        BY <2>1, <2>2, <2>3, <2>4
<1> QED
    BY <1>1, PlanMarkCorrect, PTL

(* The goal facts hold exactly in the goal states of the parent after runs  *)
(* that are no prefix of the plan.                                         *)
GoalForbidsPlan ==
    PlanTask!AtGoal <=> IsGoalState(s) /\ ~PlanTask!IsForbidden(forbidding_plan, run)

(* The invariant gives what the goal facts mean. *)
LEMMA PlanInvariantGivesGoal == PlanInv => GoalForbidsPlan
BY DEF PlanInv, PlanTask!TypeOK, PlanTask!MarksThePosition, GoalForbidsPlan,
    PlanTask!AtGoal, PlanTask!IsForbidden, PlanTask!IsGoalState, IsGoalState

(* Every application of a copy is one of the parent's operator. *)
LEMMA PlanCopyImplementsApply ==
    ASSUME GoalForbidsPlan', NEW o \in Op, PlanTask!ApplyParentOp(o)
    PROVE  PlanTask!Promise!Apply(o)
<1>1. /\ IsApplicable(o, s) /\ s' = Successor(o, s)
      /\ run' = PlanTask!Appended(forbidding_plan, run, o)
      /\ UNCHANGED forbidding_plan
    BY DEF PlanTask!ApplyParentOp, PlanTask!Appended, PlanTask!IsApplicable,
           PlanTask!Successor, IsApplicable, Successor
<1>2. PlanTask!AtGoal' <=> IsGoalState(s') /\ ~PlanTask!IsForbidden(forbidding_plan', run')
    BY DEF GoalForbidsPlan
<1> QED
    BY <1>1, <1>2
    DEF PlanTask!Promise!Apply, PlanTask!Promise!IsApplicable, PlanTask!Promise!Successor,
        PlanTask!Promise!IsGoalState, IsApplicable, Successor, IsGoalState

(* The initial states of the plan task are those of its promise. *)
LEMMA PlanInitRefines == PlanTask!Init /\ GoalForbidsPlan => PlanTask!Promise!Init
<1> SUFFICES ASSUME PlanTask!Init, GoalForbidsPlan PROVE PlanTask!Promise!Init
    OBVIOUS
<1>1. /\ forbidding_plan \in InputPlans /\ s = InitialState
      /\ run = PlanTask!EmptyPlan(forbidding_plan)
    BY DEF PlanTask!Init, PlanTask!EmptyPlan
<1>2. PlanTask!AtGoal = (IsGoalState(s) /\ ~PlanTask!IsForbidden(forbidding_plan, run))
    BY DEF GoalForbidsPlan, PlanTask!AtGoal
<1> QED
    BY <1>1, <1>2 DEF PlanTask!Promise!Init, PlanTask!Promise!IsGoalState, IsGoalState

(* Every step of the plan task is a step of its promise or changes nothing *)
(* there.                                                                  *)
LEMMA PlanNextRefines ==
    PlanInv /\ GoalForbidsPlan' /\ [PlanTask!Next]_(PlanTask!vars)
      => [PlanTask!Promise!Next]_(PlanTask!Promise!vars)
<1> SUFFICES ASSUME PlanInv, GoalForbidsPlan', [PlanTask!Next]_(PlanTask!vars)
             PROVE  [PlanTask!Promise!Next]_(PlanTask!Promise!vars)
    OBVIOUS
<1>1. ASSUME NEW o \in Op, PlanTask!ApplyParentOp(o) PROVE PlanTask!Promise!Next
    BY <1>1, PlanCopyImplementsApply DEF PlanTask!Promise!Next
<1>2. ASSUME NEW i \in 0 .. Len(forbidding_plan) - 1, PlanTask!Follow(i)
      PROVE  PlanTask!Promise!Next
    <2>1. forbidding_plan[i + 1] \in Op
        BY PlanFacts DEF PlanInv, PlanTask!TypeOK
    <2> QED
        BY <1>1, <1>2, <2>1 DEF PlanTask!Follow
<1>3. CASE UNCHANGED PlanTask!vars
    BY <1>3 DEF PlanTask!vars, PlanTask!Promise!vars, PlanTask!AtGoal,
        PlanTask!IsGoalState
<1> QED
    BY <1>1, <1>2, <1>3
    DEF PlanTask!Next, PlanTask!NotOnPlan, PlanTask!AlreadyDiscarded, PlanTask!Discard

(* The task that forbids a plan has exactly the runs of the parent, and its *)
(* goal holds exactly after the plans that are no prefix of the plan given. *)
THEOREM ForbidsExactlyThePlan == PlanTask!Spec => PlanTask!ImplementsForbiddingTask
<1>1. PlanTask!Spec => []GoalForbidsPlan
    BY PlanMarkCorrect, PlanInvariantGivesGoal, PTL
<1> QED
    BY <1>1, PlanMarkCorrect, PlanInitRefines, PlanNextRefines, PTL
    DEF PlanTask!Spec, PlanTask!ImplementsForbiddingTask, PlanTask!Promise!Spec
-------------------------------------------------------------------------------
(* MultisetForbid: the union has the largest multiplicity of the multisets  *)
(* read, and a run is possible while it stays within it.                   *)
UnionIsLargest ==
    \A o \in Op :
        /\ \A k \in 1 .. read : forbidding_multisets[k][o] <= union[o]
        /\ union[o] = 0 \/ \E k \in 1 .. read : forbidding_multisets[k][o] = union[o]

UnionWaits == ~UnionTask!Running => \A o \in Op : applied[o] = 0 /\ following[o] = 0

PossibleIffWithinUnion == possible = 1 <=> \A o \in Op : applied[o] <= union[o]

FollowingCounts == possible = 1 => \A o \in Op : following[o] = applied[o]

UnionInv ==
    /\ UnionTask!TypeOK
    /\ UnionIsLargest
    /\ UnionWaits
    /\ PossibleIffWithinUnion
    /\ FollowingCounts

(* The multisets read are a non-empty sequence of functions to the naturals. *)
LEMMA MultisetFacts ==
    ASSUME forbidding_multisets \in InputMultisets
    PROVE  /\ forbidding_multisets \in Seq([Op -> Nat])
           /\ Len(forbidding_multisets) \in Nat \ {0}
           /\ DOMAIN forbidding_multisets = 1 .. Len(forbidding_multisets)
           /\ \A j \in 1 .. Len(forbidding_multisets) :
                forbidding_multisets[j] \in [Op -> Nat]
           /\ \A j \in 1 .. Len(forbidding_multisets), o \in Op :
                forbidding_multisets[j][o] \in Nat
<1>1. forbidding_multisets \in Seq([Op -> Nat]) /\ forbidding_multisets # <<>>
    BY ReformulationsAssumption DEF SuperTask!SuperMultisetsAssumption
<1>2. Len(forbidding_multisets) # 0
    BY <1>1
<1> QED
    BY <1>1, <1>2

(* Before a multiset is read the union is empty, and so is the run. *)
LEMMA UnionInitInvariant == UnionTask!Init => UnionInv
<1> SUFFICES ASSUME UnionTask!Init PROVE UnionInv
    OBVIOUS
<1> USE MultisetFacts DEF UnionTask!Init
<1>1. UnionTask!TypeOK
    BY ParentAssumption DEF UnionTask!TypeOK
<1>2. UnionIsLargest /\ UnionWaits /\ PossibleIffWithinUnion /\ FollowingCounts
    BY DEF UnionIsLargest, UnionWaits, PossibleIffWithinUnion, FollowingCounts
<1> QED
    BY <1>1, <1>2 DEF UnionInv

(* The pointwise maximum with the next multiset keeps the union the largest*)
(* of those read.                                                          *)
LEMMA UnionWithPlanKeepsInvariant == UnionInv /\ UnionTask!UnionWithPlan => UnionInv'
<1> SUFFICES ASSUME UnionInv, UnionTask!UnionWithPlan PROVE UnionInv'
    OBVIOUS
<1>1. /\ UnionTask!TypeOK
      /\ read \in Nat /\ read' = read + 1 /\ read + 1 \in 1 .. Len(forbidding_multisets)
      /\ read # Len(forbidding_multisets)
      /\ \A o \in Op : union'[o] = IF forbidding_multisets[read + 1][o] > union[o]
                                   THEN forbidding_multisets[read + 1][o] ELSE union[o]
      /\ union' = [o \in Op |-> union'[o]]
      /\ UNCHANGED <<forbidding_multisets, s, possible, following, applied>>
    <2>1. /\ forbidding_multisets \in InputMultisets /\ read \in 0 .. Len(forbidding_multisets)
          /\ read < Len(forbidding_multisets) /\ read' = read + 1
          /\ union' = [o \in Op |-> IF forbidding_multisets[read + 1][o] > union[o]
                                    THEN forbidding_multisets[read + 1][o] ELSE union[o]]
        BY SMTT(30)
        DEF UnionInv, UnionTask!TypeOK, UnionTask!UnionWithPlan, UnionTask!MultisetUnion
    <2>2. read \in Nat /\ read + 1 \in 1 .. Len(forbidding_multisets)
          /\ read # Len(forbidding_multisets)
        <3>1. Len(forbidding_multisets) \in Nat
            BY <2>1, MultisetFacts
        <3> QED
            BY <2>1, <3>1
    <2>3. union' = [o \in Op |-> union'[o]]
        BY <2>1
    <2>4. /\ UnionTask!TypeOK
          /\ UNCHANGED <<forbidding_multisets, s, possible, following, applied>>
        BY DEF UnionInv, UnionTask!UnionWithPlan
    <2>5. \A o \in Op : union'[o] = IF forbidding_multisets[read + 1][o] > union[o]
                                   THEN forbidding_multisets[read + 1][o] ELSE union[o]
        BY <2>1
    <2> QED
        BY <2>1, <2>2, <2>3, <2>4, <2>5
<1>2. \A o \in Op : /\ union[o] \in Nat /\ forbidding_multisets[read + 1][o] \in Nat
                    /\ applied[o] = 0 /\ following[o] = 0
    BY <1>1, MultisetFacts DEF UnionInv, UnionTask!TypeOK, UnionWaits, UnionTask!Running
<1>3. UnionTask!TypeOK'
    <2>1. union' \in [Op -> Nat] /\ read' \in 0 .. Len(forbidding_multisets)
        BY <1>1, <1>2
    <2> QED
        BY <1>1, <1>2, <2>1 DEF UnionTask!TypeOK
<1>4. UnionIsLargest'
    <2> SUFFICES ASSUME NEW o \in Op
                 PROVE  /\ \A k \in 1 .. read + 1 : forbidding_multisets[k][o] <= union'[o]
                        /\ \/ union'[o] = 0
                           \/ \E k \in 1 .. read + 1 : forbidding_multisets[k][o] = union'[o]
        BY <1>1 DEF UnionIsLargest
    <2>1. /\ \A k \in 1 .. read : forbidding_multisets[k][o] <= union[o]
          /\ union[o] = 0 \/ \E k \in 1 .. read : forbidding_multisets[k][o] = union[o]
          /\ \A k \in 1 .. read : forbidding_multisets[k][o] \in Nat
        BY <1>1, MultisetFacts DEF UnionInv, UnionIsLargest, UnionTask!TypeOK
    <2>2. \A k \in 1 .. read + 1 : k \in 1 .. read \/ k = read + 1
        BY <1>1
    <2>3. union[o] <= union'[o] /\ forbidding_multisets[read + 1][o] <= union'[o]
        BY <1>1, <1>2
    <2>4. union'[o] \in Nat
        BY <1>1, <1>2
    <2>5. \A k \in 1 .. read : forbidding_multisets[k][o] <= union'[o]
        BY <2>1, <2>3, <2>4, <1>2
    <2> QED
        BY <1>1, <1>2, <2>1, <2>2, <2>3, <2>5
<1>5. UnionWaits' /\ PossibleIffWithinUnion' /\ FollowingCounts'
    BY <1>1, <1>2
    DEF UnionInv, UnionWaits, UnionTask!Running, PossibleIffWithinUnion, FollowingCounts
<1> QED
    BY <1>3, <1>4, <1>5 DEF UnionInv

(* What every copy of an operator does, whatever its type. *)
LEMMA UnionApply ==
    ASSUME UnionTask!TypeOK, NEW o \in Op, UnionTask!ApplyParentOp(o)
    PROVE  /\ UnionTask!Running /\ UnionTask!Running'
           /\ UNCHANGED <<forbidding_multisets, read, union>>
           /\ s' \in State
           /\ applied' \in [Op -> Nat]
           /\ \A x \in Op : applied'[x] = IF x = o THEN applied[x] + 1 ELSE applied[x]
<1>1. s \in State /\ IsApplicable(o, s) /\ s' = Successor(o, s)
    BY DEF UnionTask!ApplyParentOp, UnionTask!TypeOK, UnionTask!IsApplicable,
           UnionTask!Successor, IsApplicable, Successor
<1> QED
    BY <1>1, SuccessorIsState DEF UnionTask!ApplyParentOp, UnionTask!TypeOK, UnionTask!Running

(* A copy that leaves the union, which the run had left already or whose    *)
(* multiplicity of the operator is used up.                                *)
LEMMA UnionLeavingKeepsInvariant ==
    ASSUME UnionInv, NEW o \in Op, UnionTask!ApplyParentOp(o), possible' = 0,
           UNCHANGED following, possible = 1 => following[o] = union[o]
    PROVE  UnionInv'
<1> USE UnionApply DEF UnionInv
<1>1. UnionTask!TypeOK'
    BY DEF UnionTask!TypeOK
<1>2. UnionIsLargest' /\ UnionWaits' /\ FollowingCounts'
    BY DEF UnionIsLargest, UnionWaits, FollowingCounts
<1>3. \A x \in Op : applied[x] \in Nat /\ union[x] \in Nat /\ possible \in 0 .. 1
    BY DEF UnionTask!TypeOK
<1>4. ~\A x \in Op : applied'[x] <= union'[x]
    <2>1. CASE possible = 1
        BY <1>3, <2>1 DEF FollowingCounts
    <2>2. CASE possible = 0
        <3>1. PICK x \in Op : ~(applied[x] <= union[x])
            BY <2>2 DEF PossibleIffWithinUnion
        <3>2. ~(applied'[x] <= union'[x])
            BY <1>3, <3>1
        <3> QED
            BY <3>2
    <2> QED
        BY <2>1, <2>2 DEF UnionTask!TypeOK
<1>5. PossibleIffWithinUnion'
    BY <1>4 DEF PossibleIffWithinUnion
<1> QED
    BY <1>1, <1>2, <1>5

(* The copy for multiplicity i counts the application of its operator      *)
(* exactly.                                                                *)
LEMMA UnionFollowKeepsInvariant ==
    ASSUME UnionInv, NEW o \in Op, NEW i \in 0 .. union[o] - 1, UnionTask!Follow(o, i)
    PROVE  UnionInv'
<1>1. /\ UnionTask!ApplyParentOp(o) /\ possible = 1 /\ possible' = 1 /\ following[o] = i
      /\ union[o] \in Nat /\ i \in Nat /\ i + 1 <= union[o]
      /\ following' = [following EXCEPT ![o] = i + 1]
    BY DEF UnionTask!Follow, UnionTask!PreFollowing, UnionInv, UnionTask!TypeOK
<1>2. \A x \in Op : /\ following[x] \in Nat /\ following[x] = applied[x]
                    /\ union[x] \in Nat /\ following[x] <= union[x]
                    /\ following'[x] = IF x = o THEN i + 1 ELSE following[x]
    BY <1>1 DEF UnionInv, UnionTask!TypeOK, FollowingCounts
<1> USE <1>1, <1>2, UnionApply DEF UnionInv
<1>3. UnionTask!TypeOK'
    BY DEF UnionTask!TypeOK
<1>4. UnionIsLargest' /\ UnionWaits' /\ FollowingCounts'
    BY DEF UnionIsLargest, UnionWaits, FollowingCounts
<1>5. PossibleIffWithinUnion'
    BY DEF PossibleIffWithinUnion
<1> QED
    BY <1>3, <1>4, <1>5

(* Every step of the union task keeps the invariant. *)
LEMMA UnionNextKeepsInvariant ==
    UnionInv /\ [UnionTask!Next]_(UnionTask!vars) => UnionInv'
<1> SUFFICES ASSUME UnionInv, [UnionTask!Next]_(UnionTask!vars) PROVE UnionInv'
    OBVIOUS
<1>1. ASSUME NEW o \in Op, UnionTask!NotOnPlan(o) PROVE UnionInv'
    <2>1. following[o] = union[o]
        BY <1>1 DEF UnionTask!NotOnPlan, UnionTask!PreNotOnPlan,
            UnionTask!IsOperatorOnPlan, UnionInv, UnionTask!TypeOK
    <2> QED
        BY <1>1, <2>1, UnionLeavingKeepsInvariant DEF UnionTask!NotOnPlan
<1>2. ASSUME NEW o \in Op, UnionTask!AlreadyDiscarded(o) PROVE UnionInv'
    BY <1>2, UnionLeavingKeepsInvariant
    DEF UnionTask!AlreadyDiscarded, UnionTask!PreDiscarded
<1>3. ASSUME NEW o \in Op, UnionTask!Discard(o) PROVE UnionInv'
    BY <1>3, UnionLeavingKeepsInvariant
    DEF UnionTask!Discard, UnionTask!PreDiscarding
<1>4. ASSUME NEW o \in Op, NEW i \in 0 .. union[o] - 1, UnionTask!Follow(o, i)
      PROVE  UnionInv'
    BY <1>4, UnionFollowKeepsInvariant
<1>5. CASE UNCHANGED UnionTask!vars
    BY <1>5 DEF UnionTask!vars, UnionInv, UnionTask!TypeOK, UnionIsLargest,
        UnionWaits, UnionTask!Running, PossibleIffWithinUnion, FollowingCounts
<1> QED
    BY <1>1, <1>2, <1>3, <1>4, <1>5, UnionWithPlanKeepsInvariant DEF UnionTask!Next

(* The union really is one, and a run counts as possible just while it      *)
(* stays within it: operator by operator, whatever multisets the           *)
(* multiplicities come from.                                               *)
THEOREM UnionCorrect == UnionTask!Spec => []UnionInv
BY UnionInitInvariant, UnionNextKeepsInvariant, PTL DEF UnionTask!Spec

(* Exactly one copy of every operator is open in each state, also after the *)
(* union was left with counters at their limit.                            *)
THEOREM UnionCopiesPartition == UnionTask!Spec => []UnionTask!ExactlyOneCopy
<1>1. UnionInv => UnionTask!ExactlyOneCopy
    <2> SUFFICES ASSUME UnionInv, NEW o \in Op
                 PROVE  LET copies == {i \in 0 .. 2 :
                                        \/ i = 0 /\ UnionTask!PreNotOnPlan(o)
                                        \/ i = 1 /\ UnionTask!PreDiscarded(o)
                                        \/ i = 2 /\ UnionTask!PreDiscarding(o)}
                            following_copies == {i \in 0 .. union[o] :
                                                    UnionTask!PreFollowing(o, i)}
                        IN  \/ /\ copies = {}
                               /\ \E i \in following_copies : following_copies = {i}
                            \/ following_copies = {} /\ \E i \in copies : copies = {i}
        BY DEF UnionTask!ExactlyOneCopy
    <2> DEFINE copies == {i \in 0 .. 2 : \/ i = 0 /\ UnionTask!PreNotOnPlan(o)
                                         \/ i = 1 /\ UnionTask!PreDiscarded(o)
                                         \/ i = 2 /\ UnionTask!PreDiscarding(o)}
               following_copies == {i \in 0 .. union[o] : UnionTask!PreFollowing(o, i)}
    <2> USE DEF UnionTask!PreNotOnPlan, UnionTask!PreDiscarded, UnionTask!PreDiscarding,
                UnionTask!PreFollowing, UnionTask!IsOperatorOnPlan
    <2>1. /\ possible \in 0 .. 1 /\ union[o] \in Nat /\ following[o] \in Nat
          /\ following[o] <= union[o]
        BY DEF UnionInv, UnionTask!TypeOK
    <2>2. CASE union[o] = 0
        <3>1. copies = {0} /\ following_copies = {}
            BY <2>2
        <3> QED
            BY <3>1
    <2>3. CASE union[o] > 0 /\ possible = 0
        <3>1. copies = {1} /\ following_copies = {}
            BY <2>3
        <3> QED
            BY <3>1
    <2>4. CASE union[o] > 0 /\ possible = 1 /\ following[o] = union[o]
        <3>1. copies = {2} /\ following_copies = {}
            BY <2>1, <2>4
        <3> QED
            BY <3>1
    <2>5. CASE union[o] > 0 /\ possible = 1 /\ following[o] < union[o]
        <3>1. copies = {} /\ following_copies = {following[o]}
            BY <2>1, <2>5
        <3> QED
            BY <3>1
    <2> QED
        BY <2>1, <2>2, <2>3, <2>4, <2>5
<1> QED
    BY <1>1, UnionCorrect, PTL

(* The goal facts hold exactly in the goal states of the parent after runs  *)
(* that apply some operator more often than every multiset has it.         *)
GoalForbidsWithinUnion ==
    UnionTask!AtGoal <=>
        IsGoalState(s) /\ ~UnionTask!IsForbidden(forbidding_multisets, applied)

(* The invariant gives what the goal facts mean. *)
LEMMA UnionInvariantGivesGoal == UnionInv => GoalForbidsWithinUnion
<1> SUFFICES ASSUME UnionInv PROVE GoalForbidsWithinUnion
    OBVIOUS
<1>1. possible \in 0 .. 1 /\ read \in 0 .. Len(forbidding_multisets)
    BY DEF UnionInv, UnionTask!TypeOK
<1>2. ASSUME NEW o \in Op
      PROVE  applied[o] <= union[o] <=>
                \/ applied[o] = 0
                \/ \E j \in DOMAIN forbidding_multisets :
                        applied[o] <= forbidding_multisets[j][o]
    <2>1. /\ applied[o] \in Nat /\ union[o] \in Nat
          /\ Len(forbidding_multisets) \in Nat
          /\ DOMAIN forbidding_multisets = 1 .. Len(forbidding_multisets)
          /\ \A j \in DOMAIN forbidding_multisets : forbidding_multisets[j][o] \in Nat
        BY MultisetFacts DEF UnionInv, UnionTask!TypeOK
    <2>2. CASE read = Len(forbidding_multisets)
        <3>1. /\ \A k \in DOMAIN forbidding_multisets : forbidding_multisets[k][o] <= union[o]
              /\ \/ union[o] = 0
                 \/ \E k \in DOMAIN forbidding_multisets :
                        forbidding_multisets[k][o] = union[o]
            BY <2>1, <2>2 DEF UnionInv, UnionIsLargest
        <3> QED
            BY <2>1, <3>1
    <2>3. CASE read # Len(forbidding_multisets)
        BY <2>1, <2>3 DEF UnionInv, UnionWaits, UnionTask!Running
    <2> QED
        BY <2>2, <2>3
<1>3. possible = 1 <=> UnionTask!IsForbidden(forbidding_multisets, applied)
    BY <1>2 DEF UnionInv, PossibleIffWithinUnion, UnionTask!IsForbidden
<1> QED
    BY <1>1, <1>3
    DEF GoalForbidsWithinUnion, UnionTask!AtGoal, UnionTask!IsGoalState, IsGoalState

(* Every application of a copy is one of the parent's operator. *)
LEMMA UnionCopyImplementsApply ==
    ASSUME GoalForbidsWithinUnion', NEW o \in Op, UnionTask!ApplyParentOp(o)
    PROVE  UnionTask!Promise!Apply(o)
<1>1. /\ IsApplicable(o, s) /\ s' = Successor(o, s)
      /\ applied' = UnionTask!AddOperator(forbidding_multisets, applied, o)
      /\ UNCHANGED forbidding_multisets
    BY DEF UnionTask!ApplyParentOp, UnionTask!AddOperator, UnionTask!IsApplicable,
           UnionTask!Successor, IsApplicable, Successor
<1>2. UnionTask!AtGoal' <=>
        IsGoalState(s') /\ ~UnionTask!IsForbidden(forbidding_multisets', applied')
    BY DEF GoalForbidsWithinUnion
<1> QED
    BY <1>1, <1>2
    DEF UnionTask!Promise!Apply, UnionTask!Promise!IsApplicable,
        UnionTask!Promise!Successor, UnionTask!Promise!IsGoalState, IsApplicable,
        Successor, IsGoalState

(* The initial states of the union task are those of its promise. *)
LEMMA UnionInitRefines ==
    UnionTask!Init /\ GoalForbidsWithinUnion => UnionTask!Promise!Init
<1> SUFFICES ASSUME UnionTask!Init, GoalForbidsWithinUnion PROVE UnionTask!Promise!Init
    OBVIOUS
<1>1. /\ forbidding_multisets \in InputMultisets /\ s = InitialState
      /\ applied = UnionTask!NoOperators(forbidding_multisets)
    BY DEF UnionTask!Init, UnionTask!NoOperators
<1>2. UnionTask!AtGoal =
        (IsGoalState(s) /\ ~UnionTask!IsForbidden(forbidding_multisets, applied))
    BY DEF GoalForbidsWithinUnion, UnionTask!AtGoal
<1> QED
    BY <1>1, <1>2 DEF UnionTask!Promise!Init, UnionTask!Promise!IsGoalState, IsGoalState

(* Every step of the union task is a step of its promise; a step of its    *)
(* construction changes nothing there.                                     *)
LEMMA UnionNextRefines ==
    GoalForbidsWithinUnion' /\ [UnionTask!Next]_(UnionTask!vars)
      => [UnionTask!Promise!Next]_(UnionTask!Promise!vars)
<1> SUFFICES ASSUME GoalForbidsWithinUnion', [UnionTask!Next]_(UnionTask!vars)
             PROVE  [UnionTask!Promise!Next]_(UnionTask!Promise!vars)
    OBVIOUS
<1>1. CASE UnionTask!UnionWithPlan
    BY <1>1 DEF UnionTask!UnionWithPlan, UnionTask!Promise!vars, UnionTask!AtGoal,
        UnionTask!IsGoalState
<1>2. ASSUME NEW o \in Op, UnionTask!ApplyParentOp(o) PROVE UnionTask!Promise!Next
    BY <1>2, UnionCopyImplementsApply DEF UnionTask!Promise!Next
<1>3. CASE UNCHANGED UnionTask!vars
    BY <1>3 DEF UnionTask!vars, UnionTask!Promise!vars, UnionTask!AtGoal,
        UnionTask!IsGoalState
<1> QED
    BY <1>1, <1>2, <1>3
    DEF UnionTask!Next, UnionTask!NotOnPlan, UnionTask!AlreadyDiscarded,
        UnionTask!Discard, UnionTask!Follow

(* The task that forbids a union accepts exactly the plans of the parent    *)
(* that apply some operator more often than every plan read.               *)
THEOREM ForbidsExactlyTheUnion == UnionTask!Spec => UnionTask!ImplementsForbiddingTask
<1>1. UnionTask!Spec => []GoalForbidsWithinUnion
    BY UnionCorrect, UnionInvariantGivesGoal, PTL
<1> QED
    BY <1>1, UnionInitRefines, UnionNextRefines, PTL
    DEF UnionTask!Spec, UnionTask!ImplementsForbiddingTask, UnionTask!Promise!Spec
-------------------------------------------------------------------------------
(* SuperMultisetsForbid: saturated counters tell enough of the run, and     *)
(* what was tracked is not contained in it.                                *)
SuperMaxCountIsUpperBound ==
    \A k \in 1 .. read, o \in Op : forbidding_multisets[k][o] <= max_count[o]

SuperCounterSaturates ==
    \A o \in Op : super_counter[o] = IF applied[o] < max_count[o]
                                     THEN applied[o] ELSE max_count[o]

SuperWaits ==
    ~SuperTask!Running => super_tracking = 0 /\ \A o \in Op : applied[o] = 0

TrackedAreNotContained ==
    /\ super_tracking > 0 => IsGoalState(s)
    /\ \A j \in 1 .. super_tracking :
            ~SuperTask!Contained(forbidding_multisets[j], applied)

SuperInv ==
    /\ SuperTask!TypeOK
    /\ SuperMaxCountIsUpperBound
    /\ SuperCounterSaturates
    /\ SuperWaits
    /\ TrackedAreNotContained

(* Before a multiset is read no counter has moved. *)
LEMMA SuperInitInvariant == SuperTask!Init => SuperInv
<1> SUFFICES ASSUME SuperTask!Init PROVE SuperInv
    OBVIOUS
<1> USE MultisetFacts DEF SuperTask!Init
<1>1. SuperTask!TypeOK
    BY ParentAssumption DEF SuperTask!TypeOK, SuperTask!NumMultisets
<1>2. /\ SuperMaxCountIsUpperBound /\ SuperCounterSaturates /\ SuperWaits
      /\ TrackedAreNotContained
    BY DEF SuperMaxCountIsUpperBound, SuperCounterSaturates, SuperWaits,
        TrackedAreNotContained
<1> QED
    BY <1>1, <1>2 DEF SuperInv

(* Reading a multiset only raises the bounds, at which the counters are zero. *)
LEMMA SuperReadKeepsInvariant == SuperInv /\ SuperTask!ReadMultiset => SuperInv'
<1> SUFFICES ASSUME SuperInv, SuperTask!ReadMultiset PROVE SuperInv'
    OBVIOUS
<1>1. /\ SuperTask!TypeOK
      /\ read \in Nat /\ read' = read + 1 /\ read + 1 \in 1 .. Len(forbidding_multisets)
      /\ read # Len(forbidding_multisets)
      /\ UNCHANGED <<forbidding_multisets, s, super_counter, super_tracking, applied>>
      /\ super_tracking = 0
    <2>1. /\ forbidding_multisets \in InputMultisets /\ read \in 0 .. Len(forbidding_multisets)
          /\ read < Len(forbidding_multisets)
        BY DEF SuperInv, SuperTask!TypeOK, SuperTask!ReadMultiset, SuperTask!NumMultisets
    <2>2. read \in Nat /\ read + 1 \in 1 .. Len(forbidding_multisets)
          /\ read # Len(forbidding_multisets)
        <3>1. Len(forbidding_multisets) \in Nat
            BY <2>1, MultisetFacts
        <3> QED
            BY <2>1, <3>1
    <2>3. super_tracking = 0
        BY <2>2, SMTT(30) DEF SuperInv, SuperWaits, SuperTask!Running, SuperTask!NumMultisets
    <2> QED
        BY <2>1, <2>2, <2>3 DEF SuperInv, SuperTask!ReadMultiset
<1>2. \A o \in Op : /\ max_count[o] \in Nat /\ applied[o] = 0 /\ super_counter[o] = 0
                    /\ forbidding_multisets[read + 1][o] \in Nat
    <2>1. /\ forbidding_multisets \in InputMultisets
          /\ \A o \in Op : max_count[o] \in Nat
          /\ \A o \in Op : applied[o] = 0
        BY <1>1
        DEF SuperInv, SuperTask!TypeOK, SuperWaits, SuperTask!Running, SuperTask!NumMultisets
    <2>2. \A o \in Op : super_counter[o] = 0
        BY <2>1 DEF SuperInv, SuperCounterSaturates
    <2> QED
        BY <1>1, <2>1, <2>2, MultisetFacts
<1>3. /\ max_count' = [o \in Op |-> max_count'[o]]
      /\ \A o \in Op : max_count'[o] =
            IF forbidding_multisets[read + 1][o] > max_count[o]
            THEN forbidding_multisets[read + 1][o] ELSE max_count[o]
    BY DEF SuperTask!ReadMultiset
<1>4. \A o \in Op : /\ max_count'[o] \in Nat /\ max_count[o] <= max_count'[o]
                    /\ forbidding_multisets[read + 1][o] <= max_count'[o]
    BY <1>2, <1>3
<1>5. SuperTask!TypeOK'
    <2>1. max_count' \in [Op -> Nat]
        BY <1>3, <1>4
    <2> QED
        BY <1>1, <1>2, <1>4, <2>1 DEF SuperTask!TypeOK, SuperTask!NumMultisets
<1>6. SuperMaxCountIsUpperBound'
    <2> SUFFICES ASSUME NEW k \in 1 .. read + 1, NEW o \in Op
                 PROVE  forbidding_multisets[k][o] <= max_count'[o]
        BY <1>1 DEF SuperMaxCountIsUpperBound
    <2>1. CASE k = read + 1
        BY <2>1, <1>4
    <2>2. CASE k \in 1 .. read
        <3>1. /\ forbidding_multisets[k][o] <= max_count[o]
              /\ forbidding_multisets[k][o] \in Nat
            BY <1>1, <2>2, MultisetFacts
            DEF SuperInv, SuperMaxCountIsUpperBound, SuperTask!TypeOK
        <3> QED
            BY <1>2, <1>4, <3>1
    <2> QED
        BY <1>1, <2>1, <2>2
<1>7. SuperCounterSaturates' /\ SuperWaits' /\ TrackedAreNotContained'
    BY <1>1, <1>2, <1>4
    DEF SuperInv, SuperCounterSaturates, SuperWaits, TrackedAreNotContained
<1> QED
    BY <1>5, <1>6, <1>7 DEF SuperInv

(* Every copy counts the application of its operator up to its bound. *)
LEMMA SuperCopyKeepsInvariant ==
    ASSUME SuperInv, NEW o \in Op, NEW i \in 0 .. max_count[o], SuperTask!Copy(o, i)
    PROVE  SuperInv'
<1>1. /\ SuperTask!Running /\ super_tracking = 0 /\ s' \in State
      /\ UNCHANGED <<forbidding_multisets, read, max_count, super_tracking>>
      /\ i \in Nat /\ max_count[o] > 0 => super_counter[o] = i
      /\ super_counter' = [super_counter EXCEPT ![o] = IF i < max_count[o] THEN i + 1
                                                       ELSE super_counter[o]]
      /\ applied' = [applied EXCEPT ![o] = applied[o] + 1]
    <2>1. s \in State /\ IsApplicable(o, s) /\ s' = Successor(o, s)
        BY DEF SuperTask!Copy, SuperInv, SuperTask!TypeOK, SuperTask!IsApplicable,
            SuperTask!Successor, IsApplicable, Successor
    <2> QED
        BY <2>1, SuccessorIsState
        DEF SuperTask!Copy, SuperTask!PreCopy, SuperTask!IsOperatorOnPlans, SuperInv,
            SuperTask!TypeOK
<1>2. \A x \in Op : /\ super_counter[x] \in Nat /\ max_count[x] \in Nat
                    /\ applied[x] \in Nat /\ super_counter[x] <= max_count[x]
    BY DEF SuperInv, SuperTask!TypeOK
<1>3. \A x \in Op :
        /\ applied'[x] = IF x = o THEN applied[x] + 1 ELSE applied[x]
        /\ super_counter'[x] = IF x = o /\ i < max_count[o] THEN i + 1
                               ELSE super_counter[x]
    BY <1>1 DEF SuperInv, SuperTask!TypeOK
<1>4. SuperTask!TypeOK'
    BY <1>1, <1>2, <1>3 DEF SuperInv, SuperTask!TypeOK, SuperTask!NumMultisets
<1>5. SuperCounterSaturates'
    BY <1>1, <1>2, <1>3 DEF SuperInv, SuperCounterSaturates
<1>6. SuperMaxCountIsUpperBound' /\ SuperWaits' /\ TrackedAreNotContained'
    BY <1>1
    DEF SuperInv, SuperMaxCountIsUpperBound, SuperWaits, SuperTask!Running,
        SuperTask!NumMultisets, TrackedAreNotContained
<1> QED
    BY <1>4, <1>5, <1>6 DEF SuperInv

(* An operator counted less often than a multiset has it was applied less   *)
(* often: its counter did not saturate.                                    *)
LEMMA SuperCounterIsExact ==
    ASSUME SuperInv, SuperTask!Running, NEW o \in Op,
           NEW j \in 1 .. Len(forbidding_multisets)
    PROVE  /\ super_counter[o] < forbidding_multisets[j][o]
                <=> applied[o] < forbidding_multisets[j][o]
           /\ super_counter[o] < forbidding_multisets[j][o] => super_counter[o] = applied[o]
           /\ super_counter[o] \in Nat /\ forbidding_multisets[j][o] \in Nat
           /\ applied[o] \in Nat
<1>1. /\ super_counter[o] \in Nat /\ max_count[o] \in Nat /\ applied[o] \in Nat
      /\ forbidding_multisets[j][o] \in Nat
      /\ forbidding_multisets[j][o] <= max_count[o]
    BY MultisetFacts
    DEF SuperInv, SuperTask!TypeOK, SuperMaxCountIsUpperBound, SuperTask!Running,
        SuperTask!NumMultisets
<1> QED
    BY <1>1 DEF SuperInv, SuperCounterSaturates

(* An auxiliary operator passes one multiset that the run does not contain. *)
LEMMA AchieveGoalFacts ==
    ASSUME SuperInv, NEW j \in SuperTask!PlanIndex, NEW o \in Op,
           NEW i \in 0 .. forbidding_multisets[j][o], SuperTask!AchieveGoal(j, o, i)
    PROVE  /\ j \in 1 .. Len(forbidding_multisets) /\ super_tracking = j - 1
           /\ super_tracking' = j /\ SuperTask!Running /\ IsGoalState(s)
           /\ ~SuperTask!Contained(forbidding_multisets[j], applied)
           /\ UNCHANGED <<forbidding_multisets, read, max_count, s, super_counter, applied>>
<1>1. /\ j \in 1 .. Len(forbidding_multisets) /\ super_tracking = j - 1
      /\ super_tracking' = j /\ SuperTask!Running /\ IsGoalState(s)
      /\ super_counter[o] \in 0 .. forbidding_multisets[j][o] - 1
      /\ UNCHANGED <<forbidding_multisets, read, max_count, s, super_counter, applied>>
    BY DEF SuperTask!AchieveGoal, SuperTask!PreAchieveGoal, SuperTask!PlanIndex,
        SuperTask!NumMultisets, SuperTask!IsGoalState, IsGoalState
<1>2. applied[o] < forbidding_multisets[j][o] /\ applied[o] \in Nat
      /\ forbidding_multisets[j][o] \in Nat
    BY <1>1, SuperCounterIsExact
<1> QED
    BY <1>1, <1>2 DEF SuperTask!Contained

(* Every step of the supermultiset task keeps the invariant. *)
LEMMA SuperNextKeepsInvariant ==
    SuperInv /\ [SuperTask!Next]_(SuperTask!vars) => SuperInv'
<1> SUFFICES ASSUME SuperInv, [SuperTask!Next]_(SuperTask!vars) PROVE SuperInv'
    OBVIOUS
<1>1. ASSUME NEW o \in Op, NEW i \in 0 .. max_count[o], SuperTask!Copy(o, i)
      PROVE  SuperInv'
    BY <1>1, SuperCopyKeepsInvariant
<1>2. ASSUME NEW j \in SuperTask!PlanIndex, NEW o \in Op,
             NEW i \in 0 .. forbidding_multisets[j][o], SuperTask!AchieveGoal(j, o, i)
      PROVE  SuperInv'
    <2> USE <1>2, AchieveGoalFacts DEF SuperInv
    <2>1. SuperTask!TypeOK'
        <3>1. /\ super_tracking' = j /\ j \in 1 .. Len(forbidding_multisets)
              /\ UNCHANGED <<forbidding_multisets, read, max_count, s, super_counter,
                             applied>>
            OBVIOUS
        <3>2. Len(forbidding_multisets) \in Nat
            BY MultisetFacts DEF SuperTask!TypeOK
        <3>3. super_tracking' \in 0 .. Len(forbidding_multisets)
            BY <3>1, <3>2
        <3> QED
            BY <3>1, <3>3 DEF SuperTask!TypeOK, SuperTask!NumMultisets
    <2>2. SuperMaxCountIsUpperBound' /\ SuperCounterSaturates' /\ SuperWaits'
        BY DEF SuperMaxCountIsUpperBound, SuperCounterSaturates, SuperWaits,
            SuperTask!Running, SuperTask!NumMultisets
    <2>3. TrackedAreNotContained'
        <3>1. \A k \in 1 .. j : k = j \/ k \in 1 .. super_tracking
            OBVIOUS
        <3> QED
            BY <3>1 DEF TrackedAreNotContained, SuperTask!Contained
    <2> QED
        BY <2>1, <2>2, <2>3
<1>3. CASE UNCHANGED SuperTask!vars
    BY <1>3 DEF SuperTask!vars, SuperInv, SuperTask!TypeOK, SuperTask!NumMultisets,
        SuperMaxCountIsUpperBound, SuperCounterSaturates, SuperWaits, SuperTask!Running,
        TrackedAreNotContained, SuperTask!Contained
<1> QED
    BY <1>1, <1>2, <1>3, SuperReadKeepsInvariant DEF SuperTask!Next

(* Counters keep to their domains and saturate exactly, and every multiset  *)
(* passed in the goal-achieving phase is not contained in the run.         *)
THEOREM SuperCorrect == SuperTask!Spec => []SuperInv
BY SuperInitInvariant, SuperNextKeepsInvariant, PTL DEF SuperTask!Spec

(* A saturated counter never hides that the next multiset is not contained  *)
(* in the run: one of its auxiliary operators is applicable.               *)
LEMMA SuperInvariantGivesAchievable == SuperInv => SuperTask!GoalIsAchievable
<1> SUFFICES ASSUME SuperInv, SuperTask!Running, SuperTask!IsGoalState(s),
                    super_tracking < SuperTask!NumMultisets,
                    ~SuperTask!Contained(forbidding_multisets[super_tracking + 1], applied)
             PROVE  \E o \in Op :
                        \E i \in 0 .. forbidding_multisets[super_tracking + 1][o] :
                            SuperTask!PreAchieveGoal(super_tracking + 1, o, i)
    BY DEF SuperTask!GoalIsAchievable
<1>1. super_tracking + 1 \in 1 .. Len(forbidding_multisets) /\ super_tracking \in Nat
    BY MultisetFacts DEF SuperInv, SuperTask!TypeOK, SuperTask!NumMultisets
<1>2. PICK o \in Op : ~(forbidding_multisets[super_tracking + 1][o] <= applied[o])
    BY DEF SuperTask!Contained
<1>3. super_counter[o] \in 0 .. forbidding_multisets[super_tracking + 1][o] - 1
    BY <1>1, <1>2, SuperCounterIsExact
<1>4. SuperTask!PreAchieveGoal(super_tracking + 1, o, super_counter[o])
    BY <1>1, <1>3 DEF SuperTask!PreAchieveGoal
<1>5. super_counter[o] \in 0 .. forbidding_multisets[super_tracking + 1][o]
    BY <1>1, <1>3, SuperCounterIsExact
<1> QED
    BY <1>4, <1>5

(* From the goal of the parent on, an auxiliary operator is applicable for   *)
(* the next multiset unless the run contains it: a plan that is not forbidden*)
(* can always be finished.                                                   *)
THEOREM SuperGoalIsAchievable == SuperTask!Spec => []SuperTask!GoalIsAchievable
BY SuperCorrect, SuperInvariantGivesAchievable, PTL

(* Every operator has exactly one open copy until the first multiset is     *)
(* passed.                                                                 *)
THEOREM SuperCopiesPartition == SuperTask!Spec => []SuperTask!ExactlyOneCopy
<1>1. SuperInv => SuperTask!ExactlyOneCopy
    <2> SUFFICES ASSUME SuperInv, super_tracking = 0, NEW o \in Op
                 PROVE  \E i \in 0 .. max_count[o] :
                            {k \in 0 .. max_count[o] : SuperTask!PreCopy(o, k)} = {i}
        BY DEF SuperTask!ExactlyOneCopy
    <2>1. /\ max_count[o] \in Nat /\ super_counter[o] \in Nat
          /\ super_counter[o] <= max_count[o]
        BY DEF SuperInv, SuperTask!TypeOK
    <2>2. super_counter[o] \in 0 .. max_count[o]
        BY <2>1
    <2>3. {k \in 0 .. max_count[o] : SuperTask!PreCopy(o, k)} = {super_counter[o]}
        BY <2>1 DEF SuperTask!PreCopy, SuperTask!IsOperatorOnPlans
    <2> QED
        BY <2>2, <2>3
<1> QED
    BY <1>1, SuperCorrect, PTL

(* The initial states of the supermultiset task are those of its promise. *)
LEMMA SuperInitRefines == SuperTask!Init => SuperTask!Promise!Init
<1> SUFFICES ASSUME SuperTask!Init PROVE SuperTask!Promise!Init
    OBVIOUS
<1>1. (super_tracking = SuperTask!NumMultisets) = FALSE
    BY MultisetFacts DEF SuperTask!Init, SuperTask!NumMultisets
<1> QED
    BY <1>1 DEF SuperTask!Init, SuperTask!Promise!Init, SuperTask!NoOperators

(* Every step of the supermultiset task is a step of its promise, the last *)
(* auxiliary operator the one that finishes, or changes nothing there.     *)
LEMMA SuperNextRefines ==
    SuperInv /\ [SuperTask!Next]_(SuperTask!vars)
      => [SuperTask!Promise!Next]_(SuperTask!Promise!vars)
<1> SUFFICES ASSUME SuperInv, [SuperTask!Next]_(SuperTask!vars)
             PROVE  [SuperTask!Promise!Next]_(SuperTask!Promise!vars)
    OBVIOUS
<1>0. forbidding_multisets \in InputMultisets
    BY DEF SuperInv, SuperTask!TypeOK
<1>1. CASE SuperTask!ReadMultiset
    BY <1>1 DEF SuperTask!ReadMultiset, SuperTask!Promise!vars, SuperTask!NumMultisets
<1>2. ASSUME NEW o \in Op, NEW i \in 0 .. max_count[o], SuperTask!Copy(o, i)
      PROVE  SuperTask!Promise!Next
    <2>1. /\ super_tracking # Len(forbidding_multisets)
          /\ super_tracking' = super_tracking
          /\ forbidding_multisets' = forbidding_multisets
        BY <1>0, <1>2, MultisetFacts DEF SuperTask!Copy, SuperTask!PreCopy
    <2>2. /\ SuperTask!IsApplicable(o, s) /\ s' = SuperTask!Successor(o, s)
          /\ applied' = SuperTask!AddOperator(forbidding_multisets, applied, o)
        BY <1>2 DEF SuperTask!Copy, SuperTask!AddOperator
    <2>3. SuperTask!Promise!Apply(o)
        BY <2>1, <2>2 DEF SuperTask!Promise!Apply, SuperTask!Promise!IsApplicable,
            SuperTask!Promise!Successor, SuperTask!IsApplicable, SuperTask!Successor,
            SuperTask!NumMultisets
    <2> QED
        BY <2>3 DEF SuperTask!Promise!Next
<1>3. ASSUME NEW j \in SuperTask!PlanIndex, NEW o \in Op,
             NEW i \in 0 .. forbidding_multisets[j][o], SuperTask!AchieveGoal(j, o, i)
      PROVE  SuperTask!Promise!Next \/ UNCHANGED SuperTask!Promise!vars
    <2>1. /\ j \in 1 .. Len(forbidding_multisets) /\ super_tracking = j - 1
          /\ super_tracking' = j /\ IsGoalState(s)
          /\ UNCHANGED <<forbidding_multisets, s, applied>>
          /\ \A k \in 1 .. j : ~SuperTask!Contained(forbidding_multisets[k], applied)
        <3>1. \A k \in 1 .. super_tracking :
                    ~SuperTask!Contained(forbidding_multisets[k], applied)
            BY DEF SuperInv, TrackedAreNotContained
        <3>2. j \in Nat /\ super_tracking = j - 1
            BY <1>0, <1>3, MultisetFacts, AchieveGoalFacts
        <3>3. \A k \in 1 .. j : k = j \/ k \in 1 .. super_tracking
            BY <3>2
        <3> QED
            BY <1>3, <3>1, <3>3, AchieveGoalFacts
    <2>2. Len(forbidding_multisets) \in Nat
          /\ DOMAIN forbidding_multisets = 1 .. Len(forbidding_multisets)
        BY <1>0, MultisetFacts
    <2>3. CASE j = Len(forbidding_multisets)
        <3>1. ~SuperTask!IsForbidden(forbidding_multisets, applied)
            BY <2>1, <2>2, <2>3 DEF SuperTask!IsForbidden
        <3>2. /\ super_tracking # SuperTask!NumMultisets
              /\ (super_tracking = SuperTask!NumMultisets)' = TRUE
            BY <2>1, <2>2, <2>3 DEF SuperTask!NumMultisets
        <3>3. SuperTask!Promise!Finish
            BY <2>1, <3>1, <3>2
            DEF SuperTask!Promise!Finish, SuperTask!Promise!IsGoalState, IsGoalState
        <3> QED
            BY <3>3 DEF SuperTask!Promise!Next
    <2>4. CASE j # Len(forbidding_multisets)
        <3>1. super_tracking # SuperTask!NumMultisets
            BY <2>1, <2>2 DEF SuperTask!NumMultisets
        <3>2. super_tracking' # SuperTask!NumMultisets'
            BY <2>1, <2>4 DEF SuperTask!NumMultisets
        <3>3. (super_tracking = SuperTask!NumMultisets)' =
                (super_tracking = SuperTask!NumMultisets)
            BY <3>1, <3>2
        <3> QED
            BY <2>1, <3>3 DEF SuperTask!Promise!vars
    <2> QED
        BY <2>3, <2>4
<1>4. CASE UNCHANGED SuperTask!vars
    BY <1>4 DEF SuperTask!vars, SuperTask!Promise!vars, SuperTask!NumMultisets
<1> QED
    BY <1>1, <1>2, <1>3, <1>4 DEF SuperTask!Next

(* The task that forbids what contains a multiset has the runs of the       *)
(* parent and finishes only plans that contain none of them: it never      *)
(* skips a multiset, and no counter that saturated lets one pass.          *)
THEOREM FinishesNoSupermultiset == SuperTask!Spec => SuperTask!ImplementsFinishingTask
BY SuperCorrect, SuperInitRefines, SuperNextRefines, PTL
DEF SuperTask!Spec, SuperTask!ImplementsFinishingTask, SuperTask!Promise!Spec
-------------------------------------------------------------------------------
(* SupersetsForbid: the marks are those of the run, and the sets passed are *)
(* incomparable to its operators.                                          *)
AppliedMarks ==
    \A o \in SetTask!OpsOnPlans : op_applied[o] = 1 <=> o \in Range(run)

OutsideMarks ==
    \A i \in 1 .. Len(forbidding_sets) :
        outside_applied[i] = 1 <=> \E o \in Range(run) : o \notin forbidding_sets[i]

TrackedAreIncomparable ==
    /\ tracking > 0 => IsGoalState(s)
    /\ \A i \in 1 .. tracking : ~SetTask!Comparable(forbidding_sets[i], Range(run))

SetInv ==
    /\ SetTask!TypeOK
    /\ AppliedMarks
    /\ OutsideMarks
    /\ TrackedAreIncomparable

(* The sets read are a non-empty sequence of sets of operators. *)
LEMMA SetFacts ==
    ASSUME forbidding_sets \in InputSets
    PROVE  /\ forbidding_sets \in Seq(SUBSET Op)
           /\ Len(forbidding_sets) \in Nat
           /\ Len(forbidding_sets) # 0
           /\ DOMAIN forbidding_sets = 1 .. Len(forbidding_sets)
           /\ \A i \in 1 .. Len(forbidding_sets) : forbidding_sets[i] \subseteq Op
<1>1. forbidding_sets \in Seq(SUBSET Op) /\ forbidding_sets # <<>>
    BY ReformulationsAssumption DEF SetTask!SupersetsAssumption
<1>2. Len(forbidding_sets) # 0
    BY <1>1
<1> QED
    BY <1>1, <1>2

(* Initially no operator is marked. *)
LEMMA SetInitInvariant == SetTask!Init => SetInv
<1> SUFFICES ASSUME SetTask!Init PROVE SetInv
    OBVIOUS
<1> USE SetFacts DEF SetTask!Init, SetTask!SetIndex, SetTask!NumSets
<1>1. SetTask!TypeOK
    BY ParentAssumption DEF SetTask!TypeOK
<1>2. AppliedMarks /\ OutsideMarks /\ TrackedAreIncomparable
    BY DEF AppliedMarks, OutsideMarks, TrackedAreIncomparable
<1> QED
    BY <1>1, <1>2 DEF SetInv

(* An original operator sets its own mark and those of the sets without it. *)
LEMMA ApplyOriginalKeepsInvariant ==
    ASSUME SetInv, NEW o \in Op, SetTask!ApplyOriginal(o)
    PROVE  SetInv'
<1>1. /\ tracking = 0 /\ tracking' = 0 /\ forbidding_sets' = forbidding_sets
      /\ Range(run)' = Range(run) \cup {o}
      /\ op_applied' = [p \in SetTask!OpsOnPlans |-> IF p = o THEN 1 ELSE op_applied[p]]
      /\ outside_applied' = [i \in 1 .. Len(forbidding_sets) |->
            IF o \notin forbidding_sets[i] THEN 1 ELSE outside_applied[i]]
      /\ s' \in State
    <2>1. s \in State /\ IsApplicable(o, s) /\ s' = Successor(o, s)
        BY DEF SetTask!ApplyOriginal, SetInv, SetTask!TypeOK, SetTask!IsApplicable,
            SetTask!Successor, IsApplicable, Successor
    <2> QED
        BY <2>1, SuccessorIsState
        DEF SetTask!ApplyOriginal, SetTask!SetIndex, SetTask!NumSets, SetTask!SetsWithout
<1>2. SetTask!OpsOnPlans' = SetTask!OpsOnPlans
    BY <1>1 DEF SetTask!OpsOnPlans, SetTask!SetIndex, SetTask!NumSets
<1>3. SetTask!TypeOK'
    BY <1>1, <1>2, SetFacts
    DEF SetInv, SetTask!TypeOK, SetTask!SetIndex, SetTask!NumSets
<1>4. AppliedMarks'
    BY <1>1, <1>2 DEF SetInv, AppliedMarks
<1>5. OutsideMarks'
    BY <1>1 DEF SetInv, OutsideMarks
<1>6. TrackedAreIncomparable'
    BY <1>1 DEF TrackedAreIncomparable
<1> QED
    BY <1>3, <1>4, <1>5, <1>6 DEF SetInv

(* An auxiliary operator passes one set that is incomparable to the operators*)
(* of the run.                                                               *)
LEMMA AchieveSetGoalFacts ==
    ASSUME SetInv, NEW i \in SetTask!SetIndex, NEW o \in forbidding_sets[i],
           SetTask!AchieveGoal(i, o)
    PROVE  /\ i \in 1 .. Len(forbidding_sets) /\ tracking = i - 1 /\ tracking' = i
           /\ IsGoalState(s)
           /\ ~SetTask!Comparable(forbidding_sets[i], Range(run))
           /\ UNCHANGED <<forbidding_sets, s, op_applied, outside_applied, Range(run)>>
<1>1. /\ i \in 1 .. Len(forbidding_sets) /\ tracking = i - 1 /\ tracking' = i
      /\ IsGoalState(s) /\ op_applied[o] = 0 /\ outside_applied[i] = 1
      /\ UNCHANGED <<forbidding_sets, s, op_applied, outside_applied, Range(run)>>
    BY DEF SetTask!AchieveGoal, SetTask!PreAchieveGoal, SetTask!SetIndex,
        SetTask!NumSets, SetTask!IsGoalState, IsGoalState
<1>2. o \in SetTask!OpsOnPlans
    BY DEF SetTask!OpsOnPlans
<1>3. o \notin Range(run) /\ \E p \in Range(run) : p \notin forbidding_sets[i]
    BY <1>1, <1>2 DEF SetInv, AppliedMarks, OutsideMarks
<1> QED
    BY <1>1, <1>3 DEF SetTask!Comparable

(* Every step of the set task keeps the invariant. *)
LEMMA SetNextKeepsInvariant ==
    SetInv /\ [SetTask!Next]_(SetTask!vars) => SetInv'
<1> SUFFICES ASSUME SetInv, [SetTask!Next]_(SetTask!vars) PROVE SetInv'
    OBVIOUS
<1>1. ASSUME NEW o \in Op, SetTask!ApplyOriginal(o) PROVE SetInv'
    BY <1>1, ApplyOriginalKeepsInvariant
<1>2. ASSUME NEW i \in SetTask!SetIndex, NEW o \in forbidding_sets[i],
             SetTask!AchieveGoal(i, o)
      PROVE  SetInv'
    <2>1. /\ i \in 1 .. Len(forbidding_sets) /\ tracking = i - 1 /\ tracking' = i
          /\ IsGoalState(s)
          /\ ~SetTask!Comparable(forbidding_sets[i], Range(run))
          /\ UNCHANGED <<forbidding_sets, s, op_applied, outside_applied, Range(run)>>
        BY <1>2, AchieveSetGoalFacts
    <2>2. SetTask!TypeOK'
        BY <2>1, SetFacts
        DEF SetInv, SetTask!TypeOK, SetTask!OpsOnPlans, SetTask!SetIndex, SetTask!NumSets
    <2>3. AppliedMarks' /\ OutsideMarks'
        BY <2>1
        DEF SetInv, AppliedMarks, OutsideMarks, SetTask!OpsOnPlans, SetTask!SetIndex,
            SetTask!NumSets
    <2>4. TrackedAreIncomparable'
        <3>1. \A k \in 1 .. i : k = i \/ k \in 1 .. tracking
            BY <2>1
        <3> QED
            BY <2>1, <3>1 DEF SetInv, TrackedAreIncomparable
    <2> QED
        BY <2>2, <2>3, <2>4 DEF SetInv
<1>3. CASE UNCHANGED SetTask!vars
    BY <1>3 DEF SetTask!vars, SetInv, SetTask!TypeOK, SetTask!OpsOnPlans,
        SetTask!SetIndex, SetTask!NumSets, AppliedMarks, OutsideMarks,
        TrackedAreIncomparable
<1> QED
    BY <1>1, <1>2, <1>3 DEF SetTask!Next

(* The marks of operators and sets are those of the run, and every set      *)
(* passed in the goal-achieving phase is incomparable to it.               *)
THEOREM SetCorrect == SetTask!Spec => []SetInv
BY SetInitInvariant, SetNextKeepsInvariant, PTL DEF SetTask!Spec

(* While the next set is incomparable to the run, an operator of it is not *)
(* marked and the mark of the set is.                                      *)
LEMMA SetInvariantGivesAchievable == SetInv => SetTask!GoalIsAchievable
<1> SUFFICES ASSUME SetInv, SetTask!IsGoalState(s), tracking < SetTask!NumSets,
                    ~SetTask!Comparable(forbidding_sets[tracking + 1], Range(run))
             PROVE  \E o \in forbidding_sets[tracking + 1] :
                        SetTask!PreAchieveGoal(tracking + 1, o)
    BY DEF SetTask!GoalIsAchievable
<1>1. tracking + 1 \in 1 .. Len(forbidding_sets) /\ tracking \in Nat
    BY SetFacts DEF SetInv, SetTask!TypeOK, SetTask!NumSets
<1>2. PICK o \in forbidding_sets[tracking + 1] : o \notin Range(run)
    BY DEF SetTask!Comparable
<1>3. \E p \in Range(run) : p \notin forbidding_sets[tracking + 1]
    BY DEF SetTask!Comparable
<1>4. o \in SetTask!OpsOnPlans
    BY <1>1 DEF SetTask!OpsOnPlans, SetTask!SetIndex, SetTask!NumSets
<1>5. op_applied[o] = 0 /\ outside_applied[tracking + 1] = 1
    BY <1>1, <1>2, <1>3, <1>4 DEF SetInv, SetTask!TypeOK, AppliedMarks, OutsideMarks
<1> QED
    BY <1>1, <1>5 DEF SetTask!PreAchieveGoal

(* From the goal of the parent on, an auxiliary operator is applicable for *)
(* the next set unless it is comparable to the run.                        *)
THEOREM SetGoalIsAchievable == SetTask!Spec => []SetTask!GoalIsAchievable
BY SetCorrect, SetInvariantGivesAchievable, PTL

(* The initial states of the set task are those of its promise. *)
LEMMA SetInitRefines == SetTask!Init => SetTask!Promise!Init
<1> SUFFICES ASSUME SetTask!Init PROVE SetTask!Promise!Init
    OBVIOUS
<1>1. (tracking = SetTask!NumSets) = FALSE
    BY SetFacts DEF SetTask!Init, SetTask!NumSets
<1> QED
    BY <1>1 DEF SetTask!Init, SetTask!Promise!Init, SetTask!NothingUsed

(* Every step of the set task is a step of its promise, the last auxiliary *)
(* operator the one that finishes, or changes nothing there.               *)
LEMMA SetNextRefines ==
    SetInv /\ [SetTask!Next]_(SetTask!vars)
      => [SetTask!Promise!Next]_(SetTask!Promise!vars)
<1> SUFFICES ASSUME SetInv, [SetTask!Next]_(SetTask!vars)
             PROVE  [SetTask!Promise!Next]_(SetTask!Promise!vars)
    OBVIOUS
<1>0. /\ Len(forbidding_sets) \in Nat /\ Len(forbidding_sets) # 0
      /\ DOMAIN forbidding_sets = 1 .. Len(forbidding_sets)
    BY SetFacts DEF SetInv, SetTask!TypeOK
<1>1. ASSUME NEW o \in Op, SetTask!ApplyOriginal(o) PROVE SetTask!Promise!Next
    <2>1. /\ tracking # Len(forbidding_sets) /\ tracking' = tracking
          /\ forbidding_sets' = forbidding_sets
          /\ SetTask!IsApplicable(o, s) /\ s' = SetTask!Successor(o, s)
          /\ Range(run)' = SetTask!AddOperator(forbidding_sets, Range(run), o)
        BY <1>0, <1>1 DEF SetTask!ApplyOriginal, SetTask!AddOperator
    <2>2. SetTask!Promise!Apply(o)
        BY <2>1 DEF SetTask!Promise!Apply, SetTask!Promise!IsApplicable,
            SetTask!Promise!Successor, SetTask!IsApplicable, SetTask!Successor,
            SetTask!NumSets
    <2> QED
        BY <2>2 DEF SetTask!Promise!Next
<1>2. ASSUME NEW i \in SetTask!SetIndex, NEW o \in forbidding_sets[i],
             SetTask!AchieveGoal(i, o)
      PROVE  SetTask!Promise!Next \/ UNCHANGED SetTask!Promise!vars
    <2>1. /\ i \in 1 .. Len(forbidding_sets) /\ tracking = i - 1 /\ tracking' = i
          /\ IsGoalState(s)
          /\ ~SetTask!Comparable(forbidding_sets[i], Range(run))
          /\ UNCHANGED <<forbidding_sets, s, op_applied, outside_applied, Range(run)>>
        BY <1>2, AchieveSetGoalFacts
    <2>2. \A k \in 1 .. i : ~SetTask!Comparable(forbidding_sets[k], Range(run))
        <3>1. \A k \in 1 .. i : k = i \/ k \in 1 .. tracking
            BY <2>1
        <3> QED
            BY <2>1, <3>1 DEF SetInv, TrackedAreIncomparable
    <2>3. tracking # SetTask!NumSets
        BY <1>0, <2>1 DEF SetTask!NumSets
    <2>4. CASE i = Len(forbidding_sets)
        <3>1. ~SetTask!IsForbidden(forbidding_sets, Range(run))
            BY <1>0, <2>2, <2>4 DEF SetTask!IsForbidden
        <3>2. (tracking = SetTask!NumSets)' = TRUE
            BY <2>1, <2>4 DEF SetTask!NumSets
        <3>3. SetTask!Promise!Finish
            BY <2>1, <2>3, <3>1, <3>2
            DEF SetTask!Promise!Finish, SetTask!Promise!IsGoalState, IsGoalState
        <3> QED
            BY <3>3 DEF SetTask!Promise!Next
    <2>5. CASE i # Len(forbidding_sets)
        <3>1. tracking' # SetTask!NumSets'
            BY <2>1, <2>5 DEF SetTask!NumSets
        <3>2. (tracking = SetTask!NumSets)' = (tracking = SetTask!NumSets)
            BY <2>3, <3>1
        <3> QED
            BY <2>1, <3>2 DEF SetTask!Promise!vars
    <2> QED
        BY <2>4, <2>5
<1>3. CASE UNCHANGED SetTask!vars
    BY <1>3 DEF SetTask!vars, SetTask!Promise!vars, SetTask!NumSets
<1> QED
    BY <1>1, <1>2, <1>3 DEF SetTask!Next

(* The task that forbids comparable sets has the runs of the parent and     *)
(* finishes only plans whose operator set is neither a superset nor a       *)
(* subset of a given set.                                                  *)
THEOREM FinishesNoComparableSet == SetTask!Spec => SetTask!ImplementsFinishingTask
BY SetCorrect, SetInitRefines, SetNextRefines, PTL
DEF SetTask!Spec, SetTask!ImplementsFinishingTask, SetTask!Promise!Spec
-------------------------------------------------------------------------------
(* All tasks along one run: what they do together is for each of them a     *)
(* step of its own or none.                                                *)
LEMMA RunOfMultisetsTask == InitAll /\ [][NextAll]_allVars => Spec
<1>1. InitAll => Init
    BY DEF InitAll
<1>2. [NextAll]_allVars => [Next]_vars
    <2> SUFFICES ASSUME [NextAll]_allVars PROVE [Next]_vars
        OBVIOUS
    <2>1. CASE Construct
        BY <2>1 DEF Construct, Next
    <2>2. ASSUME NEW o \in Op, ApplyCopies(o) PROVE Next
        BY <2>2 DEF ApplyCopies, Next
    <2>3. CASE AchieveSuperGoal
        BY <2>3 DEF AchieveSuperGoal, SuperTask!AchieveGoal, vars
    <2>4. CASE AchieveSetGoal
        BY <2>4 DEF AchieveSetGoal
    <2>5. CASE UNCHANGED allVars
        BY <2>5 DEF allVars
    <2> QED
        BY <2>1, <2>2, <2>3, <2>4, <2>5 DEF NextAll
<1> QED
    BY <1>1, <1>2, PTL DEF Spec

(* The plan task takes part in every run; the construction of the others is*)
(* no step of it.                                                          *)
LEMMA RunOfPlanTask == InitAll /\ [][NextAll]_allVars => PlanTask!Spec
<1>1. InitAll => PlanTask!Init
    BY DEF InitAll
<1>2. forbidding_plan \in InputPlans /\ [NextAll]_allVars => [PlanTask!Next]_(PlanTask!vars)
    <2> SUFFICES ASSUME forbidding_plan \in InputPlans, [NextAll]_allVars
                 PROVE  [PlanTask!Next]_(PlanTask!vars)
        OBVIOUS
    <2>1. CASE Construct
        BY <2>1 DEF Construct, ReadMultiset, planVars, PlanTask!vars
    <2>2. ASSUME NEW o \in Op, ApplyCopies(o) PROVE PlanTask!Next
        BY <2>2 DEF ApplyCopies, PlanTask!Next, PlanTask!PlanIndexes
    <2>3. CASE AchieveSuperGoal
        BY <2>3 DEF AchieveSuperGoal, SuperTask!AchieveGoal, planVars, PlanTask!vars
    <2>4. CASE AchieveSetGoal
        BY <2>4 DEF AchieveSetGoal, vars, planVars, PlanTask!vars
    <2>5. CASE UNCHANGED allVars
        BY <2>5 DEF allVars, vars, planVars, PlanTask!vars
    <2> QED
        BY <2>1, <2>2, <2>3, <2>4, <2>5 DEF NextAll
<1>3. InitAll => forbidding_plan \in InputPlans
    BY DEF InitAll, PlanTask!Init
<1>4. forbidding_plan \in InputPlans /\ [NextAll]_allVars
        => (forbidding_plan \in InputPlans)'
    <2>1. PlanTask!Next => forbidding_plan' = forbidding_plan
        BY DEF PlanTask!Next, PlanTask!NotOnPlan, PlanTask!AlreadyDiscarded,
            PlanTask!Discard, PlanTask!Follow, PlanTask!ApplyParentOp
    <2> QED
        BY <1>2, <2>1 DEF PlanTask!vars
<1> QED
    BY <1>1, <1>2, <1>3, <1>4, PTL DEF PlanTask!Spec

(* The union task is constructed along with the multiset tasks. *)
LEMMA RunOfUnionTask == InitAll /\ [][NextAll]_allVars => UnionTask!Spec
<1>1. InitAll => UnionTask!Init
    BY DEF InitAll
<1>2. [NextAll]_allVars => [UnionTask!Next]_(UnionTask!vars)
    <2> SUFFICES ASSUME [NextAll]_allVars PROVE [UnionTask!Next]_(UnionTask!vars)
        OBVIOUS
    <2>1. CASE Construct
        BY <2>1 DEF Construct, UnionTask!Next
    <2>2. ASSUME NEW o \in Op, ApplyCopies(o) PROVE UnionTask!Next
        BY <2>2 DEF ApplyCopies, UnionTask!Next
    <2>3. CASE AchieveSuperGoal
        BY <2>3 DEF AchieveSuperGoal, SuperTask!AchieveGoal, unionVars, UnionTask!vars
    <2>4. CASE AchieveSetGoal
        BY <2>4 DEF AchieveSetGoal, vars, unionVars, UnionTask!vars
    <2>5. CASE UNCHANGED allVars
        BY <2>5 DEF allVars, vars, unionVars, UnionTask!vars
    <2> QED
        BY <2>1, <2>2, <2>3, <2>4, <2>5 DEF NextAll
<1> QED
    BY <1>1, <1>2, PTL DEF UnionTask!Spec

(* The supermultiset task goes on alone while it achieves its goal. *)
LEMMA RunOfSuperTask == InitAll /\ [][NextAll]_allVars => SuperTask!Spec
<1>1. InitAll => SuperTask!Init
    BY DEF InitAll
<1>2. [NextAll]_allVars => [SuperTask!Next]_(SuperTask!vars)
    <2> SUFFICES ASSUME [NextAll]_allVars PROVE [SuperTask!Next]_(SuperTask!vars)
        OBVIOUS
    <2>1. CASE Construct
        BY <2>1 DEF Construct, SuperTask!Next
    <2>2. ASSUME NEW o \in Op, ApplyCopies(o) PROVE SuperTask!Next
        BY <2>2 DEF ApplyCopies, SuperTask!Next
    <2>3. CASE AchieveSuperGoal
        BY <2>3
        DEF AchieveSuperGoal, SuperTask!Next, PlanIndex, SuperTask!PlanIndex,
            SuperTask!NumMultisets
    <2>4. CASE AchieveSetGoal
        BY <2>4 DEF AchieveSetGoal, vars, superVars, SuperTask!vars
    <2>5. CASE UNCHANGED allVars
        BY <2>5 DEF allVars, vars, superVars, SuperTask!vars
    <2> QED
        BY <2>1, <2>2, <2>3, <2>4, <2>5 DEF NextAll
<1> QED
    BY <1>1, <1>2, PTL DEF SuperTask!Spec

(* The set task, too, goes on alone while it achieves its goal. *)
LEMMA RunOfSetTask == InitAll /\ [][NextAll]_allVars => SetTask!Spec
<1>1. InitAll => SetTask!Init
    BY DEF InitAll
<1>2. forbidding_sets \in InputSets /\ [NextAll]_allVars => [SetTask!Next]_(SetTask!vars)
    <2> SUFFICES ASSUME forbidding_sets \in InputSets, [NextAll]_allVars
                 PROVE  [SetTask!Next]_(SetTask!vars)
        OBVIOUS
    <2>1. CASE Construct
        BY <2>1 DEF Construct, ReadMultiset, setVars, SetTask!vars
    <2>2. ASSUME NEW o \in Op, ApplyCopies(o) PROVE SetTask!Next
        BY <2>2 DEF ApplyCopies, SetTask!Next
    <2>3. CASE AchieveSuperGoal
        BY <2>3 DEF AchieveSuperGoal, SuperTask!AchieveGoal, setVars, SetTask!vars
    <2>4. CASE AchieveSetGoal
        BY <2>4, SetFacts
        DEF AchieveSetGoal, SetTask!Next, SetTask!SetIndex, SetTask!NumSets
    <2>5. CASE UNCHANGED allVars
        BY <2>5 DEF allVars, vars, setVars, SetTask!vars
    <2> QED
        BY <2>1, <2>2, <2>3, <2>4, <2>5 DEF NextAll
<1>3. InitAll => forbidding_sets \in InputSets
    BY DEF InitAll, SetTask!Init
<1>4. forbidding_sets \in InputSets /\ [NextAll]_allVars => (forbidding_sets \in InputSets)'
    <2>1. SetTask!Next => forbidding_sets' = forbidding_sets
        BY DEF SetTask!Next, SetTask!ApplyOriginal, SetTask!AchieveGoal
    <2> QED
        BY <1>2, <2>1 DEF SetTask!vars
<1> QED
    BY <1>1, <1>2, <1>3, <1>4, PTL DEF SetTask!Spec

(* Whatever the other tasks do along the run, the one that forbids several  *)
(* multisets keeps its types, its plans possible exactly while they contain *)
(* the run, and exactly one copy of every operator open.                   *)
THEOREM MultisetsCorrect ==
    SpecAll => [](TypeOK /\ StillPossibleIffContained /\ ExactlyOneCopy)
BY RunOfMultisetsTask, TypeCorrect, PossibleCorrect, CopiesPartition, PTL DEF SpecAll

(* From the parent's goal on, no auxiliary operator ever blocks a plan that *)
(* is not forbidden, in either of the tasks that have them.                *)
THEOREM GoalsAreAchievable == SpecAll => []GoalIsAchievable
BY RunOfSuperTask, RunOfSetTask, SuperGoalIsAchievable, SetGoalIsAchievable, PTL
DEF SpecAll, GoalIsAchievable

(* Each of the tasks that are made of the same plans keeps its promise: its *)
(* runs are those of the parent, and it accepts a run exactly when, for the *)
(* two that check after the last operator only when, it is not forbidden.  *)
THEOREM AllTasksImplementPromises ==
    SpecAll => ImplementsForbiddingTask /\ TasksImplementPromises
BY RunOfMultisetsTask, RunOfPlanTask, RunOfUnionTask, RunOfSuperTask, RunOfSetTask,
    ForbidsExactlyTheSubmultisets, ForbidsExactlyThePlan, ForbidsExactlyTheUnion,
    FinishesNoSupermultiset, FinishesNoComparableSet, PTL
DEF SpecAll, TasksImplementPromises
===============================================================================
