------------------------------ MODULE LandmarkCut ------------------------------
(***************************************************************************)
(* LandmarkCutLandmarks and CELandmarkCutLandmarks: the landmarks of the   *)
(* LM-cut heuristic in a state, here the initial state of the task.  The   *)
(* relaxed operators of an operator form a group that shares a cost; there *)
(* is one of them in a task without conditional effects (lmcut), and one   *)
(* per conditional effect with celmcut.                                    *)
(*                                                                         *)
(* A first exploration computes h_max.  As long as the artificial goal     *)
(* costs something, a cut is found, its cost is taken off the operators in *)
(* it, and h_max is repaired by an incremental exploration.  Both          *)
(* explorations take a cheapest proposition from a priority queue; which   *)
(* of several depends on the kind of the adaptive queue, so any may be     *)
(* taken.  An entry that has become stale is skipped by the code and left  *)
(* out here: the queue is the set of propositions with a valid entry.      *)
(***************************************************************************)
EXTENDS TaskSemantics

CONSTANT Tasks

ASSUME LandmarkCutAssumption ==
    \A t \in Tasks : IsTask(t) /\ t.axioms = <<>> /\ t.layers = <<>>

VARIABLES
    task,           \* the task, and with it the state
    phase,          \* FIRST, LOOP, INCREMENTAL, DONE or DEAD_END
    h_max_cost,     \* proposition |-> its cost, or UNREACHED
    queue,          \* the propositions in the priority queue
    unsatisfied,    \* relaxed operator |-> how many preconditions are left
    supporter,      \* relaxed operator |-> its costliest precondition
    supporter_cost, \* relaxed operator |-> what that one cost
    pending,        \* relaxed operators whose supporter was just taken
    cost,           \* group |-> the cost that is left
    landmarks       \* the cuts found: their groups and what they cost

vars == <<task, phase, h_max_cost, queue, unsatisfied, supporter, supporter_cost,
          pending, cost, landmarks>>

artificial_precondition == <<0, 0>>
artificial_goal == <<0, 1>>
NoSupporter == <<0, 2>>
UNREACHED == -1

Propositions == Facts(task) \cup {artificial_precondition, artificial_goal}

StatePropositions ==
    {<<v, task.init[v]>> : v \in Vars(task)} \cup {artificial_precondition}
-------------------------------------------------------------------------------
(* add_relaxed_operator.  The condition tells effects with the same        *)
(* preconditions apart.                                                    *)
RelaxedOperator(pre, cond, eff, group) ==
    [pre |-> IF pre \cup cond = {} THEN {artificial_precondition} ELSE pre \cup cond,
     cond |-> cond, eff |-> eff, group |-> group]

RelaxedOperatorGroup(o) ==
    LET op == task.operators[o]
        conditional == {e \in op.effects : e.cond # {}}
        unconditional == {<<e.var, e.val>> : e \in op.effects \ conditional}
    IN  {RelaxedOperator(op.pre, {}, eff, o) : eff \in {unconditional} \ {{}}}
        \cup {RelaxedOperator(op.pre, e.cond, {<<e.var, e.val>>}, o) : e \in conditional}

GoalOperator == RelaxedOperator(task.goal, {}, {artificial_goal}, Len(task.operators) + 1)

RelaxedOperators == {GoalOperator} \cup UNION {RelaxedOperatorGroup(o) : o \in Ops(task)}

(* The relaxed operators, as they were made once. *)
Relaxed == DOMAIN supporter

Groups == 1 .. Len(task.operators) + 1

BaseCost(group) == IF group \in Ops(task) THEN task.operators[group].cost ELSE 0

Least(costs) == CHOOSE c \in costs : \A d \in costs : c <= d
Highest(costs) == CHOOSE c \in costs : \A d \in costs : d <= c
-------------------------------------------------------------------------------
(* enqueue_if_necessary, for offers: pairs of a proposition and a cost.    *)
Improvements(offers, p) ==
    {x[2] : x \in {y \in offers : /\ y[1] = p
                                  /\ h_max_cost[p] = UNREACHED \/ y[2] < h_max_cost[p]}}

Enqueue(others, offers) ==
    /\ h_max_cost' = [p \in Propositions |-> IF Improvements(offers, p) = {} THEN h_max_cost[p]
                                             ELSE Least(Improvements(offers, p))]
    /\ queue' = others \cup {p \in Propositions : Improvements(offers, p) # {}}

(* setup_exploration_queue and setup_exploration_queue_state. *)
Init ==
    /\ task \in Tasks
    /\ phase = "FIRST"
    /\ cost = [group \in Groups |-> BaseCost(group)]
    /\ landmarks = <<>>
    /\ h_max_cost = [p \in Propositions |-> IF p \in StatePropositions THEN 0 ELSE UNREACHED]
    /\ queue = StatePropositions
    /\ unsatisfied = [i \in RelaxedOperators |-> Cardinality(i.pre)]
    /\ supporter = [i \in RelaxedOperators |-> NoSupporter]
    /\ supporter_cost = [i \in RelaxedOperators |-> UNREACHED]
    /\ pending = {}

IsCheapest(p) == \A q \in queue : h_max_cost[p] <= h_max_cost[q]

(* first_exploration: the operators whose last precondition was p are      *)
(* reached, whatever the order in which the loop goes through them.        *)
PopFirst(p) ==
    /\ phase = "FIRST"
    /\ IsCheapest(p)
    /\ LET reached == {i \in Relaxed : p \in i.pre /\ unsatisfied[i] = 1}
       IN  /\ unsatisfied' = [i \in Relaxed |-> IF p \in i.pre THEN unsatisfied[i] - 1
                                                ELSE unsatisfied[i]]
           /\ supporter' = [i \in Relaxed |-> IF i \in reached THEN p ELSE supporter[i]]
           /\ supporter_cost' = [i \in Relaxed |-> IF i \in reached THEN h_max_cost[p]
                                                   ELSE supporter_cost[i]]
           /\ Enqueue(queue \ {p},
                      UNION {i.eff \X {h_max_cost[p] + cost[i.group]} : i \in reached})
    /\ UNCHANGED <<task, phase, pending, cost, landmarks>>

EndFirst ==
    /\ phase = "FIRST"
    /\ queue = {}
    /\ phase' = IF h_max_cost[artificial_goal] = UNREACHED THEN "DEAD_END" ELSE "LOOP"
    /\ UNCHANGED <<task, h_max_cost, queue, unsatisfied, supporter, supporter_cost, pending,
                   cost, landmarks>>
-------------------------------------------------------------------------------
(* mark_goal_plateau: backwards over supporters of operators that are free. *)
GoalOnly == {artificial_goal}      \* mutation of GoalZone: the plateau is left out

WithFreeSupporters(zone) ==
    zone \cup ({supporter[i] : i \in {j \in Relaxed : /\ cost[j.group] = 0
                                                    /\ j.eff \cap zone # {}}} \ {NoSupporter})

GoalZone ==
    LET zone[n \in 0 .. Cardinality(Propositions)] ==
            IF n = 0 THEN {artificial_goal}
            ELSE LET before == zone[n - 1] IN WithFreeSupporters(before)
    IN  zone[Cardinality(Propositions)]

(* second_exploration: forwards over supporters, up to the goal zone. *)
WithEffectsOutside(goal_zone, zone) ==
    zone \cup UNION {i.eff : i \in {j \in Relaxed : /\ supporter[j] \in zone
                                                  /\ j.eff \cap goal_zone = {}}}

BeforeGoalZone(start, goal_zone) ==
    LET zone[n \in 0 .. Cardinality(Propositions)] ==
            IF n = 0 THEN start
            ELSE LET before == zone[n - 1] IN WithEffectsOutside(goal_zone, before)
    IN  zone[Cardinality(Propositions)]

Cut ==
    LET goal_zone == GoalZone \ StatePropositions
        before == BeforeGoalZone(StatePropositions, goal_zone)
    IN  {i \in Relaxed : supporter[i] \in before /\ i.eff \cap goal_zone # {}}

(* Mutation of OfferedAgain: only the operators in the cut. *)
OnlyTheCut(groups, cut) == cut

(* The start of first_exploration_incremental: all operators of the groups *)
(* whose cost changed offer their effects at the new cost.                 *)
OfferedAgain(groups, cut) == {i \in Relaxed : i.group \in groups /\ supporter[i] # NoSupporter}

FindCut ==
    /\ phase = "LOOP"
    /\ h_max_cost[artificial_goal] # 0
    /\ LET cut == Cut
           groups == {i.group : i \in cut}
           cut_cost == Least({cost[g] : g \in groups})
       IN  /\ cost' = [g \in Groups |-> IF g \in groups THEN cost[g] - cut_cost ELSE cost[g]]
           /\ landmarks' = Append(landmarks, [groups |-> groups, cost |-> cut_cost])
           /\ Enqueue({}, UNION {i.eff \X {supporter_cost[i] + cost'[i.group]} :
                                    i \in OfferedAgain(groups, cut)})
    /\ phase' = "INCREMENTAL"
    /\ UNCHANGED <<task, unsatisfied, supporter, supporter_cost, pending>>

(* first_exploration_incremental: a proposition that has become cheaper is *)
(* taken; the operators it supports are repaired one after the other.      *)
PopIncremental(p) ==
    /\ phase = "INCREMENTAL"
    /\ pending = {}
    /\ IsCheapest(p)
    /\ queue' = queue \ {p}
    /\ pending' = {i \in Relaxed : supporter[i] = p /\ supporter_cost[i] > h_max_cost[p]}
    /\ UNCHANGED <<task, phase, h_max_cost, unsatisfied, supporter, supporter_cost, cost, landmarks>>

(* update_h_max_supporter: a precondition with the highest cost, and the   *)
(* supporter when it is one.  The order of the preconditions is left open. *)
UpdatedSupporters(i) ==
    LET highest == {p \in i.pre : \A q \in i.pre : h_max_cost[q] <= h_max_cost[p]}
    IN  IF supporter[i] \in highest THEN {supporter[i]} ELSE highest

Repair(i) ==
    /\ \E p \in UpdatedSupporters(i) :
        /\ supporter' = [supporter EXCEPT ![i] = p]
        /\ supporter_cost' = [supporter_cost EXCEPT ![i] = h_max_cost[p]]
        /\ Enqueue(queue, IF h_max_cost[p] = supporter_cost[i] THEN {}
                          ELSE i.eff \X {h_max_cost[p] + cost[i.group]})
    /\ pending' = pending \ {i}
    /\ UNCHANGED <<task, phase, unsatisfied, cost, landmarks>>

EndIncremental ==
    /\ phase = "INCREMENTAL"
    /\ pending = {}
    /\ queue = {}
    /\ phase' = "LOOP"
    /\ UNCHANGED <<task, h_max_cost, queue, unsatisfied, supporter, supporter_cost, pending,
                   cost, landmarks>>

EndLoop ==
    /\ phase = "LOOP"
    /\ h_max_cost[artificial_goal] = 0
    /\ phase' = "DONE"
    /\ UNCHANGED <<task, h_max_cost, queue, unsatisfied, supporter, supporter_cost, pending,
                   cost, landmarks>>

Next ==
    \/ \E p \in queue : PopFirst(p) \/ PopIncremental(p)
    \/ \E i \in pending : Repair(i)
    \/ EndFirst
    \/ FindCut
    \/ EndIncremental
    \/ EndLoop

Spec == Init /\ [][Next]_vars
-------------------------------------------------------------------------------
(* h_max by definition, as the fixpoint of its equations: a proposition    *)
(* costs what the cheapest operator costs that has it as an effect, on top *)
(* of the costliest of its preconditions.  Pairs of a proposition and its  *)
(* cost, for those that can be reached.                                    *)
CostsIn(h, props) == {x[2] : x \in {y \in h : y[1] \in props}}

OffersTo(h, p) ==
    CostsIn(h, {p})
        \cup {cost[i.group] + Highest(CostsIn(h, i.pre)) :
                i \in {j \in Relaxed : p \in j.eff /\ \A q \in j.pre : CostsIn(h, {q}) # {}}}

HMaxRound(h) == {<<p, Least(OffersTo(h, p))>> : p \in {q \in Propositions : OffersTo(h, q) # {}}}

HMax ==
    LET rounds[n \in 0 .. Cardinality(Propositions)] ==
            IF n = 0 THEN StatePropositions \X {0}
            ELSE LET h == rounds[n - 1] IN HMaxRound(h)
    IN  rounds[Cardinality(Propositions)]

(* Whenever the next cut is to be found, what the incremental exploration  *)
(* repaired is what a new exploration with the present costs would give,   *)
(* and supporters are preconditions of the highest cost: what              *)
(* validate_h_max tests, which is too expensive to be called.              *)
HMaxIsUpToDate ==
    phase = "LOOP" =>
        /\ {<<p, h_max_cost[p]>> : p \in {q \in Propositions : h_max_cost[q] # UNREACHED}} = HMax
        /\ \A i \in Relaxed :
            LET costs == {h_max_cost[p] : p \in i.pre}
            IN  IF UNREACHED \in costs THEN supporter[i] = NoSupporter
                ELSE /\ supporter[i] \in i.pre
                     /\ supporter_cost[i] = Highest(costs)
                     /\ h_max_cost[supporter[i]] = Highest(costs)

(* The costs of the marks with a number in the set. *)
TotalCost(marks, numbers) ==
    LET sum[n \in 0 .. Len(marks)] ==
            IF n = 0 THEN 0 ELSE sum[n - 1] + (IF n \in numbers THEN marks[n].cost ELSE 0)
    IN  sum[Len(marks)]

LandmarksOf(group) == {k \in DOMAIN landmarks : group \in landmarks[k].groups}

(* The task in which the operators of a landmark do nothing. *)
WithoutLandmark(l) ==
    [task EXCEPT !.operators = [o \in DOMAIN @ |-> IF o \in l.groups
                                                    THEN [@[o] EXCEPT !.effects = {}] ELSE @[o]]]

(* Without the operators of a cut the goal cannot be reached, and a cut    *)
(* costs something, so that the loop ends.  The costs of the landmarks an  *)
(* operator is in never exceed its own, and so no plan is cheaper than all *)
(* landmarks; without a plan even of the relaxed task there is none.       *)
LandmarksAreAdmissible ==
    /\ \A k \in DOMAIN landmarks :
        /\ landmarks[k].cost > 0
        /\ GoalCosts(WithoutLandmark(landmarks[k]), FreeCosts(task), task.init) = {}
    /\ \A g \in Groups : TotalCost(landmarks, LandmarksOf(g)) = BaseCost(g) - cost[g]
    /\ phase = "DEAD_END" => GoalCosts(task, FreeCosts(task), task.init) = {}
    /\ \A x \in GoalCosts(task, OperatorCosts(task), task.init) :
        TotalCost(landmarks, DOMAIN landmarks) <= x[2]
===============================================================================
