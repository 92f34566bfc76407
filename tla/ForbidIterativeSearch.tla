------------------------- MODULE ForbidIterativeSearch -------------------------
(***************************************************************************)
(* The process that reformulates a task, for the reformulations that read  *)
(* plans from files (see PlansGraph for the graph of one plan): the plans  *)
(* are closed under the generators of the symmetry group, and what is      *)
(* handed to the constructors of the reformulated tasks is built from      *)
(* them.  The code runs from start to end without waiting for anybody, so  *)
(* it is a function of the plans and of the limit number_of_plans.         *)
(***************************************************************************)
EXTENDS Integers, Sequences, SequencesExt

CONSTANTS
    Operators,      \* the operators of the task
    Generators      \* sequence of operator permutations

(* enough_plans_found; -1 stands for no limit. *)
EnoughPlansFound(found, number_of_plans) ==
    number_of_plans # -1 /\ found >= number_of_plans

(* utils::HashSet<Plan>: equal plans are kept once, in order. *)
UniquePlans(plans) ==
    FoldLeft(LAMBDA unique, p : IF p \in Range(unique) THEN unique ELSE Append(unique, p),
             <<>>, plans)

(* plan_to_multiset. *)
PlanToMultiset(plan) ==
    [o \in Operators |-> Cardinality({i \in DOMAIN plan : plan[i] = o})]

IsComparable(p, q) == p \subseteq q \/ q \subseteq p

(* What is compared of two plans: their multisets, or their sets, which    *)
(* are duplicates when one contains the other (superset_duplicate).        *)
Duplicate(by, known, plan) ==
    IF by = "MULTISET" THEN \E q \in Range(known) : PlanToMultiset(q) = PlanToMultiset(plan)
    ELSE \E q \in Range(known) : IsComparable(Range(q), Range(plan))

PermutePlan(generator, plan) == [i \in DOMAIN plan |-> generator[plan[i]]]
-------------------------------------------------------------------------------
(* The loop that extends unique plans with symmetries.  A record c holds   *)
(* current_plans, the plans known as unique (plans_sets), the frontier,    *)
(* the new frontier, and whether enough plans were found in this round.    *)
StartClosure(by, plans) ==
    LET known == FoldLeft(LAMBDA k, p : IF Duplicate(by, k, p) THEN k ELSE Append(k, p),
                          <<>>, plans)
    IN  [current_plans |-> plans, known |-> known, frontier |-> known,
         new_frontier |-> <<>>, enough |-> FALSE]

(* The permuted plan of one plan of the frontier. *)
AddPermuted(by, c, plan) ==
    IF Duplicate(by, c.known, plan) THEN c
    ELSE [c EXCEPT !.current_plans = Append(@, plan),
                   !.known = Append(@, plan),
                   !.new_frontier = Append(@, plan)]

(* The limit is looked at when a generator has permuted the frontier. *)
ApplyGenerator(by, number_of_plans, c, generator) ==
    IF c.enough THEN c
    ELSE LET swept == FoldLeft(LAMBDA d, p : AddPermuted(by, d, PermutePlan(generator, p)),
                               c, c.frontier)
         IN  [swept EXCEPT !.enough =
                 EnoughPlansFound(Len(swept.current_plans), number_of_plans)]

(* Mutation of Round: the frontier stays the one of the plans read. *)
RoundFromTheStart(by, number_of_plans, c) ==
    [FoldLeft(LAMBDA d, g : ApplyGenerator(by, number_of_plans, d, g), c, Generators)
        EXCEPT !.new_frontier = <<>>]

(* One round of the loop, with the swap of the frontiers. *)
Round(by, number_of_plans, c) ==
    LET swept == FoldLeft(LAMBDA d, g : ApplyGenerator(by, number_of_plans, d, g),
                          c, Generators)
    IN  [swept EXCEPT !.frontier = swept.new_frontier, !.new_frontier = <<>>]

(* A round without a change leaves the frontier empty.  There are fewer    *)
(* rounds than permuted plans.                                             *)
Closure(by, number_of_plans, plans) ==
    LET rounds[n \in Nat] ==
            IF n = 0 THEN StartClosure(by, plans)
            ELSE LET c == rounds[n - 1]
                 IN  IF \/ EnoughPlansFound(Len(c.current_plans), number_of_plans)
                        \/ c.frontier = <<>>
                     THEN c ELSE Round(by, number_of_plans, c)
        MaxRounds == Len(plans) * Cardinality(Operators) ^ Len(Generators)
    IN  rounds[MaxRounds].current_plans
-------------------------------------------------------------------------------
(* What the constructors are given (create_reformulated_task); nothing     *)
(* when enough plans were found.                                           *)
CurrentPlans(by, number_of_plans, plans) ==
    Closure(by, number_of_plans, UniquePlans(plans))

IsTaskCreated(by, number_of_plans, plans) ==
    ~EnoughPlansFound(Len(CurrentPlans(by, number_of_plans, plans)), number_of_plans)

(* reformulate_and_dump_single_plan. *)
SinglePlan(plans) == UniquePlans(plans)[1]

(* create_reformulated_task_multisets and _super_multisets; _multiset      *)
(* makes the union of these.                                               *)
MultisetsOf(number_of_plans, plans) ==
    FoldLeft(LAMBDA multisets, p : Append(multisets, PlanToMultiset(p)), <<>>,
             UniquePlans(CurrentPlans("MULTISET", number_of_plans, plans)))

(* create_reformulated_task_supersets. *)
SetsOf(number_of_plans, plans) ==
    FoldLeft(LAMBDA sets, p : Append(sets, Range(p)), <<>>,
             UniquePlans(CurrentPlans("SET", number_of_plans, plans)))

Reformulation(number_of_plans, plans) ==
    [plans |-> plans, number_of_plans |-> number_of_plans,
     forbidding_plan |-> SinglePlan(plans),
     forbidding_multisets |-> MultisetsOf(number_of_plans, plans),
     forbidding_sets |-> SetsOf(number_of_plans, plans)]
===============================================================================
