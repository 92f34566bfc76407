------------------------------- MODULE FindPlans -------------------------------
(***************************************************************************)
(* find_plans (forbiditerative/plan.py) with its PlanManager, TaskManager  *)
(* and the planner classes of iterative/planners.py: the loop that calls a *)
(* planner for one more plan, optionally extends it to more plans, and     *)
(* reformulates the task so that the plans found are forbidden.  The       *)
(* processes it calls are seen through the plan files they write and the   *)
(* task they leave; "forbidden" is the set of plans the current task       *)
(* excludes.  One action per outcome of a call, and one for what follows   *)
(* it up to the next call.                                                 *)
(***************************************************************************)
EXTENDS Integers, Sequences, FiniteSets, FiniteSetsExt

CONSTANTS
    Plan,               \* the plans of the planning task
    Costs,              \* the costs they may have: functions from Plan
    Length,             \* their lengths
    Reorderings,        \* per plan, what its plans graph finds: the plans with
                        \* the same operators or symmetric ones, itself too
    ForbiddenBy,        \* per plan, the plans a multiset reformulation that
                        \* reads it excludes
    Arguments,          \* command lines: the planner, number_of_plans (0 when it
                        \* is not given), and quality_bound in halves (0 too)
    LeftFiles,          \* the plan files an earlier run may have left
    None,               \* Python's None
    Incomplete          \* content of a plan file without its last line

GraphPlanners == {"topk", "topq_via_topk"}
ExtendingPlanners == {"topk_via_unordered_topq", "topq_via_unordered_topq"}
UnorderedPlanners == {"unordered_topq", "subsets_topq", "submultisets_topq"}
Planners == GraphPlanners \cup ExtendingPlanners \cup UnorderedPlanners

(* validate_input: top-k planners need a number of plans, the others a     *)
(* quality bound.                                                          *)
ValidateInput(a) ==
    IF a.planner \in {"topk", "topk_via_unordered_topq"}
    THEN a.number_of_plans # 0 ELSE a.quality_bound # 0

(* Plans with the same operators, or symmetric ones, have the same cost,   *)
(* and every multiset reformulation excludes them together: the planners   *)
(* that extend are modelled without --symmetries, which they pass to the   *)
(* extension but not to the reformulation.  What else the reformulation of *)
(* unordered_topq excludes is contained in the plan it reads: it is        *)
(* shorter and costs no more.                                              *)
ASSUME FindPlansAssumption ==
    /\ IsFiniteSet(Plan)
    /\ Costs \subseteq [Plan -> Nat]
    /\ Length \in [Plan -> Nat]
    /\ Reorderings \in [Plan -> SUBSET Plan]
    /\ \A p \in Plan : p \in Reorderings[p]
    /\ \A p \in Plan : \A q \in Reorderings[p] :
            Reorderings[q] = Reorderings[p] /\ \A c \in Costs : c[q] = c[p]
    /\ ForbiddenBy \in [Plan -> SUBSET Plan]
    /\ \A p \in Plan : Reorderings[p] \subseteq ForbiddenBy[p]
    /\ Arguments \subseteq
            [planner : Planners, number_of_plans : Nat, quality_bound : Nat]
    /\ \A a \in Arguments : ValidateInput(a)
    /\ \A a \in Arguments : a.planner = "unordered_topq" =>
            \A p \in Plan : \A q \in ForbiddenBy[p] :
                \/ q \in Reorderings[p]
                \/ Length[q] < Length[p] /\ \A c \in Costs : c[q] <= c[p]
    /\ None \notin Nat /\ Incomplete \notin Plan
    /\ \A plans \in SUBSET Plan : plans # None

VARIABLES
    args,               \* the command line
    cost,               \* costs of the plans of this task
    files,              \* content of sas_plan.<i>, for the files that exist
    plan_costs,         \* PlanManager._plan_costs
    best_known_bound,   \* PlanManager._best_known_bound
    forbidden,          \* plans the current task excludes
    reformulated,       \* what reformulated_output.sas excludes, or None
    first,              \* whether this is the first iteration
    pc,                 \* the next call find_plans makes
    copied,             \* plan files finalize copied
    found,              \* history: plans the external planner returned
    interrupted         \* history: whether a call was cut off

run == <<args, cost>>
books == <<plan_costs, best_known_bound>>
tasks == <<forbidden, reformulated, first>>
vars == <<run, files, books, tasks, pc, copied, found, interrupted>>

Counter == Len(plan_costs)

Init ==
    /\ args \in Arguments
    /\ cost \in Costs
    /\ files \in LeftFiles
    /\ plan_costs = <<>>
    /\ best_known_bound = None
    /\ forbidden = {}
    /\ reformulated = None
    /\ first = TRUE
    /\ pc = "delete"
    /\ copied = {}
    /\ found = <<>>
    /\ interrupted = FALSE
-------------------------------------------------------------------------------
(* get_local_plans_upto_bound, get_local_plans: the counted files up to a  *)
(* bound, up to the first that does not exist.                             *)
LocalPlansUpto(fs, costs, bound) ==
    {i \in 1 .. Len(costs) :
        /\ costs[i] <= bound
        /\ \A j \in 1 .. i : costs[j] <= bound => j \in DOMAIN fs}

LocalPlans(fs, costs) ==
    {i \in 1 .. Len(costs) : \A j \in 1 .. i : j \in DOMAIN fs}

(* get_number_valid_plans up to the best known bound. *)
ValidPlans(costs, bound) == Cardinality({i \in DOMAIN costs : costs[i] <= bound})

EnoughNumber(costs, bound) == ValidPlans(costs, bound) >= args.number_of_plans

EnoughQuality(costs) ==
    2 * Max({costs[i] : i \in DOMAIN costs})
        > args.quality_bound * Min({costs[i] : i \in DOMAIN costs})

(* enough_plans_found of the planner classes. *)
EnoughPlansFound(costs, bound) ==
    CASE args.planner \in {"topk", "topk_via_unordered_topq", "topq_via_topk"} ->
            IF args.number_of_plans # 0 THEN EnoughNumber(costs, bound)
                                 ELSE EnoughQuality(costs)
      [] OTHER -> \/ args.number_of_plans # 0 /\ EnoughNumber(costs, bound)
                  \/ EnoughQuality(costs)

(* PlanManager::save_plan of the search: plans go to the files after the   *)
(* given number of previous plans.                                         *)
SavePlans(fs, previous, plans) ==
    [i \in DOMAIN fs \cup (previous + 1 .. previous + Len(plans)) |->
        IF i \in previous + 1 .. previous + Len(plans)
        THEN plans[i - previous] ELSE fs[i]]

(* Mutation of ProcessNewPlans: the bound is not set again. *)
ProcessNewPlansKeepsBound(fs, costs) ==
    LET stop == Min({i \in Len(costs) + 1 .. Len(costs) + Cardinality(DOMAIN fs) + 1 :
                        i \notin DOMAIN fs \/ fs[i] = Incomplete})
        new == [i \in 1 .. stop - Len(costs) - 1 |-> cost[fs[Len(costs) + i]]]
    IN  /\ files' = [i \in DOMAIN fs \ {stop} |-> fs[i]]
        /\ plan_costs' = costs \o new
        /\ best_known_bound' =
                IF new = <<>> \/ best_known_bound # None THEN best_known_bound
                ELSE Min({new[i] : i \in DOMAIN new})

(* process_new_plans counts the files after the last one counted, up to    *)
(* the first that is missing or incomplete, and deletes the latter; the    *)
(* best known bound becomes the least cost of the new plans.               *)
ProcessNewPlans(fs, costs) ==
    LET stop == Min({i \in Len(costs) + 1 .. Len(costs) + Cardinality(DOMAIN fs) + 1 :
                        i \notin DOMAIN fs \/ fs[i] = Incomplete})
        new == [i \in 1 .. stop - Len(costs) - 1 |-> cost[fs[Len(costs) + i]]]
    IN  /\ files' = [i \in DOMAIN fs \ {stop} |-> fs[i]]
        /\ plan_costs' = costs \o new
        /\ best_known_bound' = IF new = <<>> THEN best_known_bound
                               ELSE Min({new[i] : i \in DOMAIN new})

(* Mutation of ForgetLastProcessedPlan: the cost at the wrong end is removed. *)
ForgetFirstProcessedPlan == Tail(plan_costs)

ForgetLastProcessedPlan == SubSeq(plan_costs, 1, Counter - 1)
-------------------------------------------------------------------------------
(* delete_existing_plans iterates over the counted files: there are none.  *)
DeleteExistingPlans ==
    /\ pc = "delete"
    /\ files' = [i \in DOMAIN files \ LocalPlans(files, plan_costs) |-> files[i]]
    /\ pc' = "planner"
    /\ UNCHANGED <<run, books, tasks, copied, found, interrupted>>

(* _get_absolute_cost_bound: the search returns plans cheaper than it. *)
WithinCostBound(p) ==
    \/ args.quality_bound = 0 \/ best_known_bound = None \/ best_known_bound = 0
    \/ cost[p] < (args.quality_bound * Min({plan_costs[i] : i \in DOMAIN plan_costs})) \div 2 + 1

(* Mutation of Candidates: the planner ignores the lengths of plans. *)
CandidatesAnyLength ==
    LET open == {p \in Plan \ forbidden : WithinCostBound(p)}
    IN  {p \in open : \A q \in open : cost[p] <= cost[q]}

(* A plan of the current task found by the search: a cheapest one and, for *)
(* the planners that ask for shortest_astar, a shortest one of those.      *)
Candidates ==
    LET open == {p \in Plan \ forbidden : WithinCostBound(p)}
        cheapest == {p \in open : \A q \in open : cost[p] <= cost[q]}
    IN  IF args.planner \in GraphPlanners THEN cheapest
        ELSE {p \in cheapest : \A q \in cheapest : Length[p] <= Length[q]}

(* The call of the external planner succeeds.  Exactly one plan must be    *)
(* new, or an assertion ends the program.                                  *)
PlannerFindsPlan ==
    /\ pc = "planner"
    /\ \E p \in Candidates :
        /\ ProcessNewPlans(SavePlans(files, Counter, <<p>>), plan_costs)
        /\ found' = Append(found, p)
    /\ pc' = IF Len(plan_costs') # Counter + 1 THEN "crashed"
             ELSE IF \/ first /\ args.number_of_plans = 1
                     \/ ~first /\ EnoughPlansFound(plan_costs', best_known_bound')
             THEN "finalize"
             ELSE IF args.planner \in ExtendingPlanners THEN "extend" ELSE "reformulate"
    /\ UNCHANGED <<run, tasks, copied, interrupted>>

(* It succeeds, but the plan file was cut off: save_plan does not look.    *)
PlannerFileIsTruncated ==
    /\ pc = "planner"
    /\ ProcessNewPlans(SavePlans(files, Counter, <<Incomplete>>), plan_costs)
    /\ pc' = IF plan_costs' = plan_costs THEN "finalize" ELSE "crashed"
    /\ interrupted' = TRUE
    /\ UNCHANGED <<run, tasks, copied, found>>

(* Mutation of PlannerFindsNoMore: a call without a plan is tried again. *)
PlannerFindsNoMoreRetries ==
    /\ pc = "planner"
    /\ Candidates = {}
    /\ UNCHANGED vars

(* It proves that there is no plan, or none within the bound: its exit     *)
(* code is an error.                                                       *)
PlannerFindsNoMore ==
    /\ pc = "planner"
    /\ Candidates = {}
    /\ pc' = "finalize"
    /\ UNCHANGED <<run, files, books, tasks, copied, found, interrupted>>

(* It is interrupted: a truncated plan file may stay behind.  When its     *)
(* time ran out before it wrote any output there is none to decode, and    *)
(* the handler itself raises: nothing is finalized.                        *)
PlannerIsInterrupted ==
    /\ pc = "planner"
    /\ \/ files' = SavePlans(files, Counter, <<Incomplete>>) /\ pc' = "finalize"
       \/ UNCHANGED files /\ pc' \in {"finalize", "crashed"}
    /\ interrupted' = TRUE
    /\ UNCHANGED <<run, books, tasks, copied, found>>
-------------------------------------------------------------------------------
(* Mutation of RemainingPlans: the plan forgotten is not asked for again. *)
RemainingPlansBeforeForgetting(costs) ==
    IF args.planner \in {"topk", "topk_via_unordered_topq"}
    THEN args.number_of_plans - ValidPlans(plan_costs, best_known_bound)
    ELSE Cardinality(Plan) + 1

(* The plans still missing, as the planner classes pass them on. *)
RemainingPlans(costs) ==
    IF args.planner \in {"topk", "topk_via_unordered_topq"}
    THEN args.number_of_plans - ValidPlans(costs, best_known_bound)
    ELSE Cardinality(Plan) + 1

(* Orders in which a search may save a set of plans. *)
Orders(plans) ==
    {f \in [1 .. Cardinality(plans) -> plans] :
        \A i, j \in 1 .. Cardinality(plans) : f[i] = f[j] => i = j}

(* NONE_FIND_ADDITIONAL_PLANS: reorderings of the plan read, which itself  *)
(* is taken as saved.  Up to the number of plans is saved, all if fewer.   *)
AdditionalPlans(p, number) ==
    LET others == Reorderings[p] \ {p}
    IN  {d \in SUBSET others :
            \/ d = others /\ Cardinality(others) <= number
            \/ Cardinality(d) = number}

(* The call that extends the last plan forgets it first and passes the     *)
(* number of the plans before it.                                          *)
ExtendPlans ==
    /\ pc = "extend"
    /\ LET costs == ForgetLastProcessedPlan
       IN  \E d \in AdditionalPlans(files[Counter], RemainingPlans(costs)) :
           \E order \in Orders(d) :
               ProcessNewPlans(SavePlans(files, Counter - 1, order), costs)
    /\ pc' = IF EnoughPlansFound(plan_costs', best_known_bound')
             THEN "finalize" ELSE "reformulate"
    /\ UNCHANGED <<run, tasks, copied, found, interrupted>>

(* It fails: the plan it forgot stays forgotten. *)
ExtensionFails ==
    /\ pc = "extend"
    /\ plan_costs' = ForgetLastProcessedPlan
    /\ \/ files' = SavePlans(files, Counter - 1, <<Incomplete>>)
       \/ UNCHANGED files
    /\ pc' = "finalize"
    /\ interrupted' = TRUE
    /\ UNCHANGED <<run, best_known_bound, tasks, copied, found>>
-------------------------------------------------------------------------------
(* FORBID_MULTIPLE_PLANS: the plans graph of the last plan.  The plan and  *)
(* its reorderings that are not excluded yet are saved, up to the number   *)
(* of plans; with fewer, a task that excludes them too is left.            *)
GraphPlans(p, number) ==
    LET all == Reorderings[p] \ forbidden
    IN  {d \in SUBSET all : /\ p \in d
                            /\ \/ d = all /\ Cardinality(all) <= number
                               \/ Cardinality(d) = number}

(* Mutation of ReformulateWithGraph: only the plan read is excluded, not its reorderings. *)
ReformulateWithGraphForbidsThePlan ==
    /\ pc = "reformulate"
    /\ args.planner \in GraphPlanners
    /\ LET costs == ForgetLastProcessedPlan
           p == files[Counter]
           number == RemainingPlans(costs)
       IN  \E d \in GraphPlans(p, number) :
            /\ \E order \in Orders(d) :
                /\ order[1] = p
                /\ ProcessNewPlans(SavePlans(files, Counter - 1, order), costs)
            /\ reformulated' = IF Cardinality(d) >= number THEN None
                               ELSE forbidden \cup {p}
    /\ pc' = "add_task"
    /\ UNCHANGED <<run, forbidden, first, copied, found, interrupted>>

ReformulateWithGraph ==
    /\ pc = "reformulate"
    /\ args.planner \in GraphPlanners
    /\ LET costs == ForgetLastProcessedPlan
           p == files[Counter]
           number == RemainingPlans(costs)
       IN  \E d \in GraphPlans(p, number) :
            /\ \E order \in Orders(d) :
                /\ order[1] = p
                /\ ProcessNewPlans(SavePlans(files, Counter - 1, order), costs)
            /\ reformulated' = IF Cardinality(d) >= number THEN None
                               ELSE forbidden \cup d
    /\ pc' = "add_task"
    /\ UNCHANGED <<run, forbidden, first, copied, found, interrupted>>

GraphReformulationFails ==
    /\ pc = "reformulate"
    /\ args.planner \in GraphPlanners
    /\ plan_costs' = ForgetLastProcessedPlan
    /\ \/ files' = SavePlans(files, Counter - 1, <<Incomplete>>)
       \/ UNCHANGED files
    /\ pc' = "finalize"
    /\ interrupted' = TRUE
    /\ UNCHANGED <<run, best_known_bound, tasks, copied, found>>

(* The multiset reformulations read every counted file and the original    *)
(* task, and save all the plans they read again from the first file on.    *)
ReformulateWithMultisets ==
    /\ pc = "reformulate"
    /\ args.planner \notin GraphPlanners
    /\ LET plans == [i \in 1 .. Counter |-> files[i]]
       IN  /\ ProcessNewPlans(SavePlans(files, 0, plans), plan_costs)
           /\ reformulated' = UNION {ForbiddenBy[plans[i]] : i \in DOMAIN plans}
    /\ pc' = "add_task"
    /\ UNCHANGED <<run, forbidden, first, copied, found, interrupted>>

(* It fails while saving them: the file it was writing is truncated. *)
MultisetReformulationFails ==
    /\ pc = "reformulate"
    /\ args.planner \notin GraphPlanners
    /\ \/ \E i \in 1 .. Counter : files' = [files EXCEPT ![i] = Incomplete]
       \/ UNCHANGED files
    /\ pc' = "finalize"
    /\ interrupted' = TRUE
    /\ UNCHANGED <<run, books, tasks, copied, found>>

(* add_task("reformulated_output.sas"): the loop goes on with it. *)
AddTask ==
    /\ pc = "add_task"
    /\ reformulated # None
    /\ forbidden' = reformulated
    /\ reformulated' = None
    /\ first' = FALSE
    /\ pc' = IF EnoughPlansFound(plan_costs, best_known_bound)
             THEN "finalize" ELSE "planner"
    /\ UNCHANGED <<run, files, books, copied, found, interrupted>>

NoTaskToAdd ==
    /\ pc = "add_task"
    /\ reformulated = None
    /\ pc' = "finalize"
    /\ UNCHANGED <<run, files, books, tasks, copied, found, interrupted>>
-------------------------------------------------------------------------------
(* Mutation of CopiedFiles: files that are not counted are copied too. *)
AllFiles == DOMAIN files

(* finalize: the plan files to copy, by index.  An unordered planner drops *)
(* a last plan that exceeds the quality bound; topq_via_topk adds 1 to the *)
(* best known bound, which fails without one.                              *)
CopiedFiles ==
    IF args.planner \in {"topk", "topk_via_unordered_topq", "topq_via_topk"}
    THEN LocalPlansUpto(files, plan_costs, best_known_bound)
    ELSE IF Counter > 0 /\ EnoughQuality(plan_costs)
    THEN LocalPlans(files, ForgetLastProcessedPlan)
    ELSE LocalPlans(files, plan_costs)

Finalize ==
    /\ pc = "finalize"
    /\ IF args.planner = "topq_via_topk" /\ best_known_bound = None
       THEN pc' = "crashed" /\ UNCHANGED copied
       ELSE pc' = "ended" /\ copied' = {files[i] : i \in CopiedFiles}
    /\ UNCHANGED <<run, files, books, tasks, found, interrupted>>

Calls ==
    \/ DeleteExistingPlans
    \/ PlannerFindsPlan \/ PlannerFindsNoMore
    \/ ExtendPlans
    \/ ReformulateWithGraph \/ ReformulateWithMultisets
    \/ AddTask \/ NoTaskToAdd
    \/ Finalize

CallsCutOff ==
    \/ PlannerFileIsTruncated \/ PlannerIsInterrupted
    \/ ExtensionFails
    \/ GraphReformulationFails \/ MultisetReformulationFails

Next == Calls \/ CallsCutOff

(* find_plans is sequential and every call it makes returns; no call has   *)
(* to be cut off.                                                          *)
Spec == Init /\ [][Next]_vars /\ WF_vars(Calls)
-------------------------------------------------------------------------------
Ended == pc \in {"ended", "crashed"}

Counted == {files[i] : i \in 1 .. Counter}

(* Files are numbered from 1, costs are known for what is counted, and     *)
(* pc is one of the places between two calls.                              *)
TypeOK ==
    /\ args \in Arguments /\ cost \in Costs /\ interrupted \in BOOLEAN
    /\ \A i \in DOMAIN files : i \in Nat \ {0} /\ files[i] \in Plan \cup {Incomplete}
    /\ \A i \in DOMAIN plan_costs : plan_costs[i] \in Nat
    /\ best_known_bound \in Nat \cup {None}
    /\ forbidden \subseteq Plan
    /\ reformulated = None \/ reformulated \subseteq Plan
    /\ first \in BOOLEAN
    /\ pc \in {"delete", "planner", "extend", "reformulate", "add_task",
              "finalize", "ended", "crashed"}
    /\ copied \subseteq Plan \cup {Incomplete}
    /\ found \in Seq(Plan)

Damaged == {i \in 1 .. Counter : i \notin DOMAIN files \/ files[i] = Incomplete}

(* The books match the folder: every counted plan has its complete file    *)
(* with the recorded cost, across the forgetting, overwriting and          *)
(* recounting of the last plan.  Only a multiset reformulation that is cut *)
(* off while it saves all plans again damages a counted file, and only one.*)
CountedPlansAreOnDisk ==
    /\ \A i \in (1 .. Counter) \ Damaged : plan_costs[i] = cost[files[i]]
    /\ Damaged # {} => /\ interrupted /\ args.planner \notin GraphPlanners
                       /\ Cardinality(Damaged) = 1

(* No plan is counted twice. *)
NoPlanTwice ==
    \A i, j \in 1 .. Counter : files[i] = files[j] => i = j

(* As long as no call is cut off, every call of the planner leaves exactly *)
(* one new plan and finalize has a bound: no operation fails.  And the     *)
(* assertion of UnorderedTopQualityPlanner.report_iteration_step holds     *)
(* even then: plans come in the order of their costs, the bound follows    *)
(* the last of them, so all plans counted are within it.                   *)
NeverCrashes ==
    /\ ~interrupted => pc # "crashed"
    /\ args.planner \in UnorderedPlanners \cup ExtendingPlanners /\ Counter > 0 =>
            ValidPlans(plan_costs, best_known_bound) = Counter

Completed(planner) == args.planner = planner /\ pc = "ended" /\ ~interrupted

WithinQuality(p) ==
    \A q \in Plan : 2 * cost[p] <= args.quality_bound * cost[q]

(* A plan that is not among the results and within the quality bound, if   *)
(* there is one, is no better than number_of_plans plans that are.         *)
BestPlansAreCopied ==
    \A p \in Plan \ copied :
        args.quality_bound = 0 \/ WithinQuality(p) =>
            Cardinality({r \in copied : cost[r] <= cost[p]}) >= args.number_of_plans

(* Top-k: whatever ties the searches broke, the results are k best plans.  *)
CopiesTopK == Completed("topk") => BestPlansAreCopied

(* The same for top-k planning via unordered top-quality planning.         *)
ExtendingCopiesTopK ==
    Completed("topk_via_unordered_topq") => BestPlansAreCopied

(* Unordered top-quality: the results are within the quality bound, and,   *)
(* without a number of plans to stop at, every plan within it is a         *)
(* reordering of a result.                                                 *)
CopiesTopQuality ==
    Completed("unordered_topq") =>
        /\ \A r \in copied : WithinQuality(r)
        /\ args.number_of_plans = 0 =>
                \A p \in Plan : WithinQuality(p) =>
                    \E r \in copied : p \in Reorderings[r]

(* Top-quality planning via top-k: the results are the plans within the    *)
(* quality bound.                                                          *)
ViaTopKCopiesTopQuality ==
    Completed("topq_via_topk") => copied = {p \in Plan : WithinQuality(p)}

(* Whatever call is cut off, of the plans the top-k planner was given at   *)
(* most the last one is missing from the results, and no truncated file is *)
(* among them.  If the program fails before it copies results, they are    *)
(* still counted and in their files.                                       *)
LosesAtMostTheLastPlan ==
    args.planner = "topk" =>
        /\ pc = "ended" => /\ \A i \in 1 .. Len(found) - 1 : found[i] \in copied
                           /\ Incomplete \notin copied
        /\ pc = "crashed" => \A i \in 1 .. Len(found) - 1 : found[i] \in Counted

(* find_plans ends: every iteration excludes another plan. *)
Terminates == <>Ended
===============================================================================
