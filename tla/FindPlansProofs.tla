---------------------------- MODULE FindPlansProofs ----------------------------
(***************************************************************************)
(* find_plans keeps its books: for every set of plans, all costs, lengths  *)
(* and reorderings, whatever ties the searches break and whatever call is  *)
(* cut off, when it starts in a folder without plan files.                 *)
(***************************************************************************)
EXTENDS FindPlans, TaskLemmas, FiniteSetTheorems, TLAPS
-------------------------------------------------------------------------------
(* The invariant.  Between the calls of an iteration the plan files are    *)
(* exactly the counted ones; a call that is cut off ends the loop.         *)
Working == pc \in {"delete", "planner", "extend", "reformulate", "add_task"}

IsGraphPlanner == args.planner \in GraphPlanners

CountedUpto(n) == {files[i] : i \in 1 .. n}

ExcludedUpto(n) == UNION {ForbiddenBy[files[i]] : i \in 1 .. n}

FilesAreCounted ==
    /\ plan_costs \in Seq(Nat)
    /\ \A i \in 1 .. Counter : i \in DOMAIN files
    /\ Working => /\ files \in [1 .. Counter -> Plan]
                  /\ \A i \in 1 .. Counter : plan_costs[i] = cost[files[i]]
    /\ pc \in {"extend", "reformulate", "add_task"} => Counter > 0
    /\ pc \in {"extend"} => ~IsGraphPlanner
    /\ pc = "delete" => Counter = 0

(* Plans are found in the order of their costs, the bound is the last.     *)
CostsFollowTheBound ==
    /\ Counter > 0 => best_known_bound \in Nat
    /\ \A i \in 1 .. Counter : plan_costs[i] <= best_known_bound
    /\ \A i, j \in 1 .. Counter : i <= j => plan_costs[i] <= plan_costs[j]
    /\ Working => IF Counter = 0 THEN best_known_bound = None
                  ELSE plan_costs[Counter] = best_known_bound

OpenPlansCostMore ==
    /\ best_known_bound # None =>
            \A p \in Plan \ forbidden : best_known_bound <= cost[p]
    /\ Counter > 0 => \A p \in Plan : plan_costs[1] <= cost[p]

(* What the current and the next task exclude.                             *)
GraphTaskExcludes ==
    IsGraphPlanner =>
        /\ \A p \in forbidden : p \in CountedUpto(Counter)
        /\ pc \in {"delete", "planner"} => forbidden = CountedUpto(Counter)
        /\ pc = "reformulate" => forbidden = CountedUpto(Counter - 1)
        /\ pc = "add_task" /\ reformulated # None =>
                reformulated = CountedUpto(Counter)

MultisetTaskExcludes ==
    ~IsGraphPlanner =>
        /\ pc \in {"delete", "planner"} => forbidden = ExcludedUpto(Counter)
        /\ pc = "extend" => /\ forbidden = ExcludedUpto(Counter - 1)
                             /\ files[Counter] \notin forbidden
        /\ pc = "reformulate" => forbidden \subseteq ExcludedUpto(Counter)
        /\ pc = "add_task" => /\ reformulated = ExcludedUpto(Counter)
                              /\ forbidden \subseteq reformulated

(* What the external planner returned is counted but for the last plan.    *)
FoundPlansAreCounted ==
    IsGraphPlanner =>
        /\ pc \in {"delete", "planner", "reformulate", "add_task"} =>
                \A i \in DOMAIN found : found[i] \in CountedUpto(Counter)
        /\ pc = "reformulate" =>
                \A i \in 1 .. Len(found) - 1 : found[i] \in CountedUpto(Counter - 1)
        /\ pc \in {"finalize", "crashed"} =>
                \A i \in 1 .. Len(found) - 1 : found[i] \in CountedUpto(Counter)

(* Until a call is cut off, the loop ends with a bound.                    *)
EndsWithBound ==
    /\ pc = "crashed" => interrupted
    /\ pc = "finalize" /\ ~interrupted => best_known_bound # None

IInv ==
    /\ TypeOK
    /\ FilesAreCounted
    /\ CountedPlansAreOnDisk
    /\ NoPlanTwice
    /\ CostsFollowTheBound
    /\ OpenPlansCostMore
    /\ GraphTaskExcludes
    /\ MultisetTaskExcludes
    /\ FoundPlansAreCounted
    /\ LosesAtMostTheLastPlan
    /\ EndsWithBound

(* Why the loop ends when no call is cut off: enough plans are counted, or *)
(* no plan is left that the command line asks for.                         *)
NoPlanIsLeft ==
    \A p \in Plan \ forbidden : args.quality_bound # 0 /\ ~WithinQuality(p)

TopKInv ==
    args.planner = "topk" =>
        /\ pc = "add_task" /\ reformulated = None => Counter >= args.number_of_plans
        /\ pc \in {"finalize", "ended"} /\ ~interrupted =>
                Counter >= args.number_of_plans \/ NoPlanIsLeft
        /\ pc = "ended" => copied = CountedUpto(Counter)

(* All plans but the last are within the quality bound, and the task       *)
(* excludes reorderings of counted plans only.                             *)
ReorderedUpto(n) == UNION {Reorderings[files[i]] : i \in 1 .. n}

TopQualityInv ==
    args.planner = "unordered_topq" =>
        /\ pc # "extend"
        /\ \A i \in 1 .. Counter :
                i < Counter \/ pc \in {"delete", "planner"} =>
                    2 * plan_costs[i] <= args.quality_bound * plan_costs[1]
        /\ pc \in {"reformulate", "add_task"} =>
                ExcludedUpto(Counter) \subseteq ReorderedUpto(Counter)
        /\ Working \/ ~interrupted => forbidden \subseteq ReorderedUpto(Counter)
        /\ pc = "finalize" /\ ~interrupted =>
                \/ args.number_of_plans # 0 \/ NoPlanIsLeft
                \/ Counter > 0 /\ EnoughQuality(plan_costs)
        /\ CopiesTopQuality
-------------------------------------------------------------------------------
(* An order of a set of plans lists each of them once. *)
LEMMA OrdersListAll ==
    ASSUME NEW plans \in SUBSET Plan, NEW order \in Orders(plans)
    PROVE  /\ Cardinality(plans) \in Nat
           /\ order \in Seq(Plan) /\ Len(order) = Cardinality(plans)
           /\ \A i \in 1 .. Len(order) : order[i] \in plans
           /\ \A i, j \in 1 .. Len(order) : order[i] = order[j] => i = j
           /\ plans = {order[i] : i \in 1 .. Len(order)}
<1>1. IsFiniteSet(plans) /\ Cardinality(plans) \in Nat
    BY FindPlansAssumption, FS_Subset, FS_CardinalityType
<1> DEFINE n == Cardinality(plans)
<1>2. /\ order \in [1 .. n -> plans]
      /\ \A i, j \in 1 .. n : order[i] = order[j] => i = j
    BY DEF Orders
<1> HIDE DEF n
<1>3. /\ n \in Nat /\ order \in Seq(Plan) /\ Len(order) = n
    BY <1>1, <1>2 DEF n
<1>4. order \in Injection(1 .. n, plans)
    BY <1>2 DEF Injection, IsInjective
<1>5. Cardinality(1 .. n) = n
    BY <1>3, FS_Interval
<1>6. order \in Surjection(1 .. n, plans)
    BY <1>1, <1>4, <1>5, FS_Injection DEF n
<1>7. \A p \in plans : \E i \in 1 .. n : order[i] = p
    BY <1>6 DEF Surjection
<1> QED
    BY <1>1, <1>2, <1>3, <1>7 DEF n

(* The files after plans were saved behind the first of them. *)
LEMMA SavedFiles ==
    ASSUME NEW fs, NEW n \in Nat, DOMAIN fs = 1 .. n, NEW previous \in 0 .. n,
           NEW plans, Len(plans) \in Nat,
           NEW m \in Nat, m = n \/ m = previous + Len(plans),
           n <= m, previous + Len(plans) <= m
    PROVE  SavePlans(fs, previous, plans)
            = [i \in 1 .. m |-> IF i \in previous + 1 .. previous + Len(plans)
                                THEN plans[i - previous] ELSE fs[i]]
<1> DEFINE l == Len(plans)
<1>1. (DOMAIN fs) \cup (previous + 1 .. previous + l) = 1 .. m
    <2>1. l \in Nat
        OBVIOUS
    <2> HIDE DEF l
    <2> QED
        BY <2>1 DEF l
<1> QED
    BY <1>1 DEF SavePlans

(* A truncated plan file is told from a plan. *)
LEMMA IncompletePlan ==
    ASSUME NEW n \in Nat, NEW fs \in [1 .. n -> Plan]
    PROVE  \A i \in 1 .. n : fs[i] # Incomplete
<1>1. Incomplete \notin Plan
    BY FindPlansAssumption
<1> QED
    BY <1>1

(* The costs of new plans are appended to those counted before. *)
LEMMA ConcatenatedCosts ==
    ASSUME NEW a \in Seq(Nat), NEW b \in Seq(Nat)
    PROVE  /\ a \o b \in Seq(Nat) /\ Len(a \o b) = Len(a) + Len(b)
           /\ \A i \in 1 .. Len(a) : (a \o b)[i] = a[i]
           /\ \A i \in Len(a) + 1 .. Len(a) + Len(b) : (a \o b)[i] = b[i - Len(a)]
OBVIOUS

(* process_new_plans counts all files that follow the counted ones.        *)
LEMMA ProcessCompleteFiles ==
    ASSUME cost \in [Plan -> Nat],
           NEW fs, NEW n \in Nat, fs \in [1 .. n -> Plan],
           NEW costs, costs \in Seq(Nat), Len(costs) <= n,
           ProcessNewPlans(fs, costs)
    PROVE  /\ files' = fs
           /\ plan_costs' \in Seq(Nat) /\ Len(plan_costs') = n
           /\ \A i \in 1 .. Len(costs) : plan_costs'[i] = costs[i]
           /\ \A i \in Len(costs) + 1 .. n : plan_costs'[i] = cost[fs[i]]
           /\ Len(costs) = n => best_known_bound' = best_known_bound
           /\ \A c \in Nat : /\ Len(costs) < n
                             /\ \A i \in Len(costs) + 1 .. n : cost[fs[i]] = c
                             => best_known_bound' = c
<1> DEFINE k == Len(costs)
           S == {i \in k + 1 .. k + Cardinality(DOMAIN fs) + 1 :
                    i \notin DOMAIN fs \/ fs[i] = Incomplete}
<1>1. k \in Nat /\ DOMAIN fs = 1 .. n /\ Cardinality(DOMAIN fs) = n
    BY FS_Interval
<1>2. \A i \in 1 .. n : fs[i] # Incomplete
    BY IncompletePlan
<1>3. Min(S) = n + 1
    <2>1. S \in SUBSET Nat
        BY <1>1
    <2>2. n + 1 \in S /\ \A i \in S : n + 1 <= i
        BY <1>1, <1>2
    <2> QED
        BY <2>1, <2>2, MinIsLeast
<1> DEFINE new == [i \in 1 .. n - k |-> cost[fs[k + i]]]
<1>4. new \in [1 .. n - k -> Nat]
    BY <1>1
<1>5. /\ files' = [i \in DOMAIN fs \ {n + 1} |-> fs[i]]
      /\ plan_costs' = costs \o new
      /\ best_known_bound' = IF new = <<>> THEN best_known_bound
                             ELSE Min({new[i] : i \in DOMAIN new})
    <2>1. [i \in 1 .. Min(S) - k - 1 |-> cost[fs[k + i]]] = new
        <3>1. Min(S) - k - 1 = n - k
            BY <1>1, <1>3
        <3> QED
            BY <3>1
    <2>2. /\ files' = [i \in DOMAIN fs \ {Min(S)} |-> fs[i]]
          /\ plan_costs' = costs \o [i \in 1 .. Min(S) - k - 1 |-> cost[fs[k + i]]]
          /\ best_known_bound' =
                IF [i \in 1 .. Min(S) - k - 1 |-> cost[fs[k + i]]] = <<>>
                THEN best_known_bound
                ELSE Min({[i \in 1 .. Min(S) - k - 1 |-> cost[fs[k + i]]][j] :
                            j \in DOMAIN [i \in 1 .. Min(S) - k - 1 |-> cost[fs[k + i]]]})
        BY DEF ProcessNewPlans
    <2> HIDE DEF new, S
    <2> QED
        BY <1>3, <2>1, <2>2
<1>6. files' = fs
    <2>1. DOMAIN fs \ {n + 1} = 1 .. n
        BY <1>1
    <2> QED
        BY <1>5, <2>1
<1>7. new \in Seq(Nat) /\ Len(new) = n - k /\ n - k \in Nat
    BY <1>1, <1>4
<1>8. /\ plan_costs' \in Seq(Nat) /\ Len(plan_costs') = n
      /\ \A i \in 1 .. k : plan_costs'[i] = costs[i]
      /\ \A i \in k + 1 .. n : plan_costs'[i] = new[i - k]
    <2> HIDE DEF new, k
    <2>0. Len(costs) = k
        BY DEF k
    <2>1. /\ costs \o new \in Seq(Nat) /\ Len(costs \o new) = k + (n - k)
          /\ \A i \in 1 .. k : (costs \o new)[i] = costs[i]
          /\ \A i \in k + 1 .. k + (n - k) : (costs \o new)[i] = new[i - k]
        BY <1>7, <2>0, ConcatenatedCosts, SMTT(30)
    <2>2. k + (n - k) = n
        BY <1>1
    <2> QED
        BY <1>5, <2>1, <2>2
<1>9. \A i \in k + 1 .. n : new[i - k] = cost[fs[i]]
    BY <1>1
<1>10. k = n => best_known_bound' = best_known_bound
    BY <1>1, <1>5, <1>7
<1>11. ASSUME NEW c \in Nat, k < n, \A i \in k + 1 .. n : cost[fs[i]] = c
       PROVE  best_known_bound' = c
    <2>1. new # <<>> /\ DOMAIN new = 1 .. n - k /\ 1 \in DOMAIN new
        <3>1. n - k > 0
            BY <1>1, <1>11
        <3>2. Len(new) > 0 /\ DOMAIN new = 1 .. n - k
            BY <1>4, <1>7, <3>1
        <3> HIDE DEF new
        <3> QED
            BY <1>7, <3>1, <3>2
    <2>2. \A i \in DOMAIN new : new[i] = c
        BY <1>1, <1>11, <2>1
    <2>3. {new[i] : i \in DOMAIN new} = {c}
        BY <2>1, <2>2
    <2>4. Min({c}) = c
        <3>1. {c} \in SUBSET Nat /\ c \in {c} /\ \A m \in {c} : c <= m
            OBVIOUS
        <3> QED
            BY <3>1, MinIsLeast
    <2> QED
        BY <1>5, <2>1, <2>3, <2>4
<1> QED
    BY <1>6, <1>8, <1>9, <1>10, <1>11

(* It deletes a file after the counted ones that was cut off. *)
LEMMA ProcessIncompleteFile ==
    ASSUME NEW fs, NEW n \in Nat, fs \in [1 .. n + 1 -> Plan \cup {Incomplete}],
           fs[n + 1] = Incomplete,
           NEW costs, costs \in Seq(Nat), Len(costs) = n,
           ProcessNewPlans(fs, costs)
    PROVE  /\ files' = [i \in 1 .. n |-> fs[i]]
           /\ plan_costs' = costs
           /\ best_known_bound' = best_known_bound
<1> DEFINE S == {i \in n + 1 .. n + Cardinality(DOMAIN fs) + 1 :
                    i \notin DOMAIN fs \/ fs[i] = Incomplete}
<1>1. DOMAIN fs = 1 .. n + 1 /\ Cardinality(DOMAIN fs) = n + 1
    BY FS_Interval
<1>2. Min(S) = n + 1
    <2>1. S \in SUBSET Nat
        BY <1>1
    <2>2. n + 1 \in S /\ \A i \in S : n + 1 <= i
        BY <1>1
    <2> QED
        BY <2>1, <2>2, MinIsLeast
<1> DEFINE new == [i \in 1 .. 0 |-> cost[fs[n + i]]]
<1>3. /\ files' = [i \in DOMAIN fs \ {n + 1} |-> fs[i]]
      /\ plan_costs' = costs \o new
      /\ best_known_bound' = IF new = <<>> THEN best_known_bound
                             ELSE Min({new[i] : i \in DOMAIN new})
    <2>1. [i \in 1 .. Min(S) - n - 1 |-> cost[fs[n + i]]] = new
        <3>1. Min(S) - n - 1 = 0
            BY <1>2
        <3> QED
            BY <3>1
    <2>2. /\ files' = [i \in DOMAIN fs \ {Min(S)} |-> fs[i]]
          /\ plan_costs' = costs \o [i \in 1 .. Min(S) - n - 1 |-> cost[fs[n + i]]]
          /\ best_known_bound' =
                IF [i \in 1 .. Min(S) - n - 1 |-> cost[fs[n + i]]] = <<>>
                THEN best_known_bound
                ELSE Min({[i \in 1 .. Min(S) - n - 1 |-> cost[fs[n + i]]][j] :
                            j \in DOMAIN [i \in 1 .. Min(S) - n - 1 |-> cost[fs[n + i]]]})
        BY DEF ProcessNewPlans
    <2> HIDE DEF new, S
    <2> QED
        BY <1>2, <2>1, <2>2
<1>4. DOMAIN fs \ {n + 1} = 1 .. n
    BY <1>1
<1>5. new = <<>>
    OBVIOUS
<1>6. costs \o <<>> = costs
    OBVIOUS
<1> QED
    BY <1>3, <1>4, <1>5, <1>6
-------------------------------------------------------------------------------
(* What the assumptions say of this command line and these costs. *)
LEMMA TaskFacts ==
    ASSUME TypeOK
    PROVE  /\ cost \in [Plan -> Nat] /\ Length \in [Plan -> Nat]
           /\ args.number_of_plans \in Nat /\ args.quality_bound \in Nat
           /\ args.planner \in Planners
           /\ \A p \in Plan : p \in Reorderings[p] /\ Reorderings[p] \subseteq Plan
           /\ \A p \in Plan : \A q \in Reorderings[p] :
                    cost[q] = cost[p] /\ Reorderings[q] = Reorderings[p]
           /\ \A p \in Plan : Reorderings[p] \subseteq ForbiddenBy[p]
           /\ \A p \in Plan : ForbiddenBy[p] \subseteq Plan
           /\ None \notin Nat /\ Incomplete \notin Plan
BY FindPlansAssumption DEF TypeOK

(* The initial folder is empty, nothing is counted and nothing excluded. *)
LEMMA InitInvariant ==
    ASSUME LeftFiles = {<<>>} PROVE Init => IInv
<1> SUFFICES ASSUME Init PROVE IInv
    OBVIOUS
<1>1. /\ files = <<>> /\ plan_costs = <<>> /\ best_known_bound = None
      /\ forbidden = {} /\ reformulated = None /\ first = TRUE /\ pc = "delete"
      /\ copied = {} /\ found = <<>> /\ interrupted = FALSE
      /\ args \in Arguments /\ cost \in Costs
    BY DEF Init
<1>2. /\ Counter = 0 /\ DOMAIN files = {} /\ DOMAIN plan_costs = {}
      /\ 1 .. Counter = {} /\ DOMAIN found = {}
    <2>1. Counter = 0 /\ DOMAIN plan_costs = {} /\ DOMAIN files = {} /\ DOMAIN found = {}
        BY <1>1 DEF Counter
    <2> QED
        BY <2>1
<1>3. TypeOK
    <2>1. first \in BOOLEAN /\ interrupted \in BOOLEAN
        BY <1>1
    <2> QED
        BY <1>1, <1>2, <2>1 DEF TypeOK
<1>8. files \in [1 .. Counter -> Plan] /\ plan_costs \in Seq(Nat)
    BY <1>1, <1>2 DEF Counter
<1>4. FilesAreCounted /\ NoPlanTwice /\ CostsFollowTheBound /\ OpenPlansCostMore
    BY <1>1, <1>2, <1>8
    DEF FilesAreCounted, NoPlanTwice, CostsFollowTheBound, OpenPlansCostMore, Working
<1>5. CountedPlansAreOnDisk
    <2>1. Damaged = {}
        BY <1>2 DEF Damaged
    <2> QED
        BY <1>2, <2>1 DEF CountedPlansAreOnDisk
<1>6. CountedUpto(Counter) = {} /\ ExcludedUpto(Counter) = {}
    BY <1>2 DEF CountedUpto, ExcludedUpto
<1>7. GraphTaskExcludes /\ MultisetTaskExcludes /\ FoundPlansAreCounted /\ EndsWithBound
    BY <1>1, <1>2, <1>6
    DEF GraphTaskExcludes, MultisetTaskExcludes, FoundPlansAreCounted, EndsWithBound
<1> QED
    BY <1>1, <1>3, <1>4, <1>5, <1>7 DEF IInv, LosesAtMostTheLastPlan

(* The search returns a plan unless all plans left exceed its bound. *)
LEMMA CandidatesFacts ==
    ASSUME TypeOK
    PROVE  /\ Candidates = {} => \A p \in Plan \ forbidden : ~WithinCostBound(p)
           /\ \A p \in Candidates :
                /\ p \in Plan \ forbidden
                /\ \A q \in Plan \ forbidden : WithinCostBound(q) => cost[p] <= cost[q]
<1> DEFINE open == {p \in Plan \ forbidden : WithinCostBound(p)}
           cheapest == {p \in open : \A q \in open : cost[p] <= cost[q]}
           shortest == {p \in cheapest : \A q \in cheapest : Length[p] <= Length[q]}
<1>1. Candidates = IF args.planner \in GraphPlanners THEN cheapest ELSE shortest
    BY DEF Candidates
<1>2. open # {} => cheapest # {}
    <2> SUFFICES ASSUME open # {} PROVE cheapest # {}
        OBVIOUS
    <2>1. {cost[p] : p \in open} \in SUBSET Nat /\ {cost[p] : p \in open} # {}
        BY TaskFacts
    <2>2. \E n \in {cost[p] : p \in open} : \A m \in {cost[p] : p \in open} : n <= m
        BY <2>1, SmallestNumber
    <2> HIDE DEF open
    <2> QED
        BY <2>2
<1>3. cheapest # {} => shortest # {}
    <2> SUFFICES ASSUME cheapest # {} PROVE shortest # {}
        OBVIOUS
    <2>1. /\ {Length[p] : p \in cheapest} \in SUBSET Nat
          /\ {Length[p] : p \in cheapest} # {}
        BY TaskFacts
    <2>2. \E n \in {Length[p] : p \in cheapest} :
            \A m \in {Length[p] : p \in cheapest} : n <= m
        BY <2>1, SmallestNumber
    <2> HIDE DEF cheapest
    <2> QED
        BY <2>2
<1>4. Candidates = {} => \A p \in Plan \ forbidden : ~WithinCostBound(p)
    BY <1>1, <1>2, <1>3
<1>5. \A p \in Candidates : p \in cheapest
    BY <1>1
<1> QED
    BY <1>4, <1>5

(* A call that saves plans behind the first k files and counts them all:   *)
(* afterwards m files are counted, those after the k all with cost c.      *)
CountsSavedPlans(k, plans, m, c) ==
    /\ files' \in [1 .. m -> Plan]
    /\ \A i \in 1 .. m : files'[i] = IF i \in k + 1 .. k + Len(plans)
                                     THEN plans[i - k] ELSE files[i]
    /\ plan_costs' \in Seq(Nat) /\ Len(plan_costs') = m
    /\ \A i \in 1 .. k : plan_costs'[i] = plan_costs[i]
    /\ \A i \in k + 1 .. m : cost[files'[i]] = c /\ plan_costs'[i] = c
    /\ best_known_bound' = c

(* process_new_plans does so after save_plan wrote plans of one cost. *)
LEMMA SavedPlansAreCounted ==
    ASSUME cost \in [Plan -> Nat], NEW n \in Nat, files \in [1 .. n -> Plan],
           NEW k \in 0 .. n, NEW plans \in Seq(Plan), NEW m \in Nat,
           m = n \/ m = k + Len(plans), n <= m, k + Len(plans) <= m, k < m,
           NEW costs \in Seq(Nat), Len(costs) = k,
           \A i \in 1 .. k : costs[i] = plan_costs[i],
           ProcessNewPlans(SavePlans(files, k, plans), costs),
           NEW c \in Nat, \A i \in 1 .. Len(plans) : cost[plans[i]] = c,
           \A i \in k + Len(plans) + 1 .. m : cost[files[i]] = c
    PROVE  CountsSavedPlans(k, plans, m, c)
<1> DEFINE fs == SavePlans(files, k, plans)
<1>1. /\ fs \in [1 .. m -> Plan]
      /\ \A i \in 1 .. m : fs[i] = IF i \in k + 1 .. k + Len(plans)
                                   THEN plans[i - k] ELSE files[i]
    <2>1. Len(plans) \in Nat /\ DOMAIN files = 1 .. n
        OBVIOUS
    <2>2. fs = [i \in 1 .. m |-> IF i \in k + 1 .. k + Len(plans)
                                 THEN plans[i - k] ELSE files[i]]
        BY <2>1, SavedFiles, SMTT(30)
    <2>3. \A i \in k + 1 .. k + Len(plans) : i - k \in 1 .. Len(plans)
        BY <2>1, SMTT(30)
    <2>4. \A i \in 1 .. m : i \notin k + 1 .. k + Len(plans) => i \in 1 .. n
        BY <2>1
    <2> QED
        BY <2>1, <2>2, <2>3, <2>4, SMTT(30)
<1> HIDE DEF fs
<1>2. \A i \in k + 1 .. m : cost[fs[i]] = c
    <2> TAKE i \in k + 1 .. m
    <2>3. i \in 1 .. m
        OBVIOUS
    <2>1. CASE i \in k + 1 .. k + Len(plans)
        <3>1. i - k \in 1 .. Len(plans)
            BY <2>1
        <3>2. fs[i] = plans[i - k]
            BY <1>1, <2>1, <2>3
        <3> QED
            BY <3>1, <3>2
    <2>2. CASE i \notin k + 1 .. k + Len(plans)
        <3>1. fs[i] = files[i]
            BY <1>1, <2>2, <2>3
        <3>2. i \in k + Len(plans) + 1 .. m
            BY <2>2
        <3> QED
            BY <3>1, <3>2
    <2> QED
        BY <2>1, <2>2
<1>3. ProcessNewPlans(fs, costs)
    BY DEF fs
<1>30. Len(costs) <= m /\ m \in Nat
    OBVIOUS
<1>4. /\ files' = fs
      /\ plan_costs' \in Seq(Nat) /\ Len(plan_costs') = m
      /\ \A i \in 1 .. Len(costs) : plan_costs'[i] = costs[i]
      /\ \A i \in Len(costs) + 1 .. m : plan_costs'[i] = cost[fs[i]]
      /\ \A d \in Nat : /\ Len(costs) < m
                        /\ \A i \in Len(costs) + 1 .. m : cost[fs[i]] = d
                        => best_known_bound' = d
    BY <1>1, <1>3, <1>30, ProcessCompleteFiles
<1>5. best_known_bound' = c
    BY <1>2, <1>4
<1>6. \A i \in 1 .. k : plan_costs'[i] = plan_costs[i]
    BY <1>4
<1>7. \A i \in k + 1 .. m : cost[files'[i]] = c /\ plan_costs'[i] = c
    BY <1>2, <1>4
<1>8. /\ files' \in [1 .. m -> Plan]
      /\ \A i \in 1 .. m : files'[i] = IF i \in k + 1 .. k + Len(plans)
                                       THEN plans[i - k] ELSE files[i]
    BY <1>1, <1>4
<1> QED
    BY <1>4, <1>5, <1>6, <1>7, <1>8 DEF CountsSavedPlans

(* Costs are counted in their order: the first is the least, the last the  *)
(* largest.                                                                *)
LEMMA FirstIsCheapest ==
    ASSUME NEW costs \in Seq(Nat), Len(costs) > 0,
           \A i, j \in 1 .. Len(costs) : i <= j => costs[i] <= costs[j]
    PROVE  /\ Min({costs[i] : i \in DOMAIN costs}) = costs[1]
           /\ Max({costs[i] : i \in DOMAIN costs}) = costs[Len(costs)]
           /\ costs[1] \in Nat /\ costs[Len(costs)] \in Nat
<1> DEFINE S == {costs[i] : i \in DOMAIN costs}
           n == Len(costs)
<1>1. /\ n \in Nat /\ DOMAIN costs = 1 .. n
      /\ 1 \in 1 .. n /\ n \in 1 .. n
      /\ \A i \in 1 .. n : costs[i] \in Nat
    OBVIOUS
<1>2. S \in SUBSET Nat /\ costs[1] \in S /\ costs[n] \in S
    BY <1>1
<1>3. \A x \in S : costs[1] <= x /\ x <= costs[n]
    BY <1>1
<1> HIDE DEF S
<1>4. Min(S) = costs[1] /\ Max(S) = costs[n]
    BY <1>2, <1>3, MinIsLeast, MaxIsLargest
<1> QED
    BY <1>1, <1>4 DEF S

(* What is known of the first and the last cost of the books. *)
LEMMA FirstAndLastCost ==
    ASSUME IInv, Counter > 0
    PROVE  /\ Counter \in Nat /\ 1 \in 1 .. Counter /\ Counter \in 1 .. Counter
           /\ Min({plan_costs[i] : i \in DOMAIN plan_costs}) = plan_costs[1]
           /\ Max({plan_costs[i] : i \in DOMAIN plan_costs}) = plan_costs[Counter]
           /\ plan_costs[1] \in Nat /\ plan_costs[Counter] \in Nat
           /\ args.quality_bound * plan_costs[1] \in Nat
<1>1. /\ plan_costs \in Seq(Nat) /\ Counter = Len(plan_costs)
      /\ \A i, j \in 1 .. Counter : i <= j => plan_costs[i] <= plan_costs[j]
    BY DEF IInv, FilesAreCounted, CostsFollowTheBound, Counter
<1>2. /\ Min({plan_costs[i] : i \in DOMAIN plan_costs}) = plan_costs[1]
      /\ Max({plan_costs[i] : i \in DOMAIN plan_costs}) = plan_costs[Counter]
      /\ plan_costs[1] \in Nat /\ plan_costs[Counter] \in Nat
    BY <1>1, FirstIsCheapest
<1>3. Counter \in Nat /\ 1 \in 1 .. Counter /\ Counter \in 1 .. Counter
    BY <1>1
<1>4. args.quality_bound \in Nat
    BY TaskFacts DEF IInv
<1>5. \A x, y \in Nat : x * y \in Nat
    OBVIOUS
<1> QED
    BY <1>2, <1>3, <1>4, <1>5

(* Whatever the search does not look at costs more than what it does.      *)
LEMMA BeyondBoundCostsMore ==
    ASSUME IInv, Working, NEW p \in Plan, NEW q \in Plan,
           WithinCostBound(p), ~WithinCostBound(q)
    PROVE  cost[p] < cost[q]
<1> DEFINE B == (args.quality_bound * Min({plan_costs[i] : i \in DOMAIN plan_costs})) \div 2 + 1
<1>1. best_known_bound # None /\ cost[p] < B /\ ~(cost[q] < B)
    BY DEF WithinCostBound
<1>2. Counter \in Nat /\ Counter > 0
    BY <1>1 DEF IInv, FilesAreCounted, CostsFollowTheBound, Counter
<1>3. args.quality_bound * Min({plan_costs[i] : i \in DOMAIN plan_costs}) \in Nat
    BY <1>2, FirstAndLastCost
<1>4. B \in Int
    BY <1>3
<1> HIDE DEF B
<1> QED
    BY <1>1, <1>4, TaskFacts DEF IInv
-------------------------------------------------------------------------------
(* Counting new plans no cheaper than those before, and no more expensive  *)
(* than those the task does not exclude, keeps the books.                  *)
LEMMA CountingKeepsBooks ==
    ASSUME IInv, Working, NEW k \in 0 .. Counter, NEW plans \in Seq(Plan),
           NEW m \in Nat, k < m, NEW c \in Nat,
           CountsSavedPlans(k, plans, m, c),
           UNCHANGED <<args, cost, forbidden, interrupted>>,
           \A i, j \in k + 1 .. m : files'[i] = files'[j] => i = j,
           \A i \in k + 1 .. m, j \in 1 .. k : files'[i] # files[j],
           k > 0 => plan_costs[k] <= c,
           \A p \in Plan \ forbidden : c <= cost[p],
           k = 0 => \A p \in Plan : c <= cost[p]
    PROVE  /\ Counter' = m /\ Counter \in Nat /\ plan_costs' \in Seq(Nat)
           /\ files' \in [1 .. m -> Plan]
           /\ \A i \in 1 .. m : plan_costs'[i] = cost[files'[i]]
           /\ \A i \in 1 .. k : files'[i] = files[i]
           /\ CountedPlansAreOnDisk' /\ NoPlanTwice'
           /\ CostsFollowTheBound' /\ OpenPlansCostMore'
<1>1. /\ Counter \in Nat /\ files \in [1 .. Counter -> Plan]
      /\ \A i \in 1 .. Counter : plan_costs[i] = cost[files[i]] /\ plan_costs[i] \in Nat
      /\ k \in Nat /\ k <= Counter
    BY DEF IInv, FilesAreCounted, Counter
<1>2. Counter' = m /\ plan_costs' \in Seq(Nat) /\ files' \in [1 .. m -> Plan]
    BY DEF CountsSavedPlans, Counter
<1>3. \A i \in 1 .. k : files'[i] = files[i] /\ plan_costs'[i] = plan_costs[i]
    BY <1>1 DEF CountsSavedPlans
<1>4. \A i \in 1 .. m : i \in 1 .. k \/ i \in k + 1 .. m
    BY <1>1
<1>5. \A i \in k + 1 .. m : cost[files'[i]] = c /\ plan_costs'[i] = c
    BY DEF CountsSavedPlans
<1>6. \A i \in 1 .. m : plan_costs'[i] = cost[files'[i]]
    <2> TAKE i \in 1 .. m
    <2>1. CASE i \in 1 .. k
        <3>1. i \in 1 .. Counter
            BY <1>1, <2>1
        <3> QED
            BY <1>1, <1>3, <2>1, <3>1
    <2>2. CASE i \in k + 1 .. m
        BY <1>5, <2>2
    <2> QED
        BY <1>4, <2>1, <2>2
<1>7. \A i \in 1 .. k : plan_costs[i] <= c
    <2>1. \A i \in 1 .. k : plan_costs[i] <= plan_costs[k] /\ k \in 1 .. Counter
        BY <1>1 DEF IInv, CostsFollowTheBound
    <2> QED
        BY <1>1, <2>1
<1>8. CountedPlansAreOnDisk'
    <2>1. \A i \in 1 .. m : i \in DOMAIN files' /\ files'[i] # Incomplete
        BY <1>2, FindPlansAssumption
    <2>2. Damaged' = {}
        BY <1>2, <2>1 DEF Damaged
    <2>3. \A i \in (1 .. m) : plan_costs'[i] = cost'[files'[i]]
        BY <1>6
    <2> QED
        BY <1>2, <2>2, <2>3 DEF CountedPlansAreOnDisk
<1>9. NoPlanTwice'
    <2> SUFFICES ASSUME NEW i \in 1 .. m, NEW j \in 1 .. m, files'[i] = files'[j]
                 PROVE  i = j
        BY <1>2 DEF NoPlanTwice
    <2>1. CASE i \in 1 .. k /\ j \in 1 .. k
        <3>1. i \in 1 .. Counter /\ j \in 1 .. Counter /\ files[i] = files[j]
            BY <1>1, <1>3, <2>1
        <3> QED
            BY <3>1 DEF IInv, NoPlanTwice
    <2>2. CASE i \in k + 1 .. m /\ j \in k + 1 .. m
        BY <2>2
    <2>3. CASE i \in 1 .. k /\ j \in k + 1 .. m
        BY <1>3, <2>3
    <2>4. CASE i \in k + 1 .. m /\ j \in 1 .. k
        BY <1>3, <2>4
    <2> QED
        BY <1>4, <2>1, <2>2, <2>3, <2>4
<1>10. CostsFollowTheBound'
    <2>1. best_known_bound' = c
        BY DEF CountsSavedPlans
    <2>2. \A i \in 1 .. m : plan_costs'[i] <= c
        BY <1>3, <1>4, <1>5, <1>7
    <2>3. \A i, j \in 1 .. m : i <= j => plan_costs'[i] <= plan_costs'[j]
        <3> SUFFICES ASSUME NEW i \in 1 .. m, NEW j \in 1 .. m, i <= j
                     PROVE  plan_costs'[i] <= plan_costs'[j]
            OBVIOUS
        <3>1. CASE j \in 1 .. k
            <4>1. i \in 1 .. k /\ i \in 1 .. Counter /\ j \in 1 .. Counter
                BY <1>1, <3>1
            <4>2. plan_costs[i] <= plan_costs[j]
                BY <4>1 DEF IInv, CostsFollowTheBound
            <4> QED
                BY <1>3, <3>1, <4>1, <4>2
        <3>2. CASE j \in k + 1 .. m
            BY <1>5, <2>2, <3>2
        <3> QED
            BY <1>4, <3>1, <3>2
    <2>4. m > 0 /\ plan_costs'[m] = c
        <3>1. m \in k + 1 .. m /\ m > 0
            BY <1>1
        <3> QED
            BY <1>5, <3>1
    <2> QED
        BY <1>2, <2>1, <2>2, <2>3, <2>4 DEF CostsFollowTheBound
<1>11. OpenPlansCostMore'
    <2>1. best_known_bound' = c
        BY DEF CountsSavedPlans
    <2>2. \A p \in Plan : plan_costs'[1] <= cost[p]
        <3>1. CASE k = 0
            <4>1. 1 \in k + 1 .. m
                BY <3>1
            <4> QED
                BY <1>5, <3>1, <4>1
        <3>2. CASE k > 0
            <4>1. 1 \in 1 .. k /\ Counter > 0
                BY <1>1, <3>2
            <4> QED
                BY <1>3, <4>1 DEF IInv, OpenPlansCostMore
        <3> QED
            BY <1>1, <3>1, <3>2
    <2> QED
        BY <1>2, <2>1, <2>2 DEF OpenPlansCostMore
<1> QED
    BY <1>1, <1>2, <1>3, <1>6, <1>8, <1>9, <1>10, <1>11

(* The plan the search returned is counted as the next one. *)
LEMMA FindsPlanFacts ==
    ASSUME IInv, PlannerFindsPlan
    PROVE  \E p \in Plan \ forbidden :
            /\ p \in Candidates
            /\ found' = Append(found, p)
            /\ CountsSavedPlans(Counter, <<p>>, Counter + 1, cost[p])
            /\ Counter \in Nat
            /\ Counter > 0 => plan_costs[Counter] <= cost[p]
            /\ \A q \in Plan \ forbidden : cost[p] <= cost[q]
            /\ Counter = 0 => forbidden = {}
            /\ \A j \in 1 .. Counter : p # files[j]
<1>1. PICK p \in Candidates :
        /\ ProcessNewPlans(SavePlans(files, Counter, <<p>>), plan_costs)
        /\ found' = Append(found, p)
    BY DEF PlannerFindsPlan
<1>2. /\ pc = "planner" /\ Working /\ Counter \in Nat /\ plan_costs \in Seq(Nat)
      /\ files \in [1 .. Counter -> Plan]
      /\ \A i \in 1 .. Counter : plan_costs[i] \in Nat
    BY DEF PlannerFindsPlan, IInv, FilesAreCounted, Working, Counter
<1>3. /\ p \in Plan \ forbidden /\ cost[p] \in Nat /\ cost \in [Plan -> Nat]
      /\ \A q \in Plan : cost[q] \in Nat
    BY CandidatesFacts, TaskFacts DEF IInv
<1>4. CountsSavedPlans(Counter, <<p>>, Counter + 1, cost[p])
    <2>1. /\ <<p>> \in Seq(Plan) /\ Len(<<p>>) = 1
          /\ \A i \in 1 .. Len(<<p>>) : cost[<<p>>[i]] = cost[p]
          /\ Len(plan_costs) = Counter
        BY <1>3 DEF Counter
    <2>2. /\ Counter \in 0 .. Counter /\ Counter + 1 \in Nat
          /\ Counter + 1 = Counter + Len(<<p>>)
          /\ Counter <= Counter + 1 /\ Counter + Len(<<p>>) <= Counter + 1
          /\ Counter < Counter + 1
          /\ \A i \in Counter + Len(<<p>>) + 1 .. Counter + 1 : cost[files[i]] = cost[p]
        BY <1>2, <2>1
    <2> QED
        BY <1>1, <1>2, <1>3, <2>1, <2>2, SavedPlansAreCounted
<1>5. \A q \in Plan \ forbidden : cost[p] <= cost[q]
    <2> TAKE q \in Plan \ forbidden
    <2>1. CASE WithinCostBound(q)
        BY <2>1, CandidatesFacts DEF IInv
    <2>2. CASE ~WithinCostBound(q)
        <3>1. WithinCostBound(p)
            BY DEF Candidates
        <3> QED
            BY <1>2, <1>3, <2>2, <3>1, BeyondBoundCostsMore
    <2> QED
        BY <2>1, <2>2
<1>6. Counter > 0 => plan_costs[Counter] <= cost[p]
    <2>1. Counter > 0 => best_known_bound \in Nat /\ plan_costs[Counter] = best_known_bound
        BY <1>2 DEF IInv, CostsFollowTheBound
    <2> QED
        BY <1>3, <2>1, FindPlansAssumption DEF IInv, OpenPlansCostMore
<1>7. Counter = 0 => forbidden = {}
    <2>1. Counter = 0 => CountedUpto(Counter) = {} /\ ExcludedUpto(Counter) = {}
        BY DEF CountedUpto, ExcludedUpto
    <2> QED
        BY <1>2, <2>1 DEF IInv, GraphTaskExcludes, MultisetTaskExcludes
<1>8. \A j \in 1 .. Counter : files[j] \in forbidden
    <2>1. \A j \in 1 .. Counter : files[j] \in Plan /\ files[j] \in ForbiddenBy[files[j]]
        BY <1>2, TaskFacts DEF IInv
    <2>2. \A j \in 1 .. Counter : /\ files[j] \in CountedUpto(Counter)
                                  /\ files[j] \in ExcludedUpto(Counter)
        BY <2>1 DEF CountedUpto, ExcludedUpto
    <2> QED
        BY <1>2, <2>2 DEF IInv, GraphTaskExcludes, MultisetTaskExcludes
<1> QED
    BY <1>1, <1>2, <1>3, <1>4, <1>5, <1>6, <1>7, <1>8

(* Counting the plan the search returned keeps the invariant. *)
LEMMA FindsPlanKeepsInvariant ==
    ASSUME IInv, PlannerFindsPlan PROVE IInv'
<1>1. PICK p \in Plan \ forbidden :
        /\ found' = Append(found, p)
        /\ CountsSavedPlans(Counter, <<p>>, Counter + 1, cost[p])
        /\ Counter \in Nat
        /\ Counter > 0 => plan_costs[Counter] <= cost[p]
        /\ \A q \in Plan \ forbidden : cost[p] <= cost[q]
        /\ Counter = 0 => forbidden = {}
        /\ \A j \in 1 .. Counter : p # files[j]
    BY FindsPlanFacts
<1>2. /\ pc = "planner" /\ Working
      /\ UNCHANGED <<args, cost, forbidden, reformulated, first, copied, interrupted>>
      /\ found \in Seq(Plan) /\ cost[p] \in Nat
    BY TaskFacts DEF PlannerFindsPlan, run, tasks, IInv, TypeOK, Working
<1>3. files'[Counter + 1] = p
    BY <1>1 DEF CountsSavedPlans
<1>4. /\ Counter' = Counter + 1 /\ plan_costs' \in Seq(Nat)
      /\ files' \in [1 .. Counter + 1 -> Plan]
      /\ \A i \in 1 .. Counter + 1 : plan_costs'[i] = cost[files'[i]]
      /\ \A i \in 1 .. Counter : files'[i] = files[i]
      /\ CountedPlansAreOnDisk' /\ NoPlanTwice'
      /\ CostsFollowTheBound' /\ OpenPlansCostMore'
    <2>1. /\ Counter \in 0 .. Counter /\ <<p>> \in Seq(Plan) /\ Counter + 1 \in Nat
          /\ Counter < Counter + 1
          /\ \A i \in Counter + 1 .. Counter + 1 : i = Counter + 1
        BY <1>1
    <2>2. /\ \A i, j \in Counter + 1 .. Counter + 1 : files'[i] = files'[j] => i = j
          /\ \A i \in Counter + 1 .. Counter + 1, j \in 1 .. Counter : files'[i] # files[j]
          /\ Counter = 0 => \A q \in Plan : cost[p] <= cost[q]
        BY <1>1, <1>3, <2>1
    <2> DEFINE k == Counter
               plans == <<p>>
               m == Counter + 1
               c == cost[p]
    <2>3. /\ k \in 0 .. Counter /\ plans \in Seq(Plan) /\ m \in Nat /\ k < m /\ c \in Nat
          /\ CountsSavedPlans(k, plans, m, c)
          /\ \A i, j \in k + 1 .. m : files'[i] = files'[j] => i = j
          /\ \A i \in k + 1 .. m, j \in 1 .. k : files'[i] # files[j]
          /\ k > 0 => plan_costs[k] <= c
          /\ \A q \in Plan \ forbidden : c <= cost[q]
          /\ k = 0 => \A q \in Plan : c <= cost[q]
        BY <1>1, <1>2, <2>1, <2>2
    <2>4. UNCHANGED <<args, cost, forbidden, interrupted>>
        BY <1>2
    <2> HIDE DEF k, plans, m, c
    <2>5. /\ Counter' = m /\ plan_costs' \in Seq(Nat)
          /\ files' \in [1 .. m -> Plan]
          /\ \A i \in 1 .. m : plan_costs'[i] = cost[files'[i]]
          /\ \A i \in 1 .. k : files'[i] = files[i]
          /\ CountedPlansAreOnDisk' /\ NoPlanTwice'
          /\ CostsFollowTheBound' /\ OpenPlansCostMore'
        BY <1>2, <2>3, <2>4, CountingKeepsBooks, ZenonT(60)
    <2> QED
        BY <2>5 DEF k, m
<1>5. /\ pc' \in {"finalize", "extend", "reformulate"}
      /\ pc' = "extend" => ~IsGraphPlanner
      /\ pc' = "reformulate" => IsGraphPlanner \/ args.planner \notin ExtendingPlanners
    <2>1. Len(plan_costs') = Counter + 1
        BY <1>4 DEF Counter
    <2>2. \A x \in ExtendingPlanners : x \notin GraphPlanners
        BY DEF ExtendingPlanners, GraphPlanners
    <2> QED
        BY <2>1, <2>2 DEF PlannerFindsPlan, IsGraphPlanner
<1>6. TypeOK'
    <2>1. found' \in Seq(Plan)
        BY <1>1, <1>2
    <2>2. /\ \A i \in DOMAIN files' : i \in Nat \ {0} /\ files'[i] \in Plan \cup {Incomplete}
          /\ \A i \in DOMAIN plan_costs' : plan_costs'[i] \in Nat
        BY <1>1, <1>4
    <2>3. best_known_bound' \in Nat
        BY <1>2, <1>1 DEF CountsSavedPlans
    <2> QED
        BY <1>2, <1>5, <2>1, <2>2, <2>3 DEF IInv, TypeOK
<1>7. FilesAreCounted'
    BY <1>1, <1>2, <1>4, <1>5 DEF FilesAreCounted, Working, IsGraphPlanner
<1>8. /\ CountedUpto(Counter)' = CountedUpto(Counter) \cup {p}
      /\ CountedUpto(Counter - 1)' = CountedUpto(Counter)
      /\ ExcludedUpto(Counter)' = ExcludedUpto(Counter) \cup ForbiddenBy[p]
      /\ ExcludedUpto(Counter - 1)' = ExcludedUpto(Counter)
    <2>1. /\ Counter + 1 - 1 = Counter /\ Counter' - 1 = Counter
          /\ \A i \in 1 .. Counter + 1 : i \in 1 .. Counter \/ i = Counter + 1
          /\ \A i \in 1 .. Counter : i \in 1 .. Counter + 1
          /\ Counter + 1 \in 1 .. Counter + 1
        BY <1>1, <1>4
    <2>2. CountedUpto(Counter)' = {files'[i] : i \in 1 .. Counter + 1}
        BY <1>4 DEF CountedUpto
    <2>3. ExcludedUpto(Counter)' = UNION {ForbiddenBy[files'[i]] : i \in 1 .. Counter + 1}
        BY <1>4 DEF ExcludedUpto
    <2>6. CountedUpto(Counter)' = CountedUpto(Counter) \cup {p}
        BY <1>3, <1>4, <2>1, <2>2 DEF CountedUpto
    <2>7. CountedUpto(Counter - 1)' = CountedUpto(Counter)
        <3>1. {files'[i] : i \in 1 .. Counter} = {files[i] : i \in 1 .. Counter}
            BY <1>4, SMTT(30)
        <3>2. CountedUpto(Counter - 1)' = {files'[i] : i \in 1 .. Counter}
            BY <2>1 DEF CountedUpto
        <3> QED
            BY <3>1, <3>2 DEF CountedUpto
    <2>8. ExcludedUpto(Counter)' = ExcludedUpto(Counter) \cup ForbiddenBy[p]
        BY <1>3, <1>4, <2>1, <2>3 DEF ExcludedUpto
    <2>9. ExcludedUpto(Counter - 1)' = ExcludedUpto(Counter)
        BY <1>4, <2>1 DEF ExcludedUpto
    <2> QED
        BY <2>6, <2>7, <2>8, <2>9
<1>9. GraphTaskExcludes'
    BY <1>2, <1>5, <1>8 DEF IInv, GraphTaskExcludes, IsGraphPlanner
<1>10. MultisetTaskExcludes'
    <2>1. (files[Counter] \notin forbidden)'
        BY <1>1, <1>2, <1>3, <1>4
    <2> QED
        BY <1>2, <1>5, <1>8, <2>1 DEF IInv, MultisetTaskExcludes, IsGraphPlanner
<1>11. FoundPlansAreCounted'
    <2>1. /\ Len(found') = Len(found) + 1 /\ Len(found) \in Nat
          /\ DOMAIN found = 1 .. Len(found) /\ DOMAIN found' = 1 .. Len(found) + 1
          /\ \A i \in 1 .. Len(found) : found'[i] = found[i]
          /\ found'[Len(found) + 1] = p
        BY <1>1, <1>2
    <2>2. \A i \in 1 .. Len(found') - 1 : i \in DOMAIN found /\ found'[i] = found[i]
        <3>1. Len(found') - 1 = Len(found)
            BY <2>1
        <3> QED
            BY <2>1, <3>1
    <2>3. \A i \in DOMAIN found' :
                found'[i] = p \/ (i \in DOMAIN found /\ found'[i] = found[i])
        <3>1. \A i \in 1 .. Len(found) + 1 : i = Len(found) + 1 \/ i \in 1 .. Len(found)
            BY <2>1
        <3> QED
            BY <2>1, <3>1
    <2>4. IsGraphPlanner => \A i \in DOMAIN found : found[i] \in CountedUpto(Counter)
        BY <1>2 DEF IInv, FoundPlansAreCounted
    <2>5. IsGraphPlanner =>
            /\ \A i \in DOMAIN found' : found'[i] \in CountedUpto(Counter)'
            /\ \A i \in 1 .. Len(found') - 1 :
                    /\ found'[i] \in CountedUpto(Counter)'
                    /\ found'[i] \in CountedUpto(Counter - 1)'
        BY <1>8, <2>2, <2>3, <2>4
    <2> QED
        BY <1>2, <1>5, <2>5 DEF FoundPlansAreCounted, IsGraphPlanner
<1>12. EndsWithBound'
    <2>1. best_known_bound' # None
        BY <1>2, <1>1, FindPlansAssumption DEF CountsSavedPlans
    <2> QED
        BY <1>5, <2>1 DEF EndsWithBound
<1> QED
    BY <1>4, <1>5, <1>6, <1>7, <1>9, <1>10, <1>11, <1>12
    DEF IInv, LosesAtMostTheLastPlan
-------------------------------------------------------------------------------
(* A call that leaves the counted files, or the first m of them, alone. *)
KeepsCounted(m) ==
    /\ \A i \in 1 .. m : i \in DOMAIN files' /\ files'[i] = files[i]
    /\ \A i \in 1 .. m : plan_costs'[i] = plan_costs[i]
    /\ plan_costs' \in Seq(Nat) /\ Len(plan_costs') = m
    /\ UNCHANGED <<args, cost, best_known_bound>>
    /\ forbidden \subseteq forbidden'

(* It keeps the books. *)
LEMMA KeepingBooks ==
    ASSUME IInv, Working, NEW m \in 0 .. Counter, KeepsCounted(m),
           Working' => m = Counter
    PROVE  /\ Counter' = m /\ CountedPlansAreOnDisk' /\ NoPlanTwice'
           /\ CostsFollowTheBound' /\ OpenPlansCostMore'
<1>1. /\ Counter \in Nat /\ files \in [1 .. Counter -> Plan]
      /\ \A i \in 1 .. Counter : plan_costs[i] = cost[files[i]] /\ plan_costs[i] \in Nat
    BY DEF IInv, FilesAreCounted, Counter
<1>2. /\ m \in Nat /\ Counter' = m /\ \A i \in 1 .. m : i \in 1 .. Counter
      /\ \A i \in 1 .. m : files'[i] = files[i] /\ plan_costs'[i] = plan_costs[i]
    BY <1>1 DEF KeepsCounted, Counter
<1>3. CountedPlansAreOnDisk'
    <2>1. \A i \in 1 .. m : i \in DOMAIN files' /\ files'[i] # Incomplete
        BY <1>1, <1>2, FindPlansAssumption DEF KeepsCounted
    <2>2. Damaged' = {}
        BY <1>2, <2>1 DEF Damaged
    <2>3. \A i \in 1 .. m : plan_costs'[i] = cost'[files'[i]]
        BY <1>1, <1>2 DEF KeepsCounted
    <2> QED
        BY <1>2, <2>2, <2>3 DEF CountedPlansAreOnDisk
<1>4. NoPlanTwice'
    BY <1>2 DEF IInv, NoPlanTwice
<1>5. CostsFollowTheBound'
    <2>1. m > 0 => Counter > 0
        BY <1>1
    <2>2. best_known_bound' = best_known_bound
        BY DEF KeepsCounted
    <2>3. /\ Counter > 0 => best_known_bound \in Nat
          /\ \A i \in 1 .. Counter : plan_costs[i] <= best_known_bound
          /\ \A i, j \in 1 .. Counter : i <= j => plan_costs[i] <= plan_costs[j]
          /\ IF Counter = 0 THEN best_known_bound = None
             ELSE plan_costs[Counter] = best_known_bound
        BY DEF IInv, CostsFollowTheBound
    <2>4. \A i, j \in 1 .. m : i <= j => plan_costs'[i] <= plan_costs'[j]
        BY <1>2, <2>3
    <2>5. \A i \in 1 .. m : plan_costs'[i] <= best_known_bound
        BY <1>2, <2>3
    <2>6. Working' => IF m = 0 THEN best_known_bound = None
                      ELSE plan_costs'[m] = best_known_bound
        <3>1. m # 0 => m \in 1 .. m
            BY <1>2
        <3> QED
            BY <1>2, <2>3, <3>1
    <2> QED
        BY <1>2, <2>1, <2>2, <2>3, <2>4, <2>5, <2>6 DEF CostsFollowTheBound
<1>6. OpenPlansCostMore'
    <2>1. m > 0 => Counter > 0 /\ 1 \in 1 .. m
        BY <1>1
    <2> QED
        BY <1>1, <1>2, <2>1 DEF IInv, OpenPlansCostMore, KeepsCounted
<1> QED
    BY <1>2, <1>3, <1>4, <1>5, <1>6

(* A call after which the loop ends, with the first m files still counted. *)
LEMMA EndingKeepsInvariant ==
    ASSUME IInv, Working, NEW m \in 0 .. Counter, KeepsCounted(m),
           pc' \in {"finalize", "crashed"}, pc' = "crashed" => interrupted',
           ~interrupted' => best_known_bound # None,
           UNCHANGED <<forbidden, reformulated, first, copied, found>>,
           interrupted' \in BOOLEAN,
           \A i \in DOMAIN files' : i \in Nat \ {0} /\ files'[i] \in Plan \cup {Incomplete},
           IsGraphPlanner =>
                /\ \A p \in forbidden : p \in CountedUpto(m)
                /\ \A i \in 1 .. Len(found) - 1 : found[i] \in CountedUpto(m)
    PROVE  IInv'
<1>1. ~Working'
    BY DEF Working
<1>2. /\ Counter' = m /\ CountedPlansAreOnDisk' /\ NoPlanTwice'
      /\ CostsFollowTheBound' /\ OpenPlansCostMore'
    BY <1>1, KeepingBooks
<1>3. m \in Nat /\ Counter \in Nat
    BY DEF IInv, FilesAreCounted, Counter
<1>4. TypeOK'
    BY DEF IInv, TypeOK, KeepsCounted
<1>5. FilesAreCounted'
    BY <1>1, <1>2 DEF FilesAreCounted, KeepsCounted
<1>6. CountedUpto(Counter)' = CountedUpto(m)
    BY <1>2 DEF CountedUpto, KeepsCounted
<1>7. IsGraphPlanner' = IsGraphPlanner
    BY DEF IsGraphPlanner, KeepsCounted
<1>8. GraphTaskExcludes' /\ MultisetTaskExcludes' /\ FoundPlansAreCounted'
    BY <1>6, <1>7 DEF GraphTaskExcludes, MultisetTaskExcludes, FoundPlansAreCounted
<1>9. EndsWithBound'
    BY DEF EndsWithBound, KeepsCounted
<1>10. LosesAtMostTheLastPlan'
    <2>1. args'.planner = "topk" => IsGraphPlanner'
        BY DEF IsGraphPlanner, GraphPlanners
    <2>2. Counted' = CountedUpto(Counter)'
        BY DEF Counted, CountedUpto
    <2> QED
        BY <1>8, <2>1, <2>2 DEF FoundPlansAreCounted, LosesAtMostTheLastPlan
<1> QED
    BY <1>2, <1>4, <1>5, <1>8, <1>9, <1>10 DEF IInv
-------------------------------------------------------------------------------
(* What holds of the counted files in the middle of an iteration. *)
LEMMA WorkingFacts ==
    ASSUME IInv, Working
    PROVE  /\ Counter \in Nat /\ plan_costs \in Seq(Nat) /\ Len(plan_costs) = Counter
           /\ files \in [1 .. Counter -> Plan]
           /\ \A i \in 1 .. Counter : plan_costs[i] = cost[files[i]] /\ files[i] # Incomplete
           /\ Counter > 0 => /\ best_known_bound \in Nat /\ best_known_bound # None
                             /\ plan_costs[Counter] = best_known_bound
<1>1. /\ Counter \in Nat /\ plan_costs \in Seq(Nat) /\ Len(plan_costs) = Counter
      /\ files \in [1 .. Counter -> Plan]
      /\ \A i \in 1 .. Counter : plan_costs[i] = cost[files[i]]
    BY DEF IInv, FilesAreCounted, Counter
<1>2. \A i \in 1 .. Counter : files[i] # Incomplete
    BY <1>1, FindPlansAssumption
<1>3. Counter > 0 => /\ best_known_bound \in Nat /\ best_known_bound # None
                     /\ plan_costs[Counter] = best_known_bound
    BY <1>1, FindPlansAssumption DEF IInv, CostsFollowTheBound
<1> QED
    BY <1>1, <1>2, <1>3

(* A truncated plan file is written over the counted file after the first  *)
(* m, or behind all of them.                                               *)
LEMMA SavedIncomplete ==
    ASSUME NEW n \in Nat, files \in [1 .. n -> Plan], NEW m \in 0 .. n,
           NEW fs, fs = SavePlans(files, m, <<Incomplete>>)
    PROVE  /\ \A i \in 1 .. m : i \in DOMAIN fs /\ fs[i] = files[i]
           /\ \A i \in DOMAIN fs : i \in Nat \ {0} /\ fs[i] \in Plan \cup {Incomplete}
           /\ m = n => /\ fs \in [1 .. n + 1 -> Plan \cup {Incomplete}]
                       /\ fs[n + 1] = Incomplete
<1> DEFINE l == IF m = n THEN n + 1 ELSE n
<1>1. fs = [i \in 1 .. l |-> IF i = m + 1 THEN Incomplete ELSE files[i]]
    <2>1. /\ m \in Nat /\ m + 1 .. m + Len(<<Incomplete>>) = {m + 1}
          /\ \A i \in {m + 1} : <<Incomplete>>[i - m] = Incomplete
          /\ (DOMAIN files) \cup {m + 1} = 1 .. l
        OBVIOUS
    <2>2. fs = [i \in 1 .. l |-> IF i \in {m + 1} THEN <<Incomplete>>[i - m] ELSE files[i]]
        BY <2>1 DEF SavePlans
    <2>3. \A i \in 1 .. l : (IF i \in {m + 1} THEN <<Incomplete>>[i - m] ELSE files[i])
                                = (IF i = m + 1 THEN Incomplete ELSE files[i])
        BY <2>1
    <2> QED
        BY <2>2, <2>3
<1>2. /\ \A i \in 1 .. m : i \in 1 .. l /\ i # m + 1
      /\ \A i \in 1 .. l : i \in 1 .. n \/ i = m + 1
      /\ \A i \in 1 .. l : i \in Nat \ {0}
      /\ m = n => l = n + 1 /\ n + 1 \in 1 .. l
    OBVIOUS
<1> HIDE DEF l
<1>3. \A i \in 1 .. l : fs[i] \in Plan \cup {Incomplete}
    BY <1>1, <1>2
<1> QED
    BY <1>1, <1>2, <1>3

(* delete_existing_plans deletes nothing. *)
LEMMA DeletesNothing ==
    ASSUME IInv, DeleteExistingPlans PROVE files' = files
<1>1. Working /\ Counter = 0 /\ DOMAIN files = {} /\ plan_costs \in Seq(Nat)
    BY WorkingFacts DEF DeleteExistingPlans, Working, IInv, FilesAreCounted
<1>2. LocalPlans(files, plan_costs) = {}
    BY <1>1 DEF LocalPlans, Counter
<1>3. DOMAIN files \ LocalPlans(files, plan_costs) = DOMAIN files
    BY <1>2
<1>4. files' = [i \in DOMAIN files |-> files[i]]
    BY <1>3 DEF DeleteExistingPlans
<1>5. files \in [1 .. Counter -> Plan]
    BY <1>1, WorkingFacts
<1> QED
    BY <1>4, <1>5

(* So it keeps the invariant. *)
LEMMA DeleteKeepsInvariant ==
    ASSUME IInv, DeleteExistingPlans PROVE IInv'
<1>1. /\ pc = "delete" /\ pc' = "planner"
      /\ UNCHANGED <<args, cost, files, plan_costs, best_known_bound, forbidden,
                     reformulated, first, copied, found, interrupted>>
    BY DeletesNothing DEF DeleteExistingPlans, run, books, tasks
<1>2. TypeOK' /\ FilesAreCounted' /\ CountedPlansAreOnDisk' /\ NoPlanTwice'
    BY <1>1
    DEF IInv, TypeOK, FilesAreCounted, CountedPlansAreOnDisk, NoPlanTwice,
        Working, Counter, Damaged, IsGraphPlanner
<1>3. CostsFollowTheBound' /\ OpenPlansCostMore'
    BY <1>1 DEF IInv, CostsFollowTheBound, OpenPlansCostMore, Working, Counter
<1>4. GraphTaskExcludes' /\ MultisetTaskExcludes' /\ FoundPlansAreCounted'
    BY <1>1
    DEF IInv, GraphTaskExcludes, MultisetTaskExcludes, FoundPlansAreCounted,
        IsGraphPlanner, CountedUpto, ExcludedUpto, Counter
<1>5. EndsWithBound' /\ LosesAtMostTheLastPlan'
    BY <1>1 DEF EndsWithBound, LosesAtMostTheLastPlan
<1> QED
    BY <1>2, <1>3, <1>4, <1>5 DEF IInv

(* The search finds no plan: there is one, so some are excluded. *)
LEMMA FindsNoMoreKeepsInvariant ==
    ASSUME Plan # {}, IInv, PlannerFindsNoMore PROVE IInv'
<1>1. /\ Working /\ pc = "planner" /\ pc' = "finalize" /\ Candidates = {}
      /\ UNCHANGED <<args, cost, files, plan_costs, best_known_bound, forbidden,
                     reformulated, first, copied, found, interrupted>>
    BY DEF PlannerFindsNoMore, run, books, tasks, Working
<1>2. best_known_bound # None
    <2>1. CASE Counter = 0
        <3>1. best_known_bound = None
            BY <1>1, <2>1 DEF IInv, CostsFollowTheBound
        <3>2. CountedUpto(Counter) = {} /\ ExcludedUpto(Counter) = {}
            BY <2>1 DEF CountedUpto, ExcludedUpto
        <3>3. forbidden = {}
            BY <1>1, <3>2 DEF IInv, GraphTaskExcludes, MultisetTaskExcludes
        <3> QED
            BY <1>1, <3>1, <3>3, CandidatesFacts
            DEF IInv, WithinCostBound
    <2> QED
        BY <1>1, <2>1, WorkingFacts
<1>3. Counter \in 0 .. Counter /\ KeepsCounted(Counter)
    BY <1>1, WorkingFacts DEF KeepsCounted
<1>4. IsGraphPlanner =>
        /\ \A p \in forbidden : p \in CountedUpto(Counter)
        /\ \A i \in 1 .. Len(found) - 1 : found[i] \in CountedUpto(Counter)
    <2>1. \A i \in 1 .. Len(found) - 1 : i \in DOMAIN found
        BY DEF IInv, TypeOK
    <2> QED
        BY <1>1, <2>1 DEF IInv, GraphTaskExcludes, FoundPlansAreCounted
<1>5. /\ \A i \in DOMAIN files' : i \in Nat \ {0} /\ files'[i] \in Plan \cup {Incomplete}
      /\ interrupted' \in BOOLEAN
    BY <1>1 DEF IInv, TypeOK
<1> QED
    BY <1>1, <1>2, <1>3, <1>4, <1>5, EndingKeepsInvariant

(* The task the loop goes on with excludes what is counted. *)
LEMMA AddTaskKeepsInvariant ==
    ASSUME IInv, AddTask PROVE IInv'
<1>1. /\ Working /\ pc = "add_task" /\ pc' \in {"finalize", "planner"}
      /\ reformulated # None /\ forbidden' = reformulated /\ reformulated' = None
      /\ first' = FALSE
      /\ UNCHANGED <<args, cost, files, plan_costs, best_known_bound,
                     copied, found, interrupted>>
    BY DEF AddTask, run, books, Working
<1>2. Counter > 0 /\ best_known_bound # None /\ Counter \in 0 .. Counter
    BY <1>1, WorkingFacts DEF IInv, FilesAreCounted
<1>3. forbidden \subseteq forbidden'
    BY <1>1 DEF IInv, GraphTaskExcludes, MultisetTaskExcludes
<1>4. KeepsCounted(Counter)
    BY <1>1, <1>3, WorkingFacts DEF KeepsCounted
<1>5. CountedPlansAreOnDisk' /\ NoPlanTwice' /\ CostsFollowTheBound' /\ OpenPlansCostMore'
    BY <1>1, <1>2, <1>4, KeepingBooks
<1>6. TypeOK' /\ FilesAreCounted'
    <2>1. first' \in BOOLEAN
        BY <1>1
    <2> QED
        BY <1>1, <2>1 DEF IInv, TypeOK, FilesAreCounted, Working, Counter, IsGraphPlanner
<1>7. /\ CountedUpto(Counter)' = CountedUpto(Counter)
      /\ ExcludedUpto(Counter)' = ExcludedUpto(Counter)
      /\ IsGraphPlanner' = IsGraphPlanner
    BY <1>1 DEF CountedUpto, ExcludedUpto, IsGraphPlanner, Counter
<1>8. GraphTaskExcludes' /\ MultisetTaskExcludes'
    BY <1>1, <1>7 DEF IInv, GraphTaskExcludes, MultisetTaskExcludes
<1>9. FoundPlansAreCounted'
    <2>1. \A i \in 1 .. Len(found) - 1 : i \in DOMAIN found
        BY DEF IInv, TypeOK
    <2> QED
        BY <1>1, <1>7, <2>1 DEF IInv, FoundPlansAreCounted
<1>10. EndsWithBound' /\ LosesAtMostTheLastPlan'
    BY <1>1, <1>2 DEF EndsWithBound, LosesAtMostTheLastPlan
<1> QED
    BY <1>5, <1>6, <1>8, <1>9, <1>10 DEF IInv

(* Without a task to go on with, a bound is known. *)
LEMMA NoTaskToAddKeepsInvariant ==
    ASSUME IInv, NoTaskToAdd PROVE IInv'
<1>1. /\ Working /\ pc = "add_task" /\ pc' = "finalize"
      /\ UNCHANGED <<args, cost, files, plan_costs, best_known_bound, forbidden,
                     reformulated, first, copied, found, interrupted>>
    BY DEF NoTaskToAdd, run, books, tasks, Working
<1>2. best_known_bound # None /\ Counter \in 0 .. Counter /\ KeepsCounted(Counter)
    BY <1>1, WorkingFacts DEF KeepsCounted, IInv, FilesAreCounted
<1>3. IsGraphPlanner =>
        /\ \A p \in forbidden : p \in CountedUpto(Counter)
        /\ \A i \in 1 .. Len(found) - 1 : found[i] \in CountedUpto(Counter)
    <2>1. \A i \in 1 .. Len(found) - 1 : i \in DOMAIN found
        BY DEF IInv, TypeOK
    <2> QED
        BY <1>1, <2>1 DEF IInv, GraphTaskExcludes, FoundPlansAreCounted
<1>4. /\ \A i \in DOMAIN files' : i \in Nat \ {0} /\ files'[i] \in Plan \cup {Incomplete}
      /\ interrupted' \in BOOLEAN
    BY <1>1 DEF IInv, TypeOK
<1> QED
    BY <1>1, <1>2, <1>3, <1>4, EndingKeepsInvariant

(* A truncated plan file behind the counted ones is deleted, or left.      *)
LEMMA PlannerCutOffFacts ==
    ASSUME IInv, PlannerFileIsTruncated \/ PlannerIsInterrupted
    PROVE  /\ Working /\ pc = "planner" /\ pc' \in {"finalize", "crashed"}
           /\ interrupted' = TRUE
           /\ UNCHANGED <<args, cost, plan_costs, best_known_bound, forbidden,
                          reformulated, first, copied, found>>
           /\ \A i \in 1 .. Counter : i \in DOMAIN files' /\ files'[i] = files[i]
           /\ \A i \in DOMAIN files' : i \in Nat \ {0} /\ files'[i] \in Plan \cup {Incomplete}
<1> DEFINE fs == SavePlans(files, Counter, <<Incomplete>>)
<1>1. /\ Working /\ pc = "planner" /\ interrupted' = TRUE
      /\ UNCHANGED <<args, cost, forbidden, reformulated, first, copied, found>>
    BY DEF PlannerFileIsTruncated, PlannerIsInterrupted, run, tasks, Working
<1>2. /\ Counter \in Nat /\ files \in [1 .. Counter -> Plan] /\ Counter \in 0 .. Counter
      /\ plan_costs \in Seq(Nat) /\ Len(plan_costs) = Counter
    BY <1>1, WorkingFacts
<1>3. /\ \A i \in 1 .. Counter : i \in DOMAIN fs /\ fs[i] = files[i]
      /\ \A i \in DOMAIN fs : i \in Nat \ {0} /\ fs[i] \in Plan \cup {Incomplete}
      /\ fs \in [1 .. Counter + 1 -> Plan \cup {Incomplete}]
      /\ fs[Counter + 1] = Incomplete
    <2> QED
        BY <1>2, SavedIncomplete
<1> HIDE DEF fs
<1>4. /\ pc' \in {"finalize", "crashed"}
      /\ plan_costs' = plan_costs /\ best_known_bound' = best_known_bound
      /\ files' = fs \/ files' = files
    <2>1. CASE PlannerFileIsTruncated
        <3>1. ProcessNewPlans(fs, plan_costs)
            BY <2>1 DEF PlannerFileIsTruncated, fs
        <3>2. /\ files' = [i \in 1 .. Counter |-> fs[i]]
              /\ plan_costs' = plan_costs
              /\ best_known_bound' = best_known_bound
            BY <1>2, <1>3, <3>1, ProcessIncompleteFile
        <3>3. [i \in 1 .. Counter |-> fs[i]] = files
            BY <1>2, <1>3
        <3> QED
            BY <2>1, <3>2, <3>3 DEF PlannerFileIsTruncated
    <2>2. CASE PlannerIsInterrupted
        BY <2>2 DEF PlannerIsInterrupted, books, fs
    <2> QED
        BY <2>1, <2>2
<1> QED
    BY <1>1, <1>2, <1>3, <1>4 DEF IInv, TypeOK

(* So a call of the planner that is cut off keeps the invariant. *)
LEMMA PlannerCutOffKeepsInvariant ==
    ASSUME IInv, PlannerFileIsTruncated \/ PlannerIsInterrupted PROVE IInv'
<1>1. Counter \in 0 .. Counter /\ KeepsCounted(Counter)
    <2>1. /\ Working /\ UNCHANGED <<args, cost, plan_costs, best_known_bound, forbidden>>
          /\ \A i \in 1 .. Counter : i \in DOMAIN files' /\ files'[i] = files[i]
        BY PlannerCutOffFacts
    <2>2. Counter \in Nat /\ plan_costs \in Seq(Nat) /\ Len(plan_costs) = Counter
        BY <2>1, WorkingFacts
    <2> QED
        BY <2>1, <2>2 DEF KeepsCounted
<1>2. IsGraphPlanner =>
        /\ \A p \in forbidden : p \in CountedUpto(Counter)
        /\ \A i \in 1 .. Len(found) - 1 : found[i] \in CountedUpto(Counter)
    <2>1. \A i \in 1 .. Len(found) - 1 : i \in DOMAIN found
        BY DEF IInv, TypeOK
    <2> QED
        BY <2>1, PlannerCutOffFacts DEF IInv, GraphTaskExcludes, FoundPlansAreCounted
<1> QED
    BY <1>1, <1>2, PlannerCutOffFacts, EndingKeepsInvariant

(* The forgotten plan may be overwritten: those before it stay counted. *)
LEMMA LastPlanLostKeepsInvariant ==
    ASSUME IInv, ExtensionFails \/ GraphReformulationFails PROVE IInv'
<1> DEFINE m == Counter - 1
<1>1. /\ Working /\ pc \in {"extend", "reformulate"} /\ pc' = "finalize"
      /\ interrupted' = TRUE /\ (IsGraphPlanner => pc = "reformulate")
      /\ plan_costs' = ForgetLastProcessedPlan
      /\ files' = SavePlans(files, m, <<Incomplete>>) \/ files' = files
      /\ UNCHANGED <<args, cost, best_known_bound, forbidden, reformulated, first,
                     copied, found>>
    BY DEF ExtensionFails, GraphReformulationFails, run, tasks, Working,
           IInv, FilesAreCounted, IsGraphPlanner
<1>2. /\ Counter \in Nat /\ files \in [1 .. Counter -> Plan] /\ m \in 0 .. Counter
      /\ plan_costs \in Seq(Nat) /\ Len(plan_costs) = Counter
    BY <1>1, WorkingFacts DEF IInv, FilesAreCounted
<1>3. /\ plan_costs' \in Seq(Nat) /\ Len(plan_costs') = m
      /\ \A i \in 1 .. m : plan_costs'[i] = plan_costs[i]
    BY <1>1, <1>2 DEF ForgetLastProcessedPlan
<1> HIDE DEF m
<1>4. /\ \A i \in 1 .. m : i \in DOMAIN files' /\ files'[i] = files[i]
      /\ \A i \in DOMAIN files' : i \in Nat \ {0} /\ files'[i] \in Plan \cup {Incomplete}
    <2>1. CASE files' = SavePlans(files, m, <<Incomplete>>)
        BY <1>2, <2>1, SavedIncomplete
    <2>2. CASE files' = files
        <3>1. \A i \in 1 .. m : i \in 1 .. Counter
            BY <1>2
        <3>2. \A i \in 1 .. Counter : i \in Nat \ {0}
            OBVIOUS
        <3> QED
            BY <1>2, <2>2, <3>1, <3>2
    <2> QED
        BY <1>1, <2>1, <2>2
<1>5. KeepsCounted(m)
    BY <1>1, <1>3, <1>4 DEF KeepsCounted
<1>6. IsGraphPlanner =>
        /\ \A p \in forbidden : p \in CountedUpto(m)
        /\ \A i \in 1 .. Len(found) - 1 : found[i] \in CountedUpto(m)
    BY <1>1 DEF IInv, GraphTaskExcludes, FoundPlansAreCounted, m
<1> QED
    BY <1>1, <1>2, <1>4, <1>5, <1>6, EndingKeepsInvariant
-------------------------------------------------------------------------------
(* The multiset reformulation saves the counted plans as they were.        *)
LEMMA MultisetsChangeNothing ==
    ASSUME IInv, ReformulateWithMultisets
    PROVE  /\ UNCHANGED <<files, plan_costs, best_known_bound>>
           /\ reformulated' = ExcludedUpto(Counter)
<1> DEFINE plans == [i \in 1 .. Counter |-> files[i]]
<1>1. /\ Working /\ pc = "reformulate" /\ pc' = "add_task" /\ ~IsGraphPlanner
      /\ ProcessNewPlans(SavePlans(files, 0, plans), plan_costs)
      /\ reformulated' = UNION {ForbiddenBy[plans[i]] : i \in DOMAIN plans}
      /\ UNCHANGED <<args, cost, forbidden, first, copied, found, interrupted>>
    BY DEF ReformulateWithMultisets, run, Working, IsGraphPlanner
<1>2. /\ Counter \in Nat /\ Counter > 0 /\ files \in [1 .. Counter -> Plan]
      /\ plan_costs \in Seq(Nat) /\ Len(plan_costs) = Counter
      /\ best_known_bound # None /\ cost \in [Plan -> Nat]
    BY <1>1, WorkingFacts, TaskFacts DEF IInv, FilesAreCounted
<1>3. plans = files /\ DOMAIN plans = 1 .. Counter /\ plans \in Seq(Plan)
    BY <1>2
<1> HIDE DEF plans
<1>4. SavePlans(files, 0, plans) = files
    <2>1. DOMAIN files = 1 .. Counter /\ Len(plans) = Counter /\ 0 \in 0 .. Counter
        BY <1>2, <1>3
    <2>2. SavePlans(files, 0, plans)
            = [i \in 1 .. Counter |-> IF i \in 0 + 1 .. 0 + Len(plans)
                                      THEN plans[i - 0] ELSE files[i]]
        <3>1. (DOMAIN files) \cup (0 + 1 .. 0 + Len(plans)) = 1 .. Counter
            BY <1>2, <2>1
        <3> QED
            BY <3>1 DEF SavePlans
    <2>3. \A i \in 1 .. Counter : i \in 0 + 1 .. 0 + Len(plans) /\ i - 0 = i
        BY <1>2, <2>1
    <2>4. SavePlans(files, 0, plans) = [i \in 1 .. Counter |-> files[i]]
        BY <1>3, <2>2, <2>3
    <2> QED
        BY <1>2, <2>4
<1>5. /\ files' = files
      /\ plan_costs' \in Seq(Nat) /\ Len(plan_costs') = Counter
      /\ \A i \in 1 .. Counter : plan_costs'[i] = plan_costs[i]
      /\ best_known_bound' = best_known_bound
    <2>1. ProcessNewPlans(files, plan_costs) /\ Len(plan_costs) <= Counter
        BY <1>1, <1>2, <1>4
    <2> QED
        BY <1>2, <2>1, ProcessCompleteFiles, ZenonT(60)
<1>6. plan_costs' = plan_costs
    <2>1. DOMAIN plan_costs' = 1 .. Counter /\ DOMAIN plan_costs = 1 .. Counter
        BY <1>2, <1>5
    <2> QED
        BY <1>2, <1>5, <2>1
<1>7. reformulated' = ExcludedUpto(Counter)
    BY <1>1, <1>3 DEF ExcludedUpto
<1> QED
    BY <1>5, <1>6, <1>7

(* So the multiset reformulation keeps the invariant. *)
LEMMA MultisetsKeepInvariant ==
    ASSUME IInv, ReformulateWithMultisets PROVE IInv'
<1>1. /\ Working /\ pc = "reformulate" /\ pc' = "add_task" /\ ~IsGraphPlanner
      /\ UNCHANGED <<args, cost, files, plan_costs, best_known_bound, forbidden,
                     first, copied, found, interrupted>>
      /\ reformulated' = ExcludedUpto(Counter)
    BY MultisetsChangeNothing
    DEF ReformulateWithMultisets, run, Working, IsGraphPlanner
<1>2. /\ Counter \in Nat /\ Counter > 0 /\ files \in [1 .. Counter -> Plan]
      /\ plan_costs \in Seq(Nat) /\ Len(plan_costs) = Counter
      /\ \A i \in 1 .. Counter : plan_costs[i] = cost[files[i]]
    BY <1>1, WorkingFacts DEF IInv, FilesAreCounted
<1>3. KeepsCounted(Counter) /\ Counter \in 0 .. Counter /\ Counter' = Counter
    BY <1>1, <1>2 DEF KeepsCounted, Counter
<1>4. CountedPlansAreOnDisk' /\ NoPlanTwice' /\ CostsFollowTheBound' /\ OpenPlansCostMore'
    BY <1>1, <1>3, KeepingBooks
<1>5. /\ ExcludedUpto(Counter)' = ExcludedUpto(Counter)
      /\ IsGraphPlanner' = IsGraphPlanner
    BY <1>1, <1>3 DEF ExcludedUpto, IsGraphPlanner
<1>6. TypeOK'
    <2>1. ExcludedUpto(Counter) \subseteq Plan
        BY <1>2, TaskFacts DEF ExcludedUpto, IInv
    <2> QED
        BY <1>1, <2>1 DEF IInv, TypeOK
<1>7. FilesAreCounted'
    BY <1>1, <1>2, <1>3 DEF FilesAreCounted
<1>8. GraphTaskExcludes' /\ MultisetTaskExcludes' /\ FoundPlansAreCounted'
    BY <1>1, <1>5
    DEF IInv, GraphTaskExcludes, MultisetTaskExcludes, FoundPlansAreCounted
<1>9. EndsWithBound' /\ LosesAtMostTheLastPlan'
    BY <1>1 DEF EndsWithBound, LosesAtMostTheLastPlan
<1> QED
    BY <1>4, <1>6, <1>7, <1>8, <1>9 DEF IInv

(* Cut off, it damages the file it was writing.                            *)
LEMMA MultisetsFailKeepsInvariant ==
    ASSUME IInv, MultisetReformulationFails PROVE IInv'
<1>1. /\ Working /\ pc = "reformulate" /\ pc' = "finalize" /\ ~IsGraphPlanner
      /\ interrupted' = TRUE
      /\ UNCHANGED <<args, cost, plan_costs, best_known_bound, forbidden,
                     reformulated, first, copied, found>>
    BY DEF MultisetReformulationFails, run, books, tasks, Working, IsGraphPlanner
<1>2. /\ Counter \in Nat /\ Counter \in 0 .. Counter
      /\ files \in [1 .. Counter -> Plan] /\ best_known_bound # None
      /\ plan_costs \in Seq(Nat) /\ Len(plan_costs) = Counter
      /\ \A i \in 1 .. Counter : plan_costs[i] = cost[files[i]] /\ files[i] # Incomplete
    BY <1>1, WorkingFacts DEF IInv, FilesAreCounted
<1>3. CASE UNCHANGED files
    <2>1. KeepsCounted(Counter)
        BY <1>1, <1>2, <1>3 DEF KeepsCounted
    <2>2. \A i \in DOMAIN files' : i \in Nat \ {0} /\ files'[i] \in Plan \cup {Incomplete}
        BY <1>3 DEF IInv, TypeOK
    <2> QED
        BY <1>1, <1>2, <2>1, <2>2, EndingKeepsInvariant
<1>4. ASSUME NEW d \in 1 .. Counter, files' = [files EXCEPT ![d] = Incomplete]
      PROVE  IInv'
    <2>1. /\ files' \in [1 .. Counter -> Plan \cup {Incomplete}]
          /\ files'[d] = Incomplete
          /\ \A i \in 1 .. Counter : i # d => files'[i] = files[i]
          /\ Counter' = Counter /\ DOMAIN files' = 1 .. Counter
        BY <1>1, <1>2, <1>4 DEF Counter
    <2>2. TypeOK'
        BY <1>1, <2>1 DEF IInv, TypeOK
    <2>3. FilesAreCounted'
        BY <1>1, <1>2, <2>1 DEF FilesAreCounted, Working
    <2>4. Damaged' = {d}
        BY <1>2, <2>1 DEF Damaged
    <2>5. CountedPlansAreOnDisk'
        <3>1. Cardinality({d}) = 1
            BY FS_Singleton
        <3>2. \A i \in (1 .. Counter) \ {d} : plan_costs'[i] = cost'[files'[i]]
            BY <1>1, <1>2, <2>1
        <3> QED
            BY <1>1, <2>1, <2>4, <3>1, <3>2 DEF CountedPlansAreOnDisk, IsGraphPlanner
    <2>6. NoPlanTwice'
        <3>1. \A i \in 1 .. Counter : files[i] # Incomplete
            BY <1>2, IncompletePlan
        <3>2. \A i, j \in 1 .. Counter : files[i] = files[j] => i = j
            BY DEF IInv, NoPlanTwice
        <3> QED
            BY <2>1, <3>1, <3>2 DEF NoPlanTwice
    <2>7. CostsFollowTheBound' /\ OpenPlansCostMore'
        BY <1>1, <2>1 DEF IInv, CostsFollowTheBound, OpenPlansCostMore, Working
    <2>8. IsGraphPlanner' = IsGraphPlanner
        BY <1>1 DEF IsGraphPlanner
    <2>9. GraphTaskExcludes' /\ MultisetTaskExcludes' /\ FoundPlansAreCounted'
        BY <1>1, <2>8
        DEF GraphTaskExcludes, MultisetTaskExcludes, FoundPlansAreCounted
    <2>10. EndsWithBound' /\ LosesAtMostTheLastPlan'
        BY <1>1 DEF EndsWithBound, LosesAtMostTheLastPlan
    <2> QED
        BY <2>2, <2>3, <2>5, <2>6, <2>7, <2>9, <2>10 DEF IInv
<1> QED
    BY <1>3, <1>4 DEF MultisetReformulationFails

(* The top-k planner copies all counted plans. *)
LEMMA TopKCopiesAll ==
    ASSUME IInv, args.planner = "topk" PROVE CopiedFiles = 1 .. Counter
<1>1. CopiedFiles = LocalPlansUpto(files, plan_costs, best_known_bound)
    <2>1. args.planner \in {"topk", "topk_via_unordered_topq", "topq_via_topk"}
        OBVIOUS
    <2> QED
        BY <2>1 DEF CopiedFiles
<1>2. /\ Counter \in Nat /\ Len(plan_costs) = Counter
      /\ \A i \in 1 .. Counter : i \in DOMAIN files
    BY DEF IInv, FilesAreCounted, Counter
<1>3. \A i \in 1 .. Counter : plan_costs[i] <= best_known_bound
    BY DEF IInv, CostsFollowTheBound
<1>4. \A i \in 1 .. Counter : \A j \in 1 .. i : j \in 1 .. Counter
    BY <1>2
<1> QED
    BY <1>1, <1>2, <1>3, <1>4 DEF LocalPlansUpto

(* While the loop is at work the books are complete. *)
LEMMA BooksOfWorking ==
    ASSUME IInv, Working, Counter > 0
    PROVE  /\ Counter \in Nat /\ files \in [1 .. Counter -> Plan]
           /\ plan_costs \in Seq(Nat) /\ Len(plan_costs) = Counter
           /\ \A i \in 1 .. Counter : plan_costs[i] = cost[files[i]] /\ plan_costs[i] \in Nat
           /\ best_known_bound \in Nat /\ best_known_bound # None
           /\ plan_costs[Counter] = best_known_bound
<1>1. /\ Counter \in Nat /\ files \in [1 .. Counter -> Plan]
      /\ plan_costs \in Seq(Nat) /\ Len(plan_costs) = Counter
      /\ \A i \in 1 .. Counter : plan_costs[i] = cost[files[i]]
      /\ best_known_bound \in Nat /\ best_known_bound # None
      /\ plan_costs[Counter] = best_known_bound
    BY WorkingFacts
<1> QED
    BY <1>1

(* finalize copies files of the folder and has a bound to copy them up to. *)
LEMMA FinalizeKeepsInvariant ==
    ASSUME IInv, Finalize PROVE IInv'
<1>1. /\ pc = "finalize" /\ pc' \in {"ended", "crashed"}
      /\ pc' = "crashed" => best_known_bound = None /\ UNCHANGED copied
      /\ pc' = "ended" => copied' = {files[i] : i \in CopiedFiles}
      /\ UNCHANGED <<args, cost, files, plan_costs, best_known_bound, forbidden,
                     reformulated, first, found, interrupted>>
    BY DEF Finalize, run, books, tasks
<1>2. Counter' = Counter /\ IsGraphPlanner' = IsGraphPlanner /\ Damaged' = Damaged
    BY <1>1 DEF Counter, IsGraphPlanner, Damaged
<1>3. /\ Counter \in Nat /\ Len(plan_costs) = Counter
      /\ \A i \in 1 .. Counter : i \in DOMAIN files
      /\ Counter > 0 => Len(ForgetLastProcessedPlan) = Counter - 1
    <2>1. /\ Counter \in Nat /\ Len(plan_costs) = Counter /\ plan_costs \in Seq(Nat)
          /\ \A i \in 1 .. Counter : i \in DOMAIN files
        BY DEF IInv, FilesAreCounted, Counter
    <2>2. ASSUME Counter > 0 PROVE Len(SubSeq(plan_costs, 1, Counter - 1)) = Counter - 1
        BY <2>1, <2>2
    <2> QED
        BY <2>1, <2>2 DEF ForgetLastProcessedPlan
<1>4. CopiedFiles \subseteq 1 .. Counter
    <2>1. LocalPlansUpto(files, plan_costs, best_known_bound) \subseteq 1 .. Counter
        BY <1>3 DEF LocalPlansUpto
    <2>2. LocalPlans(files, plan_costs) \subseteq 1 .. Counter
        BY <1>3 DEF LocalPlans
    <2>3. Counter > 0 => LocalPlans(files, ForgetLastProcessedPlan) \subseteq 1 .. Counter
        BY <1>3 DEF LocalPlans
    <2> QED
        BY <2>1, <2>2, <2>3 DEF CopiedFiles
<1>5. TypeOK'
    <2>1. \A i \in CopiedFiles : files[i] \in Plan \cup {Incomplete}
        BY <1>3, <1>4 DEF IInv, TypeOK
    <2> QED
        BY <1>1, <2>1 DEF IInv, TypeOK
<1>6. FilesAreCounted' /\ CountedPlansAreOnDisk' /\ NoPlanTwice'
    BY <1>1, <1>2
    DEF IInv, FilesAreCounted, CountedPlansAreOnDisk, NoPlanTwice, Working
<1>7. CostsFollowTheBound' /\ OpenPlansCostMore'
    BY <1>1, <1>2 DEF IInv, CostsFollowTheBound, OpenPlansCostMore, Working
<1>8. CountedUpto(Counter)' = CountedUpto(Counter)
    BY <1>1, <1>2 DEF CountedUpto
<1>9. GraphTaskExcludes' /\ MultisetTaskExcludes' /\ FoundPlansAreCounted'
    BY <1>1, <1>2, <1>8
    DEF IInv, GraphTaskExcludes, MultisetTaskExcludes, FoundPlansAreCounted
<1>10. EndsWithBound'
    BY <1>1 DEF IInv, EndsWithBound
<1>11. LosesAtMostTheLastPlan'
    <2> SUFFICES ASSUME args.planner = "topk"
                 PROVE  /\ pc' = "ended" =>
                            /\ \A i \in 1 .. Len(found) - 1 : found[i] \in copied'
                            /\ Incomplete \notin copied'
                        /\ pc' = "crashed" =>
                            \A i \in 1 .. Len(found) - 1 : found[i] \in Counted'
        BY <1>1 DEF LosesAtMostTheLastPlan
    <2>1. IsGraphPlanner
        BY DEF IsGraphPlanner, GraphPlanners
    <2>2. Damaged = {}
        BY <2>1 DEF IInv, CountedPlansAreOnDisk, IsGraphPlanner
    <2>3. CopiedFiles = 1 .. Counter
        BY TopKCopiesAll
    <2>4. /\ pc' = "ended" => copied' = CountedUpto(Counter)
          /\ Counted' = CountedUpto(Counter)
        BY <1>1, <1>2, <2>3 DEF Counted, CountedUpto
    <2>5. \A i \in 1 .. Counter : files[i] # Incomplete
        BY <2>2 DEF Damaged
    <2>6. \A i \in 1 .. Len(found) - 1 : found[i] \in CountedUpto(Counter)
        BY <1>1, <2>1 DEF IInv, FoundPlansAreCounted
    <2>7. Incomplete \notin CountedUpto(Counter)
        BY <2>5 DEF CountedUpto
    <2> QED
        BY <2>4, <2>6, <2>7
<1> QED
    BY <1>5, <1>6, <1>7, <1>9, <1>10, <1>11 DEF IInv
-------------------------------------------------------------------------------
(* Plans saved over the last counted one, all of its cost and none of them *)
(* counted before, keep the books.                                         *)
LEMMA SavingOverLastKeepsBooks ==
    ASSUME IInv, Working, Counter > 0, NEW order \in Seq(Plan), NEW m \in Nat,
           m = IF Len(order) = 0 THEN Counter ELSE Counter - 1 + Len(order),
           ProcessNewPlans(SavePlans(files, Counter - 1, order),
                           ForgetLastProcessedPlan),
           UNCHANGED <<args, cost, forbidden, interrupted>>,
           \A i \in 1 .. Len(order) : cost[order[i]] = cost[files[Counter]],
           \A i, j \in 1 .. Len(order) : order[i] = order[j] => i = j,
           \A i \in 1 .. Len(order), j \in 1 .. Counter - 1 : order[i] # files[j]
    PROVE  /\ Counter' = m /\ Counter \in Nat /\ Counter <= m /\ plan_costs' \in Seq(Nat)
           /\ files' \in [1 .. m -> Plan]
           /\ \A i \in 1 .. m : plan_costs'[i] = cost[files'[i]]
           /\ \A i \in 1 .. Counter - 1 : files'[i] = files[i]
           /\ Len(order) = 0 => files'[Counter] = files[Counter]
           /\ \A i \in 1 .. Len(order) : files'[Counter - 1 + i] = order[i]
           /\ best_known_bound' \in Nat
           /\ CountedPlansAreOnDisk' /\ NoPlanTwice'
           /\ CostsFollowTheBound' /\ OpenPlansCostMore'
<1> DEFINE k == Counter - 1
           c == cost[files[Counter]]
           costs == ForgetLastProcessedPlan
<1>1. /\ Counter \in Nat /\ files \in [1 .. Counter -> Plan]
      /\ plan_costs \in Seq(Nat) /\ Len(plan_costs) = Counter
      /\ \A i \in 1 .. Counter : plan_costs[i] = cost[files[i]] /\ plan_costs[i] \in Nat
      /\ best_known_bound \in Nat /\ best_known_bound # None
      /\ plan_costs[Counter] = best_known_bound
    BY BooksOfWorking
<1>2. /\ k \in 0 .. Counter /\ k \in Nat /\ Counter = k + 1 /\ Counter \in 1 .. Counter
      /\ Len(order) \in Nat
    <2>1. \A n \in Nat : n > 0 => /\ n - 1 \in 0 .. n /\ n - 1 \in Nat
                                  /\ n = n - 1 + 1 /\ n \in 1 .. n
        OBVIOUS
    <2>2. Len(order) \in Nat
        OBVIOUS
    <2> QED
        BY <1>1, <2>1, <2>2
<1>3. c \in Nat /\ c = best_known_bound /\ plan_costs[Counter] = c
    BY <1>1, <1>2
<1>4. costs \in Seq(Nat) /\ Len(costs) = k /\ \A i \in 1 .. k : costs[i] = plan_costs[i]
    BY <1>1, <1>2 DEF ForgetLastProcessedPlan
<1> HIDE DEF k, costs
<1>5. /\ m = Counter \/ m = k + Len(order)
      /\ Counter <= m /\ k + Len(order) <= m /\ k < m
      /\ \A i \in k + Len(order) + 1 .. m : i = Counter
    <2>1. CASE Len(order) = 0
        BY <1>2, <2>1
    <2>2. CASE Len(order) # 0
        <3>1. m = k + Len(order) /\ Len(order) >= 1
            BY <1>2, <2>2 DEF k
        <3> QED
            BY <1>2, <3>1
    <2> QED
        BY <2>1, <2>2
<1>6. CountsSavedPlans(k, order, m, c)
    <2>1. /\ cost \in [Plan -> Nat]
          /\ ProcessNewPlans(SavePlans(files, k, order), costs)
        BY TaskFacts DEF k, costs, IInv
    <2>2. \A i \in k + Len(order) + 1 .. m : cost[files[i]] = c
        BY <1>5
    <2>3. \A i \in 1 .. Len(order) : cost[order[i]] = c
        OBVIOUS
    <2> HIDE DEF c
    <2> QED
        BY <1>1, <1>2, <1>3, <1>4, <1>5, <2>1, <2>2, <2>3, SavedPlansAreCounted
<1>7. /\ \A i \in 1 .. Len(order) : k + i \in 1 .. m /\ files'[k + i] = order[i]
      /\ Len(order) = 0 => files'[Counter] = files[Counter]
    <2>1. \A i \in 1 .. Len(order) : /\ k + i \in 1 .. m /\ k + i - k = i
                                     /\ k + i \in k + 1 .. k + Len(order)
        BY <1>2, <1>5
    <2>2. \A i \in 1 .. Len(order) : files'[k + i] = order[i]
        <3>1. \A j \in 1 .. m : j \in k + 1 .. k + Len(order) => files'[j] = order[j - k]
            BY <1>6 DEF CountsSavedPlans
        <3> SUFFICES ASSUME NEW i \in 1 .. Len(order), NEW j, j = k + i
                     PROVE  files'[j] = order[i]
            OBVIOUS
        <3>2. j \in 1 .. m /\ j \in k + 1 .. k + Len(order) /\ j - k = i
            BY <1>2, <1>5
        <3> QED
            BY <3>1, <3>2
    <2>3. Len(order) = 0 => Counter \in 1 .. m /\ Counter \notin k + 1 .. k + Len(order)
        BY <1>2, <1>5
    <2> QED
        BY <1>6, <2>1, <2>2, <2>3 DEF CountsSavedPlans
<1>8. \A i \in k + 1 .. m : \/ Len(order) = 0 /\ i = Counter
                            \/ i - k \in 1 .. Len(order) /\ files'[i] = order[i - k]
    <2>1. ASSUME NEW i \in k + 1 .. m, Len(order) = 0 PROVE i = Counter
        BY <1>2, <1>5, <2>1
    <2>2. ASSUME NEW i \in k + 1 .. m, Len(order) # 0
          PROVE  i - k \in 1 .. Len(order) /\ files'[i] = order[i - k]
        <3>1. m = k + Len(order)
            BY <2>2 DEF k
        <3>2. i - k \in 1 .. Len(order) /\ k + (i - k) = i
            BY <1>2, <3>1
        <3> QED
            BY <1>7, <3>2
    <2> QED
        BY <2>1, <2>2
<1>9. \A i, j \in k + 1 .. m : files'[i] = files'[j] => i = j
    <2> SUFFICES ASSUME NEW i \in k + 1 .. m, NEW j \in k + 1 .. m, files'[i] = files'[j]
                 PROVE  i = j
        OBVIOUS
    <2>1. CASE Len(order) = 0
        <3>1. i = Counter /\ j = Counter
            BY <1>8, <2>1
        <3> QED
            BY <3>1
    <2>2. CASE Len(order) # 0
        <3>1. i - k = j - k
            BY <1>8, <2>2, SMTT(30)
        <3> QED
            BY <1>2, <3>1
    <2> QED
        BY <2>1, <2>2
<1>10. \A i \in k + 1 .. m, j \in 1 .. k : files'[i] # files[j]
    <2> SUFFICES ASSUME NEW i \in k + 1 .. m, NEW j \in 1 .. k
                 PROVE  files'[i] # files[j]
        OBVIOUS
    <2>1. CASE Len(order) = 0
        <3>1. files'[i] = files[Counter]
            BY <1>7, <1>8, <2>1
        <3>2. j \in 1 .. Counter /\ j # Counter
            BY <1>2
        <3> QED
            BY <1>2, <3>1, <3>2 DEF IInv, NoPlanTwice
    <2>2. CASE Len(order) # 0
        BY <1>8, <2>2 DEF k
    <2> QED
        BY <2>1, <2>2
<1>11. k > 0 => plan_costs[k] <= c
    <2>1. k > 0 => k \in 1 .. Counter
        BY <1>2
    <2> QED
        BY <1>3, <2>1 DEF IInv, CostsFollowTheBound
<1>12. \A p \in Plan \ forbidden : c <= cost[p]
    BY <1>1, <1>3 DEF IInv, OpenPlansCostMore
<1>13. k = 0 => \A p \in Plan : c <= cost[p]
    <2>1. k = 0 => plan_costs[1] = c
        BY <1>2, <1>3
    <2> QED
        BY <2>1 DEF IInv, OpenPlansCostMore
<1> HIDE DEF c
<1>14. /\ Counter' = m /\ Counter \in Nat /\ plan_costs' \in Seq(Nat)
       /\ files' \in [1 .. m -> Plan]
       /\ \A i \in 1 .. m : plan_costs'[i] = cost[files'[i]]
       /\ \A i \in 1 .. k : files'[i] = files[i]
       /\ CountedPlansAreOnDisk' /\ NoPlanTwice'
       /\ CostsFollowTheBound' /\ OpenPlansCostMore'
    <2>1. k \in 0 .. Counter /\ k < m /\ c \in Nat
        BY <1>2, <1>3, <1>5
    <2> QED
        BY <1>6, <1>9, <1>10, <1>11, <1>12, <1>13, <2>1, CountingKeepsBooks
<1>15. best_known_bound' \in Nat
    BY <1>3, <1>6 DEF CountsSavedPlans
<1> QED
    BY <1>5, <1>7, <1>14, <1>15 DEF k

(* The extension replaces the last plan by reorderings the task does not   *)
(* exclude: the file of the plan it read is overwritten.                   *)
LEMMA ExtendKeepsInvariant ==
    ASSUME IInv, ExtendPlans PROVE IInv'
<1> DEFINE p == files[Counter]
           k == Counter - 1
<1>1. /\ Working /\ pc = "extend" /\ pc' \in {"finalize", "reformulate"}
      /\ UNCHANGED <<args, cost, forbidden, reformulated, first, copied, found, interrupted>>
    BY DEF ExtendPlans, run, tasks, Working
<1>2. /\ Counter \in Nat /\ Counter > 0 /\ ~IsGraphPlanner /\ p \in Plan
      /\ files \in [1 .. Counter -> Plan]
    BY <1>1, WorkingFacts DEF IInv, FilesAreCounted
<1>3. forbidden = ExcludedUpto(k) /\ p \notin forbidden
    BY <1>1, <1>2 DEF IInv, MultisetTaskExcludes
<1>4. PICK d \in SUBSET (Reorderings[p] \ {p}) : \E order \in Orders(d) :
            ProcessNewPlans(SavePlans(files, k, order), ForgetLastProcessedPlan)
    BY DEF ExtendPlans, AdditionalPlans
<1>5. PICK order \in Orders(d) :
            ProcessNewPlans(SavePlans(files, k, order), ForgetLastProcessedPlan)
    BY <1>4
<1>6. /\ p \in Plan /\ Reorderings[p] \subseteq Plan
      /\ \A q \in Reorderings[p] : cost[q] = cost[p] /\ Reorderings[q] = Reorderings[p]
    BY <1>2, TaskFacts DEF IInv
<1>7. /\ order \in Seq(Plan) /\ Len(order) \in Nat
      /\ \A i \in 1 .. Len(order) : order[i] \in Reorderings[p]
      /\ \A i, j \in 1 .. Len(order) : order[i] = order[j] => i = j
    <2>1. d \in SUBSET Plan
        BY <1>6
    <2> QED
        BY <2>1, OrdersListAll
<1>8. \A i \in 1 .. Len(order), j \in 1 .. k : order[i] # files[j]
    <2> SUFFICES ASSUME NEW i \in 1 .. Len(order), NEW j \in 1 .. k, order[i] = files[j]
                 PROVE  FALSE
        OBVIOUS
    <2>1. files[j] \in Plan
        BY <1>2
    <2>2. p \in ForbiddenBy[files[j]]
        <3>1. Reorderings[files[j]] = Reorderings[p] /\ p \in Reorderings[p]
            BY <1>2, <1>6, <1>7, TaskFacts DEF IInv
        <3> QED
            BY <2>1, <3>1, TaskFacts DEF IInv
    <2> QED
        BY <1>3, <2>2 DEF ExcludedUpto
<1> DEFINE m == IF Len(order) = 0 THEN Counter ELSE k + Len(order)
<1>9. m \in Nat
    BY <1>2, <1>7
<1>10. /\ Counter' = m /\ Counter <= m /\ plan_costs' \in Seq(Nat)
       /\ files' \in [1 .. m -> Plan]
       /\ \A i \in 1 .. m : plan_costs'[i] = cost[files'[i]]
       /\ \A i \in 1 .. k : files'[i] = files[i]
       /\ best_known_bound' \in Nat
       /\ CountedPlansAreOnDisk' /\ NoPlanTwice'
       /\ CostsFollowTheBound' /\ OpenPlansCostMore'
    <2>1. \A i \in 1 .. Len(order) : cost[order[i]] = cost[files[Counter]]
        BY <1>6, <1>7
    <2> QED
        BY <1>1, <1>2, <1>5, <1>7, <1>8, <1>9, <2>1, SavingOverLastKeepsBooks, ZenonT(60)
<1> HIDE DEF m, p
<1>11. TypeOK'
    <2>1. /\ \A i \in DOMAIN files' : i \in Nat \ {0} /\ files'[i] \in Plan \cup {Incomplete}
          /\ \A i \in DOMAIN plan_costs' : plan_costs'[i] \in Nat
        BY <1>9, <1>10
    <2> QED
        BY <1>1, <1>10, <2>1 DEF IInv, TypeOK
<1>12. IsGraphPlanner' = IsGraphPlanner
    BY <1>1 DEF IsGraphPlanner
<1>13. FilesAreCounted'
    <2>1. m > 0
        BY <1>2, <1>9, <1>10
    <2> QED
        BY <1>1, <1>10, <1>12, <2>1 DEF FilesAreCounted
<1>14. forbidden' \subseteq ExcludedUpto(Counter)'
    <2>1. \A i \in 1 .. k : i \in 1 .. m
        BY <1>2, <1>9, <1>10
    <2> QED
        BY <1>1, <1>3, <1>10, <2>1 DEF ExcludedUpto
<1>15. GraphTaskExcludes' /\ MultisetTaskExcludes' /\ FoundPlansAreCounted'
    BY <1>1, <1>2, <1>12, <1>14
    DEF GraphTaskExcludes, MultisetTaskExcludes, FoundPlansAreCounted
<1>16. EndsWithBound' /\ LosesAtMostTheLastPlan'
    BY <1>1, <1>10, FindPlansAssumption DEF EndsWithBound, LosesAtMostTheLastPlan
<1> QED
    BY <1>10, <1>11, <1>13, <1>15, <1>16 DEF IInv

(* The plans graph of the last plan replaces it by the reorderings the     *)
(* task does not exclude, the plan itself first.                           *)
LEMMA GraphFacts ==
    ASSUME IInv, ReformulateWithGraph
    PROVE  \E d \in SUBSET Plan :
            /\ CountedUpto(Counter)' = CountedUpto(Counter - 1) \cup d
            /\ CountedUpto(Counter) \subseteq CountedUpto(Counter)'
            /\ reformulated' = IF Cardinality(d) >= RemainingPlans(ForgetLastProcessedPlan)
                               THEN None ELSE forbidden \cup d
            /\ Cardinality(d) \in Nat /\ Counter' = Counter - 1 + Cardinality(d)
            /\ Counter \in Nat /\ Counter > 0 /\ Counter <= Counter'
            /\ plan_costs' \in Seq(Nat) /\ files' \in [1 .. Counter' -> Plan]
            /\ \A i \in 1 .. Counter' : plan_costs'[i] = cost[files'[i]]
            /\ best_known_bound' \in Nat
            /\ CountedPlansAreOnDisk' /\ NoPlanTwice'
            /\ CostsFollowTheBound' /\ OpenPlansCostMore'
<1> DEFINE p == files[Counter]
           k == Counter - 1
<1>1. /\ Working /\ pc = "reformulate" /\ pc' = "add_task" /\ IsGraphPlanner
      /\ UNCHANGED <<args, cost, forbidden, first, copied, found, interrupted>>
    BY DEF ReformulateWithGraph, run, Working, IsGraphPlanner
<1>2. /\ Counter \in Nat /\ Counter > 0 /\ p \in Plan
      /\ files \in [1 .. Counter -> Plan]
    BY <1>1, WorkingFacts DEF IInv, FilesAreCounted
<1>3. forbidden = CountedUpto(k)
    BY <1>1 DEF IInv, GraphTaskExcludes
<1>4. PICK d \in SUBSET (Reorderings[p] \ forbidden) :
        /\ p \in d
        /\ \E order \in Orders(d) :
            ProcessNewPlans(SavePlans(files, k, order), ForgetLastProcessedPlan)
        /\ reformulated' = IF Cardinality(d) >= RemainingPlans(ForgetLastProcessedPlan)
                           THEN None ELSE forbidden \cup d
    BY DEF ReformulateWithGraph, GraphPlans
<1>5. PICK order \in Orders(d) :
            ProcessNewPlans(SavePlans(files, k, order), ForgetLastProcessedPlan)
    BY <1>4
<1>6. /\ Reorderings[p] \subseteq Plan /\ \A q \in Reorderings[p] : cost[q] = cost[p]
    BY <1>2, TaskFacts DEF IInv
<1>7. /\ order \in Seq(Plan) /\ Len(order) \in Nat
      /\ \A i \in 1 .. Len(order) : order[i] \in d
      /\ \A i, j \in 1 .. Len(order) : order[i] = order[j] => i = j
      /\ d = {order[i] : i \in 1 .. Len(order)}
    <2>1. d \in SUBSET Plan
        BY <1>6
    <2> QED
        BY <2>1, OrdersListAll
<1>8. \A i \in 1 .. Len(order), j \in 1 .. k : order[i] # files[j]
    <2>1. \A j \in 1 .. k : files[j] \in forbidden
        BY <1>3 DEF CountedUpto
    <2> QED
        BY <1>4, <1>7, <2>1
<1>9. Len(order) # 0
    <2>1. PICK i \in 1 .. Len(order) : order[i] = p
        BY <1>4, <1>7
    <2> QED
        BY <1>7, <2>1
<1> DEFINE m == k + Len(order)
<1>10. m \in Nat
    BY <1>2, <1>7
<1>11. /\ Counter' = m /\ Counter <= m /\ plan_costs' \in Seq(Nat)
       /\ files' \in [1 .. m -> Plan]
       /\ \A i \in 1 .. m : plan_costs'[i] = cost[files'[i]]
       /\ \A i \in 1 .. k : files'[i] = files[i]
       /\ \A i \in 1 .. Len(order) : files'[k + i] = order[i]
       /\ best_known_bound' \in Nat
       /\ CountedPlansAreOnDisk' /\ NoPlanTwice'
       /\ CostsFollowTheBound' /\ OpenPlansCostMore'
    <2>1. \A i \in 1 .. Len(order) : cost[order[i]] = cost[files[Counter]]
        BY <1>6, <1>7
    <2>2. m = IF Len(order) = 0 THEN Counter ELSE Counter - 1 + Len(order)
        BY <1>9
    <2> QED
        BY <1>1, <1>2, <1>5, <1>7, <1>8, <1>10, <2>1, <2>2, SavingOverLastKeepsBooks, ZenonT(60)
<1>12. CountedUpto(Counter)' = CountedUpto(k) \cup d
    <2>1. CountedUpto(Counter)' = {files'[i] : i \in 1 .. m}
        BY <1>11 DEF CountedUpto
    <2>2. \A i \in 1 .. m : i \in 1 .. k \/ (i - k \in 1 .. Len(order) /\ k + (i - k) = i)
        BY <1>2, <1>7
    <2>3. \A i \in 1 .. m : files'[i] \in CountedUpto(k) \cup d
        <3> TAKE i \in 1 .. m
        <3>1. CASE i \in 1 .. k
            BY <1>11, <3>1 DEF CountedUpto
        <3>2. CASE i - k \in 1 .. Len(order) /\ k + (i - k) = i
            <4>1. files'[k + (i - k)] = order[i - k]
                BY <1>11, <3>2
            <4> QED
                BY <1>7, <3>2, <4>1
        <3> QED
            BY <2>2, <3>1, <3>2
    <2>4. \A i \in 1 .. k : i \in 1 .. m
        BY <1>2, <1>7
    <2>5. \A i \in 1 .. Len(order) : k + i \in 1 .. m
        BY <1>2, <1>7
    <2>6. CountedUpto(k) \subseteq CountedUpto(Counter)'
        BY <1>11, <2>1, <2>4 DEF CountedUpto
    <2>7. d \subseteq CountedUpto(Counter)'
        BY <1>7, <1>11, <2>1, <2>5
    <2> QED
        BY <2>1, <2>3, <2>6, <2>7
<1>13. CountedUpto(Counter) \subseteq CountedUpto(k) \cup d
    <2>1. \A i \in 1 .. Counter : i \in 1 .. k \/ i = Counter
        BY <1>2
    <2> QED
        BY <1>4, <2>1 DEF CountedUpto
<1>14. Len(order) = Cardinality(d) /\ Cardinality(d) \in Nat
    <2>1. d \in SUBSET Plan
        BY <1>6
    <2> QED
        BY <2>1, OrdersListAll
<1> HIDE DEF m
<1>15. /\ d \in SUBSET Plan /\ Counter' = k + Cardinality(d)
       /\ CountedUpto(Counter) \subseteq CountedUpto(Counter)'
    BY <1>6, <1>11, <1>12, <1>13, <1>14 DEF m
<1>16. /\ Counter \in Nat /\ Counter > 0 /\ Counter <= Counter'
       /\ plan_costs' \in Seq(Nat) /\ files' \in [1 .. Counter' -> Plan]
       /\ \A i \in 1 .. Counter' : plan_costs'[i] = cost[files'[i]]
       /\ best_known_bound' \in Nat
       /\ CountedPlansAreOnDisk' /\ NoPlanTwice'
       /\ CostsFollowTheBound' /\ OpenPlansCostMore'
    BY <1>2, <1>11
<1> QED
    BY <1>4, <1>12, <1>14, <1>15, <1>16

(* So the plans graph reformulation keeps the invariant. *)
LEMMA GraphKeepsInvariant ==
    ASSUME IInv, ReformulateWithGraph PROVE IInv'
<1>1. /\ pc = "reformulate" /\ pc' = "add_task" /\ IsGraphPlanner
      /\ UNCHANGED <<args, cost, forbidden, first, copied, found, interrupted>>
    BY DEF ReformulateWithGraph, run, IsGraphPlanner
<1>2. forbidden = CountedUpto(Counter - 1)
    BY <1>1 DEF IInv, GraphTaskExcludes
<1>3. PICK d \in SUBSET Plan :
        /\ CountedUpto(Counter)' = CountedUpto(Counter - 1) \cup d
        /\ CountedUpto(Counter) \subseteq CountedUpto(Counter)'
        /\ reformulated' = None \/ reformulated' = forbidden \cup d
        /\ Counter \in Nat /\ Counter > 0 /\ Counter <= Counter' /\ Counter' \in Nat
        /\ plan_costs' \in Seq(Nat) /\ files' \in [1 .. Counter' -> Plan]
        /\ \A i \in 1 .. Counter' : plan_costs'[i] = cost[files'[i]]
        /\ best_known_bound' \in Nat
        /\ CountedPlansAreOnDisk' /\ NoPlanTwice'
        /\ CostsFollowTheBound' /\ OpenPlansCostMore'
    <2>1. plan_costs' \in Seq(Nat) => Counter' \in Nat
        BY DEF Counter
    <2> QED
        BY <2>1, GraphFacts
<1>4. TypeOK'
    <2>1. /\ \A i \in DOMAIN files' : i \in Nat \ {0} /\ files'[i] \in Plan \cup {Incomplete}
          /\ \A i \in DOMAIN plan_costs' : plan_costs'[i] \in Nat
        BY <1>3
    <2>2. reformulated' = None \/ reformulated' \subseteq Plan
        BY <1>3 DEF IInv, TypeOK
    <2> QED
        BY <1>1, <1>3, <2>1, <2>2 DEF IInv, TypeOK
<1>5. IsGraphPlanner' = IsGraphPlanner
    BY <1>1 DEF IsGraphPlanner
<1>6. FilesAreCounted'
    <2>1. Counter' > 0
        BY <1>3
    <2> QED
        BY <1>1, <1>3, <2>1 DEF FilesAreCounted
<1>7. GraphTaskExcludes'
    BY <1>1, <1>2, <1>3 DEF GraphTaskExcludes
<1>8. FoundPlansAreCounted'
    BY <1>1, <1>3 DEF IInv, FoundPlansAreCounted
<1>9. MultisetTaskExcludes' /\ EndsWithBound' /\ LosesAtMostTheLastPlan'
    BY <1>1, <1>5 DEF MultisetTaskExcludes, EndsWithBound, LosesAtMostTheLastPlan
<1> QED
    BY <1>3, <1>4, <1>6, <1>7, <1>8, <1>9 DEF IInv

(* It leaves no task only when the plans counted are as many as asked for. *)
LEMMA GraphCountsAll ==
    ASSUME IInv, ReformulateWithGraph, reformulated' = None,
           NEW n \in Nat, RemainingPlans(ForgetLastProcessedPlan) = n - (Counter - 1)
    PROVE  Counter' >= n
<1>1. PICK d \in SUBSET Plan :
        /\ reformulated' = IF Cardinality(d) >= RemainingPlans(ForgetLastProcessedPlan)
                           THEN None ELSE forbidden \cup d
        /\ Cardinality(d) \in Nat /\ Counter' = Counter - 1 + Cardinality(d)
        /\ Counter \in Nat
    BY GraphFacts
<1>2. forbidden \cup d # None
    BY FindPlansAssumption DEF IInv, TypeOK
<1> QED
    BY <1>1, <1>2
-------------------------------------------------------------------------------
(* All plans counted are within the bound, so their number is the counter. *)
LEMMA AllAreValid ==
    ASSUME NEW costs \in Seq(Nat), NEW bound, \A i \in 1 .. Len(costs) : costs[i] <= bound
    PROVE  ValidPlans(costs, bound) = Len(costs)
<1>1. Len(costs) \in Nat /\ DOMAIN costs = 1 .. Len(costs)
    OBVIOUS
<1>2. {i \in DOMAIN costs : costs[i] <= bound} = 1 .. Len(costs)
    BY <1>1
<1>3. \A n \in Nat : Cardinality(1 .. n) = n
    BY FS_Interval
<1> QED
    BY <1>1, <1>2, <1>3 DEF ValidPlans

(* The same of the books. *)
LEMMA ValidPlansOfBooks ==
    ASSUME IInv PROVE ValidPlans(plan_costs, best_known_bound) = Counter
BY AllAreValid DEF IInv, FilesAreCounted, CostsFollowTheBound, Counter

-------------------------------------------------------------------------------
(* A step that changes nothing keeps the invariant. *)
LEMMA StutteringKeepsInvariant ==
    ASSUME IInv, UNCHANGED vars PROVE IInv'
<1>1. UNCHANGED <<args, cost, files, plan_costs, best_known_bound, forbidden,
                  reformulated, first, pc, copied, found, interrupted>>
    BY DEF vars, run, books, tasks
<1>2. /\ Counter' = Counter /\ IsGraphPlanner' = IsGraphPlanner
      /\ Working' = Working /\ Damaged' = Damaged
    BY <1>1 DEF Counter, IsGraphPlanner, Working, Damaged
<1>3. TypeOK' /\ FilesAreCounted' /\ CountedPlansAreOnDisk' /\ NoPlanTwice'
    BY <1>1, <1>2 DEF IInv, TypeOK, FilesAreCounted, CountedPlansAreOnDisk, NoPlanTwice
<1>4. CostsFollowTheBound' /\ OpenPlansCostMore'
    BY <1>1, <1>2 DEF IInv, CostsFollowTheBound, OpenPlansCostMore
<1>5. /\ CountedUpto(Counter)' = CountedUpto(Counter)
      /\ CountedUpto(Counter - 1)' = CountedUpto(Counter - 1)
      /\ ExcludedUpto(Counter)' = ExcludedUpto(Counter)
      /\ ExcludedUpto(Counter - 1)' = ExcludedUpto(Counter - 1)
    BY <1>1, <1>2 DEF CountedUpto, ExcludedUpto
<1>6. GraphTaskExcludes' /\ MultisetTaskExcludes' /\ FoundPlansAreCounted'
    BY <1>1, <1>2, <1>5
    DEF IInv, GraphTaskExcludes, MultisetTaskExcludes, FoundPlansAreCounted
<1>7. EndsWithBound' /\ LosesAtMostTheLastPlan'
    BY <1>1, <1>2 DEF IInv, EndsWithBound, LosesAtMostTheLastPlan, Counted
<1> QED
    BY <1>3, <1>4, <1>6, <1>7 DEF IInv

(* Every outcome of every call keeps the invariant. *)
LEMMA NextKeepsInvariant ==
    ASSUME Plan # {}, IInv, [Next]_vars PROVE IInv'
<1>1. CASE DeleteExistingPlans BY <1>1, DeleteKeepsInvariant
<1>2. CASE PlannerFindsPlan BY <1>2, FindsPlanKeepsInvariant
<1>3. CASE PlannerFindsNoMore BY <1>3, FindsNoMoreKeepsInvariant
<1>4. CASE ExtendPlans BY <1>4, ExtendKeepsInvariant
<1>5. CASE ReformulateWithGraph BY <1>5, GraphKeepsInvariant
<1>6. CASE ReformulateWithMultisets BY <1>6, MultisetsKeepInvariant
<1>7. CASE AddTask BY <1>7, AddTaskKeepsInvariant
<1>8. CASE NoTaskToAdd BY <1>8, NoTaskToAddKeepsInvariant
<1>9. CASE Finalize BY <1>9, FinalizeKeepsInvariant
<1>10. CASE PlannerFileIsTruncated \/ PlannerIsInterrupted
    BY <1>10, PlannerCutOffKeepsInvariant
<1>11. CASE ExtensionFails \/ GraphReformulationFails
    BY <1>11, LastPlanLostKeepsInvariant
<1>12. CASE MultisetReformulationFails BY <1>12, MultisetsFailKeepsInvariant
<1>13. CASE UNCHANGED vars BY <1>13, StutteringKeepsInvariant
<1> QED
    BY <1>1, <1>2, <1>3, <1>4, <1>5, <1>6, <1>7, <1>8, <1>9, <1>10, <1>11, <1>12,
       <1>13
    DEF Next, Calls, CallsCutOff

(* The invariant holds of every run on a solvable task that starts in a    *)
(* folder without plan files.                                              *)
THEOREM Invariance ==
    ASSUME LeftFiles = {<<>>}, Plan # {} PROVE Spec => []IInv
<1>1. Init => IInv
    BY InitInvariant
<1>2. IInv /\ [Next]_vars => IInv'
    BY NextKeepsInvariant
<1> QED
    BY <1>1, <1>2, PTL DEF Spec

(* Files are numbered, costs are numbers, the task excludes plans only:    *)
(* every variable of the driver keeps its type.                            *)
THEOREM TypeCorrect ==
    ASSUME LeftFiles = {<<>>}, Plan # {} PROVE Spec => []TypeOK
<1>1. IInv => TypeOK
    BY DEF IInv
<1> QED
    BY <1>1, Invariance, PTL

(* PlanManager keeps the books of the folder: every counted plan has its   *)
(* complete file with the recorded cost, but for at most one that a        *)
(* multiset reformulation damages when it is cut off.                      *)
THEOREM BooksMatchFolder ==
    ASSUME LeftFiles = {<<>>}, Plan # {} PROVE Spec => []CountedPlansAreOnDisk
<1>1. IInv => CountedPlansAreOnDisk
    BY DEF IInv
<1> QED
    BY <1>1, Invariance, PTL

(* No plan is counted twice, whatever the planner, the plans graph and the *)
(* extension find and however often files are written over.                *)
THEOREM PlansAreCountedOnce ==
    ASSUME LeftFiles = {<<>>}, Plan # {} PROVE Spec => []NoPlanTwice
<1>1. IInv => NoPlanTwice
    BY DEF IInv
<1> QED
    BY <1>1, Invariance, PTL

(* No operation of find_plans fails unless a call is cut off, and the      *)
(* assertion of report_iteration_step holds even then.                     *)
THEOREM OperationsSucceed ==
    ASSUME LeftFiles = {<<>>}, Plan # {} PROVE Spec => []NeverCrashes
<1>1. IInv => NeverCrashes
    BY ValidPlansOfBooks DEF IInv, NeverCrashes, EndsWithBound
<1> QED
    BY <1>1, Invariance, PTL

(* Whatever call is cut off, the top-k planner copies all plans it was     *)
(* given but at most the last, and no truncated file; where it fails       *)
(* before it copies any, they are still counted and in their files.        *)
THEOREM LosesAtMostOnePlan ==
    ASSUME LeftFiles = {<<>>}, Plan # {} PROVE Spec => []LosesAtMostTheLastPlan
<1>1. IInv => LosesAtMostTheLastPlan
    BY DEF IInv
<1> QED
    BY <1>1, Invariance, PTL
-------------------------------------------------------------------------------
(* The search looks at all plans that the command line asks for. *)
LEMMA WithinIsSearched ==
    ASSUME IInv, Working, NEW p \in Plan, args.quality_bound = 0 \/ WithinQuality(p)
    PROVE  WithinCostBound(p)
<1>1. CASE Counter = 0 \/ args.quality_bound = 0
    BY <1>1 DEF WithinCostBound, IInv, CostsFollowTheBound
<1>2. CASE Counter # 0 /\ args.quality_bound # 0
    <2>1. Counter \in Nat /\ Counter > 0 /\ files \in [1 .. Counter -> Plan]
        BY <1>2, WorkingFacts
    <2>2. /\ Min({plan_costs[i] : i \in DOMAIN plan_costs}) = plan_costs[1]
          /\ args.quality_bound * plan_costs[1] \in Nat /\ 1 \in 1 .. Counter
        BY <2>1, FirstAndLastCost
    <2>3. files[1] \in Plan /\ plan_costs[1] = cost[files[1]]
        BY <2>1, <2>2, WorkingFacts
    <2>4. 2 * cost[p] <= args.quality_bound * plan_costs[1]
        BY <1>2, <2>3 DEF WithinQuality
    <2>5. cost[p] \in Nat
        BY TaskFacts DEF IInv
    <2>6. \A x \in Nat : 2 * cost[p] <= x => cost[p] < x \div 2 + 1
        BY <2>5
    <2>7. cost[p] < (args.quality_bound * plan_costs[1]) \div 2 + 1
        BY <2>2, <2>4, <2>6
    <2> QED
        BY <2>2, <2>7 DEF WithinCostBound
<1> QED
    BY <1>1, <1>2

(* So none of them is left when the search finds no plan. *)
LEMMA NoneIsLeft ==
    ASSUME IInv, PlannerFindsNoMore PROVE NoPlanIsLeft'
<1>1. \A p \in Plan \ forbidden : ~WithinCostBound(p)
    BY CandidatesFacts DEF PlannerFindsNoMore, IInv
<1>2. NoPlanIsLeft
    BY <1>1, WithinIsSearched DEF NoPlanIsLeft, PlannerFindsNoMore, Working
<1>3. UNCHANGED <<args, cost, forbidden>>
    BY DEF PlannerFindsNoMore, run, tasks
<1> QED
    BY <1>2, <1>3 DEF NoPlanIsLeft, WithinQuality

(* The top-k planner goes on until it has counted the plans asked for. *)
LEMMA NextKeepsTopKInv ==
    ASSUME IInv, IInv', TopKInv, [Next]_vars PROVE TopKInv'
<1> DEFINE n == args.number_of_plans
<1>1. UNCHANGED <<args, cost>>
    BY DEF Next, Calls, CallsCutOff, vars, run, DeleteExistingPlans, PlannerFindsPlan,
           PlannerFindsNoMore, ExtendPlans, ReformulateWithGraph,
           ReformulateWithMultisets, AddTask, NoTaskToAdd, Finalize,
           PlannerFileIsTruncated, PlannerIsInterrupted, ExtensionFails,
           GraphReformulationFails, MultisetReformulationFails
<1> SUFFICES ASSUME args.planner = "topk"
             PROVE  /\ pc' = "add_task" /\ reformulated' = None => Counter' >= n
                    /\ pc' \in {"finalize", "ended"} /\ ~interrupted' =>
                            Counter' >= n \/ NoPlanIsLeft'
                    /\ pc' = "ended" => copied' = CountedUpto(Counter)'
    BY <1>1 DEF TopKInv
<1>2. n \in Nat /\ n # 0 /\ IsGraphPlanner
    BY FindPlansAssumption
    DEF IInv, TypeOK, ValidateInput, IsGraphPlanner, GraphPlanners
<1>3. /\ Counter \in Nat /\ ValidPlans(plan_costs, best_known_bound) = Counter
      /\ Counter' \in Nat /\ plan_costs' \in Seq(Nat)
      /\ ValidPlans(plan_costs', best_known_bound') = Counter'
    <2>1. /\ plan_costs' \in Seq(Nat) /\ Counter' = Len(plan_costs')
          /\ \A i \in 1 .. Len(plan_costs') : plan_costs'[i] <= best_known_bound'
        BY DEF IInv, FilesAreCounted, CostsFollowTheBound, Counter
    <2>2. ValidPlans(plan_costs', best_known_bound') = Len(plan_costs')
        BY <2>1, AllAreValid
    <2>3. Counter \in Nat
        BY DEF IInv, FilesAreCounted, Counter
    <2> QED
        BY <2>1, <2>2, <2>3, ValidPlansOfBooks
<1>4. \A costs, bound : EnoughPlansFound(costs, bound) => ValidPlans(costs, bound) >= n
    <2>1. args.planner \in {"topk", "topk_via_unordered_topq", "topq_via_topk"}
        OBVIOUS
    <2> QED
        BY <1>2, <2>1 DEF EnoughPlansFound, EnoughNumber
<1>5. CASE DeleteExistingPlans BY <1>5 DEF DeleteExistingPlans
<1>6. CASE PlannerFindsPlan
    <2>1. Counter' > 0 /\ EndsWithBound'
        <3>1. PICK p \in Plan \ forbidden :
                CountsSavedPlans(Counter, <<p>>, Counter + 1, cost[p])
            BY <1>6, FindsPlanFacts
        <3> QED
            BY <1>3, <3>1 DEF CountsSavedPlans, Counter, IInv
    <2>2. pc' = "finalize" => Counter' >= n
        BY <1>2, <1>3, <1>4, <1>6, <2>1 DEF PlannerFindsPlan
    <2>3. pc' \notin {"add_task", "ended"}
        BY <1>6 DEF PlannerFindsPlan
    <2> QED
        BY <2>2, <2>3
<1>7. CASE PlannerFindsNoMore
    BY <1>7, NoneIsLeft DEF PlannerFindsNoMore
<1>8. CASE ExtendPlans
    BY <1>2, <1>8 DEF ExtendPlans, IInv, FilesAreCounted
<1>9. CASE ReformulateWithGraph
    <2>1. pc' = "add_task" /\ Working
        BY <1>9 DEF ReformulateWithGraph, Working
    <2>2. Counter > 0 /\ plan_costs \in Seq(Nat) /\ Len(plan_costs) = Counter
        BY <1>9, <2>1, WorkingFacts DEF ReformulateWithGraph, IInv, FilesAreCounted
    <2>3. ValidPlans(ForgetLastProcessedPlan, best_known_bound) = Counter - 1
        <3>1. /\ ForgetLastProcessedPlan \in Seq(Nat)
              /\ Len(ForgetLastProcessedPlan) = Counter - 1
              /\ \A i \in 1 .. Counter - 1 : /\ ForgetLastProcessedPlan[i] = plan_costs[i]
                                             /\ i \in 1 .. Counter
            BY <1>3, <2>2 DEF ForgetLastProcessedPlan
        <3>2. \A i \in 1 .. Len(ForgetLastProcessedPlan) :
                    ForgetLastProcessedPlan[i] <= best_known_bound
            BY <3>1 DEF IInv, CostsFollowTheBound
        <3> QED
            BY <3>1, <3>2, AllAreValid
    <2>4. RemainingPlans(ForgetLastProcessedPlan) = n - (Counter - 1)
        BY <2>3 DEF RemainingPlans
    <2>5. ASSUME reformulated' = None PROVE Counter' >= n
        BY <1>2, <1>9, <2>4, <2>5, GraphCountsAll
    <2> QED
        BY <2>1, <2>5
<1>10. CASE ReformulateWithMultisets
    BY <1>2, <1>10 DEF ReformulateWithMultisets, IsGraphPlanner
<1>11. CASE AddTask
    <2>1. /\ pc' = "finalize" => EnoughPlansFound(plan_costs, best_known_bound)
          /\ pc' \notin {"add_task", "ended"} /\ Counter' = Counter
        BY <1>11 DEF AddTask, books, Counter
    <2> QED
        BY <1>3, <1>4, <2>1
<1>12. CASE NoTaskToAdd
    <2>1. pc' = "finalize" /\ Counter' = Counter /\ Counter >= n
        BY <1>12 DEF NoTaskToAdd, books, Counter, TopKInv
    <2> QED
        BY <2>1
<1>13. CASE Finalize
    <2>1. pc = "finalize" /\ UNCHANGED <<plan_costs, files, forbidden, interrupted>>
        BY <1>13 DEF Finalize, books, tasks
    <2>2. Counter' = Counter /\ NoPlanIsLeft' = NoPlanIsLeft
          /\ CountedUpto(Counter)' = CountedUpto(Counter)
        BY <1>1, <2>1 DEF Counter, NoPlanIsLeft, WithinQuality, CountedUpto
    <2>3. pc' = "ended" => copied' = CountedUpto(Counter)
        BY <1>13, TopKCopiesAll DEF Finalize, CountedUpto
    <2> QED
        BY <1>13, <2>1, <2>2, <2>3 DEF TopKInv, Finalize
<1>14. CASE CallsCutOff
    BY <1>14
    DEF CallsCutOff, PlannerFileIsTruncated, PlannerIsInterrupted, ExtensionFails,
        GraphReformulationFails, MultisetReformulationFails
<1>15. CASE UNCHANGED vars
    <2>1. UNCHANGED <<args, cost, files, plan_costs, forbidden, reformulated, pc, copied,
                      interrupted>>
        BY <1>15 DEF vars, run, books, tasks
    <2> QED
        BY <2>1 DEF TopKInv, Counter, NoPlanIsLeft, WithinQuality, CountedUpto
<1> QED
    BY <1>5, <1>6, <1>7, <1>8, <1>9, <1>10, <1>11, <1>12, <1>13, <1>14, <1>15
    DEF Next, Calls

(* The plans counted are as many as the counter says. *)
LEMMA CountedPlansAreCounter ==
    ASSUME IInv PROVE Cardinality(CountedUpto(Counter)) = Counter
<1> DEFINE n == Counter
           f == [i \in 1 .. n |-> files[i]]
<1>1. n \in Nat /\ \A i, j \in 1 .. n : files[i] = files[j] => i = j
    BY DEF IInv, FilesAreCounted, NoPlanTwice, Counter
<1> HIDE DEF n
<1>2. f \in Bijection(1 .. n, {files[i] : i \in 1 .. n})
    <2>1. f \in [1 .. n -> {files[i] : i \in 1 .. n}]
        OBVIOUS
    <2>2. \A i, j \in 1 .. n : f[i] = f[j] => i = j
        BY <1>1
    <2>3. \A p \in {files[i] : i \in 1 .. n} : \E i \in 1 .. n : f[i] = p
        OBVIOUS
    <2> HIDE DEF f
    <2> QED
        BY <2>1, <2>2, <2>3 DEF Bijection, Injection, Surjection, IsInjective
<1>3. IsFiniteSet(1 .. n) /\ Cardinality(1 .. n) = n
    BY <1>1, FS_Interval
<1>4. Cardinality({files[i] : i \in 1 .. n}) = n
    BY <1>2, <1>3, FS_Bijection DEF ExistsBijection
<1> QED
    BY <1>4 DEF CountedUpto, n

(* So its results are k best plans. *)
LEMMA TopKInvSuffices ==
    ASSUME IInv, TopKInv PROVE CopiesTopK
<1> SUFFICES ASSUME Completed("topk"), NEW p \in Plan \ copied,
                    args.quality_bound = 0 \/ WithinQuality(p)
             PROVE  Cardinality({r \in copied : cost[r] <= cost[p]})
                        >= args.number_of_plans
    BY DEF CopiesTopK, BestPlansAreCopied
<1>1. /\ args.planner = "topk" /\ pc = "ended" /\ ~interrupted
      /\ copied = CountedUpto(Counter) /\ IsGraphPlanner
    BY DEF Completed, TopKInv, IsGraphPlanner, GraphPlanners
<1>2. p \notin forbidden
    BY <1>1 DEF IInv, GraphTaskExcludes
<1>3. Counter \in Nat /\ Counter >= args.number_of_plans
    BY <1>1, <1>2 DEF TopKInv, NoPlanIsLeft, IInv, FilesAreCounted, Counter
<1>4. \A r \in copied : cost[r] <= cost[p]
    <2> SUFFICES ASSUME NEW i \in 1 .. Counter PROVE cost[files[i]] <= cost[p]
        BY <1>1 DEF CountedUpto
    <2>1. Damaged = {}
        BY <1>1 DEF IInv, CountedPlansAreOnDisk, IsGraphPlanner
    <2>2. plan_costs[i] = cost[files[i]]
        BY <2>1 DEF IInv, CountedPlansAreOnDisk
    <2>3. Counter > 0
        BY <1>3
    <2>4. /\ best_known_bound \in Nat /\ plan_costs[i] <= best_known_bound
          /\ plan_costs[i] \in Nat
        BY <2>3 DEF IInv, CostsFollowTheBound, FilesAreCounted, Counter
    <2>5. best_known_bound <= cost[p] /\ cost[p] \in Nat
        BY <1>2, <2>4, TaskFacts DEF IInv, OpenPlansCostMore
    <2> QED
        BY <2>2, <2>4, <2>5
<1>5. {r \in copied : cost[r] <= cost[p]} = CountedUpto(Counter)
    BY <1>1, <1>4
<1> QED
    BY <1>3, <1>5, CountedPlansAreCounter

(* Top-k: whatever ties the searches break, and whatever the costs and     *)
(* reorderings are, the results of the top-k planner are k best plans, or  *)
(* all plans there are, within the quality bound if one is given.          *)
THEOREM TopKCorrect ==
    ASSUME LeftFiles = {<<>>}, Plan # {} PROVE Spec => []CopiesTopK
<1>1. Init => TopKInv
    BY DEF Init, TopKInv
<1>2. IInv /\ IInv' /\ TopKInv /\ [Next]_vars => TopKInv'
    BY NextKeepsTopKInv
<1>3. IInv /\ TopKInv => CopiesTopK
    BY TopKInvSuffices
<1> QED
    BY <1>1, <1>2, <1>3, Invariance, PTL DEF Spec
-------------------------------------------------------------------------------
(* What the reformulation of unordered_topq excludes besides reorderings.  *)
LEMMA ForbidsShorter ==
    ASSUME TypeOK, args.planner = "unordered_topq", NEW p \in Plan, NEW q \in ForbiddenBy[p]
    PROVE  /\ q \in Plan
           /\ q \in Reorderings[p] \/ (Length[q] < Length[p] /\ cost[q] <= cost[p])
BY FindPlansAssumption DEF TypeOK

(* A shortest of the cheapest plans left contains no plan left: all that   *)
(* is excluded with it are its reorderings.                                *)
LEMMA CandidatesForbidReorderings ==
    ASSUME IInv, Working, args.planner = "unordered_topq", NEW p \in Candidates,
           NEW q \in ForbiddenBy[p], q \notin forbidden
    PROVE  q \in Reorderings[p]
<1> DEFINE open == {r \in Plan \ forbidden : WithinCostBound(r)}
           cheapest == {r \in open : \A s \in open : cost[r] <= cost[s]}
<1>1. p \in cheapest /\ \A s \in cheapest : Length[p] <= Length[s]
    <2>1. args.planner \notin GraphPlanners
        BY DEF GraphPlanners
    <2> QED
        BY <2>1 DEF Candidates
<1>2. p \in Plan /\ WithinCostBound(p)
    BY <1>1
<1>3. /\ q \in Plan
      /\ q \in Reorderings[p] \/ (Length[q] < Length[p] /\ cost[q] <= cost[p])
    BY <1>2, ForbidsShorter DEF IInv
<1>4. /\ \A r \in Plan : cost[r] \in Nat /\ Length[r] \in Nat
    BY TaskFacts DEF IInv
<1>5. ASSUME cost[q] <= cost[p] PROVE q \in cheapest
    <2>1. WithinCostBound(q)
        <3>1. ~WithinCostBound(q) => cost[p] < cost[q]
            BY <1>2, <1>3, BeyondBoundCostsMore
        <3> QED
            BY <1>2, <1>3, <1>4, <1>5, <3>1
    <2> QED
        BY <1>1, <1>2, <1>3, <1>4, <1>5, <2>1
<1> QED
    BY <1>1, <1>3, <1>4, <1>5

(* EnoughQuality compares the last cost with the first. *)
LEMMA QualityOfLast ==
    ASSUME NEW costs \in Seq(Nat), Len(costs) > 0,
           \A i, j \in 1 .. Len(costs) : i <= j => costs[i] <= costs[j]
    PROVE  EnoughQuality(costs) <=>
                2 * costs[Len(costs)] > args.quality_bound * costs[1]
BY FirstIsCheapest DEF EnoughQuality

(* A larger cost allows for no less: the product with the bound grows.     *)
LEMMA ProductGrows ==
    ASSUME NEW a \in Nat, NEW x \in Nat, NEW y \in Nat, x <= y
    PROVE  a * x <= a * y
OBVIOUS

(* What finalize copies is within the quality bound, and if no plan is     *)
(* left, all plans within it are reorderings of what is copied.            *)
LEMMA CopiesTheTopQuality ==
    ASSUME IInv, TopQualityInv, pc = "finalize", ~interrupted,
           args.planner = "unordered_topq",
           NEW results, results = {files[i] : i \in CopiedFiles}
    PROVE  /\ \A r \in results : WithinQuality(r)
           /\ args.number_of_plans = 0 =>
                \A p \in Plan : WithinQuality(p) => \E r \in results : p \in Reorderings[r]
<1> DEFINE n == Counter
<1>1. /\ n \in Nat /\ plan_costs \in Seq(Nat) /\ Len(plan_costs) = n
      /\ \A i \in 1 .. n : i \in DOMAIN files
      /\ \A i, j \in 1 .. n : i <= j => plan_costs[i] <= plan_costs[j]
    BY DEF IInv, FilesAreCounted, CostsFollowTheBound, Counter
<1>2. \A i \in 1 .. n : files[i] \in Plan /\ plan_costs[i] = cost[files[i]]
    <2>1. Damaged = {}
        BY DEF IInv, CountedPlansAreOnDisk
    <2> QED
        BY <1>1, <2>1 DEF Damaged, IInv, CountedPlansAreOnDisk, TypeOK
<1>3. /\ args.quality_bound \in Nat
      /\ \A p \in Plan : cost[p] \in Nat
    BY TaskFacts DEF IInv
<1>4. n > 0 => /\ plan_costs[1] \in Nat /\ plan_costs[n] \in Nat
               /\ 1 \in 1 .. n /\ n \in 1 .. n
               /\ args.quality_bound * plan_costs[1] \in Nat
               /\ EnoughQuality(plan_costs) <=>
                    2 * plan_costs[n] > args.quality_bound * plan_costs[1]
    BY <1>1, FirstAndLastCost, QualityOfLast
<1> DEFINE exceeds == n > 0 /\ EnoughQuality(plan_costs)
<1>5. CopiedFiles = IF exceeds THEN 1 .. n - 1 ELSE 1 .. n
    <2>1. args.planner \notin {"topk", "topk_via_unordered_topq", "topq_via_topk"}
        OBVIOUS
    <2>2. \A i \in 1 .. n : \A j \in 1 .. i : j \in DOMAIN files
        BY <1>1
    <2>3. LocalPlans(files, plan_costs) = 1 .. n
        BY <1>1, <2>2 DEF LocalPlans
    <2>4. n > 0 => LocalPlans(files, ForgetLastProcessedPlan) = 1 .. n - 1
        <3>1. n > 0 => Len(ForgetLastProcessedPlan) = n - 1
            BY <1>1 DEF ForgetLastProcessedPlan
        <3>2. n > 0 => \A i \in 1 .. n - 1 : i \in 1 .. n
            BY <1>1
        <3> QED
            BY <2>2, <3>1, <3>2 DEF LocalPlans
    <2> QED
        BY <2>1, <2>3, <2>4 DEF CopiedFiles
<1>6. n > 0 => \A q \in Plan :
                    args.quality_bound * plan_costs[1] <= args.quality_bound * cost[q]
    <2>1. n > 0 => \A q \in Plan : plan_costs[1] <= cost[q]
        BY DEF IInv, OpenPlansCostMore
    <2> QED
        BY <1>3, <1>4, <2>1, ProductGrows
<1>7. \A i \in CopiedFiles : WithinQuality(files[i])
    <2> TAKE i \in CopiedFiles
    <2>1. i \in 1 .. n /\ n > 0
        BY <1>1, <1>5
    <2>2. 2 * plan_costs[i] <= args.quality_bound * plan_costs[1]
        <3>1. CASE i < n
            BY <2>1, <3>1 DEF TopQualityInv
        <3>2. CASE i = n
            <4>1. ~exceeds
                BY <1>1, <1>5, <3>2
            <4> QED
                BY <1>4, <2>1, <3>2, <4>1
        <3> QED
            BY <1>1, <2>1, <3>1, <3>2
    <2>3. \A q \in Plan : 2 * cost[files[i]] <= args.quality_bound * cost[q]
        <3> TAKE q \in Plan
        <3>1. args.quality_bound * cost[q] \in Nat /\ cost[files[i]] \in Nat
            BY <1>2, <1>3, <2>1
        <3>2. args.quality_bound * plan_costs[1] <= args.quality_bound * cost[q]
            BY <1>6, <2>1
        <3> QED
            BY <1>2, <1>4, <2>1, <2>2, <3>1, <3>2
    <2> QED
        BY <2>3 DEF WithinQuality
<1>8. ASSUME exceeds, NEW p \in Plan, plan_costs[n] <= cost[p] PROVE ~WithinQuality(p)
    <2>1. 2 * cost[p] > args.quality_bound * plan_costs[1]
        BY <1>3, <1>4, <1>8
    <2>2. files[1] \in Plan /\ plan_costs[1] = cost[files[1]]
        BY <1>2, <1>4, <1>8
    <2> QED
        BY <1>3, <1>4, <1>8, <2>1, <2>2 DEF WithinQuality
<1>9. ASSUME args.number_of_plans = 0, NEW p \in Plan, WithinQuality(p)
      PROVE  \E i \in CopiedFiles : p \in Reorderings[files[i]]
    <2>1. p \in forbidden
        <3>1. CASE exceeds
            <4>1. best_known_bound \in Nat /\ plan_costs[n] <= best_known_bound
                BY <1>4, <3>1 DEF IInv, CostsFollowTheBound
            <4>2. p \notin forbidden => best_known_bound <= cost[p]
                BY <4>1, FindPlansAssumption DEF IInv, OpenPlansCostMore
            <4>3. p \notin forbidden => plan_costs[n] <= cost[p]
                BY <1>3, <1>4, <3>1, <4>1, <4>2
            <4> QED
                BY <1>8, <1>9, <3>1, <4>3
        <3>2. CASE ~exceeds
            BY <1>9, <3>2 DEF TopQualityInv, NoPlanIsLeft
        <3> QED
            BY <3>1, <3>2
    <2>2. PICK i \in 1 .. n : p \in Reorderings[files[i]]
        BY <2>1 DEF TopQualityInv, ReorderedUpto
    <2>3. i \in CopiedFiles
        <3>1. ASSUME exceeds, i = n PROVE FALSE
            <4>1. cost[p] = plan_costs[n]
                BY <1>2, <2>2, <3>1, TaskFacts DEF IInv
            <4>2. plan_costs[n] <= cost[p]
                BY <1>4, <3>1, <4>1
            <4> QED
                BY <1>8, <1>9, <3>1, <4>2
        <3> QED
            BY <1>1, <1>5, <3>1
    <2> QED
        BY <2>2, <2>3
<1> QED
    BY <1>7, <1>9

(* The plan found is the last counted: those before it stay within the     *)
(* bound, and what will be excluded with it are its reorderings.           *)
LEMMA FindsPlanKeepsTopQualityInv ==
    ASSUME IInv, IInv', TopQualityInv, PlannerFindsPlan, args.planner = "unordered_topq"
    PROVE  TopQualityInv'
<1>1. PICK p \in Plan \ forbidden :
        /\ p \in Candidates
        /\ CountsSavedPlans(Counter, <<p>>, Counter + 1, cost[p])
        /\ Counter \in Nat
    BY FindsPlanFacts
<1>2. /\ Working /\ pc = "planner"
      /\ UNCHANGED <<args, cost, forbidden, reformulated, interrupted>>
    BY DEF PlannerFindsPlan, run, tasks, Working
<1>3. /\ Counter' = Counter + 1 /\ files'[Counter + 1] = p
      /\ \A i \in 1 .. Counter : files'[i] = files[i] /\ plan_costs'[i] = plan_costs[i]
    <2>1. /\ Counter' = Counter + 1 /\ files'[Counter + 1] = p
          /\ \A i \in 1 .. Counter : plan_costs'[i] = plan_costs[i]
        BY <1>1 DEF CountsSavedPlans, Counter
    <2>2. \A i \in 1 .. Counter : files'[i] = files[i]
        BY <1>1 DEF CountsSavedPlans
    <2> QED
        BY <2>1, <2>2
<1>4. \A i \in 1 .. Counter + 1 : i \in 1 .. Counter \/ i = Counter + 1
    BY <1>1
<1>5. /\ pc' \in {"finalize", "reformulate"}
      /\ pc' = "finalize" => args.number_of_plans # 0 \/ EnoughQuality(plan_costs)'
    <2>1. Len(plan_costs') = Counter + 1
        BY <1>3 DEF Counter
    <2>2. /\ args.planner \notin ExtendingPlanners
          /\ args.planner \notin {"topk", "topk_via_unordered_topq", "topq_via_topk"}
        BY DEF ExtendingPlanners
    <2>3. EnoughPlansFound(plan_costs', best_known_bound') =>
                args.number_of_plans # 0 \/ EnoughQuality(plan_costs')
        BY <2>2 DEF EnoughPlansFound
    <2>4. EnoughQuality(plan_costs') => EnoughQuality(plan_costs)'
        BY <1>2 DEF EnoughQuality
    <2> QED
        BY <2>1, <2>2, <2>3, <2>4 DEF PlannerFindsPlan
<1>6. \A i \in 1 .. Counter + 1 : i < Counter + 1 =>
            2 * plan_costs'[i] <= args.quality_bound * plan_costs'[1]
    <2> TAKE i \in 1 .. Counter + 1
    <2> HAVE i < Counter + 1
    <2>1. i \in 1 .. Counter /\ 1 \in 1 .. Counter
        BY <1>1
    <2> QED
        BY <1>2, <1>3, <2>1 DEF TopQualityInv
<1>7. ReorderedUpto(Counter)' = ReorderedUpto(Counter) \cup Reorderings[p]
    <2>1. ReorderedUpto(Counter)' = UNION {Reorderings[files'[i]] : i \in 1 .. Counter + 1}
        BY <1>3 DEF ReorderedUpto
    <2>2. \A i \in 1 .. Counter : i \in 1 .. Counter + 1
        BY <1>1
    <2>3. Counter + 1 \in 1 .. Counter + 1
        BY <1>1
    <2> QED
        BY <1>3, <1>4, <2>1, <2>2, <2>3 DEF ReorderedUpto
<1>8. ExcludedUpto(Counter)' \subseteq forbidden \cup ForbiddenBy[p]
    <2>1. ExcludedUpto(Counter)' = UNION {ForbiddenBy[files'[i]] : i \in 1 .. Counter + 1}
        BY <1>3 DEF ExcludedUpto
    <2>2. ExcludedUpto(Counter) = forbidden
        <3>1. ~IsGraphPlanner
            BY DEF IsGraphPlanner, GraphPlanners
        <3> QED
            BY <1>2, <3>1 DEF IInv, MultisetTaskExcludes
    <2> QED
        BY <1>3, <1>4, <2>1, <2>2 DEF ExcludedUpto
<1>9. ForbiddenBy[p] \subseteq forbidden \cup Reorderings[p]
    BY <1>1, <1>2, CandidatesForbidReorderings
<1>10. forbidden \subseteq ReorderedUpto(Counter)
    BY <1>2 DEF TopQualityInv
<1>11. CopiesTopQuality'
    BY <1>5 DEF CopiesTopQuality, Completed
<1> QED
    BY <1>1, <1>2, <1>3, <1>5, <1>6, <1>7, <1>8, <1>9, <1>10, <1>11 DEF TopQualityInv

(* A step after which the same plans are counted. *)
LEMMA KeepingTopQualityInv ==
    ASSUME IInv, IInv', TopQualityInv, args.planner = "unordered_topq",
           UNCHANGED <<args, cost, files, plan_costs>>,
           pc' \notin {"extend", "ended", "delete"},
           pc' = "planner" => pc = "delete" \/ (Counter > 0 /\ ~EnoughQuality(plan_costs)),
           pc' \in {"reformulate", "add_task"} => pc = "reformulate",
           Working,
           forbidden' = forbidden \/ (pc = "add_task" /\ forbidden' = ExcludedUpto(Counter)),
           pc' = "finalize" /\ ~interrupted' =>
                \/ args.number_of_plans # 0 \/ NoPlanIsLeft'
                \/ Counter > 0 /\ EnoughQuality(plan_costs)
    PROVE  TopQualityInv'
<1>1. /\ Counter' = Counter /\ ExcludedUpto(Counter)' = ExcludedUpto(Counter)
      /\ ReorderedUpto(Counter)' = ReorderedUpto(Counter)
      /\ EnoughQuality(plan_costs)' = EnoughQuality(plan_costs)
    BY DEF Counter, ExcludedUpto, ReorderedUpto, EnoughQuality
<1>2. \A i \in 1 .. Counter : i < Counter \/ pc' \in {"delete", "planner"} =>
            2 * plan_costs[i] <= args.quality_bound * plan_costs[1]
    <2> TAKE i \in 1 .. Counter
    <2> HAVE i < Counter \/ pc' \in {"delete", "planner"}
    <2>1. CASE i < Counter \/ pc = "delete"
        BY <2>1 DEF TopQualityInv
    <2>2. CASE Counter > 0 /\ ~EnoughQuality(plan_costs) /\ i = Counter
        <3>1. /\ plan_costs \in Seq(Nat) /\ Len(plan_costs) = Counter
              /\ \A a, b \in 1 .. Counter : a <= b => plan_costs[a] <= plan_costs[b]
            BY DEF IInv, FilesAreCounted, CostsFollowTheBound, Counter
        <3>2. ~(2 * plan_costs[Counter] > args.quality_bound * plan_costs[1])
            BY <2>2, <3>1, QualityOfLast
        <3>3. plan_costs[Counter] \in Nat /\ args.quality_bound * plan_costs[1] \in Nat
            BY <2>2, FirstAndLastCost
        <3> QED
            BY <2>2, <3>2, <3>3
    <2>3. Counter \in Nat /\ (i < Counter \/ i = Counter)
        <3>1. Counter \in Nat
            BY DEF IInv, FilesAreCounted, Counter
        <3> QED
            BY <3>1
    <2> QED
        BY <2>1, <2>2, <2>3
<1>3. CopiesTopQuality'
    BY DEF CopiesTopQuality, Completed
<1>4. forbidden' \subseteq ReorderedUpto(Counter)
    BY DEF TopQualityInv
<1> QED
    BY <1>1, <1>2, <1>3, <1>4 DEF TopQualityInv

(* A call that is cut off ends the loop. *)
LEMMA CutOffKeepsTopQualityInv ==
    ASSUME TopQualityInv, UNCHANGED <<args, cost, plan_costs>>,
           pc' \in {"finalize", "crashed"}, interrupted' = TRUE
    PROVE  TopQualityInv'
<1>1. Counter' = Counter /\ ~Working' /\ CopiesTopQuality'
    BY DEF Counter, Working, CopiesTopQuality, Completed
<1> QED
    BY <1>1 DEF TopQualityInv

(* Every step keeps what unordered top-quality planning relies on. *)
LEMMA NextKeepsTopQualityInv ==
    ASSUME IInv, IInv', TopQualityInv, [Next]_vars PROVE TopQualityInv'
<1>1. UNCHANGED <<args, cost>>
    BY DEF Next, Calls, CallsCutOff, vars, run, DeleteExistingPlans, PlannerFindsPlan,
           PlannerFindsNoMore, ExtendPlans, ReformulateWithGraph,
           ReformulateWithMultisets, AddTask, NoTaskToAdd, Finalize,
           PlannerFileIsTruncated, PlannerIsInterrupted, ExtensionFails,
           GraphReformulationFails, MultisetReformulationFails
<1>2. CASE args.planner # "unordered_topq"
    BY <1>1, <1>2 DEF TopQualityInv
<1> SUFFICES ASSUME args.planner = "unordered_topq" PROVE TopQualityInv'
    BY <1>2
<1>3. /\ ~IsGraphPlanner /\ args.planner \notin GraphPlanners
      /\ args.planner \notin {"topk", "topk_via_unordered_topq", "topq_via_topk"}
    BY DEF IsGraphPlanner, GraphPlanners
<1>4. EnoughPlansFound(plan_costs, best_known_bound) =>
            args.number_of_plans # 0 \/ EnoughQuality(plan_costs)
    BY <1>3 DEF EnoughPlansFound
<1>5. ~EnoughPlansFound(plan_costs, best_known_bound) => ~EnoughQuality(plan_costs)
    BY <1>3 DEF EnoughPlansFound
<1>6. CASE DeleteExistingPlans
    <2>1. /\ pc = "delete" /\ Working /\ pc' = "planner"
          /\ UNCHANGED <<plan_costs, forbidden>>
        BY <1>6 DEF DeleteExistingPlans, Working, books, tasks
    <2>2. files' = files
        BY <1>6, DeletesNothing
    <2> QED
        BY <1>1, <2>1, <2>2, KeepingTopQualityInv
<1>7. CASE PlannerFindsPlan
    BY <1>7, FindsPlanKeepsTopQualityInv
<1>8. CASE PlannerFindsNoMore
    <2>1. /\ Working /\ pc' = "finalize" /\ UNCHANGED <<files, plan_costs, forbidden>>
        BY <1>8 DEF PlannerFindsNoMore, Working, books, tasks
    <2> QED
        BY <1>1, <1>8, <2>1, NoneIsLeft, KeepingTopQualityInv
<1>9. CASE ExtendPlans \/ ExtensionFails
    BY <1>9 DEF ExtendPlans, ExtensionFails, TopQualityInv
<1>10. CASE ReformulateWithGraph \/ GraphReformulationFails
    BY <1>3, <1>10 DEF ReformulateWithGraph, GraphReformulationFails
<1>11. CASE ReformulateWithMultisets
    <2>1. /\ pc = "reformulate" /\ Working /\ pc' = "add_task" /\ UNCHANGED forbidden
        BY <1>11 DEF ReformulateWithMultisets, Working
    <2>2. UNCHANGED <<files, plan_costs>>
        BY <1>11, MultisetsChangeNothing
    <2> QED
        BY <1>1, <2>1, <2>2, KeepingTopQualityInv
<1>12. CASE AddTask
    <2>1. /\ pc = "add_task" /\ Working /\ pc' \in {"finalize", "planner"}
          /\ pc' = "finalize" => EnoughPlansFound(plan_costs, best_known_bound)
          /\ pc' = "planner" => ~EnoughPlansFound(plan_costs, best_known_bound)
          /\ UNCHANGED <<files, plan_costs>> /\ forbidden' = reformulated
        BY <1>12 DEF AddTask, Working, books
    <2>2. Counter > 0 /\ reformulated = ExcludedUpto(Counter)
        BY <1>3, <2>1 DEF IInv, FilesAreCounted, MultisetTaskExcludes
    <2> QED
        BY <1>1, <1>4, <1>5, <2>1, <2>2, KeepingTopQualityInv
<1>13. CASE NoTaskToAdd
    <2>1. pc = "add_task" /\ Working /\ reformulated = None
        BY <1>13 DEF NoTaskToAdd, Working
    <2>2. reformulated = ExcludedUpto(Counter)
        BY <1>3, <2>1 DEF IInv, MultisetTaskExcludes
    <2>3. ExcludedUpto(Counter) \subseteq Plan
        BY <2>1, WorkingFacts, TaskFacts DEF IInv, ExcludedUpto
    <2> QED
        BY <2>1, <2>2, <2>3, FindPlansAssumption
<1>14. CASE Finalize
    <2>1. /\ pc = "finalize" /\ pc' \in {"ended", "crashed"}
          /\ pc' = "ended" => copied' = {files[i] : i \in CopiedFiles}
          /\ UNCHANGED <<files, plan_costs, forbidden, interrupted>>
        BY <1>14 DEF Finalize, books, tasks
    <2>2. CopiesTopQuality'
        <3> SUFFICES ASSUME pc' = "ended", ~interrupted
                     PROVE  /\ \A r \in copied' : WithinQuality(r)
                            /\ args.number_of_plans = 0 =>
                                \A p \in Plan : WithinQuality(p) =>
                                    \E r \in copied' : p \in Reorderings[r]
            BY <1>1, <2>1 DEF CopiesTopQuality, Completed, WithinQuality
        <3> QED
            BY <2>1, CopiesTheTopQuality
    <2>3. /\ Counter' = Counter /\ ReorderedUpto(Counter)' = ReorderedUpto(Counter)
        BY <2>1 DEF Counter, ReorderedUpto
    <2> QED
        BY <1>1, <2>1, <2>2, <2>3 DEF TopQualityInv, Working
<1>15. CASE PlannerFileIsTruncated \/ PlannerIsInterrupted
    BY <1>15, PlannerCutOffFacts, CutOffKeepsTopQualityInv
<1>16. CASE MultisetReformulationFails
    <2>1. interrupted' = TRUE /\ pc' = "finalize" /\ UNCHANGED plan_costs
        BY <1>16 DEF MultisetReformulationFails, books
    <2> QED
        BY <1>1, <2>1, CutOffKeepsTopQualityInv
<1>17. CASE UNCHANGED vars
    <2>1. UNCHANGED <<args, cost, files, plan_costs, forbidden, reformulated, pc, copied,
                      interrupted>>
        BY <1>17 DEF vars, run, books, tasks
    <2>2. /\ Counter' = Counter /\ ExcludedUpto(Counter)' = ExcludedUpto(Counter)
          /\ ReorderedUpto(Counter)' = ReorderedUpto(Counter)
          /\ EnoughQuality(plan_costs)' = EnoughQuality(plan_costs)
          /\ NoPlanIsLeft' = NoPlanIsLeft /\ CopiesTopQuality' = CopiesTopQuality
          /\ Working' = Working
        BY <2>1 DEF Counter, ExcludedUpto, ReorderedUpto, EnoughQuality, NoPlanIsLeft,
                    WithinQuality, CopiesTopQuality, Completed, Working
    <2> QED
        BY <2>1, <2>2 DEF TopQualityInv
<1> QED
    BY <1>6, <1>7, <1>8, <1>9, <1>10, <1>11, <1>12, <1>13, <1>14, <1>15, <1>16, <1>17
    DEF Next, Calls, CallsCutOff

(* Unordered top-quality: for all costs and reorderings, the results are   *)
(* within the quality bound and, without a number of plans to stop at,     *)
(* every plan within it is a reordering of a result.                       *)
THEOREM TopQualityCorrect ==
    ASSUME LeftFiles = {<<>>}, Plan # {} PROVE Spec => []CopiesTopQuality
<1>1. Init => TopQualityInv
    <2> SUFFICES ASSUME Init PROVE TopQualityInv
        OBVIOUS
    <2>1. pc = "delete" /\ forbidden = {} /\ Counter = 0
        BY DEF Init, Counter
    <2>2. 1 .. Counter = {}
        BY <2>1
    <2> QED
        BY <2>1, <2>2 DEF TopQualityInv, CopiesTopQuality, Completed
<1>2. IInv /\ IInv' /\ TopQualityInv /\ [Next]_vars => TopQualityInv'
    BY NextKeepsTopQualityInv
<1>3. TopQualityInv => CopiesTopQuality
    BY DEF TopQualityInv, CopiesTopQuality, Completed
<1> QED
    BY <1>1, <1>2, <1>3, Invariance, PTL DEF Spec
===============================================================================
