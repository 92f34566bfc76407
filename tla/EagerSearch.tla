------------------------------ MODULE EagerSearch ------------------------------
(***************************************************************************)
(* EagerSearch and ShortestEagerSearch: best-first search with an open     *)
(* list of buckets, reopening, dead ends, a cost bound, pruning, and       *)
(* duplicate detection up to symmetry (orbit search OSS, or DKS).  What    *)
(* the search is run on is a record "problem":                             *)
(*   task            see FDRTask                                           *)
(*   shortest        whether the engine is shortest_astar or astar         *)
(*   reopen_closed, cost_type, bound                                       *)
(*   symmetries, group    NONE, OSS or DKS, and the generators             *)
(*   applicable      state |-> applicable operators, in generator order    *)
(*   kept            state |-> those of them that the pruning method keeps  *)
(*   estimate        state |-> value of the heuristic, INFTY for dead ends *)
(*   lazy, improved  whether the heuristic is also the lazy evaluator, and *)
(*                   state |-> a value a later evaluation may give         *)
(* One round of the search is a sequence of actions: an entry is removed   *)
(* from the open list until a node is expanded; then its successors are    *)
(* generated one by one.                                                   *)
(***************************************************************************)
EXTENDS SearchSpace, TaskSemantics

CONSTANTS
    Problems,       \* what the search may be run on
    INFTY           \* EvaluationResult::INFTY, greater than every cost

(* States lead to states, operators cost something or nothing, estimates   *)
(* are numbers.                                                            *)
ASSUME EagerSearchAssumption ==
    /\ INFTY \in Nat
    /\ \A p \in Problems :
        /\ p.cost_type \in {"NORMAL", "ONE", "PLUSONE"}
        /\ p.symmetries \in {"NONE", "OSS", "DKS"}
        /\ p.shortest \in BOOLEAN /\ p.reopen_closed \in BOOLEAN /\ p.lazy \in BOOLEAN
        /\ p.bound \in 0 .. INFTY
        /\ NoOperator \notin Ops(p.task)
        /\ \A o \in Ops(p.task) : p.task.operators[o].cost \in Nat
        /\ p.estimate \in [States(p.task) -> Nat]
        /\ p.improved \in [States(p.task) -> Nat]
        /\ p.kept \in [States(p.task) -> Seq(Ops(p.task))]
        /\ p.task.init \in States(p.task)
        /\ \A s \in States(p.task) :
            /\ Canonical(p.task, p.group, s) \in States(p.task)
            /\ \A i \in DOMAIN p.kept[s] :
                    Successor(p.task, p.kept[s][i], s) \in States(p.task)

VARIABLES
    problem,
    status,         \* INIT, IN_PROGRESS, EXPANDING, SOLVED, FAILED, TIMEOUT
    registry,       \* the states registered, in order
    nodes,          \* their search node infos
    estimates,      \* the heuristic value each registered state had last
    open_list,      \* entries [key, id], sorted by key, first in first out
    node,           \* the number of the node that is expanded
    applicable_ops, \* its operators whose successors are still to be made
    plan            \* {}, or {the plan} once set_plan was called

vars == <<problem, status, registry, nodes, estimates, open_list, node,
          applicable_ops, plan>>

task == problem.task

Cost(o) == task.operators[o].cost

(* get_adjusted_cost. *)
CostIn(t, cost_type, o) ==
    LET cost == t.operators[o].cost
    IN  CASE cost_type = "NORMAL" -> cost
          [] cost_type = "ONE" -> 1
          [] cost_type = "PLUSONE" ->
                IF \A p \in Ops(t) : t.operators[p].cost = 1 THEN 1 ELSE cost + 1

AdjustedCost(o) == CostIn(task, problem.cost_type, o)

(* The state under which a generated one is registered. *)
Representative(s) ==
    IF problem.symmetries = "OSS" THEN Canonical(task, problem.group, s)
    ELSE IF problem.symmetries = "DKS"
         /\ \E r \in Range(registry) : Canonical(task, problem.group, r)
                                        = Canonical(task, problem.group, s)
    THEN CHOOSE r \in Range(registry) : Canonical(task, problem.group, r)
                                        = Canonical(task, problem.group, s)
    ELSE s
-------------------------------------------------------------------------------
(* create_astar_open_list_factory_and_f_eval: the key is <f, h>, and       *)
(* <f, d, h> for the shortest search.                                      *)
Key(g, d, h) == IF problem.shortest THEN <<g + h, d, h>> ELSE <<g + h, h>>

KeyLess(k1, k2) ==
    \E i \in DOMAIN k1 : k1[i] < k2[i] /\ \A j \in 1 .. i - 1 : k1[j] = k2[j]

(* TieBreakingOpenList::do_insertion: at the end of the bucket. *)
Insert(list, key, id) ==
    LET later == {i \in DOMAIN list : KeyLess(key, list[i].key)}
    IN  InsertAt(list, Min(later \cup {Len(list) + 1}), [key |-> key, id |-> id])

(* OpenList::insert: a node whose value is infinite is not inserted.       *)
InsertEntry(list, g, d, h, id) ==
    IF h = INFTY THEN list ELSE Insert(list, Key(g, d, h), id)

(* A state is evaluated: once estimated, a state keeps its value unless    *)
(* the evaluator is evaluated again and has learnt more.                   *)
Evaluations(s) ==
    IF problem.lazy THEN {problem.estimate[s], problem.improved[s]}
    ELSE {problem.estimate[s]}

Reevaluations(id) ==
    IF estimates[id] = problem.improved[registry[id]] THEN {estimates[id]}
    ELSE Evaluations(registry[id])
-------------------------------------------------------------------------------
Init ==
    /\ problem \in Problems
    /\ status = "INIT"
    /\ registry = <<>>
    /\ nodes = <<>>
    /\ estimates = <<>>
    /\ open_list = <<>>
    /\ node = NoState
    /\ applicable_ops = <<>>
    /\ plan = {}

(* initialize: the initial state is registered and, for OSS, after it its  *)
(* canonical representative.                                               *)
Initialize ==
    /\ status = "INIT"
    /\ status' = "IN_PROGRESS"
    /\ registry' = Register(<<task.init>>, Representative(task.init))
    /\ \E h \in Evaluations(Representative(task.init)) :
            LET id == StateId(registry', Representative(task.init))
            IN  /\ estimates' = [i \in 1 .. Len(registry') |-> IF i = id THEN h ELSE -1]
                /\ nodes' = [i \in 1 .. Len(registry') |->
                        IF i = id /\ h # INFTY THEN InitialNode ELSE NewNode]
                /\ open_list' = InsertEntry(<<>>, 0, 0, h, id)
    /\ UNCHANGED <<problem, node, applicable_ops, plan>>

(* The open list is empty: there is no solution. *)
Exhaust ==
    /\ status = "IN_PROGRESS"
    /\ open_list = <<>>
    /\ status' = "FAILED"
    /\ UNCHANGED <<problem, registry, nodes, estimates, open_list, node,
                   applicable_ops, plan>>

(* The entry removed is about a node that was closed, or found dead, since *)
(* the entry was inserted.                                                 *)
SkipEntry ==
    /\ status = "IN_PROGRESS"
    /\ open_list # <<>>
    /\ \/ nodes[Head(open_list).id].status = "CLOSED"
       \/ problem.lazy /\ nodes[Head(open_list).id].status = "DEAD_END"
    /\ open_list' = Tail(open_list)
    /\ UNCHANGED <<problem, status, registry, nodes, estimates, node,
                   applicable_ops, plan>>

(* The entry is about an open node, whose value is h now. *)
RemoveMin(h) ==
    /\ status = "IN_PROGRESS"
    /\ open_list # <<>>
    /\ nodes[Head(open_list).id].status = "OPEN"
    /\ estimates' = [estimates EXCEPT ![Head(open_list).id] = h]

HeadEvaluations == IF open_list = <<>> THEN {} ELSE Reevaluations(Head(open_list).id)

(* The lazy evaluator has learnt that the node is a dead end. *)
FindDeadEnd ==
    LET id == Head(open_list).id
    IN  /\ INFTY \in HeadEvaluations
        /\ RemoveMin(INFTY)
        /\ problem.lazy
        /\ nodes' = [nodes EXCEPT ![id].status = "DEAD_END"]
        /\ open_list' = Tail(open_list)
        /\ UNCHANGED <<problem, status, registry, node, applicable_ops, plan>>

(* The lazy evaluator gives another value: the node goes back. *)
Reevaluate(h) ==
    LET id == Head(open_list).id
    IN  /\ RemoveMin(h)
        /\ h # INFTY
        /\ h # estimates[id]
        /\ open_list' = InsertEntry(Tail(open_list), nodes[id].g, nodes[id].d, h, id)
        /\ UNCHANGED <<problem, status, registry, nodes, node, applicable_ops, plan>>

(* The node is closed; check_goal_and_set_plan holds. *)
ReachGoal(h) ==
    LET id == Head(open_list).id
    IN  /\ RemoveMin(h)
        /\ h # INFTY
        /\ h = estimates[id]
        /\ IsGoalState(task, registry[id])
        /\ open_list' = Tail(open_list)
        /\ nodes' = [nodes EXCEPT ![id].status = "CLOSED"]
        /\ status' = "SOLVED"
        /\ plan' = {IF problem.symmetries = "NONE" THEN TracePath(nodes, id)
                    ELSE TracePathWithSymmetries(task, problem.symmetries,
                             problem.group, problem.applicable, registry, nodes, id)}
        /\ UNCHANGED <<problem, registry, node, applicable_ops>>

(* The node is closed, its operators are generated and pruned. *)
Expand(h) ==
    LET id == Head(open_list).id
        s == registry[id]
    IN  /\ RemoveMin(h)
        /\ h # INFTY
        /\ h = estimates[id]
        /\ ~IsGoalState(task, s)
        /\ open_list' = Tail(open_list)
        /\ nodes' = [nodes EXCEPT ![id].status = "CLOSED"]
        /\ status' = "EXPANDING"
        /\ node' = id
        /\ applicable_ops' = problem.kept[s]
        /\ UNCHANGED <<problem, registry, plan>>
-------------------------------------------------------------------------------
(* One operator of the node that is expanded. *)
TakeOperator(o) ==
    /\ status = "EXPANDING"
    /\ applicable_ops # <<>>
    /\ o = Head(applicable_ops)
    /\ applicable_ops' = Tail(applicable_ops)
    /\ UNCHANGED <<problem, status, node, plan>>

WithinBound(o) == nodes[node].real_g + Cost(o) < problem.bound

OverBound(o) ==
    /\ TakeOperator(o)
    /\ ~WithinBound(o)
    /\ UNCHANGED <<registry, nodes, estimates, open_list>>

(* The successor state, registered and with a node info. *)
SuccessorState(o) == Representative(Successor(task, o, registry[node]))

Generate(o) ==
    /\ TakeOperator(o)
    /\ WithinBound(o)
    /\ registry' = Register(registry, SuccessorState(o))

SuccId(o) == StateId(registry', SuccessorState(o))

IsNew(o) ==
    SuccessorState(o) \in Range(registry) =>
        nodes[StateId(registry, SuccessorState(o))].status = "NEW"

(* Node infos and estimates have an entry per registered state. *)
SetInfo(id, info, h) ==
    /\ nodes' = [i \in 1 .. Len(registry') |->
                    IF i = id THEN info ELSE nodes[i]]
    /\ estimates' = [i \in 1 .. Len(registry') |->
                    IF i = id THEN h ELSE estimates[i]]

MarkDeadEnd(o) ==
    /\ Generate(o)
    /\ IsNew(o)
    /\ INFTY \in Evaluations(SuccessorState(o))
    /\ SetInfo(SuccId(o), [NewNode EXCEPT !.status = "DEAD_END"], INFTY)
    /\ UNCHANGED open_list

(* A node is inserted into the open list with its present value: it stays  *)
(* out when the lazy evaluator finds just now that it is a dead end.       *)
Enqueue(o, info, key_of) ==
    \E h \in (IF IsNew(o) THEN Evaluations(SuccessorState(o)) \ {INFTY}
               ELSE Reevaluations(SuccId(o))) :
        /\ SetInfo(SuccId(o), info, h)
        /\ open_list' = InsertEntry(open_list, key_of.g, key_of.d, h, SuccId(o))

NewInfo(o) == NodeReachedBy("OPEN", node, nodes[node], o, Cost(o), AdjustedCost(o))

Open(o) ==
    /\ Generate(o)
    /\ IsNew(o)
    /\ Enqueue(o, NewInfo(o), NewInfo(o))

(* Mutation of IsBetter: closed nodes keep their paths. *)
IsBetterAndOpen(o, info) ==
    LET g == nodes[node].g + AdjustedCost(o)
    IN  /\ info.status = "OPEN"
        /\ \/ info.g > g
           \/ problem.shortest /\ info.g = g /\ info.d > nodes[node].d + 1

(* A cheaper path, or for the shortest search a shorter one. *)
IsBetter(o, info) ==
    LET g == nodes[node].g + AdjustedCost(o)
    IN  \/ info.g > g
        \/ problem.shortest /\ info.g = g /\ info.d > nodes[node].d + 1

HasBetterPath(o) ==
    /\ Generate(o)
    /\ ~IsNew(o)
    /\ nodes[SuccId(o)].status # "DEAD_END"
    /\ IsBetter(o, nodes[SuccId(o)])

(* Mutation of Reopen: the entry gets the old g value. *)
ReopenWithOldKey(o) ==
    /\ HasBetterPath(o)
    /\ problem.reopen_closed
    /\ Enqueue(o, NewInfo(o), nodes[SuccId(o)])

Reopen(o) ==
    /\ HasBetterPath(o)
    /\ problem.reopen_closed
    /\ Enqueue(o, NewInfo(o), NewInfo(o))

(* Without reopening only the parent and the g value change. *)
UpdateParent(o) ==
    /\ HasBetterPath(o)
    /\ ~problem.reopen_closed
    /\ SetInfo(SuccId(o), [NewInfo(o) EXCEPT !.status = nodes[SuccId(o)].status],
               estimates[SuccId(o)])
    /\ UNCHANGED open_list

KeepOldPath(o) ==
    /\ Generate(o)
    /\ ~IsNew(o)
    /\ \/ nodes[SuccId(o)].status = "DEAD_END"
       \/ ~IsBetter(o, nodes[SuccId(o)])
    /\ UNCHANGED <<nodes, estimates, open_list>>

(* All successors are generated: step returns IN_PROGRESS. *)
EndStep ==
    /\ status = "EXPANDING"
    /\ applicable_ops = <<>>
    /\ status' = "IN_PROGRESS"
    /\ node' = NoState
    /\ UNCHANGED <<problem, registry, nodes, estimates, open_list, applicable_ops, plan>>

(* search: the timer is read after a step, also after one that solved the  *)
(* task; the plan that was set stays.                                      *)
TimeOut ==
    /\ \/ status \in {"SOLVED", "FAILED"}
       \/ status = "EXPANDING" /\ applicable_ops = <<>>
    /\ status' = "TIMEOUT"
    /\ UNCHANGED <<problem, registry, nodes, estimates, open_list, node,
                   applicable_ops, plan>>

Next ==
    \/ Initialize
    \/ Exhaust
    \/ SkipEntry
    \/ FindDeadEnd
    \/ \E h \in HeadEvaluations : Reevaluate(h) \/ ReachGoal(h) \/ Expand(h)
    \/ \E o \in Ops(task) :
        \/ OverBound(o)
        \/ MarkDeadEnd(o)
        \/ Open(o)
        \/ Reopen(o)
        \/ UpdateParent(o)
        \/ KeepOldPath(o)
    \/ EndStep
    \/ TimeOut

Spec == Init /\ [][Next]_vars
-------------------------------------------------------------------------------
AdjustedCosts == [o \in Ops(task) |-> AdjustedCost(o)]

IsOptimum(cost, length) ==
    \A x \in GoalCosts(task, AdjustedCosts, task.init) :
        cost < x[2] \/ (cost = x[2] /\ length <= x[3])

TotalCost(ops) ==
    LET sum[n \in 0 .. Len(ops)] == IF n = 0 THEN 0 ELSE sum[n - 1] + AdjustedCost(ops[n])
    IN  sum[Len(ops)]

(* The states along a sequence of operators.                               *)
StatesAlong(ops) ==
    LET state[n \in 0 .. Len(ops)] ==
            IF n = 0 THEN task.init
            ELSE IF ops[n] \in Ops(task) THEN ReferenceSuccessor(task, ops[n], state[n - 1])
            ELSE state[n - 1]
    IN  state

IsPlan(ops) ==
    LET state == StatesAlong(ops)
    IN  /\ \A n \in 1 .. Len(ops) :
            ops[n] \in Ops(task) /\ IsApplicable(task, ops[n], state[n - 1])
        /\ IsGoalState(task, state[Len(ops)])

(* Without symmetries and axioms, and with operators that are applicable,  *)
(* plans need not be repaired when they are traced.                        *)
IsPlain(p) ==
    /\ IsTask(p.task) /\ p.task.layers = <<>>
    /\ p.symmetries = "NONE"
    /\ \A s \in States(p.task) : \A o \in Range(p.kept[s]) : IsApplicable(p.task, o, s)

(* The estimates are no more than what any plan from the state costs.      *)
IsAdmissible(p) ==
    \A s \in States(p.task) : \A x \in GoalCosts(p.task, OperatorCosts(p.task), s) :
        p.estimate[s] <= x[2] /\ (p.lazy => p.improved[s] <= x[2])

(* The textbook search: real costs, reopening, nothing pruned.             *)
IsClassic(p) ==
    /\ IsPlain(p) /\ IsAdmissible(p)
    /\ p.cost_type = "NORMAL" /\ p.reopen_closed
    /\ \A s \in States(p.task) : \A o \in Ops(p.task) :
            IsApplicable(p.task, o, s) => o \in Range(p.kept[s])

(* A plan that is set, whatever happens after it, is a plan of the task.   *)
(* With reopening it is a cheapest one, and the plan of the shortest       *)
(* search has the fewest operators among the cheapest, with any admissible *)
(* estimates, however inconsistent, with symmetries and with pruning.      *)
(* (Bounds are about real costs: with adjusted costs, the plans that are   *)
(* cheaper may be above the bound.)                                        *)
FindsCheapestPlan ==
    \A p \in plan :
        /\ IsPlan(p)
        /\ problem.reopen_closed /\ (problem.bound = INFTY \/ problem.cost_type = "NORMAL")
              => IsOptimum(TotalCost(p), IF problem.shortest THEN Len(p) ELSE 0)

(* The search gives up only on tasks without a plan below the bound.       *)
(* (With adjusted costs, or without reopening, a plan below the bound may  *)
(* be missed.)                                                             *)
GivesUpOnlyWithoutPlan ==
    (/\ status = "FAILED"
     /\ \/ problem.bound = INFTY
        \/ problem.reopen_closed /\ problem.cost_type = "NORMAL")
        => \A x \in GoalCosts(task, AdjustedCosts, task.init) :
               x[2] >= problem.bound

(* Entries are never removed when a node gets a better path, they only     *)
(* become stale: an open node must have one entry for what it is now,      *)
(* unless it is known to be a dead end.                                    *)
OpenNodesAreQueued ==
    problem.reopen_closed =>
        \A id \in DOMAIN nodes : nodes[id].status = "OPEN" /\ estimates[id] # INFTY =>
            \E i \in DOMAIN open_list :
                /\ open_list[i].id = id
                /\ open_list[i].key = Key(nodes[id].g, nodes[id].d, estimates[id])

IsWorse(old, new) == new.g > old.g \/ (problem.shortest /\ new.g = old.g /\ new.d > old.d)

(* The operators of a closed node that were followed: not those that are   *)
(* still to come when it is the one that is expanded.                      *)
Followed(id) ==
    Range(problem.kept[registry[id]]) \ (IF id = node THEN Range(applicable_ops) ELSE {})

(* Within the bound, the successor of a node by an operator is known, and  *)
(* it is a dead end or not worse than by this edge.                        *)
IsRelaxed(id, o) ==
    nodes[id].real_g + Cost(o) < problem.bound =>
        \E succ \in DOMAIN nodes :
            /\ registry[succ] = Representative(Successor(task, o, registry[id]))
            /\ nodes[succ].status # "NEW"
            /\ nodes[succ].status # "DEAD_END" =>
                  ~IsWorse(NodeReachedBy("OPEN", id, nodes[id], o, Cost(o), AdjustedCost(o)),
                           nodes[succ])

(* With reopening, no path through a closed node is better than what is    *)
(* known of the state it leads to, however often and in whatever order the *)
(* nodes on it were opened again.                                          *)
ClosedNodesAreRelaxed ==
    problem.reopen_closed =>
        \A id \in DOMAIN nodes :
            nodes[id].status = "CLOSED" /\ ~IsGoalState(task, registry[id]) =>
                \A o \in Followed(id) : IsRelaxed(id, o)

(* What is known of a state only gets better: no cost or length grows, a   *)
(* dead end stays one, and a node is taken back from the closed ones only  *)
(* for a path that is better.  Nothing can then be reopened forever, also  *)
(* not around a cycle of operators that cost nothing.                      *)
IsSame(old, new) == new.g = old.g /\ (problem.shortest => new.d = old.d)

NodesOnlyImprove ==
    [][\A id \in DOMAIN nodes :
          LET old == nodes[id]
              new == nodes'[id]
          IN  /\ old.status \in {"OPEN", "CLOSED"} => ~IsWorse(old, new)
              /\ old.status = "DEAD_END" => new = old
              /\ old.status = "CLOSED" /\ new.status # "CLOSED" => ~IsSame(old, new)]_vars
===============================================================================
