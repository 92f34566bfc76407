---------------------------- MODULE EagerSearchProofs ----------------------------
(***************************************************************************)
(* What the search promises when it reopens nodes: for every task, every   *)
(* group, every table of operators and of estimates, it keeps an entry for *)
(* each open node, forgets nothing it knows of a node, and closes nodes    *)
(* only with their successors settled.  From this follows that the goal    *)
(* node is a cheapest one, with any admissible estimates.  The parents of  *)
(* the nodes lead back to the initial state, so that what is traced from   *)
(* the goal node is a plan, and in the classic search a cheapest one.      *)
(***************************************************************************)
EXTENDS EagerSearch, TaskLemmas, SequenceTheorems, TLAPS
-------------------------------------------------------------------------------
Infos == [status : {"NEW", "OPEN", "CLOSED", "DEAD_END"}, g : Int, d : Int, real_g : Int,
          parent : Nat, op : {NoOperator} \cup Ops(task)]

Keys == IF problem.shortest THEN Int \X Int \X Int ELSE Int \X Int

Entries(ids) == [key : Keys, id : ids]

TypeInv ==
    /\ problem \in Problems
    /\ registry \in Seq(States(task))
    /\ nodes \in [DOMAIN registry -> Infos]
    /\ estimates \in [DOMAIN registry -> Int]
    /\ open_list \in Seq(Entries(DOMAIN registry))
    /\ node \in {NoState} \cup DOMAIN registry
    /\ applicable_ops \in Seq(Ops(task))

(* Every state is registered once, with DKS every orbit is.                *)
RegistryInv ==
    /\ IsInjective(registry)
    /\ problem.symmetries = "DKS" =>
          \A r1, r2 \in Range(registry) :
              Canonical(task, problem.group, r1) = Canonical(task, problem.group, r2)
                  => r1 = r2

(* What the steps of the search may rely on.                               *)
ControlInv ==
    /\ status \in {"INIT", "IN_PROGRESS", "EXPANDING", "SOLVED", "FAILED", "TIMEOUT"}
    /\ status = "INIT" => registry = <<>> /\ open_list = <<>>
    /\ status = "FAILED" => open_list = <<>>
    /\ status \in {"INIT", "IN_PROGRESS", "SOLVED", "FAILED"}
          => node = NoState /\ applicable_ops = <<>>
    /\ status = "EXPANDING" => node # NoState
    /\ node # NoState => /\ nodes[node].status = "CLOSED"
                         /\ Range(applicable_ops) \subseteq Range(problem.kept[registry[node]])

(* A node that was reached has numbers and an estimate; the cost of its    *)
(* path is the sum that is compared with the bound, unless costs are       *)
(* adjusted.  A goal node ends the search when it is closed.               *)
IsReached(info) == info.status \in {"OPEN", "CLOSED"}

NodeInv ==
    \A id \in DOMAIN registry :
        /\ IsReached(nodes[id]) =>
              /\ nodes[id].g \in Nat /\ nodes[id].d \in Nat
              /\ problem.cost_type = "NORMAL" => nodes[id].real_g = nodes[id].g
        /\ nodes[id].status # "NEW" => estimates[id] \in Evaluations(registry[id])
        /\ nodes[id].status = "DEAD_END" => estimates[id] = INFTY
        /\ nodes[id].status = "CLOSED" /\ IsGoalState(task, registry[id])
              => status \in {"SOLVED", "TIMEOUT"}

(* The initial node is reached at no cost, unless it is a dead end.        *)
StartsAt(id) ==
    /\ registry[id] = Representative(task.init)
    /\ nodes[id].status = "NEW" =>
          /\ estimates[id] = INFTY /\ INFTY \in Evaluations(registry[id])
          /\ open_list = <<>>
          /\ status \in {"IN_PROGRESS", "FAILED", "TIMEOUT"}
    /\ IsReached(nodes[id]) =>
          /\ nodes[id].g <= 0
          /\ problem.shortest => nodes[id].d <= 0

StartInv == status # "INIT" => \E id \in DOMAIN registry : StartsAt(id)

(* The key of an entry is no better than what is known of its node, and    *)
(* the entries come in the order of their keys.                            *)
KeyBounds(key, info) ==
    \/ key[1] > info.g
    \/ key[1] = info.g /\ (problem.shortest => key[2] >= info.d)

EntryInv ==
    \A i \in 1 .. Len(open_list) :
        LET info == nodes[open_list[i].id]
        IN  /\ info.status # "NEW"
            /\ IsReached(info) => KeyBounds(open_list[i].key, info)

Sorted(list) ==
    \A i, j \in 1 .. Len(list) : i < j => ~KeyLess(list[j].key, list[i].key)

SortedInv == Sorted(open_list)

IInv ==
    /\ TypeInv
    /\ RegistryInv
    /\ ControlInv
    /\ NodeInv
    /\ StartInv
    /\ EntryInv
    /\ SortedInv
    /\ OpenNodesAreQueued
    /\ ClosedNodesAreRelaxed
-------------------------------------------------------------------------------
(* What the assumption says of the problem that is solved.                 *)
LEMMA ProblemFacts ==
    ASSUME problem \in Problems
    PROVE  /\ INFTY \in Nat /\ problem.bound \in Nat /\ problem.bound <= INFTY
           /\ problem.cost_type \in {"NORMAL", "ONE", "PLUSONE"}
           /\ problem.symmetries \in {"NONE", "OSS", "DKS"}
           /\ problem.shortest \in BOOLEAN /\ problem.reopen_closed \in BOOLEAN
           /\ problem.lazy \in BOOLEAN
           /\ problem.kept \in [States(task) -> Seq(Ops(task))]
           /\ task.init \in States(task)
BY EagerSearchAssumption DEF task

(* Costs are numbers, and without adjustment the real ones.                *)
LEMMA CostFacts ==
    ASSUME problem \in Problems, NEW o \in Ops(task)
    PROVE  /\ Cost(o) \in Nat /\ AdjustedCost(o) \in Nat
           /\ problem.cost_type = "NORMAL" => AdjustedCost(o) = Cost(o)
<1>1. Cost(o) \in Nat
    BY EagerSearchAssumption DEF task, Cost
<1>2. problem.cost_type \in {"NORMAL", "ONE", "PLUSONE"}
    BY ProblemFacts
<1> QED
    BY <1>1, <1>2 DEF AdjustedCost, CostIn, Cost

(* Evaluations are numbers.                                                *)
LEMMA EstimateFacts ==
    ASSUME problem \in Problems, NEW s \in States(task), NEW h \in Evaluations(s)
    PROVE  h \in Nat
BY EagerSearchAssumption DEF task, Evaluations

(* The successor by an operator that is kept is a state.                   *)
LEMMA SuccessorFacts ==
    ASSUME problem \in Problems, NEW s \in States(task), NEW o \in Range(problem.kept[s])
    PROVE  o \in Ops(task) /\ Successor(task, o, s) \in States(task)
<1>1. PICK i \in DOMAIN problem.kept[s] : o = problem.kept[s][i]
    BY DEF Range
<1>2. problem.kept[s] \in Seq(Ops(task))
    BY ProblemFacts
<1>3. o \in Ops(task)
    BY <1>1, <1>2, ElementOfSeq, LenProperties
<1>4. Successor(task, problem.kept[s][i], s) \in States(task)
    BY EagerSearchAssumption DEF task
<1> QED
    BY <1>1, <1>3, <1>4

(* The state under which a state is registered is a state; for DKS it is   *)
(* the state itself unless one of its orbit is registered.                 *)
LEMMA RepresentativeFacts ==
    ASSUME TypeInv, NEW s \in States(task)
    PROVE  /\ Representative(s) \in States(task)
           /\ problem.symmetries = "DKS" =>
                \/ /\ Representative(s) \in Range(registry)
                   /\ Canonical(task, problem.group, Representative(s))
                        = Canonical(task, problem.group, s)
                \/ /\ Representative(s) = s
                   /\ \A r \in Range(registry) :
                        Canonical(task, problem.group, r) # Canonical(task, problem.group, s)
<1>1. Range(registry) \subseteq States(task)
    BY ElementOfSeq, LenProperties DEF TypeInv, Range
<1>2. Canonical(task, problem.group, s) \in States(task)
    BY EagerSearchAssumption DEF TypeInv, task
<1>3. CASE problem.symmetries = "OSS"
    BY <1>2, <1>3 DEF Representative
<1>4. CASE problem.symmetries # "OSS" /\ problem.symmetries # "DKS"
    BY <1>4 DEF Representative
<1>5. CASE problem.symmetries = "DKS"
    <2> DEFINE Same == {r \in Range(registry) :
                Canonical(task, problem.group, r) = Canonical(task, problem.group, s)}
    <2>1. CASE Same = {}
        BY <1>5, <2>1 DEF Representative
    <2>2. CASE Same # {}
        <3>1. Representative(s) \in Same
            BY <1>5, <2>2 DEF Representative
        <3> QED
            BY <1>1, <3>1
    <2> QED
        BY <2>1, <2>2
<1> QED
    BY <1>3, <1>4, <1>5

(* Once it is registered, a state stays registered under the same state.   *)
LEMMA RepresentativeStays ==
    ASSUME TypeInv, RegistryInv', problem' = problem, Range(registry) \subseteq Range(registry'),
           NEW s \in States(task), Representative(s) \in Range(registry')
    PROVE  Representative(s)' = Representative(s)
<1>1. task' = task
    BY DEF task
<1>2. CASE problem.symmetries # "DKS"
    BY <1>1, <1>2 DEF Representative
<1>3. CASE problem.symmetries = "DKS"
    <2> DEFINE C(r) == Canonical(task, problem.group, r)
    <2>1. Representative(s) \in Range(registry') /\ C(Representative(s)) = C(s)
        BY <1>3, RepresentativeFacts
    <2>2. Representative(s)' \in Range(registry') /\ C(Representative(s)') = C(s)
        <3> DEFINE Same == {r \in Range(registry') : C(r) = C(s)}
        <3>1. Same # {}
            BY <2>1
        <3>2. Representative(s)' \in Same
            BY <1>1, <1>3, <3>1 DEF Representative
        <3> QED
            BY <3>2
    <2>3. \A r1, r2 \in Range(registry') : C(r1) = C(r2) => r1 = r2
        BY <1>1, <1>3 DEF RegistryInv
    <2> QED
        BY <2>1, <2>2, <2>3
<1> QED
    BY <1>2, <1>3

(* A state is registered at the end, unless it is known.                   *)
Registers(new, reg, s, id) ==
    /\ DOMAIN reg \subseteq DOMAIN new
    /\ \A i \in DOMAIN reg : new[i] = reg[i]
    /\ Range(new) = Range(reg) \cup {s}
    /\ id \in DOMAIN new /\ new[id] = s
    /\ DOMAIN new = DOMAIN reg \cup {id}
    /\ s \in Range(reg) => new = reg

(* Registering adds the state under a new number unless it is known.       *)
LEMMA RegisterFacts ==
    ASSUME NEW S, NEW reg \in Seq(S), IsInjective(reg), NEW s \in S
    PROVE  /\ Register(reg, s) \in Seq(S) /\ IsInjective(Register(reg, s))
           /\ Registers(Register(reg, s), reg, s, StateId(Register(reg, s), s))
<1> DEFINE new == Register(reg, s)
           n == Len(reg)
           k == StateId(new, s)
<1>1. n \in Nat /\ DOMAIN reg = 1 .. n
    BY LenProperties
<1>2. CASE s \in Range(reg)
    <2>1. new = reg
        BY <1>2 DEF Register
    <2>2. k \in DOMAIN reg /\ reg[k] = s
        BY <1>2, <2>1 DEF StateId, Range
    <2> HIDE DEF new, k
    <2> QED
        BY <1>2, <2>1, <2>2 DEF new, k, Registers
<1>3. CASE s \notin Range(reg)
    <2>1. new = Append(reg, s)
        BY <1>3 DEF Register
    <2>2. /\ new \in Seq(S) /\ Len(new) = n + 1 /\ DOMAIN new = 1 .. n + 1
          /\ \A i \in 1 .. n : new[i] = reg[i]
          /\ new[n + 1] = s
        BY <1>1, <2>1, AppendProperties, LenProperties
    <2>3. \A i \in 1 .. n : reg[i] # s
        BY <1>1, <1>3 DEF Range
    <2> HIDE DEF new
    <2>4. k = n + 1
        <3>1. n + 1 \in DOMAIN new /\ \A i \in DOMAIN new : new[i] = s => i = n + 1
            BY <1>1, <2>2, <2>3
        <3> QED
            BY <2>2, <3>1 DEF StateId
    <2>5. IsInjective(new)
        BY <1>1, <2>2, <2>3 DEF IsInjective
    <2>6. Range(new) = Range(reg) \cup {s}
        BY <1>1, <2>2 DEF Range
    <2>7. DOMAIN new = DOMAIN reg \cup {n + 1}
        BY <1>1, <2>2
    <2> HIDE DEF k
    <2>8. new \in Seq(S) /\ DOMAIN reg \subseteq DOMAIN new
          /\ \A i \in DOMAIN reg : new[i] = reg[i]
        BY <1>1, <2>2
    <2>9. k \in DOMAIN new /\ new[k] = s /\ DOMAIN new = DOMAIN reg \cup {k}
        BY <1>1, <2>2, <2>4, <2>7
    <2> QED
        BY <1>3, <2>5, <2>6, <2>8, <2>9 DEF new, k, Registers
<1> QED
    BY <1>2, <1>3
-------------------------------------------------------------------------------
(* Keys are ordered component by component.                                *)
LEMMA KeyOrder ==
    ASSUME problem \in Problems, NEW k1 \in Keys, NEW k2 \in Keys
    PROVE  KeyLess(k1, k2) <=>
              \/ k1[1] < k2[1]
              \/ k1[1] = k2[1] /\ k1[2] < k2[2]
              \/ problem.shortest /\ k1[1] = k2[1] /\ k1[2] = k2[2] /\ k1[3] < k2[3]
<1>1. CASE problem.shortest
    <2>1. k1 \in Int \X Int \X Int /\ k2 \in Int \X Int \X Int
        BY <1>1 DEF Keys
    <2>2. DOMAIN k1 = {1, 2, 3}
        BY <2>1
    <2>3. 1 .. 1 - 1 = {} /\ 1 .. 2 - 1 = {1} /\ 1 .. 3 - 1 = {1, 2}
        OBVIOUS
    <2> QED
        BY <1>1, <2>2, <2>3 DEF KeyLess
<1>2. CASE ~problem.shortest
    <2>1. k1 \in Int \X Int /\ k2 \in Int \X Int
        BY <1>2 DEF Keys
    <2>2. DOMAIN k1 = {1, 2}
        BY <2>1
    <2>3. 1 .. 1 - 1 = {} /\ 1 .. 2 - 1 = {1}
        OBVIOUS
    <2> QED
        BY <1>2, <2>2, <2>3 DEF KeyLess
<1> QED
    BY <1>1, <1>2

(* Keys consist of numbers.                                                *)
LEMMA KeyParts ==
    ASSUME NEW k \in Keys
    PROVE  k[1] \in Int /\ k[2] \in Int /\ (problem.shortest => k[3] \in Int)
BY DEF Keys

(* The order of keys is asymmetric, and not being less is transitive.      *)
LEMMA KeyOrderIsTotal ==
    ASSUME problem \in Problems, NEW a \in Keys, NEW b \in Keys, NEW c \in Keys
    PROVE  /\ KeyLess(a, b) => ~KeyLess(b, a)
           /\ ~KeyLess(a, b) /\ ~KeyLess(b, c) => ~KeyLess(a, c)
<1>1. /\ a[1] \in Int /\ a[2] \in Int /\ (problem.shortest => a[3] \in Int)
      /\ b[1] \in Int /\ b[2] \in Int /\ (problem.shortest => b[3] \in Int)
      /\ c[1] \in Int /\ c[2] \in Int /\ (problem.shortest => c[3] \in Int)
    BY KeyParts
<1> QED
    BY <1>1, KeyOrder

(* What Key makes is a key, and its first parts are f and d.               *)
LEMMA KeyIsKey ==
    ASSUME problem \in Problems, NEW g \in Int, NEW d \in Int, NEW h \in Int
    PROVE  /\ Key(g, d, h) \in Keys
           /\ Key(g, d, h)[1] = g + h
           /\ problem.shortest => Key(g, d, h)[2] = d
BY DEF Key, Keys

(* An entry is added to a list.                                            *)
Adds(new, list, entry) ==
    /\ \A i \in 1 .. Len(list) : \E j \in 1 .. Len(new) : new[j] = list[i]
    /\ \E j \in 1 .. Len(new) : new[j] = entry
    /\ \A j \in 1 .. Len(new) : new[j] = entry \/ \E i \in 1 .. Len(list) : new[j] = list[i]

(* An entry is inserted after those with the same key and before the rest. *)
LEMMA InsertFacts ==
    ASSUME problem \in Problems, NEW Ids, NEW list \in Seq(Entries(Ids)),
           Sorted(list), NEW key \in Keys, NEW id \in Ids
    PROVE  /\ Insert(list, key, id) \in Seq(Entries(Ids))
           /\ Insert(list, key, id) # <<>>
           /\ Adds(Insert(list, key, id), list, [key |-> key, id |-> id])
           /\ Sorted(Insert(list, key, id))
<1> DEFINE e == [key |-> key, id |-> id]
           n == Len(list)
           later == {i \in DOMAIN list : KeyLess(key, list[i].key)}
           p == Min(later \cup {n + 1})
           new == Insert(list, key, id)
<1>1. n \in Nat /\ DOMAIN list = 1 .. n
    BY LenProperties
<1>2. \A i \in 1 .. n : list[i] \in Entries(Ids) /\ list[i].key \in Keys
    <2>1. \A i \in 1 .. n : list[i] \in Entries(Ids)
        BY ElementOfSeq
    <2> QED
        BY <2>1 DEF Entries
<1>3. e \in Entries(Ids)
    BY DEF Entries
<1>4. /\ p \in 1 .. n + 1
      /\ \A i \in 1 .. n : i < p => ~KeyLess(key, list[i].key)
      /\ p <= n => KeyLess(key, list[p].key)
    <2> DEFINE S == later \cup {n + 1}
    <2>1. S \in SUBSET Nat /\ S \subseteq 1 .. n + 1 /\ S # {}
        BY <1>1
    <2>2. PICK m \in S : \A i \in S : m <= i
        <3> HIDE DEF S
        <3> QED
            BY <2>1, SmallestNumber
    <2>3. Min(S) = m
        <3> HIDE DEF S
        <3> QED
            BY <2>1, <2>2, MinIsLeast
    <2>4. p = m
        BY <2>3
    <2>5. m \in 1 .. n + 1
        BY <2>1
    <2>6. \A i \in 1 .. n : i < m => ~KeyLess(key, list[i].key)
        <3> SUFFICES ASSUME NEW i \in 1 .. n, i < m, KeyLess(key, list[i].key)
                     PROVE  FALSE
            OBVIOUS
        <3>1. i \in S
            BY <1>1
        <3>2. m <= i
            BY <2>2, <3>1
        <3> QED
            BY <2>5, <3>2
    <2>7. m <= n => KeyLess(key, list[m].key)
        <3>1. m \in later \/ m = n + 1
            OBVIOUS
        <3> QED
            BY <1>1, <3>1
    <2> HIDE DEF p, S
    <2> QED
        BY <2>4, <2>5, <2>6, <2>7
<1> HIDE DEF p, later
<1>5. new = SubSeq(list, 1, p - 1) \o <<e>> \o SubSeq(list, p, n)
    BY DEF Insert, InsertAt, p, later
<1>6. /\ new \in Seq(Entries(Ids))
      /\ Len(new) = n + 1
      /\ \A i \in 1 .. n + 1 : new[i] = IF i < p THEN list[i]
                                        ELSE IF i = p THEN e ELSE list[i - 1]
    <2>1. /\ SubSeq(list, 1, p - 1) \in Seq(Entries(Ids))
          /\ Len(SubSeq(list, 1, p - 1)) = p - 1
          /\ \A i \in 1 .. p - 1 : SubSeq(list, 1, p - 1)[i] = list[i]
        BY <1>1, <1>2, <1>4
    <2>2. /\ SubSeq(list, p, n) \in Seq(Entries(Ids))
          /\ Len(SubSeq(list, p, n)) = n + 1 - p
          /\ \A i \in 1 .. n + 1 - p : SubSeq(list, p, n)[i] = list[p + i - 1]
        BY <1>1, <1>2, <1>4
    <2>3. e \in Entries(Ids)
        BY <1>3
    <2> DEFINE front == SubSeq(list, 1, p - 1)
               back == SubSeq(list, p, n)
    <2> HIDE DEF front, back, e
    <2>4. <<e>> \in Seq(Entries(Ids)) /\ Len(<<e>>) = 1 /\ <<e>>[1] = e
        BY <2>3
    <2>5. /\ front \in Seq(Entries(Ids)) /\ Len(front) = p - 1
          /\ \A i \in 1 .. p - 1 : front[i] = list[i]
        BY <2>1 DEF front
    <2>6. /\ back \in Seq(Entries(Ids)) /\ Len(back) = n + 1 - p
          /\ \A i \in 1 .. n + 1 - p : back[i] = list[p + i - 1]
        BY <2>2 DEF back
    <2>7. /\ front \o <<e>> \in Seq(Entries(Ids))
          /\ Len(front \o <<e>>) = p
          /\ \A i \in 1 .. p : (front \o <<e>>)[i] = IF i < p THEN list[i] ELSE e
        <3>1. /\ front \o <<e>> \in Seq(Entries(Ids))
              /\ Len(front \o <<e>>) = Len(front) + Len(<<e>>)
              /\ \A i \in 1 .. Len(front) + Len(<<e>>) : (front \o <<e>>)[i]
                    = IF i <= Len(front) THEN front[i] ELSE <<e>>[i - Len(front)]
            BY <2>4, <2>5, ConcatProperties
        <3>2. p \in Nat /\ Len(front) + Len(<<e>>) = p
            BY <1>1, <1>4, <2>4, <2>5
        <3> HIDE DEF p
        <3> QED
            BY <2>4, <2>5, <3>1, <3>2
    <2> DEFINE both == front \o <<e>>
    <2> HIDE DEF both
    <2>8. /\ both \o back \in Seq(Entries(Ids))
          /\ Len(both \o back) = n + 1
          /\ \A i \in 1 .. n + 1 : (both \o back)[i] = IF i <= p THEN both[i] ELSE back[i - p]
        <3>1. both \in Seq(Entries(Ids)) /\ Len(both) = p
            BY <2>7 DEF both
        <3>2. /\ both \o back \in Seq(Entries(Ids))
              /\ Len(both \o back) = Len(both) + Len(back)
              /\ \A i \in 1 .. Len(both) + Len(back) : (both \o back)[i]
                    = IF i <= Len(both) THEN both[i] ELSE back[i - Len(both)]
            BY <2>6, <3>1, ConcatProperties
        <3>3. Len(both) + Len(back) = n + 1
            BY <1>1, <1>4, <2>6, <3>1
        <3> QED
            BY <3>1, <3>2, <3>3
    <2>9. \A i \in 1 .. n + 1 : i > p => back[i - p] = list[i - 1]
        <3> SUFFICES ASSUME NEW i \in 1 .. n + 1, i > p
                     PROVE  back[i - p] = list[i - 1]
            OBVIOUS
        <3>1. i - p \in 1 .. n + 1 - p /\ p + (i - p) - 1 = i - 1
            BY <1>1, <1>4
        <3> QED
            BY <2>6, <3>1
    <2>10. new = both \o back
        BY <1>5 DEF both, front, back
    <2>11. \A i \in 1 .. n + 1 : new[i] = IF i < p THEN list[i]
                                         ELSE IF i = p THEN e ELSE list[i - 1]
        <3> SUFFICES ASSUME NEW i \in 1 .. n + 1
                     PROVE  new[i] = IF i < p THEN list[i]
                                     ELSE IF i = p THEN e ELSE list[i - 1]
            OBVIOUS
        <3>1. CASE i <= p
            <4>1. new[i] = both[i] /\ i \in 1 .. p
                BY <1>1, <1>4, <2>8, <2>10, <3>1
            <4>2. both[i] = IF i < p THEN list[i] ELSE e
                BY <2>7, <4>1 DEF both
            <4> QED
                BY <1>1, <1>4, <3>1, <4>1, <4>2
        <3>2. CASE i > p
            <4>1. new[i] = back[i - p]
                BY <1>1, <1>4, <2>8, <2>10, <3>2
            <4> QED
                BY <1>1, <1>4, <2>9, <3>2, <4>1
        <3> QED
            BY <1>1, <1>4, <3>1, <3>2
    <2> QED
        BY <2>8, <2>10, <2>11
<1> HIDE DEF new
<1>7. \A i \in 1 .. n : \E j \in 1 .. n + 1 : new[j] = list[i]
    <2> SUFFICES ASSUME NEW i \in 1 .. n
                 PROVE  \E j \in 1 .. n + 1 : new[j] = list[i]
        OBVIOUS
    <2>1. CASE i < p
        BY <1>1, <1>6, <2>1
    <2>2. CASE i >= p
        <3>1. new[i + 1] = list[i]
            BY <1>1, <1>4, <1>6, <2>2
        <3> QED
            BY <1>1, <3>1
    <2> QED
        BY <1>1, <1>4, <2>1, <2>2
<1>8. new[p] = e
    BY <1>1, <1>4, <1>6
<1>9. \A j \in 1 .. n + 1 : new[j] = e \/ \E i \in 1 .. n : new[j] = list[i]
    <2> SUFFICES ASSUME NEW j \in 1 .. n + 1, j # p
                 PROVE  \E i \in 1 .. n : new[j] = list[i]
        BY <1>8
    <2>1. CASE j < p
        BY <1>1, <1>4, <1>6, <2>1
    <2>2. CASE j > p
        <3>1. new[j] = list[j - 1] /\ j - 1 \in 1 .. n
            BY <1>1, <1>4, <1>6, <2>2
        <3> QED
            BY <3>1
    <2> QED
        BY <1>1, <1>4, <2>1, <2>2
<1>10. Sorted(new)
    <2> SUFFICES ASSUME NEW i \in 1 .. n + 1, NEW j \in 1 .. n + 1, i < j
                 PROVE  ~KeyLess(new[j].key, new[i].key)
        BY <1>6 DEF Sorted
    <2>1. CASE j < p
        <3>1. new[i] = list[i] /\ new[j] = list[j]
            BY <1>1, <1>4, <1>6, <2>1
        <3>2. i \in 1 .. n /\ j \in 1 .. n
            BY <1>1, <1>4, <2>1
        <3> QED
            BY <3>1, <3>2 DEF Sorted
    <2>2. CASE j = p
        <3>1. new[i] = list[i] /\ new[j] = e /\ i \in 1 .. n /\ i < p
            BY <1>1, <1>4, <1>6, <2>2
        <3> QED
            BY <1>4, <3>1
    <2>3. CASE j > p
        <3>1. new[j] = list[j - 1] /\ j - 1 \in 1 .. n /\ p <= j - 1
            BY <1>1, <1>4, <1>6, <2>3
        <3>2. CASE i = p
            <4>1. new[i] = e /\ p <= n /\ p \in 1 .. n
                BY <1>1, <1>4, <1>6, <3>1, <3>2
            <4>2. ~KeyLess(list[p].key, key)
                BY <1>2, <1>4, <4>1, KeyOrderIsTotal
            <4>3. CASE j - 1 = p
                BY <3>1, <4>1, <4>2, <4>3
            <4>4. CASE p < j - 1
                <5>1. ~KeyLess(list[j - 1].key, list[p].key)
                    BY <3>1, <4>1, <4>4 DEF Sorted
                <5>2. ~KeyLess(list[j - 1].key, key)
                    BY <1>2, <3>1, <4>1, <4>2, <5>1, KeyOrderIsTotal
                <5> QED
                    BY <3>1, <4>1, <5>2
            <4> QED
                BY <1>1, <1>4, <3>1, <4>3, <4>4
        <3>3. CASE i < p
            <4>1. new[i] = list[i] /\ i \in 1 .. n /\ i < j - 1
                BY <1>1, <1>4, <1>6, <3>1, <3>3
            <4> QED
                BY <3>1, <4>1 DEF Sorted
        <3>4. CASE i > p
            <4>1. new[i] = list[i - 1] /\ i - 1 \in 1 .. n /\ i - 1 < j - 1
                BY <1>1, <1>4, <1>6, <3>4
            <4> QED
                BY <3>1, <4>1 DEF Sorted
        <3> QED
            BY <1>4, <3>2, <3>3, <3>4
    <2> QED
        BY <1>4, <2>1, <2>2, <2>3
<1>11. new # <<>>
    BY <1>1, <1>6
<1> QED
    BY <1>1, <1>4, <1>6, <1>7, <1>8, <1>9, <1>10, <1>11 DEF new, Adds

(* The first entry is taken.                                               *)
LEMMA TailFacts ==
    ASSUME NEW Ids, NEW list \in Seq(Entries(Ids)), Sorted(list), list # <<>>
    PROVE  /\ Len(list) \in Nat /\ Len(list) > 0
           /\ Head(list) = list[1] /\ Head(list) \in Entries(Ids)
           /\ Tail(list) \in Seq(Entries(Ids))
           /\ Len(Tail(list)) = Len(list) - 1
           /\ \A i \in 1 .. Len(list) - 1 : Tail(list)[i] = list[i + 1]
           /\ Sorted(Tail(list))
           /\ \A i \in 1 .. Len(list) : i # 1 => ~KeyLess(list[i].key, Head(list).key)
<1>1. /\ Len(list) \in Nat /\ Len(list) > 0
      /\ Head(list) = list[1] /\ Head(list) \in Entries(Ids)
      /\ Tail(list) \in Seq(Entries(Ids))
      /\ Len(Tail(list)) = Len(list) - 1
      /\ \A i \in 1 .. Len(list) - 1 : Tail(list)[i] = list[i + 1]
    <2>1. list \in Seq(Entries(Ids))
        OBVIOUS
    <2>2. Len(list) \in Nat /\ Len(list) > 0 /\ Head(list) = list[1]
        BY <2>1
    <2>3. /\ Head(list) \in Entries(Ids)
          /\ Tail(list) \in Seq(Entries(Ids))
          /\ Len(Tail(list)) = Len(list) - 1
          /\ \A i \in 1 .. Len(Tail(list)) : Tail(list)[i] = list[i + 1]
        BY <2>1, HeadTailProperties
    <2> QED
        BY <2>2, <2>3
<1>2. Sorted(Tail(list))
    <2> SUFFICES ASSUME NEW i \in 1 .. Len(list) - 1, NEW j \in 1 .. Len(list) - 1, i < j
                 PROVE  ~KeyLess(Tail(list)[j].key, Tail(list)[i].key)
        BY <1>1 DEF Sorted
    <2>1. i + 1 \in 1 .. Len(list) /\ j + 1 \in 1 .. Len(list) /\ i + 1 < j + 1
        BY <1>1
    <2> QED
        BY <1>1, <2>1 DEF Sorted
<1>3. \A i \in 1 .. Len(list) : i # 1 => ~KeyLess(list[i].key, Head(list).key)
    <2> SUFFICES ASSUME NEW i \in 1 .. Len(list), i # 1
                 PROVE  ~KeyLess(list[i].key, list[1].key)
        BY <1>1
    <2>1. 1 \in 1 .. Len(list) /\ 1 < i
        BY <1>1
    <2> QED
        BY <2>1 DEF Sorted
<1> QED
    BY <1>1, <1>2, <1>3
-------------------------------------------------------------------------------
(* What is known of a node never gets worse.                               *)
NoWorse(old, new) ==
    /\ old.status # "NEW" => new.status # "NEW"
    /\ old.status = "DEAD_END" => new = old
    /\ IsReached(old) => ~IsWorse(old, new)
    /\ old.status = "CLOSED" /\ new.status # "CLOSED" => ~IsSame(old, new)
    /\ old.status = "CLOSED" /\ new.status = "CLOSED" /\ problem.reopen_closed => new = old

Extends ==
    /\ problem' = problem
    /\ DOMAIN registry \subseteq DOMAIN registry'
    /\ \A i \in DOMAIN registry : registry'[i] = registry[i]
    /\ \A i \in DOMAIN registry : NoWorse(nodes[i], nodes'[i])

(* A node that does not change gets no worse.                              *)
LEMMA NoWorseThanItself ==
    ASSUME NEW info, info.g \in Int, info.d \in Int
    PROVE  NoWorse(info, info)
BY DEF NoWorse, IsWorse, IsReached

(* What the types say of each node, state and entry.                       *)
LEMMA TypeFacts ==
    ASSUME TypeInv
    PROVE  /\ DOMAIN registry = 1 .. Len(registry) /\ Len(registry) \in Nat
           /\ DOMAIN nodes = DOMAIN registry
           /\ \A i \in DOMAIN registry :
                /\ registry[i] \in States(task)
                /\ nodes[i] \in Infos
                /\ nodes[i].g \in Int /\ nodes[i].d \in Int /\ nodes[i].real_g \in Int
                /\ estimates[i] \in Int
           /\ Range(registry) \subseteq States(task)
           /\ \A i \in 1 .. Len(open_list) :
                /\ open_list[i] \in Entries(DOMAIN registry)
                /\ open_list[i].key \in Keys /\ open_list[i].id \in DOMAIN registry
<1>1. DOMAIN registry = 1 .. Len(registry) /\ Len(registry) \in Nat
    BY LenProperties DEF TypeInv
<1>2. \A i \in DOMAIN registry : registry[i] \in States(task)
    BY <1>1, ElementOfSeq DEF TypeInv
<1>3. \A i \in DOMAIN registry : nodes[i] \in Infos /\ estimates[i] \in Int
    BY DEF TypeInv
<1>4. \A info \in Infos : info.g \in Int /\ info.d \in Int /\ info.real_g \in Int
    BY DEF Infos
<1>5. \A i \in 1 .. Len(open_list) : open_list[i] \in Entries(DOMAIN registry)
    BY ElementOfSeq DEF TypeInv
<1> QED
    BY <1>1, <1>2, <1>3, <1>4, <1>5 DEF TypeInv, Range, Entries

(* An edge that is relaxed stays relaxed.                                  *)
LEMMA RelaxedStays ==
    ASSUME TypeInv, TypeInv', RegistryInv', Extends,
           NEW id \in DOMAIN registry, nodes'[id] = nodes[id],
           NEW o \in Range(problem.kept[registry[id]]), IsRelaxed(id, o)
    PROVE  IsRelaxed(id, o)'
<1>1. task' = task /\ problem' = problem /\ registry'[id] = registry[id]
    BY DEF task, Extends
<1>2. registry[id] \in States(task) /\ o \in Ops(task)
      /\ Successor(task, o, registry[id]) \in States(task)
    BY TypeFacts, SuccessorFacts DEF TypeInv
<1>3. Cost(o)' = Cost(o) /\ AdjustedCost(o)' = AdjustedCost(o)
    BY <1>1 DEF Cost, AdjustedCost
<1>4. SUFFICES ASSUME nodes[id].real_g + Cost(o) < problem.bound
               PROVE  \E succ \in DOMAIN nodes' :
                        /\ registry'[succ] = Representative(Successor(task, o, registry[id]))'
                        /\ nodes'[succ].status # "NEW"
                        /\ nodes'[succ].status # "DEAD_END" =>
                              ~IsWorse(NodeReachedBy("OPEN", id, nodes[id], o, Cost(o),
                                                     AdjustedCost(o)), nodes'[succ])
    BY <1>1, <1>3 DEF IsRelaxed, IsWorse
<1>5. PICK s \in States(task) : s = Successor(task, o, registry[id])
    BY <1>2
<1>6. Successor(task, o, registry[id])' = s
    BY <1>1, <1>5
<1>7. Representative(Successor(task, o, registry[id]))' = Representative(s)'
    BY <1>6 DEF Representative
<1> DEFINE via == NodeReachedBy("OPEN", id, nodes[id], o, Cost(o), AdjustedCost(o))
<1>8. PICK succ \in DOMAIN nodes :
            /\ registry[succ] = Representative(s)
            /\ nodes[succ].status # "NEW"
            /\ nodes[succ].status # "DEAD_END" => ~IsWorse(via, nodes[succ])
    BY <1>4, <1>5 DEF IsRelaxed
<1>9. /\ succ \in DOMAIN registry /\ succ \in DOMAIN registry' /\ succ \in DOMAIN nodes'
      /\ registry'[succ] = registry[succ]
    BY TypeFacts DEF TypeInv, Extends
<1>10. Representative(s)' = Representative(s)
    <2>1. Range(registry) \subseteq Range(registry')
        BY DEF Extends, Range
    <2>2. Representative(s) \in Range(registry')
        BY <1>8, <1>9 DEF Range
    <2> QED
        BY <1>1, <2>1, <2>2, RepresentativeStays
<1>11. NoWorse(nodes[succ], nodes'[succ])
    BY <1>9 DEF Extends
<1>12. nodes'[succ].status # "NEW"
    BY <1>8, <1>11 DEF NoWorse
<1>13. ASSUME nodes'[succ].status # "DEAD_END"
       PROVE  ~IsWorse(via, nodes'[succ])
    <2>1. nodes[succ].status # "DEAD_END"
        BY <1>11, <1>13 DEF NoWorse
    <2>2. nodes[succ].status \in {"NEW", "OPEN", "CLOSED", "DEAD_END"}
        BY <1>9, TypeFacts DEF Infos
    <2>3. ~IsWorse(via, nodes[succ]) /\ ~IsWorse(nodes[succ], nodes'[succ])
        BY <1>8, <1>11, <2>1, <2>2 DEF NoWorse, IsReached
    <2>4. nodes[succ].g \in Int /\ nodes[succ].d \in Int
        BY <1>9, TypeFacts
    <2>5. nodes'[succ].g \in Int /\ nodes'[succ].d \in Int
        BY <1>9 DEF TypeInv, Infos
    <2>6. via.g \in Int /\ via.d \in Int
        <3>1. AdjustedCost(o) \in Nat /\ nodes[id].g \in Int /\ nodes[id].d \in Int
            BY <1>2, CostFacts, TypeFacts DEF TypeInv
        <3> QED
            BY <3>1 DEF NodeReachedBy
    <2> HIDE DEF via
    <2> QED
        BY <2>3, <2>4, <2>5, <2>6 DEF IsWorse
<1> HIDE DEF via
<1> QED
    BY <1>5, <1>7, <1>8, <1>9, <1>10, <1>12, <1>13 DEF via
-------------------------------------------------------------------------------
(* What a node that was reached, or is a dead end, knows.                  *)
IsKnown(info, h) ==
    /\ info \in Infos
    /\ info.status # "NEW"
    /\ IsReached(info) =>
          /\ info.g \in Nat /\ info.d \in Nat
          /\ problem.cost_type = "NORMAL" => info.real_g = info.g
    /\ info.status = "DEAD_END" => h = INFTY

(* A step of the search is about one node, id: it gets info and the        *)
(* estimate h, and entries of it, listed no longer in list, are taken from *)
(* the open list.  If the node is open, it was so before, with the same    *)
(* entries, or it is inserted.                                             *)
NodeStep(id, info, h, list) ==
    /\ open_list # <<>> \/ status = "EXPANDING"
    /\ DOMAIN registry' = DOMAIN registry \cup {id}
    /\ h \in Evaluations(registry'[id])
    /\ IsKnown(info, h)
    /\ id \in DOMAIN registry => NoWorse(nodes[id], info)
    /\ nodes' = [i \in DOMAIN registry' |-> IF i = id THEN info ELSE nodes[i]]
    /\ estimates' = [i \in DOMAIN registry' |-> IF i = id THEN h ELSE estimates[i]]
    /\ list \in Seq(Entries(DOMAIN registry'))
    /\ Sorted(list)
    /\ \A j \in 1 .. Len(list) : \E i \in 1 .. Len(open_list) : list[j] = open_list[i]
    /\ \A i \in 1 .. Len(open_list) :
          open_list[i].id # id => \E j \in 1 .. Len(list) : list[j] = open_list[i]
    /\ \/ /\ open_list' = list
          /\ problem.reopen_closed /\ info.status = "OPEN" /\ h # INFTY =>
                /\ list = open_list
                /\ id \in DOMAIN registry /\ nodes[id] = info /\ estimates[id] = h
       \/ /\ info.status = "OPEN"
          /\ h # INFTY
          /\ open_list' = Insert(list, Key(info.g, info.d, h), id)

(* The registry is kept, or grows.                                         *)
RegistryGrows ==
    /\ problem' = problem
    /\ registry' \in Seq(States(task))
    /\ DOMAIN registry \subseteq DOMAIN registry'
    /\ \A i \in DOMAIN registry : registry'[i] = registry[i]
    /\ RegistryInv'

Queues(id, info, h, list) ==
    \/ /\ open_list' = list
       /\ problem.reopen_closed /\ info.status = "OPEN" /\ h # INFTY =>
             /\ list = open_list
             /\ id \in DOMAIN registry /\ nodes[id] = info /\ estimates[id] = h
    \/ /\ info.g \in Nat /\ info.d \in Nat /\ h \in Nat /\ h # INFTY
       /\ Adds(open_list', list, [key |-> Key(info.g, info.d, h), id |-> id])

(* A step about one node keeps the types and the order of the entries.     *)
LEMMA NodeStepTypes ==
    ASSUME IInv, RegistryGrows, NEW id, NEW info, NEW h, NEW list,
           NodeStep(id, info, h, list),
           node' \in {NoState} \cup DOMAIN registry', applicable_ops' \in Seq(Ops(task))
    PROVE  /\ TypeInv' /\ Extends /\ SortedInv'
           /\ \A i \in DOMAIN registry' : i # id =>
                i \in DOMAIN registry /\ nodes'[i] = nodes[i] /\ estimates'[i] = estimates[i]
           /\ id \in DOMAIN registry' /\ nodes'[id] = info /\ estimates'[id] = h
           /\ Queues(id, info, h, list)
<1>1. /\ TypeInv /\ problem \in Problems /\ problem' = problem /\ task' = task
      /\ Infos' = Infos /\ Keys' = Keys
    BY DEF IInv, TypeInv, RegistryGrows, task, Infos, Keys
<1>2. /\ id \in DOMAIN registry'
      /\ \A i \in DOMAIN registry' : i # id => i \in DOMAIN registry
    BY DEF NodeStep
<1>3. registry'[id] \in States(task)
    BY <1>2, ElementOfSeq, LenProperties DEF RegistryGrows
<1>4. h \in Nat
    BY <1>1, <1>3, EstimateFacts DEF NodeStep
<1>5. /\ \A i \in DOMAIN registry' : i # id =>
            i \in DOMAIN registry /\ nodes'[i] = nodes[i] /\ estimates'[i] = estimates[i]
      /\ nodes'[id] = info /\ estimates'[id] = h
    BY <1>2 DEF NodeStep
<1>6. nodes' \in [DOMAIN registry' -> Infos]
    <2>1. \A i \in DOMAIN registry' : (IF i = id THEN info ELSE nodes[i]) \in Infos
        BY <1>1, <1>2, TypeFacts DEF NodeStep, IsKnown
    <2> QED
        BY <2>1 DEF NodeStep
<1>7. estimates' \in [DOMAIN registry' -> Int]
    <2>1. \A i \in DOMAIN registry' : (IF i = id THEN h ELSE estimates[i]) \in Int
        BY <1>1, <1>2, <1>4, TypeFacts
    <2> QED
        BY <2>1 DEF NodeStep
<1> DEFINE Ids == DOMAIN registry'
           key == Key(info.g, info.d, h)
<1>8. list \in Seq(Entries(Ids)) /\ Sorted(list)
    BY DEF NodeStep
<1>9. CASE /\ open_list' = list
           /\ problem.reopen_closed /\ info.status = "OPEN" /\ h # INFTY =>
                /\ list = open_list
                /\ id \in DOMAIN registry /\ nodes[id] = info /\ estimates[id] = h
    <2>1. open_list' \in Seq(Entries(Ids)) /\ SortedInv'
        <3> HIDE DEF Ids
        <3>1. open_list' \in Seq(Entries(Ids)) /\ Sorted(open_list')
            BY <1>8, <1>9
        <3> QED
            BY <3>1 DEF SortedInv, Sorted
    <2>2. TypeInv'
        BY <1>1, <1>6, <1>7, <2>1 DEF TypeInv, RegistryGrows, Entries
    <2>3. \A i \in DOMAIN registry : NoWorse(nodes[i], nodes'[i])
        BY <1>1, <1>5, TypeFacts, NoWorseThanItself DEF NodeStep, RegistryGrows
    <2>4. Extends
        BY <2>3 DEF Extends, RegistryGrows
    <2> QED
        BY <1>2, <1>5, <1>9, <2>1, <2>2, <2>4 DEF Queues
<1>10. CASE /\ info.status = "OPEN" /\ h # INFTY
            /\ open_list' = Insert(list, key, id)
    <2>1. info.g \in Nat /\ info.d \in Nat
        BY <1>10 DEF NodeStep, IsKnown, IsReached
    <2>2. key \in Keys
        <3>1. info.g \in Int /\ info.d \in Int /\ h \in Int
            BY <1>4, <2>1
        <3> QED
            BY <1>1, <3>1, KeyIsKey
    <2> DEFINE new == Insert(list, key, id)
    <2>3. /\ new \in Seq(Entries(Ids))
          /\ Adds(new, list, [key |-> key, id |-> id])
          /\ Sorted(new)
        <3> HIDE DEF key, Ids
        <3>1. id \in Ids
            BY <1>2 DEF Ids
        <3> QED
            BY <1>1, <1>8, <2>2, <3>1, InsertFacts
    <2> HIDE DEF key, new, Ids
    <2>4. open_list' = new
        BY <1>10 DEF new, key
    <2>5. open_list' \in Seq(Entries(Ids)) /\ SortedInv'
        <3>1. open_list' \in Seq(Entries(Ids)) /\ Sorted(open_list')
            BY <2>3, <2>4
        <3> QED
            BY <3>1 DEF SortedInv, Sorted
    <2>6. TypeInv'
        BY <1>1, <1>6, <1>7, <2>5 DEF TypeInv, RegistryGrows, Ids, Entries
    <2>7. \A i \in DOMAIN registry : NoWorse(nodes[i], nodes'[i])
        BY <1>1, <1>5, TypeFacts, NoWorseThanItself DEF NodeStep, RegistryGrows
    <2>8. Extends
        BY <2>7 DEF Extends, RegistryGrows
    <2> QED
        BY <1>2, <1>4, <1>5, <1>10, <2>1, <2>3, <2>4, <2>5, <2>6, <2>8 DEF key, Queues
<1> QED
    BY <1>9, <1>10 DEF NodeStep

(* A key that is no better than a node is no better than a better one.     *)
LEMMA BetterStaysBound ==
    ASSUME NEW key, NEW old, NEW new, KeyBounds(key, old), ~IsWorse(old, new),
           key[1] \in Int, key[2] \in Int,
           old.g \in Nat, old.d \in Nat, new.g \in Nat, new.d \in Nat
    PROVE  KeyBounds(key, new)
<1> PICK k, k2, g, d, g2, d2 : k = key[1] /\ k2 = key[2] /\ g = old.g /\ d = old.d
                               /\ g2 = new.g /\ d2 = new.d
    OBVIOUS
<1>1. /\ k \in Int /\ k2 \in Int /\ g \in Nat /\ d \in Nat /\ g2 \in Nat /\ d2 \in Nat
      /\ k > g \/ (k = g /\ (problem.shortest => k2 >= d))
      /\ ~(g2 > g) /\ ~(problem.shortest /\ g2 = g /\ d2 > d)
    BY DEF KeyBounds, IsWorse
<1>2. CASE problem.shortest
    <2>1. k > g2 \/ (k = g2 /\ k2 >= d2)
        BY <1>1, <1>2
    <2> QED
        BY <2>1 DEF KeyBounds
<1>3. CASE ~problem.shortest
    <2>1. k > g2 \/ k = g2
        BY <1>1
    <2> QED
        BY <1>3, <2>1 DEF KeyBounds
<1> QED
    BY <1>2, <1>3

(* The rest of what a step about one node preserves: what the search keeps *)
(* up itself, and the edges of the closed nodes, must be shown of it.      *)
LEMMA NodeStepPreserves ==
    ASSUME IInv, RegistryGrows, NEW id, NEW info, NEW h, NEW list,
           NodeStep(id, info, h, list),
           node' \in {NoState} \cup DOMAIN registry', applicable_ops' \in Seq(Ops(task)),
           ControlInv',
           \A i \in DOMAIN registry' :
              nodes'[i].status = "CLOSED" /\ IsGoalState(task, registry'[i])
                => status' \in {"SOLVED", "TIMEOUT"},
           problem.reopen_closed =>
              \A i \in DOMAIN registry' :
                 nodes'[i].status = "CLOSED" /\ ~IsGoalState(task, registry'[i]) =>
                    \A o \in Followed(i)' :
                        \/ IsRelaxed(i, o)'
                        \/ /\ i \in DOMAIN registry /\ nodes'[i] = nodes[i]
                           /\ ~IsGoalState(task, registry[i]) /\ o \in Followed(i)
    PROVE  IInv' /\ Extends
<1>1. /\ TypeInv /\ problem \in Problems /\ problem' = problem /\ task' = task
    BY DEF IInv, TypeInv, RegistryGrows, task
<1>2. /\ TypeInv' /\ Extends /\ SortedInv'
      /\ \A i \in DOMAIN registry' : i # id =>
            i \in DOMAIN registry /\ nodes'[i] = nodes[i] /\ estimates'[i] = estimates[i]
      /\ id \in DOMAIN registry' /\ nodes'[id] = info /\ estimates'[id] = h
      /\ Queues(id, info, h, list)
    <2> HIDE DEF IInv, RegistryGrows, NodeStep, TypeInv, Extends, SortedInv, Queues
    <2> QED
        BY NodeStepTypes
<1>3. \A s : Evaluations(s)' = Evaluations(s)
    BY <1>1 DEF Evaluations
<1>4. NodeInv'
    <2> SUFFICES ASSUME NEW i \in DOMAIN registry'
                 PROVE  /\ IsReached(nodes'[i]) =>
                            /\ nodes'[i].g \in Nat /\ nodes'[i].d \in Nat
                            /\ problem.cost_type = "NORMAL" => nodes'[i].real_g = nodes'[i].g
                        /\ nodes'[i].status # "NEW"
                            => estimates'[i] \in Evaluations(registry'[i])
                        /\ nodes'[i].status = "DEAD_END" => estimates'[i] = INFTY
        BY <1>1, <1>3 DEF NodeInv
    <2>1. CASE i = id
        BY <1>2, <2>1 DEF NodeStep, IsKnown
    <2>2. CASE i # id
        <3>1. /\ i \in DOMAIN registry /\ nodes'[i] = nodes[i] /\ estimates'[i] = estimates[i]
              /\ registry'[i] = registry[i]
            BY <1>2, <2>2 DEF RegistryGrows
        <3> QED
            BY <3>1 DEF IInv, NodeInv
    <2> QED
        BY <2>1, <2>2
<1>5. StartInv'
    <2>1. status # "INIT"
        BY DEF NodeStep, IInv, ControlInv
    <2>2. PICK i \in DOMAIN registry : StartsAt(i)
        BY <2>1 DEF IInv, StartInv
    <2>3. i \in DOMAIN registry' /\ registry'[i] = registry[i]
        BY DEF RegistryGrows
    <2>4. Representative(task.init)' = Representative(task.init)
        <3>1. Representative(task.init) \in Range(registry')
            BY <2>2, <2>3 DEF StartsAt, Range
        <3>2. Range(registry) \subseteq Range(registry')
            BY DEF RegistryGrows, Range
        <3>3. PICK s \in States(task) : s = task.init
            BY <1>1, ProblemFacts
        <3>4. Representative(s)' = Representative(s)
            BY <1>1, <3>1, <3>2, <3>3, RepresentativeStays DEF RegistryGrows
        <3> QED
            BY <1>1, <3>3, <3>4 DEF Representative
    <2>5. nodes[i].status # "NEW"
        BY <2>2 DEF NodeStep, StartsAt
    <2>6. nodes'[i].status # "NEW" /\ NoWorse(nodes[i], nodes'[i])
        BY <1>2, <2>5 DEF Extends, NoWorse
    <2>7. ASSUME IsReached(nodes'[i])
          PROVE  nodes'[i].g <= 0 /\ (problem.shortest => nodes'[i].d <= 0)
        <3>1. IsReached(nodes[i])
            <4>1. nodes[i].status \in {"NEW", "OPEN", "CLOSED", "DEAD_END"}
                BY <1>1, TypeFacts DEF Infos
            <4>2. nodes[i].status # "DEAD_END"
                BY <2>6, <2>7 DEF NoWorse, IsReached
            <4> QED
                BY <2>5, <4>1, <4>2 DEF IsReached
        <3>2. nodes[i].g <= 0 /\ (problem.shortest => nodes[i].d <= 0)
            BY <2>2, <3>1 DEF StartsAt
        <3>3. ~IsWorse(nodes[i], nodes'[i])
            BY <2>6, <3>1 DEF NoWorse
        <3>4. nodes[i].g \in Nat /\ nodes[i].d \in Nat
            BY <3>1 DEF IInv, NodeInv
        <3>5. nodes'[i].g \in Nat /\ nodes'[i].d \in Nat
            BY <1>4, <2>3, <2>7 DEF NodeInv
        <3> QED
            BY <3>2, <3>3, <3>4, <3>5 DEF IsWorse
    <2>8. StartsAt(i)'
        <3>1. registry'[i] = Representative(task.init)'
            BY <2>2, <2>3, <2>4 DEF StartsAt
        <3> QED
            BY <1>1, <2>6, <2>7, <3>1 DEF StartsAt
    <2> QED
        BY <2>3, <2>8 DEF StartInv
<1>6. EntryInv'
    <2>1. ASSUME NEW j \in 1 .. Len(open_list)
          PROVE  /\ nodes'[open_list[j].id].status # "NEW"
                 /\ IsReached(nodes'[open_list[j].id]) =>
                        KeyBounds(open_list[j].key, nodes'[open_list[j].id])
        <3> DEFINE i == open_list[j].id
                   key == open_list[j].key
        <3>1. i \in DOMAIN registry /\ key \in Keys
            BY <1>1, TypeFacts
        <3>2. nodes[i].status # "NEW" /\ (IsReached(nodes[i]) => KeyBounds(key, nodes[i]))
            BY DEF IInv, EntryInv
        <3> HIDE DEF i, key
        <3>3. NoWorse(nodes[i], nodes'[i])
            BY <1>2, <3>1 DEF Extends
        <3>4. nodes'[i].status # "NEW"
            BY <3>2, <3>3 DEF NoWorse
        <3>5. ASSUME IsReached(nodes'[i])
              PROVE  KeyBounds(key, nodes'[i])
            <4>1. IsReached(nodes[i])
                <5>1. nodes[i].status \in {"NEW", "OPEN", "CLOSED", "DEAD_END"}
                    BY <1>1, <3>1, TypeFacts DEF Infos
                <5>2. nodes[i].status # "DEAD_END"
                    BY <3>3, <3>5 DEF NoWorse, IsReached
                <5> QED
                    BY <3>2, <5>1, <5>2 DEF IsReached
            <4>2. KeyBounds(key, nodes[i]) /\ ~IsWorse(nodes[i], nodes'[i])
                BY <3>2, <3>3, <4>1 DEF NoWorse
            <4>3. /\ nodes[i].g \in Nat /\ nodes[i].d \in Nat
                  /\ nodes'[i].g \in Nat /\ nodes'[i].d \in Nat
                BY <1>4, <3>1, <3>5, <4>1 DEF IInv, NodeInv, RegistryGrows
            <4>4. key[1] \in Int /\ key[2] \in Int
                BY <3>1, KeyParts
            <4> QED
                BY <4>2, <4>3, <4>4, BetterStaysBound
        <3> QED
            BY <3>4, <3>5 DEF i, key
    <2>2. \A j \in 1 .. Len(list) :
                /\ nodes'[list[j].id].status # "NEW"
                /\ IsReached(nodes'[list[j].id]) => KeyBounds(list[j].key, nodes'[list[j].id])
        <3> SUFFICES ASSUME NEW j \in 1 .. Len(list)
                     PROVE  /\ nodes'[list[j].id].status # "NEW"
                            /\ IsReached(nodes'[list[j].id]) =>
                                   KeyBounds(list[j].key, nodes'[list[j].id])
            OBVIOUS
        <3>1. PICK i \in 1 .. Len(open_list) : list[j] = open_list[i]
            BY DEF NodeStep
        <3> QED
            BY <2>1, <3>1
    <2>3. CASE open_list' = list
        <3>1. \A j \in 1 .. Len(open_list') :
                /\ nodes'[open_list'[j].id].status # "NEW"
                /\ IsReached(nodes'[open_list'[j].id]) =>
                        KeyBounds(open_list'[j].key, nodes'[open_list'[j].id])
            BY <2>2, <2>3
        <3> QED
            BY <1>1, <3>1 DEF EntryInv, KeyBounds
    <2>4. CASE open_list' # list
        <3> DEFINE key == Key(info.g, info.d, h)
                   e == [key |-> key, id |-> id]
        <3>1. /\ info.g \in Nat /\ info.d \in Nat /\ h \in Nat /\ h # INFTY
              /\ Adds(open_list', list, e)
            BY <1>2, <2>4 DEF Queues
        <3>2. key[1] = info.g + h /\ (problem.shortest => key[2] = info.d)
            <4>1. info.g \in Int /\ info.d \in Int /\ h \in Int
                BY <3>1
            <4> QED
                BY <3>1, <4>1 DEF Key
        <3>3. KeyBounds(key, info)
            <4> HIDE DEF key
            <4> QED
                BY <3>1, <3>2 DEF KeyBounds
        <3>4. info.status # "NEW"
            BY DEF NodeStep, IsKnown
        <3>5. ASSUME NEW j \in 1 .. Len(open_list')
              PROVE  /\ nodes'[open_list'[j].id].status # "NEW"
                     /\ IsReached(nodes'[open_list'[j].id]) =>
                            KeyBounds(open_list'[j].key, nodes'[open_list'[j].id])
            <4>1. e.id = id /\ e.key = key
                OBVIOUS
            <4> HIDE DEF e, key
            <4>2. open_list'[j] = e \/ \E i \in 1 .. Len(list) : open_list'[j] = list[i]
                BY <3>1 DEF Adds
            <4>3. CASE open_list'[j] = e
                BY <1>2, <3>3, <3>4, <4>1, <4>3
            <4>4. ASSUME NEW i \in 1 .. Len(list), open_list'[j] = list[i]
                  PROVE  /\ nodes'[open_list'[j].id].status # "NEW"
                         /\ IsReached(nodes'[open_list'[j].id]) =>
                                KeyBounds(open_list'[j].key, nodes'[open_list'[j].id])
                BY <2>2, <4>4
            <4> QED
                BY <4>2, <4>3, <4>4
        <3> QED
            BY <1>1, <3>5 DEF EntryInv, KeyBounds
    <2> QED
        BY <2>3, <2>4
<1>7. OpenNodesAreQueued'
    <2> SUFFICES ASSUME problem.reopen_closed, NEW i \in DOMAIN registry',
                        nodes'[i].status = "OPEN", estimates'[i] # INFTY
                 PROVE  \E j \in 1 .. Len(open_list') :
                            /\ open_list'[j].id = i
                            /\ open_list'[j].key = Key(nodes'[i].g, nodes'[i].d, estimates'[i])
        <3>1. DOMAIN nodes' = DOMAIN registry' /\ DOMAIN open_list' = 1 .. Len(open_list')
            BY <1>2, LenProperties DEF TypeInv
        <3> QED
            BY <1>1, <3>1 DEF OpenNodesAreQueued, Key
    <2>1. CASE i # id
        <3>1. i \in DOMAIN registry /\ nodes'[i] = nodes[i] /\ estimates'[i] = estimates[i]
            BY <1>2, <2>1
        <3>2. DOMAIN nodes = DOMAIN registry /\ DOMAIN open_list = 1 .. Len(open_list)
            BY <1>1, LenProperties DEF TypeInv
        <3>3. PICK k \in 1 .. Len(open_list) :
                    /\ open_list[k].id = i
                    /\ open_list[k].key = Key(nodes[i].g, nodes[i].d, estimates[i])
            BY <3>1, <3>2 DEF IInv, OpenNodesAreQueued
        <3>4. \E j \in 1 .. Len(list) : list[j] = open_list[k]
            BY <2>1, <3>3 DEF NodeStep
        <3>5. \E j \in 1 .. Len(open_list') : open_list'[j] = open_list[k]
            BY <1>2, <3>4 DEF Queues, Adds
        <3> QED
            BY <3>1, <3>3, <3>5
    <2>2. CASE i = id
        <3>1. nodes'[id] = info /\ estimates'[id] = h /\ info.status = "OPEN" /\ h # INFTY
            BY <1>2, <2>2
        <3>2. CASE open_list' = list /\ list = open_list /\ id \in DOMAIN registry
                   /\ nodes[id] = info /\ estimates[id] = h
            <4>1. DOMAIN nodes = DOMAIN registry /\ DOMAIN open_list = 1 .. Len(open_list)
                BY <1>1, LenProperties DEF TypeInv
            <4> QED
                BY <2>2, <3>1, <3>2, <4>1 DEF IInv, OpenNodesAreQueued
        <3>3. CASE Adds(open_list', list, [key |-> Key(info.g, info.d, h), id |-> id])
            BY <2>2, <3>1, <3>3 DEF Adds
        <3>4. \/ Adds(open_list', list, [key |-> Key(info.g, info.d, h), id |-> id])
              \/ /\ open_list' = list /\ list = open_list /\ id \in DOMAIN registry
                 /\ nodes[id] = info /\ estimates[id] = h
            BY <1>2, <3>1 DEF Queues
        <3> QED
            BY <3>2, <3>3, <3>4
    <2> QED
        BY <2>1, <2>2
<1>8. ClosedNodesAreRelaxed'
    <2> SUFFICES ASSUME problem.reopen_closed, NEW i \in DOMAIN registry',
                        nodes'[i].status = "CLOSED", ~IsGoalState(task, registry'[i]),
                        NEW o \in Followed(i)'
                 PROVE  IsRelaxed(i, o)'
        <3>1. DOMAIN nodes' = DOMAIN registry'
            BY <1>2 DEF TypeInv
        <3> QED
            BY <1>1, <3>1 DEF ClosedNodesAreRelaxed
    <2>1. CASE /\ i \in DOMAIN registry /\ nodes'[i] = nodes[i]
               /\ ~IsGoalState(task, registry[i]) /\ o \in Followed(i)
        <3>1. i \in DOMAIN nodes
            BY <1>1, <2>1 DEF TypeInv
        <3>2. IsRelaxed(i, o)
            BY <2>1, <3>1 DEF IInv, ClosedNodesAreRelaxed
        <3>3. o \in Range(problem.kept[registry[i]])
            BY <2>1 DEF Followed
        <3>4. RegistryInv'
            BY DEF RegistryGrows
        <3> QED
            BY <1>1, <1>2, <2>1, <3>2, <3>3, <3>4, RelaxedStays
    <2> QED
        BY <2>1
<1> QED
    BY <1>2, <1>4, <1>5, <1>6, <1>7, <1>8 DEF IInv, RegistryGrows
-------------------------------------------------------------------------------
(* An entry is removed from the open list; between the rounds of the       *)
(* search, all operators of the closed nodes have been followed.           *)
LEMMA BetweenRounds ==
    ASSUME IInv, status = "IN_PROGRESS" \/ status = "FAILED", NEW id \in DOMAIN registry
    PROVE  Followed(id) = Range(problem.kept[registry[id]])
<1>1. node = NoState
    BY DEF IInv, ControlInv
<1>2. id # NoState
    BY TypeFacts DEF IInv, NoState
<1> QED
    BY <1>1, <1>2 DEF Followed

(* The first entry is about a node that was reached or found dead.         *)
LEMMA HeadFacts ==
    ASSUME IInv, open_list # <<>>
    PROVE  /\ Head(open_list).id \in DOMAIN registry
           /\ nodes[Head(open_list).id].status # "NEW"
           /\ nodes[Head(open_list).id] \in Infos
           /\ Reevaluations(Head(open_list).id) \subseteq Evaluations(registry[Head(open_list).id])
           /\ Head(open_list) = open_list[1] /\ 1 \in 1 .. Len(open_list)
<1>1. open_list \in Seq(Entries(DOMAIN registry)) /\ Sorted(open_list)
    BY DEF IInv, TypeInv, SortedInv
<1>2. Head(open_list) = open_list[1] /\ 1 \in 1 .. Len(open_list)
    <2>1. Len(open_list) \in Nat /\ Len(open_list) > 0 /\ Head(open_list) = open_list[1]
        BY <1>1, TailFacts
    <2> QED
        BY <2>1
<1>3. Head(open_list).id \in DOMAIN registry
    BY <1>2, TypeFacts DEF IInv
<1>4. nodes[Head(open_list).id].status # "NEW"
    BY <1>2 DEF IInv, EntryInv
<1>5. estimates[Head(open_list).id] \in Evaluations(registry[Head(open_list).id])
    BY <1>3, <1>4 DEF IInv, NodeInv
<1> QED
    BY <1>2, <1>3, <1>4, <1>5, TypeFacts DEF IInv, Reevaluations

Updates(id, info, h) ==
    nodes' = [nodes EXCEPT ![id] = info] /\ estimates' = [estimates EXCEPT ![id] = h]

(* Steps that take the first entry from the open list.                     *)
LEMMA PopPreserves ==
    ASSUME IInv, status = "IN_PROGRESS", open_list # <<>>, UNCHANGED <<problem, registry>>,
           NEW id, id = Head(open_list).id,
           NEW info, NEW h \in Evaluations(registry[id]),
           IsKnown(info, h), NoWorse(nodes[id], info),
           Updates(id, info, h),
           \/ open_list' = Tail(open_list) /\ info.status # "OPEN"
           \/ /\ info.status = "OPEN" /\ h # INFTY
              /\ open_list' = Insert(Tail(open_list), Key(info.g, info.d, h), id),
           node' \in {NoState} \cup DOMAIN registry', applicable_ops' \in Seq(Ops(task)),
           ControlInv',
           info.status = "CLOSED" => \/ info = nodes[id]
                                     \/ IsGoalState(task, registry[id]) /\ status' = "SOLVED"
                                     \/ ~IsGoalState(task, registry[id]) /\ Followed(id)' = {}
    PROVE  IInv' /\ Extends
<1>1. TypeInv /\ problem' = problem /\ registry' = registry /\ task' = task
    BY DEF IInv, TypeInv, task
<1>2. id \in DOMAIN registry
    BY HeadFacts
<1>3. RegistryGrows
    BY <1>1 DEF IInv, TypeInv, RegistryInv, RegistryGrows
<1>4. /\ open_list \in Seq(Entries(DOMAIN registry)) /\ Sorted(open_list)
    BY DEF IInv, TypeInv, SortedInv
<1> DEFINE list == Tail(open_list)
<1>5. /\ list \in Seq(Entries(DOMAIN registry)) /\ Sorted(list)
      /\ Len(open_list) \in Nat /\ Len(list) = Len(open_list) - 1
      /\ \A i \in 1 .. Len(open_list) - 1 : list[i] = open_list[i + 1]
      /\ Head(open_list) = open_list[1]
    BY <1>4, TailFacts
<1> HIDE DEF list
<1>6. \A j \in 1 .. Len(list) : \E i \in 1 .. Len(open_list) : list[j] = open_list[i]
    <2> SUFFICES ASSUME NEW j \in 1 .. Len(list)
                 PROVE  \E i \in 1 .. Len(open_list) : list[j] = open_list[i]
        OBVIOUS
    <2>1. j + 1 \in 1 .. Len(open_list) /\ list[j] = open_list[j + 1]
        BY <1>5
    <2> QED
        BY <2>1
<1>7. \A i \in 1 .. Len(open_list) :
            open_list[i].id # id => \E j \in 1 .. Len(list) : list[j] = open_list[i]
    <2> SUFFICES ASSUME NEW i \in 1 .. Len(open_list), open_list[i].id # id
                 PROVE  \E j \in 1 .. Len(list) : list[j] = open_list[i]
        OBVIOUS
    <2>1. i # 1
        BY <1>5
    <2>2. i - 1 \in 1 .. Len(list) /\ list[i - 1] = open_list[i]
        BY <1>5, <2>1
    <2> QED
        BY <2>2
<1>8. /\ nodes' = [i \in DOMAIN registry' |-> IF i = id THEN info ELSE nodes[i]]
      /\ estimates' = [i \in DOMAIN registry' |-> IF i = id THEN h ELSE estimates[i]]
      /\ nodes'[id] = info /\ \A i \in DOMAIN registry : i # id => nodes'[i] = nodes[i]
    BY <1>1, <1>2 DEF TypeInv, Updates
<1>9. NodeStep(id, info, h, list)
    <2> HIDE DEF IInv
    <2>1. DOMAIN registry' = DOMAIN registry \cup {id} /\ h \in Evaluations(registry'[id])
        BY <1>1, <1>2
    <2>2. /\ list \in Seq(Entries(DOMAIN registry')) /\ Sorted(list)
          /\ \/ open_list' = list /\ info.status # "OPEN"
             \/ /\ info.status = "OPEN" /\ h # INFTY
                /\ open_list' = Insert(list, Key(info.g, info.d, h), id)
        BY <1>1, <1>5 DEF list
    <2> QED
        BY <1>6, <1>7, <1>8, <2>1, <2>2 DEF NodeStep
<1>10. ASSUME NEW i \in DOMAIN registry, nodes'[i].status = "CLOSED", i # id \/ info = nodes[id]
       PROVE  nodes'[i] = nodes[i] /\ ~IsGoalState(task, registry[i])
    <2>1. nodes'[i] = nodes[i]
        BY <1>8, <1>10
    <2> QED
        BY <1>10, <2>1 DEF IInv, NodeInv
<1>11. \A i \in DOMAIN registry' :
            nodes'[i].status = "CLOSED" /\ IsGoalState(task, registry'[i])
                => status' \in {"SOLVED", "TIMEOUT"}
    BY <1>1, <1>8, <1>10
<1>12. ASSUME NEW i \in DOMAIN registry',
              nodes'[i].status = "CLOSED", ~IsGoalState(task, registry'[i]),
              NEW o \in Followed(i)'
       PROVE  /\ i \in DOMAIN registry /\ nodes'[i] = nodes[i]
              /\ ~IsGoalState(task, registry[i]) /\ o \in Followed(i)
    <2>1. i # id \/ info = nodes[id]
        BY <1>1, <1>8, <1>12
    <2>2. Followed(i) = Range(problem.kept[registry[i]])
        BY <1>1, BetweenRounds
    <2>3. o \in Range(problem.kept[registry[i]])
        BY <1>1, <1>12 DEF Followed
    <2> QED
        BY <1>1, <1>10, <1>12, <2>1, <2>2, <2>3
<1> QED
    <2> HIDE DEF IInv, RegistryGrows
    <2> QED
        BY <1>3, <1>9, <1>11, <1>12, NodeStepPreserves

(* The entry on top is about a node that is known.                         *)
LEMMA HeadIsKnown ==
    ASSUME IInv, open_list # <<>>
    PROVE  LET id == Head(open_list).id
           IN  /\ IsKnown(nodes[id], estimates[id])
               /\ estimates[id] \in Evaluations(registry[id])
               /\ NoWorse(nodes[id], nodes[id])
               /\ nodes = [nodes EXCEPT ![id] = nodes[id]]
               /\ nodes[id] = [status |-> nodes[id].status, g |-> nodes[id].g, d |-> nodes[id].d,
                               real_g |-> nodes[id].real_g, parent |-> nodes[id].parent,
                               op |-> nodes[id].op]
               /\ estimates = [estimates EXCEPT ![id] = estimates[id]]
<1> DEFINE id == Head(open_list).id
<1>1. id \in DOMAIN registry /\ nodes[id].status # "NEW" /\ nodes[id] \in Infos
    BY HeadFacts
<1> HIDE DEF id
<1>2. TypeInv
    BY DEF IInv
<1>3. IsKnown(nodes[id], estimates[id]) /\ estimates[id] \in Evaluations(registry[id])
    BY <1>1 DEF IInv, NodeInv, IsKnown
<1>4. NoWorse(nodes[id], nodes[id])
    BY <1>1, <1>2, TypeFacts, NoWorseThanItself
<1>5. nodes = [nodes EXCEPT ![id] = nodes[id]] /\ estimates = [estimates EXCEPT ![id] = estimates[id]]
    BY <1>1, <1>2 DEF TypeInv
<1>6. nodes[id] = [status |-> nodes[id].status, g |-> nodes[id].g, d |-> nodes[id].d,
                   real_g |-> nodes[id].real_g, parent |-> nodes[id].parent, op |-> nodes[id].op]
    BY <1>1 DEF Infos
<1> QED
    BY <1>3, <1>4, <1>5, <1>6 DEF id

(* SkipEntry drops an entry about a node that is not open.                 *)
LEMMA SkipEntryPreserves ==
    ASSUME IInv, SkipEntry
    PROVE  IInv' /\ Extends
<1> PICK id : id = Head(open_list).id
    OBVIOUS
<1>1. /\ status = "IN_PROGRESS" /\ open_list # <<>> /\ open_list' = Tail(open_list)
      /\ UNCHANGED <<problem, status, registry, nodes, estimates, node, applicable_ops>>
      /\ nodes[id].status # "OPEN"
    BY DEF SkipEntry
<1>2. /\ IsKnown(nodes[id], estimates[id]) /\ estimates[id] \in Evaluations(registry[id])
      /\ NoWorse(nodes[id], nodes[id])
      /\ Updates(id, nodes[id], estimates[id])
    BY <1>1, HeadIsKnown DEF Updates
<1>3. /\ node' \in {NoState} \cup DOMAIN registry' /\ applicable_ops' \in Seq(Ops(task))
      /\ ControlInv'
    BY <1>1 DEF IInv, TypeInv, ControlInv
<1> QED
    BY <1>1, <1>2, <1>3, PopPreserves

(* FindDeadEnd: the dead end has the estimate that makes it one.           *)
LEMMA FindDeadEndPreserves ==
    ASSUME IInv, FindDeadEnd
    PROVE  IInv' /\ Extends
<1> PICK id : id = Head(open_list).id
    OBVIOUS
<1> DEFINE info == [nodes[id] EXCEPT !.status = "DEAD_END"]
<1>1. /\ status = "IN_PROGRESS" /\ open_list # <<>> /\ open_list' = Tail(open_list)
      /\ UNCHANGED <<problem, status, registry, node, applicable_ops>>
      /\ nodes[id].status = "OPEN" /\ INFTY \in Reevaluations(id)
      /\ nodes' = [nodes EXCEPT ![id].status = "DEAD_END"]
      /\ estimates' = [estimates EXCEPT ![id] = INFTY]
    BY DEF FindDeadEnd, RemoveMin, HeadEvaluations
<1>2. nodes[id] \in Infos /\ INFTY \in Evaluations(registry[id]) /\ id \in DOMAIN registry
    BY <1>1, HeadFacts
<1>3. /\ info \in Infos /\ info.status = "DEAD_END"
      /\ info.g = nodes[id].g /\ info.d = nodes[id].d
      /\ nodes[id].g \in Int /\ nodes[id].d \in Int
    BY <1>2 DEF Infos
<1>4. Updates(id, info, INFTY)
    BY <1>1 DEF Updates
<1> HIDE DEF info
<1>5. IsKnown(info, INFTY) /\ NoWorse(nodes[id], info)
    BY <1>1, <1>3 DEF IsKnown, NoWorse, IsReached, IsWorse
<1>6. /\ node' \in {NoState} \cup DOMAIN registry' /\ applicable_ops' \in Seq(Ops(task))
      /\ ControlInv'
    BY <1>1 DEF IInv, TypeInv, ControlInv
<1>7. open_list' = Tail(open_list) /\ info.status # "OPEN" /\ info.status # "CLOSED"
    BY <1>1, <1>3
<1> QED
    BY <1>1, <1>2, <1>4, <1>5, <1>6, <1>7, PopPreserves

(* Reevaluate puts the node back with an entry for its new estimate.       *)
LEMMA ReevaluatePreserves ==
    ASSUME IInv, NEW h \in HeadEvaluations, Reevaluate(h)
    PROVE  IInv' /\ Extends
<1> PICK id : id = Head(open_list).id
    OBVIOUS
<1>1. /\ status = "IN_PROGRESS" /\ open_list # <<>>
      /\ open_list' = Insert(Tail(open_list), Key(nodes[id].g, nodes[id].d, h), id)
      /\ UNCHANGED <<problem, status, registry, nodes, node, applicable_ops>>
      /\ nodes[id].status = "OPEN" /\ h \in Reevaluations(id) /\ h # INFTY
      /\ estimates' = [estimates EXCEPT ![id] = h]
    BY DEF Reevaluate, RemoveMin, HeadEvaluations, InsertEntry
<1>2. /\ IsKnown(nodes[id], estimates[id]) /\ NoWorse(nodes[id], nodes[id])
      /\ Updates(id, nodes[id], h)
    BY <1>1, HeadIsKnown DEF Updates
<1>3. IsKnown(nodes[id], h) /\ h \in Evaluations(registry[id])
    BY <1>1, <1>2, HeadFacts DEF IsKnown
<1>4. /\ node' \in {NoState} \cup DOMAIN registry' /\ applicable_ops' \in Seq(Ops(task))
      /\ ControlInv'
    BY <1>1 DEF IInv, TypeInv, ControlInv
<1> QED
    BY <1>1, <1>2, <1>3, <1>4, PopPreserves

(* A node is closed: everything but its status stays.                      *)
Closes(id, info) ==
    /\ info = [nodes[id] EXCEPT !.status = "CLOSED"]
    /\ nodes' = [nodes EXCEPT ![id].status = "CLOSED"]

(* A node that is closed keeps what is known of it.                        *)
LEMMA CloseFacts ==
    ASSUME IInv, NEW h \in HeadEvaluations, RemoveMin(h), h = estimates[Head(open_list).id],
           NEW id, id = Head(open_list).id, NEW info, Closes(id, info)
    PROVE  /\ id \in DOMAIN registry
           /\ info.status = "CLOSED" /\ IsKnown(info, h) /\ NoWorse(nodes[id], info)
           /\ h \in Evaluations(registry[id])
           /\ Updates(id, info, h) /\ nodes'[id] = info
<1>1. /\ status = "IN_PROGRESS" /\ open_list # <<>> /\ nodes[id].status = "OPEN"
      /\ h \in Reevaluations(id) /\ estimates' = [estimates EXCEPT ![id] = h]
    BY DEF RemoveMin, HeadEvaluations
<1>2. /\ nodes[id] \in Infos /\ h \in Evaluations(registry[id]) /\ id \in DOMAIN registry
      /\ IsKnown(nodes[id], h)
    BY <1>1, HeadFacts, HeadIsKnown
<1>3. /\ info \in Infos /\ info.status = "CLOSED" /\ info.real_g = nodes[id].real_g
      /\ info.g = nodes[id].g /\ info.d = nodes[id].d
      /\ nodes[id].g \in Int /\ nodes[id].d \in Int
    BY <1>2 DEF Infos, Closes
<1>4. Updates(id, info, h)
    BY <1>1 DEF Closes, Updates
<1>5. nodes'[id] = info
    BY <1>2, <1>4 DEF IInv, TypeInv, Updates
<1>6. IsKnown(info, h) /\ NoWorse(nodes[id], info)
    BY <1>1, <1>2, <1>3 DEF IsKnown, NoWorse, IsReached, IsWorse
<1> QED
    BY <1>1, <1>2, <1>3, <1>4, <1>5, <1>6

(* ReachGoal closes a goal node and ends the search.                       *)
LEMMA ReachGoalPreserves ==
    ASSUME IInv, NEW h \in HeadEvaluations, ReachGoal(h)
    PROVE  IInv' /\ Extends
<1> PICK id : id = Head(open_list).id
    OBVIOUS
<1> PICK info : info = [nodes[id] EXCEPT !.status = "CLOSED"]
    OBVIOUS
<1>1. /\ RemoveMin(h) /\ h = estimates[Head(open_list).id]
      /\ status = "IN_PROGRESS" /\ status' = "SOLVED"
      /\ open_list # <<>> /\ open_list' = Tail(open_list)
      /\ UNCHANGED <<problem, registry, node, applicable_ops>>
      /\ IsGoalState(task, registry[id])
      /\ Closes(id, info)
    BY DEF ReachGoal, RemoveMin, Closes
<1>2. /\ info.status = "CLOSED" /\ IsKnown(info, h) /\ NoWorse(nodes[id], info)
      /\ h \in Evaluations(registry[id])
      /\ Updates(id, info, h)
    BY <1>1, CloseFacts
<1>3. /\ node' \in {NoState} \cup DOMAIN registry' /\ applicable_ops' \in Seq(Ops(task))
      /\ ControlInv'
    BY <1>1 DEF IInv, TypeInv, ControlInv
<1> QED
    BY <1>1, <1>2, <1>3, PopPreserves

(* Expand closes a node none of whose operators is followed yet.           *)
LEMMA ExpandPreserves ==
    ASSUME IInv, NEW h \in HeadEvaluations, Expand(h)
    PROVE  IInv' /\ Extends
<1> PICK id : id = Head(open_list).id
    OBVIOUS
<1> PICK info : info = [nodes[id] EXCEPT !.status = "CLOSED"]
    OBVIOUS
<1>1. /\ RemoveMin(h) /\ h = estimates[Head(open_list).id]
      /\ status = "IN_PROGRESS" /\ status' = "EXPANDING"
      /\ open_list # <<>> /\ open_list' = Tail(open_list)
      /\ UNCHANGED <<problem, registry>>
      /\ node' = id /\ applicable_ops' = problem.kept[registry[id]]
      /\ ~IsGoalState(task, registry[id])
      /\ Closes(id, info)
    BY DEF Expand, RemoveMin, Closes
<1>2. /\ info.status = "CLOSED" /\ IsKnown(info, h) /\ NoWorse(nodes[id], info)
      /\ h \in Evaluations(registry[id]) /\ id \in DOMAIN registry
      /\ Updates(id, info, h) /\ nodes'[id] = info
    BY <1>1, CloseFacts
<1>3. node' \in {NoState} \cup DOMAIN registry' /\ applicable_ops' \in Seq(Ops(task))
    BY <1>1, <1>2, TypeFacts, ProblemFacts DEF IInv, TypeInv
<1>4. Followed(id)' = {}
    BY <1>1 DEF Followed
<1>5. ControlInv'
    <2>1. id # NoState
        BY <1>2, TypeFacts DEF IInv, NoState
    <2> QED
        BY <1>1, <1>2, <2>1 DEF ControlInv
<1>6. info.status = "CLOSED" => ~IsGoalState(task, registry[id]) /\ Followed(id)' = {}
    BY <1>1, <1>4
<1>7. open_list' = Tail(open_list) /\ info.status # "OPEN"
    BY <1>1, <1>2
<1>8. UNCHANGED <<problem, registry>> /\ status = "IN_PROGRESS" /\ open_list # <<>>
    BY <1>1
<1> QED
    BY <1>2, <1>3, <1>5, <1>6, <1>7, <1>8, PopPreserves
-------------------------------------------------------------------------------
(* An operator of the node that is expanded is taken: the edge by it is    *)
(* the only one that is followed now and was not before.                   *)
LEMMA TakeFacts ==
    ASSUME IInv, NEW o, TakeOperator(o)
    PROVE  /\ status = "EXPANDING" /\ status' = status
           /\ problem' = problem /\ task' = task
           /\ node' = node /\ node \in DOMAIN registry /\ node # NoState
           /\ nodes[node].status = "CLOSED" /\ nodes[node] \in Infos
           /\ nodes[node].g \in Nat /\ nodes[node].d \in Nat /\ nodes[node].real_g \in Int
           /\ o \in Range(problem.kept[registry[node]]) /\ o \in Ops(task)
           /\ registry[node] \in States(task)
           /\ Successor(task, o, registry[node]) \in States(task)
           /\ applicable_ops' \in Seq(Ops(task))
           /\ Range(applicable_ops') \subseteq Range(problem.kept[registry[node]])
           /\ Range(applicable_ops) \subseteq Range(applicable_ops') \cup {o}
<1>1. /\ status = "EXPANDING" /\ status' = status /\ problem' = problem /\ task' = task
      /\ node' = node /\ applicable_ops # <<>> /\ o = Head(applicable_ops)
      /\ applicable_ops' = Tail(applicable_ops)
    BY DEF TakeOperator, task
<1>2. TypeInv
    BY DEF IInv
<1>3. /\ node # NoState /\ node \in DOMAIN registry
      /\ nodes[node].status = "CLOSED"
      /\ Range(applicable_ops) \subseteq Range(problem.kept[registry[node]])
    BY <1>1 DEF IInv, ControlInv, TypeInv
<1>4. /\ nodes[node] \in Infos /\ nodes[node].real_g \in Int /\ registry[node] \in States(task)
    BY <1>2, <1>3, TypeFacts
<1>5. nodes[node].g \in Nat /\ nodes[node].d \in Nat
    BY <1>3 DEF IInv, NodeInv, IsReached
<1>6. applicable_ops \in Seq(Ops(task))
    BY <1>2 DEF TypeInv
<1>7. /\ applicable_ops' \in Seq(Ops(task)) /\ o = applicable_ops[1]
      /\ Len(applicable_ops) \in Nat /\ Len(applicable_ops) > 0
      /\ DOMAIN applicable_ops = 1 .. Len(applicable_ops)
      /\ DOMAIN applicable_ops' = 1 .. Len(applicable_ops) - 1
      /\ \A i \in 1 .. Len(applicable_ops) - 1 : applicable_ops'[i] = applicable_ops[i + 1]
    BY <1>1, <1>6, HeadTailProperties, LenProperties
<1>8. o \in Range(applicable_ops)
    BY <1>7 DEF Range
<1>9. Range(applicable_ops') \subseteq Range(applicable_ops)
    <2> SUFFICES ASSUME NEW i \in DOMAIN applicable_ops'
                 PROVE  applicable_ops'[i] \in Range(applicable_ops)
        BY DEF Range
    <2>1. i + 1 \in DOMAIN applicable_ops /\ applicable_ops'[i] = applicable_ops[i + 1]
        BY <1>7
    <2> QED
        BY <2>1 DEF Range
<1>10. Range(applicable_ops) \subseteq Range(applicable_ops') \cup {o}
    <2> SUFFICES ASSUME NEW i \in DOMAIN applicable_ops, i # 1
                 PROVE  applicable_ops[i] \in Range(applicable_ops')
        BY <1>7 DEF Range
    <2>1. i - 1 \in DOMAIN applicable_ops' /\ applicable_ops'[i - 1] = applicable_ops[i]
        BY <1>7
    <2> QED
        BY <2>1 DEF Range
<1>11. o \in Range(problem.kept[registry[node]])
    BY <1>3, <1>8
<1>12. o \in Ops(task) /\ Successor(task, o, registry[node]) \in States(task)
    BY <1>2, <1>4, <1>11, SuccessorFacts DEF TypeInv
<1> QED
    BY <1>1, <1>3, <1>4, <1>5, <1>7, <1>9, <1>10, <1>11, <1>12

(* What must be shown of the edge that is followed.                        *)
LEMMA TakePreserves ==
    ASSUME IInv, NEW o, TakeOperator(o), RegistryGrows, NEW id, NEW info, NEW h, NEW list,
           NodeStep(id, info, h, list),
           info.status = "CLOSED" => /\ id \in DOMAIN registry /\ nodes[id].status = "CLOSED"
                                     /\ problem.reopen_closed => info = nodes[id],
           id = node => info = nodes[id],
           NEW n, n = node, problem.reopen_closed => IsRelaxed(n, o)'
    PROVE  IInv' /\ Extends
<1>1. /\ TypeInv /\ problem' = problem /\ task' = task /\ node' = node /\ status = "EXPANDING"
      /\ status' = status /\ node \in DOMAIN registry /\ node # NoState
      /\ nodes[node].status = "CLOSED" /\ applicable_ops' \in Seq(Ops(task))
      /\ Range(applicable_ops') \subseteq Range(problem.kept[registry[node]])
      /\ Range(applicable_ops) \subseteq Range(applicable_ops') \cup {o}
    BY TakeFacts DEF IInv
<1>2. /\ DOMAIN registry \subseteq DOMAIN registry'
      /\ \A i \in DOMAIN registry : registry'[i] = registry[i]
    BY DEF RegistryGrows
<1>3. /\ \A i \in DOMAIN registry' : i # id => i \in DOMAIN registry /\ nodes'[i] = nodes[i]
      /\ id \in DOMAIN registry' /\ nodes'[id] = info
    BY DEF NodeStep
<1>4. ControlInv'
    <2>1. nodes'[node].status = "CLOSED" /\ registry'[node] = registry[node]
        BY <1>1, <1>2, <1>3
    <2> QED
        BY <1>1, <2>1 DEF ControlInv
<1>5. ASSUME NEW i \in DOMAIN registry', nodes'[i].status = "CLOSED"
      PROVE  /\ i \in DOMAIN registry /\ nodes[i].status = "CLOSED"
             /\ registry'[i] = registry[i] /\ ~IsGoalState(task, registry[i])
             /\ problem.reopen_closed => nodes'[i] = nodes[i]
    <2>1. /\ i \in DOMAIN registry /\ nodes[i].status = "CLOSED"
          /\ problem.reopen_closed => nodes'[i] = nodes[i]
        BY <1>3, <1>5
    <2>2. ~IsGoalState(task, registry[i])
        BY <1>1, <2>1 DEF IInv, NodeInv
    <2> QED
        BY <1>2, <2>1, <2>2
<1>6. ASSUME problem.reopen_closed, NEW i \in DOMAIN registry', nodes'[i].status = "CLOSED",
             NEW q \in Followed(i)'
      PROVE  \/ IsRelaxed(i, q)'
             \/ /\ i \in DOMAIN registry /\ nodes'[i] = nodes[i]
                /\ ~IsGoalState(task, registry[i]) /\ q \in Followed(i)
    <2>1. /\ i \in DOMAIN registry /\ registry'[i] = registry[i]
          /\ ~IsGoalState(task, registry[i]) /\ nodes'[i] = nodes[i]
        BY <1>5, <1>6
    <2>2. q \in Range(problem.kept[registry[i]])
        BY <1>1, <1>6, <2>1 DEF Followed
    <2>3. CASE i = node /\ q = o
        <3>1. i = n /\ q = o
            BY <2>3
        <3> QED
            BY <1>6, <3>1
    <2>4. CASE i = node /\ q # o
        <3>1. q \notin Range(applicable_ops)
            BY <1>1, <1>6, <2>4 DEF Followed
        <3> QED
            BY <2>1, <2>2, <3>1 DEF Followed
    <2>5. CASE i # node
        BY <2>1, <2>2, <2>5 DEF Followed
    <2> QED
        BY <2>3, <2>4, <2>5
<1>7. node' \in {NoState} \cup DOMAIN registry'
    BY <1>1, <1>2
<1>8. \A i \in DOMAIN registry' :
          nodes'[i].status = "CLOSED" /\ IsGoalState(task, registry'[i])
            => status' \in {"SOLVED", "TIMEOUT"}
    BY <1>5
<1> QED
    <2> HIDE DEF IInv, RegistryGrows
    <2> QED
        BY <1>1, <1>4, <1>6, <1>7, <1>8, NodeStepPreserves

(* The successor is registered; it is new, or known and then the registry  *)
(* does not change.                                                        *)
LEMMA GenerateFacts ==
    ASSUME IInv, NEW o, Generate(o), NEW succ, succ = SuccId(o)
    PROVE  /\ RegistryGrows
           /\ succ \in DOMAIN registry' /\ DOMAIN registry' = DOMAIN registry \cup {succ}
           /\ registry'[succ] = SuccessorState(o) /\ SuccessorState(o) \in States(task)
           /\ registry'[succ] = Representative(Successor(task, o, registry[node]))'
           /\ IsNew(o) /\ succ \in DOMAIN registry => nodes[succ].status = "NEW"
           /\ ~IsNew(o) => /\ registry' = registry /\ succ \in DOMAIN registry
                           /\ nodes[succ].status # "NEW"
<1>1. /\ TypeInv /\ TakeOperator(o) /\ registry' = Register(registry, SuccessorState(o))
    BY DEF IInv, Generate
<1>2. /\ problem' = problem /\ task' = task /\ node' = node
      /\ node \in DOMAIN registry /\ registry[node] \in States(task)
      /\ Successor(task, o, registry[node]) \in States(task)
    BY <1>1, TakeFacts
<1> PICK S : S = SuccessorState(o)
    OBVIOUS
<1> PICK s \in States(task) : s = Successor(task, o, registry[node])
    BY <1>2
<1>3. S = Representative(s)
    BY DEF SuccessorState
<1>4. S \in States(task)
    BY <1>1, <1>3, RepresentativeFacts
<1>5. registry \in Seq(States(task)) /\ IsInjective(registry)
    BY <1>1 DEF IInv, TypeInv, RegistryInv
<1>6. registry' = Register(registry, S)
    BY <1>1
<1>7. succ = StateId(registry', S)
    BY DEF SuccId
<1>8. /\ registry' \in Seq(States(task))
      /\ DOMAIN registry \subseteq DOMAIN registry'
      /\ \A i \in DOMAIN registry : registry'[i] = registry[i]
      /\ IsInjective(registry')
      /\ Range(registry') = Range(registry) \cup {S}
      /\ succ \in DOMAIN registry' /\ registry'[succ] = S
      /\ DOMAIN registry' = DOMAIN registry \cup {succ}
      /\ S \in Range(registry) => registry' = registry
    <2>1. registry' \in Seq(States(task)) /\ IsInjective(registry')
          /\ Registers(registry', registry, S, succ)
        BY <1>4, <1>5, <1>6, <1>7, RegisterFacts
    <2> QED
        BY <2>1 DEF Registers
<1>9. RegistryInv'
    <2>1. ASSUME problem.symmetries = "DKS", NEW r1 \in Range(registry'), NEW r2 \in Range(registry'),
                 Canonical(task, problem.group, r1) = Canonical(task, problem.group, r2)
          PROVE  r1 = r2
        <3>1. \A q1, q2 \in Range(registry) :
                    Canonical(task, problem.group, q1) = Canonical(task, problem.group, q2)
                        => q1 = q2
            BY <2>1 DEF IInv, RegistryInv
        <3>2. CASE S \in Range(registry)
            BY <1>8, <2>1, <3>1, <3>2
        <3>3. CASE S \notin Range(registry)
            <4>1. /\ S = s
                  /\ \A r \in Range(registry) :
                        Canonical(task, problem.group, r) # Canonical(task, problem.group, s)
                BY <1>1, <1>3, <2>1, <3>3, RepresentativeFacts
            <4> QED
                BY <1>8, <2>1, <3>1, <4>1
        <3> QED
            BY <3>2, <3>3
    <2> QED
        BY <1>2, <1>8, <2>1 DEF RegistryInv, IsInjective
<1>10. RegistryGrows
    BY <1>2, <1>8, <1>9 DEF RegistryGrows
<1>11. registry'[succ] = Representative(Successor(task, o, registry[node]))'
    <2>1. Representative(s)' = Representative(s)
        BY <1>1, <1>2, <1>3, <1>8, <1>9, RepresentativeStays
    <2>2. Successor(task, o, registry[node])' = s
        BY <1>2, <1>8
    <2>3. Representative(Successor(task, o, registry[node]))' = Representative(s)'
        BY <2>2 DEF Representative
    <2> QED
        BY <1>3, <1>8, <2>1, <2>3
<1>12. ASSUME S \in Range(registry)
       PROVE  registry' = registry /\ succ \in DOMAIN registry /\ succ = StateId(registry, S)
    BY <1>7, <1>8, <1>12
<1>13. ASSUME succ \in DOMAIN registry
       PROVE  S \in Range(registry)
    BY <1>8, <1>13 DEF Range
<1>14. IsNew(o) <=> (S \in Range(registry) => nodes[StateId(registry, S)].status = "NEW")
    BY DEF IsNew
<1> QED
    BY <1>4, <1>8, <1>10, <1>11, <1>12, <1>13, <1>14

(* The node info by the edge from the node that is expanded.               *)
LEMMA NewInfoFacts ==
    ASSUME IInv, NEW o, TakeOperator(o)
    PROVE  /\ NewInfo(o) \in Infos /\ NewInfo(o).status = "OPEN"
           /\ NewInfo(o).g = nodes[node].g + AdjustedCost(o) /\ NewInfo(o).g \in Nat
           /\ NewInfo(o).d = nodes[node].d + 1 /\ NewInfo(o).d \in Nat
           /\ NewInfo(o).real_g = nodes[node].real_g + Cost(o)
           /\ problem.cost_type = "NORMAL" => NewInfo(o).real_g = NewInfo(o).g
           /\ AdjustedCost(o) \in Nat
<1>1. /\ nodes[node].g \in Nat /\ nodes[node].d \in Nat /\ nodes[node].real_g \in Int
      /\ o \in Ops(task) /\ node \in Nat /\ node \in DOMAIN registry
      /\ nodes[node].status = "CLOSED"
    BY TakeFacts, TypeFacts DEF IInv
<1>2. /\ Cost(o) \in Nat /\ AdjustedCost(o) \in Nat
      /\ problem.cost_type = "NORMAL" => AdjustedCost(o) = Cost(o)
    BY <1>1, CostFacts DEF IInv, TypeInv
<1>3. problem.cost_type = "NORMAL" => nodes[node].real_g = nodes[node].g
    BY <1>1 DEF IInv, NodeInv, IsReached
<1> QED
    BY <1>1, <1>2, <1>3 DEF NewInfo, NodeReachedBy, Infos

(* An entry of a node that did not change stays one for what it is.        *)
LEMMA QueueStays ==
    ASSUME IInv, DOMAIN registry \subseteq DOMAIN registry'
    PROVE  open_list \in Seq(Entries(DOMAIN registry')) /\ Sorted(open_list)
<1>1. \A e : e \in Entries(DOMAIN registry) => e \in Entries(DOMAIN registry')
    BY DEF Entries
<1>2. open_list \in Seq(Entries(DOMAIN registry)) /\ Sorted(open_list)
    BY DEF IInv, TypeInv, SortedInv
<1>3. /\ Len(open_list) \in Nat
      /\ open_list \in [1 .. Len(open_list) -> Entries(DOMAIN registry)]
    BY <1>2, LenProperties
<1>4. open_list \in [1 .. Len(open_list) -> Entries(DOMAIN registry')]
    BY <1>1, <1>3
<1>5. open_list \in Seq(Entries(DOMAIN registry'))
    BY <1>3, <1>4, IsASeq
<1> QED
    BY <1>2, <1>5

(* The successor gets info and the estimate h.                             *)
LEMMA SuccessorPreserves ==
    ASSUME IInv, NEW o, Generate(o), NEW succ, succ = SuccId(o),
           NEW info, NEW h \in Evaluations(SuccessorState(o)), IsKnown(info, h),
           nodes' = [i \in DOMAIN registry' |-> IF i = succ THEN info ELSE nodes[i]],
           estimates' = [i \in DOMAIN registry' |-> IF i = succ THEN h ELSE estimates[i]],
           succ \in DOMAIN registry => NoWorse(nodes[succ], info),
           succ = node => info = nodes[succ],
           info.status = "CLOSED" => /\ succ \in DOMAIN registry /\ nodes[succ].status = "CLOSED"
                                     /\ problem.reopen_closed => info = nodes[succ],
           info.status # "DEAD_END" => ~IsWorse(NewInfo(o), info),
           \/ /\ open_list' = open_list
              /\ problem.reopen_closed /\ info.status = "OPEN" /\ h # INFTY =>
                    /\ succ \in DOMAIN registry /\ nodes[succ] = info
                    /\ estimates[succ] = h
           \/ /\ info.status = "OPEN" /\ h # INFTY
              /\ open_list' = Insert(open_list, Key(info.g, info.d, h), succ)
    PROVE  IInv' /\ Extends
<1>1. /\ RegistryGrows
      /\ succ \in DOMAIN registry' /\ DOMAIN registry' = DOMAIN registry \cup {succ}
      /\ registry'[succ] = SuccessorState(o)
      /\ registry'[succ] = Representative(Successor(task, o, registry[node]))'
    BY GenerateFacts
<1>2. TakeOperator(o) /\ status = "EXPANDING"
    BY DEF Generate, TakeOperator
<1>3. /\ problem' = problem /\ task' = task /\ node' = node /\ node \in DOMAIN registry
    BY <1>2, TakeFacts
<1>4. NodeStep(succ, info, h, open_list)
    <2>1. open_list \in Seq(Entries(DOMAIN registry')) /\ Sorted(open_list)
        BY <1>1, QueueStays DEF RegistryGrows
    <2>2. h \in Evaluations(registry'[succ])
        BY <1>1
    <2> HIDE DEF IInv, RegistryGrows
    <2> QED
        BY <1>1, <1>2, <2>1, <2>2 DEF NodeStep
<1> PICK n : n = node
    OBVIOUS
<1>5. IsRelaxed(n, o)'
    <2>1. /\ n \in DOMAIN registry' /\ registry'[n] = registry[n] /\ nodes'[n] = nodes[n]
          /\ nodes'[succ] = info /\ succ \in DOMAIN nodes'
        BY <1>1, <1>3 DEF RegistryGrows
    <2>2. NodeReachedBy("OPEN", n, nodes'[n], o, Cost(o)', AdjustedCost(o)') = NewInfo(o)
        BY <1>3, <2>1 DEF NewInfo, Cost, AdjustedCost
    <2>3. registry'[succ] = Representative(Successor(task, o, registry[n]))'
        BY <1>1, <1>3
    <2>4. /\ nodes'[succ].status # "NEW"
          /\ nodes'[succ].status # "DEAD_END" => ~IsWorse(NewInfo(o), nodes'[succ])
        BY <2>1 DEF IsKnown
    <2> PICK via : via = NewInfo(o)
        OBVIOUS
    <2>5. nodes'[succ].status # "DEAD_END" =>
             ~(\/ nodes'[succ].g > via.g
               \/ problem'.shortest /\ nodes'[succ].g = via.g /\ nodes'[succ].d > via.d)
        BY <1>3, <2>4 DEF IsWorse
    <2>6. NodeReachedBy("OPEN", n, nodes'[n], o, Cost(o)', AdjustedCost(o)') = via
        BY <2>2
    <2> QED
        BY <2>1, <2>3, <2>4, <2>5, <2>6 DEF IsRelaxed, IsWorse
<1> QED
    <2> HIDE DEF IInv, RegistryGrows
    <2> QED
        BY <1>1, <1>2, <1>3, <1>4, <1>5, TakePreserves

(* SetInfo changes the node and the estimate of one state only.            *)
LEMMA SetInfoFacts ==
    ASSUME IInv, NEW o, Generate(o), NEW succ, succ = SuccId(o), NEW info, NEW h,
           SetInfo(succ, info, h)
    PROVE  /\ nodes' = [i \in DOMAIN registry' |-> IF i = succ THEN info ELSE nodes[i]]
           /\ estimates' = [i \in DOMAIN registry' |-> IF i = succ THEN h ELSE estimates[i]]
<1>1. registry' \in Seq(States(task))
    BY GenerateFacts DEF RegistryGrows
<1>2. DOMAIN registry' = 1 .. Len(registry')
    BY <1>1, LenProperties
<1> QED
    BY <1>2 DEF SetInfo

(* MarkDeadEnd: a new state is a dead end.                                 *)
LEMMA MarkDeadEndPreserves ==
    ASSUME IInv, NEW o, MarkDeadEnd(o)
    PROVE  IInv' /\ Extends
<1> PICK succ : succ = SuccId(o)
    OBVIOUS
<1> PICK info : info = [NewNode EXCEPT !.status = "DEAD_END"]
    OBVIOUS
<1>1. /\ Generate(o) /\ TakeOperator(o) /\ IsNew(o) /\ INFTY \in Evaluations(SuccessorState(o))
      /\ SetInfo(succ, info, INFTY) /\ open_list' = open_list
    BY DEF MarkDeadEnd, Generate
<1>2. /\ info.status = "DEAD_END" /\ info \in Infos
    BY DEF NewNode, Infos, NoState
<1>3. IsKnown(info, INFTY)
    BY <1>2 DEF IsKnown, IsReached
<1>4. succ \in DOMAIN registry => nodes[succ].status = "NEW"
    BY <1>1, GenerateFacts
<1>5. succ \in DOMAIN registry => NoWorse(nodes[succ], info)
    BY <1>2, <1>4 DEF NoWorse, IsReached
<1>6. succ # node
    BY <1>1, <1>4, TakeFacts
<1>7. /\ nodes' = [i \in DOMAIN registry' |-> IF i = succ THEN info ELSE nodes[i]]
      /\ estimates' = [i \in DOMAIN registry' |-> IF i = succ THEN INFTY ELSE estimates[i]]
    BY <1>1, SetInfoFacts
<1> QED
    BY <1>1, <1>2, <1>3, <1>5, <1>6, <1>7, SuccessorPreserves

(* Open: a new state is reached, and queued.                               *)
LEMMA OpenPreserves ==
    ASSUME IInv, NEW o, Open(o)
    PROVE  IInv' /\ Extends
<1> PICK succ : succ = SuccId(o)
    OBVIOUS
<1> PICK info : info = NewInfo(o)
    OBVIOUS
<1>1. Generate(o) /\ TakeOperator(o) /\ IsNew(o) /\ Enqueue(o, info, info)
    BY DEF Open, Generate
<1>2. PICK h \in Evaluations(SuccessorState(o)) \ {INFTY} :
            /\ SetInfo(succ, info, h)
            /\ open_list' = Insert(open_list, Key(info.g, info.d, h), succ)
    BY <1>1 DEF Enqueue, InsertEntry
<1>3. /\ info \in Infos /\ info.status = "OPEN"
      /\ info.g \in Nat /\ info.d \in Nat
      /\ problem.cost_type = "NORMAL" => info.real_g = info.g
    BY <1>1, NewInfoFacts
<1>4. IsKnown(info, h) /\ ~IsWorse(info, info)
    BY <1>3 DEF IsKnown, IsWorse
<1>5. succ \in DOMAIN registry => nodes[succ].status = "NEW"
    BY <1>1, GenerateFacts
<1>6. succ \in DOMAIN registry => NoWorse(nodes[succ], info)
    BY <1>5 DEF NoWorse, IsReached
<1>7. succ # node
    BY <1>1, <1>5, TakeFacts
<1>8. /\ nodes' = [i \in DOMAIN registry' |-> IF i = succ THEN info ELSE nodes[i]]
      /\ estimates' = [i \in DOMAIN registry' |-> IF i = succ THEN h ELSE estimates[i]]
    BY <1>1, <1>2, SetInfoFacts
<1> QED
    BY <1>1, <1>2, <1>3, <1>4, <1>6, <1>7, <1>8, SuccessorPreserves

(* A better path is found to a node: it is not the one that is expanded.   *)
LEMMA BetterPathFacts ==
    ASSUME IInv, NEW o, HasBetterPath(o), NEW succ, succ = SuccId(o)
    PROVE  /\ Generate(o) /\ TakeOperator(o) /\ ~IsNew(o)
           /\ registry' = registry /\ succ \in DOMAIN registry
           /\ nodes[succ].status \in {"OPEN", "CLOSED"}
           /\ IsWorse(NewInfo(o), nodes[succ])
           /\ succ # node
           /\ ~IsWorse(nodes[succ], NewInfo(o)) /\ ~IsSame(nodes[succ], NewInfo(o))
<1>1. /\ Generate(o) /\ TakeOperator(o) /\ ~IsNew(o)
      /\ nodes[succ].status # "DEAD_END" /\ IsBetter(o, nodes[succ])
    BY DEF HasBetterPath, Generate
<1>2. registry' = registry /\ succ \in DOMAIN registry /\ nodes[succ].status # "NEW"
    BY <1>1, GenerateFacts
<1>3. nodes[succ].status \in {"OPEN", "CLOSED"}
    <2>1. nodes[succ].status \in {"NEW", "OPEN", "CLOSED", "DEAD_END"}
        BY <1>2, TypeFacts DEF IInv, Infos
    <2> QED
        BY <1>1, <1>2, <2>1
<1>4. /\ NewInfo(o).g = nodes[node].g + AdjustedCost(o)
      /\ NewInfo(o).d = nodes[node].d + 1 /\ AdjustedCost(o) \in Nat
    BY <1>1, NewInfoFacts
<1>5. nodes[node].g \in Nat /\ nodes[node].d \in Nat
    BY <1>1, TakeFacts
<1>6. nodes[succ].g \in Nat /\ nodes[succ].d \in Nat
    BY <1>2, <1>3 DEF IInv, NodeInv, IsReached
<1>7. IsWorse(NewInfo(o), nodes[succ])
    BY <1>1, <1>4 DEF IsBetter, IsWorse
<1>8. succ # node
    <2> SUFFICES ASSUME succ = node
                 PROVE  FALSE
        OBVIOUS
    <2> QED
        BY <1>4, <1>5, <1>7 DEF IsWorse
<1>9. ~IsWorse(nodes[succ], NewInfo(o)) /\ ~IsSame(nodes[succ], NewInfo(o))
    BY <1>4, <1>5, <1>6, <1>7 DEF IsWorse, IsSame
<1> QED
    BY <1>1, <1>2, <1>3, <1>7, <1>8, <1>9

(* Reopen: a node that gets a better path is queued for it.                *)
LEMMA ReopenPreserves ==
    ASSUME IInv, NEW o, Reopen(o)
    PROVE  IInv' /\ Extends
<1> PICK succ : succ = SuccId(o)
    OBVIOUS
<1> PICK info : info = NewInfo(o)
    OBVIOUS
<1>1. /\ HasBetterPath(o) /\ problem.reopen_closed /\ Enqueue(o, info, info)
    BY DEF Reopen
<1>2. /\ Generate(o) /\ TakeOperator(o) /\ ~IsNew(o)
      /\ registry' = registry /\ succ \in DOMAIN registry
      /\ nodes[succ].status \in {"OPEN", "CLOSED"}
      /\ succ # node
      /\ ~IsWorse(nodes[succ], info) /\ ~IsSame(nodes[succ], info)
    BY <1>1, BetterPathFacts
<1>3. PICK h \in Reevaluations(succ) :
            /\ SetInfo(succ, info, h)
            /\ open_list' = InsertEntry(open_list, info.g, info.d, h, succ)
    BY <1>1, <1>2 DEF Enqueue
<1>4. /\ info \in Infos /\ info.status = "OPEN"
      /\ info.g \in Nat /\ info.d \in Nat
      /\ problem.cost_type = "NORMAL" => info.real_g = info.g
    BY <1>2, NewInfoFacts
<1>5. IsKnown(info, h) /\ ~IsWorse(info, info)
    BY <1>4 DEF IsKnown, IsWorse
<1>6. NoWorse(nodes[succ], info)
    BY <1>2, <1>4 DEF NoWorse
<1>7. h \in Evaluations(SuccessorState(o))
    BY <1>2, <1>3, GenerateFacts DEF IInv, NodeInv, Reevaluations
<1>8. /\ nodes' = [i \in DOMAIN registry' |-> IF i = succ THEN info ELSE nodes[i]]
      /\ estimates' = [i \in DOMAIN registry' |-> IF i = succ THEN h ELSE estimates[i]]
    BY <1>2, <1>3, SetInfoFacts
<1>9. \/ h = INFTY /\ open_list' = open_list
      \/ h # INFTY /\ open_list' = Insert(open_list, Key(info.g, info.d, h), succ)
    BY <1>3 DEF InsertEntry
<1> QED
    BY <1>2, <1>4, <1>5, <1>6, <1>7, <1>8, <1>9, SuccessorPreserves

(* UpdateParent: without reopening only the path changes.                  *)
LEMMA UpdateParentPreserves ==
    ASSUME IInv, NEW o, UpdateParent(o)
    PROVE  IInv' /\ Extends
<1> PICK succ : succ = SuccId(o)
    OBVIOUS
<1> PICK info : info = [NewInfo(o) EXCEPT !.status = nodes[succ].status]
    OBVIOUS
<1>1. /\ HasBetterPath(o) /\ ~problem.reopen_closed /\ open_list' = open_list
      /\ SetInfo(succ, info, estimates[succ])
    BY DEF UpdateParent
<1>2. /\ Generate(o) /\ TakeOperator(o) /\ ~IsNew(o)
      /\ registry' = registry /\ succ \in DOMAIN registry
      /\ nodes[succ].status \in {"OPEN", "CLOSED"}
      /\ succ # node
      /\ ~IsWorse(nodes[succ], NewInfo(o)) /\ ~IsSame(nodes[succ], NewInfo(o))
    BY <1>1, BetterPathFacts
<1>3. /\ NewInfo(o) \in Infos /\ NewInfo(o).g \in Nat /\ NewInfo(o).d \in Nat
      /\ problem.cost_type = "NORMAL" => NewInfo(o).real_g = NewInfo(o).g
    BY <1>2, NewInfoFacts
<1>4. /\ info \in Infos /\ info.status = nodes[succ].status
      /\ info.g = NewInfo(o).g /\ info.d = NewInfo(o).d /\ info.real_g = NewInfo(o).real_g
    <2>1. nodes[succ].status \in {"NEW", "OPEN", "CLOSED", "DEAD_END"}
        BY <1>2
    <2> QED
        BY <1>3, <2>1 DEF Infos
<1>5. IsKnown(info, estimates[succ])
    BY <1>2, <1>3, <1>4 DEF IsKnown
<1>6. ~IsWorse(NewInfo(o), info)
    BY <1>3, <1>4 DEF IsWorse
<1>7. NoWorse(nodes[succ], info)
    BY <1>1, <1>2, <1>4 DEF NoWorse, IsWorse
<1>8. estimates[succ] \in Evaluations(SuccessorState(o))
    BY <1>2, GenerateFacts DEF IInv, NodeInv
<1>9. /\ nodes' = [i \in DOMAIN registry' |-> IF i = succ THEN info ELSE nodes[i]]
      /\ estimates' = [i \in DOMAIN registry' |-> IF i = succ THEN estimates[succ] ELSE estimates[i]]
    BY <1>1, <1>2, SetInfoFacts
<1>10. info.status = "CLOSED" => nodes[succ].status = "CLOSED"
    BY <1>4
<1> QED
    BY <1>1, <1>2, <1>5, <1>6, <1>7, <1>8, <1>9, <1>10, SuccessorPreserves

(* A node that is known stays what it is.                                  *)
LEMMA KnownFacts ==
    ASSUME IInv, NEW id \in DOMAIN registry, nodes[id].status # "NEW"
    PROVE  /\ IsKnown(nodes[id], estimates[id])
           /\ estimates[id] \in Evaluations(registry[id])
           /\ NoWorse(nodes[id], nodes[id])
           /\ nodes = [i \in DOMAIN registry |-> IF i = id THEN nodes[id] ELSE nodes[i]]
           /\ estimates = [i \in DOMAIN registry |-> IF i = id THEN estimates[id] ELSE estimates[i]]
<1>1. TypeInv
    BY DEF IInv
<1>2. IsKnown(nodes[id], estimates[id]) /\ estimates[id] \in Evaluations(registry[id])
    BY <1>1, TypeFacts DEF IInv, NodeInv, IsKnown
<1>3. NoWorse(nodes[id], nodes[id])
    BY <1>1, TypeFacts, NoWorseThanItself
<1>4. /\ nodes = [i \in DOMAIN registry |-> IF i = id THEN nodes[id] ELSE nodes[i]]
      /\ estimates = [i \in DOMAIN registry |-> IF i = id THEN estimates[id] ELSE estimates[i]]
    BY <1>1 DEF TypeInv
<1> QED
    BY <1>2, <1>3, <1>4

(* KeepOldPath: the successor is known by a path as good.                  *)
LEMMA KeepOldPathPreserves ==
    ASSUME IInv, NEW o, KeepOldPath(o)
    PROVE  IInv' /\ Extends
<1> PICK succ : succ = SuccId(o)
    OBVIOUS
<1>1. /\ Generate(o) /\ TakeOperator(o) /\ ~IsNew(o)
      /\ nodes[succ].status = "DEAD_END" \/ ~IsBetter(o, nodes[succ])
      /\ nodes' = nodes /\ estimates' = estimates /\ open_list' = open_list
    BY DEF KeepOldPath, Generate
<1>2. /\ registry' = registry /\ succ \in DOMAIN registry /\ nodes[succ].status # "NEW"
      /\ registry[succ] = SuccessorState(o)
    BY <1>1, GenerateFacts
<1>3. /\ IsKnown(nodes[succ], estimates[succ])
      /\ estimates[succ] \in Evaluations(SuccessorState(o))
      /\ NoWorse(nodes[succ], nodes[succ])
      /\ nodes' = [i \in DOMAIN registry' |-> IF i = succ THEN nodes[succ] ELSE nodes[i]]
      /\ estimates' = [i \in DOMAIN registry' |-> IF i = succ THEN estimates[succ] ELSE estimates[i]]
    BY <1>1, <1>2, KnownFacts
<1>4. nodes[succ].status # "DEAD_END" => ~IsWorse(NewInfo(o), nodes[succ])
    <2>1. NewInfo(o).g = nodes[node].g + AdjustedCost(o) /\ NewInfo(o).d = nodes[node].d + 1
        BY <1>1, NewInfoFacts
    <2> QED
        BY <1>1, <2>1 DEF IsBetter, IsWorse
<1> QED
    BY <1>1, <1>2, <1>3, <1>4, SuccessorPreserves

(* OverBound: the successor is not within the bound.                       *)
LEMMA OverBoundPreserves ==
    ASSUME IInv, NEW o, OverBound(o)
    PROVE  IInv' /\ Extends
<1> PICK n : n = node
    OBVIOUS
<1>1. /\ TakeOperator(o) /\ ~WithinBound(o)
      /\ registry' = registry /\ nodes' = nodes /\ estimates' = estimates
      /\ open_list' = open_list
    BY DEF OverBound
<1>2. /\ n \in DOMAIN registry /\ nodes[n].status = "CLOSED" /\ status = "EXPANDING"
      /\ problem' = problem /\ task' = task /\ node' = node
    BY <1>1, TakeFacts
<1>3. RegistryGrows
    BY <1>1, <1>2 DEF IInv, TypeInv, RegistryInv, RegistryGrows
<1>4. NodeStep(n, nodes[n], estimates[n], open_list)
    <2>1. /\ IsKnown(nodes[n], estimates[n]) /\ estimates[n] \in Evaluations(registry'[n])
          /\ NoWorse(nodes[n], nodes[n])
          /\ nodes' = [i \in DOMAIN registry' |-> IF i = n THEN nodes[n] ELSE nodes[i]]
          /\ estimates' = [i \in DOMAIN registry' |-> IF i = n THEN estimates[n] ELSE estimates[i]]
        BY <1>1, <1>2, KnownFacts
    <2>2. open_list \in Seq(Entries(DOMAIN registry')) /\ Sorted(open_list)
        BY <1>1, QueueStays
    <2>3. DOMAIN registry' = DOMAIN registry \cup {n}
        BY <1>1, <1>2
    <2> QED
        BY <1>1, <1>2, <2>1, <2>2, <2>3 DEF NodeStep
<1>5. IsRelaxed(n, o)'
    <2>1. ~(nodes'[n].real_g + Cost(o)' < problem'.bound)
        BY <1>1, <1>2 DEF WithinBound, Cost
    <2> QED
        BY <2>1 DEF IsRelaxed
<1> QED
    <2> HIDE DEF IInv
    <2> QED
        BY <1>1, <1>2, <1>3, <1>4, <1>5, TakePreserves
-------------------------------------------------------------------------------
(* Steps that change only what the search is about to do.                  *)
LEMMA StatusStep ==
    ASSUME IInv, UNCHANGED <<problem, registry, nodes, estimates, open_list, applicable_ops>>,
           status # "INIT",
           \/ status' = "TIMEOUT"
           \/ status' = "FAILED" /\ status = "IN_PROGRESS"
           \/ status' = "IN_PROGRESS" /\ status = "EXPANDING",
           node' = node \/ (node' = NoState /\ applicable_ops = <<>>), ControlInv'
    PROVE  IInv' /\ Extends
<1>1. /\ TypeInv /\ problem' = problem /\ task' = task /\ registry' = registry
      /\ nodes' = nodes /\ estimates' = estimates /\ open_list' = open_list
      /\ applicable_ops' = applicable_ops
    BY DEF IInv, TypeInv, task
<1>2. TypeInv' /\ RegistryInv' /\ SortedInv'
    BY <1>1 DEF IInv, TypeInv, RegistryInv, SortedInv, Infos, Keys, Entries
<1>3. Extends
    BY <1>1, TypeFacts, NoWorseThanItself DEF Extends
<1>4. NodeInv'
    <2>1. \A id \in DOMAIN registry :
                nodes[id].status = "CLOSED" /\ IsGoalState(task, registry[id])
                    => status' \in {"SOLVED", "TIMEOUT"}
        BY DEF IInv, NodeInv
    <2>2. \A s : Evaluations(s)' = Evaluations(s)
        BY <1>1 DEF Evaluations
    <2> QED
        BY <1>1, <2>1, <2>2 DEF IInv, NodeInv
<1>5. StartInv'
    <2>1. PICK id \in DOMAIN registry : StartsAt(id)
        BY DEF IInv, StartInv
    <2>2. Representative(task.init)' = Representative(task.init)
        BY <1>1 DEF Representative
    <2>3. Evaluations(registry[id])' = Evaluations(registry[id])
        BY <1>1 DEF Evaluations
    <2>4. StartsAt(id)'
        BY <1>1, <2>1, <2>2, <2>3 DEF StartsAt
    <2> QED
        BY <1>1, <2>4 DEF StartInv
<1>6. EntryInv'
    BY <1>1 DEF IInv, EntryInv, KeyBounds
<1>7. OpenNodesAreQueued'
    BY <1>1 DEF IInv, OpenNodesAreQueued, Key
<1>8. ClosedNodesAreRelaxed'
    <2> SUFFICES ASSUME problem.reopen_closed, NEW i \in DOMAIN nodes,
                        nodes[i].status = "CLOSED", ~IsGoalState(task, registry[i]),
                        NEW o \in Followed(i)'
                 PROVE  IsRelaxed(i, o)'
        BY <1>1 DEF ClosedNodesAreRelaxed
    <2>1. o \in Followed(i)
        <3>1. Range(<<>>) = {}
            BY DEF Range
        <3>2. o \in Range(problem.kept[registry[i]])
            BY <1>1 DEF Followed
        <3>3. i # NoState
            BY <1>1, TypeFacts DEF NoState
        <3> QED
            BY <1>1, <3>1, <3>2, <3>3 DEF Followed
    <2>2. IsRelaxed(i, o)
        BY <2>1 DEF IInv, ClosedNodesAreRelaxed
    <2>3. i \in DOMAIN registry /\ o \in Range(problem.kept[registry[i]])
        BY <1>1, <2>1, TypeFacts DEF Followed
    <2> QED
        BY <1>1, <1>2, <1>3, <2>2, <2>3, RelaxedStays
<1> QED
    BY <1>2, <1>3, <1>4, <1>5, <1>6, <1>7, <1>8 DEF IInv

(* Exhaust ends the search on an empty open list.                          *)
LEMMA ExhaustPreserves ==
    ASSUME IInv, Exhaust
    PROVE  IInv' /\ Extends
<1>1. ControlInv'
    BY DEF Exhaust, IInv, ControlInv
<1> QED
    BY <1>1, StatusStep DEF Exhaust

(* EndStep: the last operator was followed.                                *)
LEMMA EndStepPreserves ==
    ASSUME IInv, EndStep
    PROVE  IInv' /\ Extends
<1>1. ControlInv'
    BY DEF EndStep, IInv, ControlInv
<1> QED
    BY <1>1, StatusStep DEF EndStep

(* TimeOut leaves everything but the status.                               *)
LEMMA TimeOutPreserves ==
    ASSUME IInv, TimeOut
    PROVE  IInv' /\ Extends
<1>1. ControlInv'
    BY DEF TimeOut, IInv, ControlInv
<1> QED
    BY <1>1, StatusStep DEF TimeOut

(* Nothing is known before the initial state is registered.                *)
LEMMA InitCorrect ==
    ASSUME Init
    PROVE  IInv
<1>1. problem \in Problems /\ task = problem.task
    BY DEF Init, task
<1>2. /\ status = "INIT" /\ registry = <<>> /\ nodes = <<>> /\ estimates = <<>>
      /\ open_list = <<>> /\ node = NoState /\ applicable_ops = <<>>
    BY DEF Init
<1>3. DOMAIN <<>> = {} /\ Len(<<>>) = 0 /\ Range(<<>>) = {}
    BY DEF Range
<1>4. TypeInv
    <2>1. \A S : <<>> \in Seq(S) /\ <<>> \in [{} -> S]
        OBVIOUS
    <2> QED
        BY <1>1, <1>2, <1>3, <2>1 DEF TypeInv
<1>5. RegistryInv /\ ControlInv /\ NodeInv /\ StartInv /\ EntryInv /\ SortedInv
    BY <1>2, <1>3 DEF RegistryInv, ControlInv, NodeInv, StartInv, EntryInv, SortedInv, Sorted,
                      IsInjective
<1>6. OpenNodesAreQueued /\ ClosedNodesAreRelaxed
    BY <1>2, <1>3 DEF OpenNodesAreQueued, ClosedNodesAreRelaxed
<1> QED
    BY <1>4, <1>5, <1>6 DEF IInv

(* Initialize: the first entry is about the first node, or there is none.  *)
LEMMA InitializePreserves ==
    ASSUME IInv, Initialize
    PROVE  IInv' /\ Extends
<1> PICK S : S = Representative(task.init)
    OBVIOUS
<1> PICK id : id = StateId(registry', S)
    OBVIOUS
<1>1. /\ status = "INIT" /\ status' = "IN_PROGRESS"
      /\ registry' = Register(<<task.init>>, S)
      /\ problem' = problem /\ task' = task /\ node' = node /\ applicable_ops' = applicable_ops
    BY DEF Initialize, task
<1>2. PICK h \in Evaluations(S) :
            /\ estimates' = [i \in 1 .. Len(registry') |-> IF i = id THEN h ELSE -1]
            /\ nodes' = [i \in 1 .. Len(registry') |->
                            IF i = id /\ h # INFTY THEN InitialNode ELSE NewNode]
            /\ open_list' = InsertEntry(<<>>, 0, 0, h, id)
    BY DEF Initialize
<1>3. /\ TypeInv /\ problem \in Problems /\ registry = <<>> /\ node = NoState /\ applicable_ops = <<>>
      /\ DOMAIN registry = {} /\ Range(registry) = {}
    BY <1>1 DEF IInv, TypeInv, ControlInv, Range
<1>4. task.init \in States(task) /\ S \in States(task)
    BY <1>3, ProblemFacts, RepresentativeFacts
<1>5. h \in Nat /\ INFTY \in Nat
    BY <1>3, <1>4, EstimateFacts, ProblemFacts
<1> DEFINE first == <<task.init>>
<1>6. first \in Seq(States(task)) /\ IsInjective(first) /\ Range(first) = {task.init}
    BY <1>4 DEF IsInjective, Range
<1>7. /\ registry' \in Seq(States(task)) /\ IsInjective(registry')
      /\ Registers(registry', first, S, id)
    <2> HIDE DEF first
    <2>1. registry' = Register(first, S)
        BY <1>1 DEF first
    <2> QED
        BY <1>4, <1>6, <2>1, RegisterFacts
<1>8. /\ id \in DOMAIN registry' /\ registry'[id] = S
      /\ DOMAIN registry' = 1 .. Len(registry') /\ Len(registry') \in Nat
      /\ Range(registry') = {task.init, S}
    BY <1>6, <1>7, LenProperties DEF Registers
<1>9. RegistryInv'
    <2>1. problem.symmetries = "DKS" => S = task.init
        BY <1>3, <1>4, RepresentativeFacts
    <2> QED
        BY <1>1, <1>7, <1>8, <2>1 DEF RegistryInv
<1>10. /\ estimates' \in [DOMAIN registry' -> Int] /\ estimates'[id] = h
       /\ nodes' \in [DOMAIN registry' -> Infos]
       /\ nodes'[id] = (IF h # INFTY THEN InitialNode ELSE NewNode)
       /\ \A i \in DOMAIN registry' : i # id => nodes'[i] = NewNode
    <2>1. InitialNode \in Infos /\ NewNode \in Infos
        BY DEF InitialNode, NewNode, Infos, NoState, NoOperator
    <2> QED
        BY <1>2, <1>5, <1>8, <2>1
<1>11. /\ InitialNode.status = "OPEN" /\ InitialNode.g = 0 /\ InitialNode.d = 0
       /\ InitialNode.real_g = 0 /\ NewNode.status = "NEW"
    BY DEF InitialNode, NewNode
<1> PICK key : key = Key(0, 0, h)
    OBVIOUS
<1> PICK e : e = [key |-> key, id |-> id]
    OBVIOUS
<1>12. key \in Keys /\ key[1] = h /\ (problem.shortest => key[2] = 0)
    <2>1. 0 \in Int /\ h \in Int /\ 0 + h = h
        BY <1>5
    <2>2. CASE problem.shortest
        BY <2>1, <2>2 DEF Key, Keys
    <2>3. CASE ~problem.shortest
        BY <2>1, <2>3 DEF Key, Keys
    <2> QED
        BY <2>2, <2>3
<1>13. /\ open_list' \in Seq(Entries(DOMAIN registry')) /\ Sorted(open_list')
       /\ h = INFTY => open_list' = <<>>
       /\ h # INFTY => /\ \A j \in 1 .. Len(open_list') : open_list'[j] = e
                       /\ \E j \in 1 .. Len(open_list') : open_list'[j] = e
       /\ h = INFTY => Len(open_list') = 0
    <2>1. CASE h = INFTY
        BY <1>2, <2>1 DEF InsertEntry, Sorted
    <2>2. CASE h # INFTY
        <3> PICK Ids : Ids = DOMAIN registry'
            OBVIOUS
        <3> PICK empty : empty = <<>>
            OBVIOUS
        <3>1. empty \in Seq(Entries(Ids)) /\ Sorted(empty) /\ Len(empty) = 0
            BY DEF Sorted
        <3>2. open_list' = Insert(empty, key, id) /\ id \in Ids
            BY <1>2, <1>8, <2>2 DEF InsertEntry
        <3>3. /\ Insert(empty, key, id) \in Seq(Entries(Ids)) /\ Sorted(Insert(empty, key, id))
              /\ Adds(Insert(empty, key, id), empty, [key |-> key, id |-> id])
            BY <1>3, <1>12, <3>1, <3>2, InsertFacts
        <3>4. open_list' \in Seq(Entries(Ids)) /\ Sorted(open_list') /\ Adds(open_list', empty, e)
            BY <3>2, <3>3
        <3>5. 1 .. Len(empty) = {}
            BY <3>1
        <3>6. /\ \A j \in 1 .. Len(open_list') : open_list'[j] = e
              /\ \E j \in 1 .. Len(open_list') : open_list'[j] = e
            BY <3>4, <3>5 DEF Adds
        <3> QED
            BY <2>2, <3>4, <3>6
    <2> QED
        BY <2>1, <2>2
<1>14. e.key = key /\ e.id = id
    OBVIOUS
<1>15. TypeInv'
    BY <1>1, <1>3, <1>7, <1>10, <1>13 DEF TypeInv, Infos, Keys, Entries
<1>16. Extends
    BY <1>1, <1>3 DEF Extends
<1>17. ControlInv'
    BY <1>1, <1>3 DEF ControlInv
<1>18. NodeInv'
    <2>1. Evaluations(S)' = Evaluations(S)
        BY <1>1 DEF Evaluations
    <2> QED
        BY <1>2, <1>8, <1>10, <1>11, <2>1 DEF NodeInv, IsReached
<1>19. StartInv'
    <2>1. PICK s \in States(task) : s = task.init
        BY <1>4
    <2>2. Representative(s)' = Representative(s)
        <3>1. Representative(s) \in Range(registry') /\ Range(registry) \subseteq Range(registry')
            BY <1>3, <1>8, <2>1
        <3> QED
            BY <1>1, <1>3, <1>9, <3>1, RepresentativeStays
    <2>3. Representative(task.init)' = S
        <3>1. Representative(s) = S
            BY <2>1
        <3>2. Representative(task.init)' = Representative(s)'
            BY <1>1, <2>1 DEF Representative
        <3> QED
            BY <2>2, <3>1, <3>2
    <2>4. Evaluations(S)' = Evaluations(S)
        BY <1>1 DEF Evaluations
    <2>5. nodes'[id].status = "NEW" => h = INFTY
        BY <1>10, <1>11
    <2>6. nodes'[id].status = "NEW" =>
             /\ estimates'[id] = INFTY /\ INFTY \in Evaluations(S)
             /\ open_list' = <<>>
        BY <1>2, <1>10, <1>13, <2>5
    <2>7. IsReached(nodes'[id]) => nodes'[id].g <= 0 /\ nodes'[id].d <= 0
        BY <1>10, <1>11 DEF IsReached
    <2>8. registry'[id] = S /\ status' = "IN_PROGRESS"
        BY <1>1, <1>8
    <2> PICK T : T = Representative(task.init)'
        OBVIOUS
    <2> PICK E : E = Evaluations(S)
        OBVIOUS
    <2>9. Evaluations(registry[id])' = E
        <3>1. Evaluations(registry[id])' = Evaluations(registry'[id])
            BY <1>1 DEF Evaluations
        <3> QED
            BY <2>8, <3>1
    <2>10. StartsAt(id)'
        BY <1>1, <2>3, <2>6, <2>7, <2>8, <2>9 DEF StartsAt, IsReached
    <2> QED
        BY <1>8, <2>10 DEF StartInv
<1>20. EntryInv'
    <2>1. KeyBounds(key, InitialNode)
        BY <1>5, <1>11, <1>12 DEF KeyBounds
    <2>2. ASSUME NEW j \in 1 .. Len(open_list')
          PROVE  /\ nodes'[open_list'[j].id].status # "NEW"
                 /\ IsReached(nodes'[open_list'[j].id]) =>
                        KeyBounds(open_list'[j].key, nodes'[open_list'[j].id])
        <3>1. h # INFTY /\ open_list'[j] = e
            BY <1>13
        <3> QED
            BY <1>10, <1>11, <1>14, <2>1, <3>1
    <2> QED
        BY <1>1, <2>2 DEF EntryInv, KeyBounds
<1>21. OpenNodesAreQueued'
    <2>1. Key(0, 0, h)' = key
        <3>1. Key(0, 0, h)' = Key(0, 0, h)
            BY <1>1 DEF Key
        <3> QED
            BY <3>1
    <2>2. DOMAIN nodes' = DOMAIN registry' /\ DOMAIN open_list' = 1 .. Len(open_list')
        BY <1>15, LenProperties DEF TypeInv
    <2>3. ASSUME NEW i \in DOMAIN nodes', nodes'[i].status = "OPEN"
          PROVE  /\ i = id /\ h # INFTY /\ nodes'[i].g = 0 /\ nodes'[i].d = 0 /\ estimates'[i] = h
        BY <1>10, <1>11, <2>2, <2>3
    <2>4. h # INFTY => \E j \in DOMAIN open_list' : open_list'[j].id = id /\ open_list'[j].key = key
        BY <1>13, <1>14, <2>2
    <2> QED
        BY <2>1, <2>3, <2>4 DEF OpenNodesAreQueued
<1>22. ClosedNodesAreRelaxed'
    <2>1. \A i \in DOMAIN nodes' : nodes'[i].status # "CLOSED"
        BY <1>10, <1>11
    <2> QED
        BY <2>1 DEF ClosedNodesAreRelaxed
<1> QED
    BY <1>9, <1>13, <1>15, <1>16, <1>17, <1>18, <1>19, <1>20, <1>21, <1>22 DEF IInv, SortedInv

(* Every step of the search.                                               *)
LEMMA NextPreserves ==
    ASSUME IInv, [Next]_vars
    PROVE  IInv' /\ Extends
<1>1. CASE Initialize
    BY <1>1, InitializePreserves
<1>2. CASE Exhaust
    BY <1>2, ExhaustPreserves
<1>3. CASE SkipEntry
    BY <1>3, SkipEntryPreserves
<1>4. CASE FindDeadEnd
    BY <1>4, FindDeadEndPreserves
<1>5. ASSUME NEW h \in HeadEvaluations, Reevaluate(h) \/ ReachGoal(h) \/ Expand(h)
      PROVE  IInv' /\ Extends
    BY <1>5, ReevaluatePreserves, ReachGoalPreserves, ExpandPreserves
<1>6. ASSUME NEW o \in Ops(task), OverBound(o) \/ MarkDeadEnd(o) \/ Open(o)
      PROVE  IInv' /\ Extends
    BY <1>6, OverBoundPreserves, MarkDeadEndPreserves, OpenPreserves
<1>7. ASSUME NEW o \in Ops(task), Reopen(o) \/ UpdateParent(o) \/ KeepOldPath(o)
      PROVE  IInv' /\ Extends
    BY <1>7, ReopenPreserves, UpdateParentPreserves, KeepOldPathPreserves
<1>8. CASE EndStep
    BY <1>8, EndStepPreserves
<1>9. CASE TimeOut
    BY <1>9, TimeOutPreserves
<1>10. CASE UNCHANGED vars
    <2>1. /\ problem' = problem /\ task' = task /\ status' = status /\ registry' = registry
          /\ nodes' = nodes /\ estimates' = estimates /\ open_list' = open_list
          /\ node' = node /\ applicable_ops' = applicable_ops
        BY <1>10 DEF vars, task
    <2>2. Extends
        BY <2>1, TypeFacts, NoWorseThanItself DEF Extends, IInv
    <2>3. TypeInv' /\ RegistryInv' /\ ControlInv' /\ SortedInv'
        BY <2>1 DEF IInv, TypeInv, RegistryInv, ControlInv, SortedInv, Infos, Keys, Entries
    <2>4. NodeInv'
        BY <2>1 DEF IInv, NodeInv, Evaluations
    <2>5. StartInv'
        BY <2>1 DEF IInv, StartInv, StartsAt, Evaluations, Representative
    <2>6. EntryInv'
        BY <2>1 DEF IInv, EntryInv, KeyBounds
    <2>7. OpenNodesAreQueued'
        BY <2>1 DEF IInv, OpenNodesAreQueued, Key
    <2>8. ClosedNodesAreRelaxed'
        BY <2>1 DEF IInv, ClosedNodesAreRelaxed, Followed, IsRelaxed, IsWorse, Cost, AdjustedCost,
                    Representative
    <2> QED
        BY <2>2, <2>3, <2>4, <2>5, <2>6, <2>7, <2>8 DEF IInv
<1> QED
    BY <1>1, <1>2, <1>3, <1>4, <1>5, <1>6, <1>7, <1>8, <1>9, <1>10 DEF Next

(* The search keeps its invariant: for every task and problem.             *)
THEOREM Invariance == Spec => []IInv
<1>1. Init => IInv
    BY InitCorrect
<1>2. IInv /\ [Next]_vars => IInv'
    BY NextPreserves
<1> QED
    BY <1>1, <1>2, PTL DEF Spec

(* OpenNodesAreQueued: a node that was opened, or opened again, has an     *)
(* entry with the key of its best path, whatever stale entries precede it. *)
THEOREM QueueCorrect == Spec => []OpenNodesAreQueued
<1>1. IInv => OpenNodesAreQueued
    BY DEF IInv
<1> QED
    BY <1>1, Invariance, PTL

(* ClosedNodesAreRelaxed: with reopening, no edge from a closed node leads *)
(* to a state by a better path than the one that is known.                 *)
THEOREM ClosedRelaxed == Spec => []ClosedNodesAreRelaxed
<1>1. IInv => ClosedNodesAreRelaxed
    BY DEF IInv
<1> QED
    BY <1>1, Invariance, PTL

(* NodesOnlyImprove: no step worsens the path that is known to a node, and *)
(* none takes a node back from the closed ones for a path as good.         *)
THEOREM NodesImprove == Spec => NodesOnlyImprove
<1> DEFINE Improves == \A id \in DOMAIN nodes :
          LET old == nodes[id]
              new == nodes'[id]
          IN  /\ old.status \in {"OPEN", "CLOSED"} => ~IsWorse(old, new)
              /\ old.status = "DEAD_END" => new = old
              /\ old.status = "CLOSED" /\ new.status # "CLOSED" => ~IsSame(old, new)
<1>1. IInv /\ [Next]_vars => [Improves]_vars
    <2> SUFFICES ASSUME IInv, [Next]_vars
                 PROVE  Improves
        OBVIOUS
    <2>1. Extends
        BY NextPreserves
    <2>2. DOMAIN nodes = DOMAIN registry
        BY DEF IInv, TypeInv
    <2> QED
        BY <2>1, <2>2 DEF Extends, NoWorse, IsReached
<1> QED
    BY <1>1, Invariance, PTL DEF Spec, NodesOnlyImprove
-------------------------------------------------------------------------------
(* A path of the search: the operators that pruning keeps lead from the    *)
(* initial state to a goal, each state under the one it is registered      *)
(* under, at a cost below the bound; no evaluation of a state on it is     *)
(* more than what the rest of it costs.                                    *)
IsSearchPath(ops, states, costs) ==
    /\ ops \in Seq(Ops(task))
    /\ states \in [1 .. Len(ops) + 1 -> States(task)]
    /\ costs \in [1 .. Len(ops) + 1 -> Nat]
    /\ states[1] = Representative(task.init) /\ costs[1] = 0
    /\ \A i \in 1 .. Len(ops) :
        /\ ops[i] \in Range(problem.kept[states[i]])
        /\ states[i + 1] = Representative(Successor(task, ops[i], states[i]))
        /\ costs[i + 1] = costs[i] + Cost(ops[i])
    /\ IsGoalState(task, states[Len(ops) + 1])
    /\ costs[Len(ops) + 1] < problem.bound
    /\ \A i \in 1 .. Len(ops) + 1 : \A h \in Evaluations(states[i]) :
            costs[i] + h <= costs[Len(ops) + 1]

AtMost(info, g, d) ==
    \/ info.g < g
    \/ info.g = g /\ (problem.shortest => info.d <= d)

(* The k-th state of the path is known, by a path as good as this one.     *)
KnownOnPath(states, costs, k, id) ==
    /\ registry[id] = states[k]
    /\ IsReached(nodes[id])
    /\ AtMost(nodes[id], costs[k], k - 1)

(* Sums along an edge.                                                     *)
Edge(c, w, g, g2, d, d2, k) ==
    /\ c \in Nat /\ w \in Nat /\ g \in Nat /\ g2 \in Nat /\ d \in Nat /\ d2 \in Nat /\ k \in Nat
    /\ g <= c /\ ~(g2 > g + w)

EdgeFollowed(c, w, g, g2, d, d2, k) ==
    /\ g2 < c + w \/ g2 = c + w
    /\ (g = c => d <= k - 1) /\ (g2 = g + w => ~(d2 > d + 1)) => (g2 = c + w => d2 <= k)

(* A node behind an edge is at most the sum of the path and the edge.      *)
LEMMA EdgeSums ==
    ASSUME NEW c, NEW w, NEW g, NEW g2, NEW d, NEW d2, NEW k, Edge(c, w, g, g2, d, d2, k)
    PROVE  EdgeFollowed(c, w, g, g2, d, d2, k)
BY DEF Edge, EdgeFollowed

(* Sums of the entry of a node on a path.                                  *)
Entry(g, h, c, d, k, n, cost) ==
    /\ g \in Nat /\ h \in Nat /\ c \in Nat /\ d \in Nat /\ k \in Nat /\ n \in Nat /\ cost \in Nat
    /\ g <= c /\ c + h <= cost /\ k <= n + 1

EntryWithin(g, h, c, d, k, n, cost) ==
    /\ g + h <= cost
    /\ (g = c => d <= k - 1) => (g + h = cost => d <= n)

(* The key of a node on the path is within the cost of the path.           *)
LEMMA EntrySums ==
    ASSUME NEW g, NEW h, NEW c, NEW d, NEW k, NEW n, NEW cost, Entry(g, h, c, d, k, n, cost)
    PROVE  EntryWithin(g, h, c, d, k, n, cost)
BY DEF Entry, EntryWithin

(* Keys of the first entry and of one on a path.                           *)
Heads(g, d, f1, d1, f2, d2, cost, n) ==
    /\ g \in Nat /\ d \in Nat /\ f1 \in Int /\ d1 \in Int /\ f2 \in Int /\ d2 \in Int
    /\ cost \in Nat /\ n \in Nat
    /\ f1 > g \/ f1 = g
    /\ f1 <= f2 /\ f2 <= cost

HeadWithin(g, d, f1, d1, f2, d2, cost, n) ==
    /\ g <= cost
    /\ (f1 = g => d1 >= d) /\ (f1 = f2 => d1 <= d2) /\ (f2 = cost => d2 <= n)
          => (g = cost => d <= n)

(* A node whose key is first is within what any other key allows.          *)
LEMMA HeadSums ==
    ASSUME NEW g, NEW d, NEW f1, NEW d1, NEW f2, NEW d2, NEW cost, NEW n,
           Heads(g, d, f1, d1, f2, d2, cost, n)
    PROVE  HeadWithin(g, d, f1, d1, f2, d2, cost, n)
BY DEF Heads, HeadWithin

(* AtMost in numbers.                                                      *)
LEMMA AtMostFacts ==
    ASSUME NEW info, NEW g \in Nat, NEW d \in Int, info.g \in Nat, info.d \in Nat
    PROVE  AtMost(info, g, d) <=>
                info.g <= g /\ (problem.shortest => (info.g = g => info.d <= d))
<1> PICK ig, id : ig = info.g /\ id = info.d
    OBVIOUS
<1>1. AtMost(info, g, d) <=> ig < g \/ (ig = g /\ (problem.shortest => id <= d))
    BY DEF AtMost
<1>2. ig \in Nat /\ id \in Nat
    OBVIOUS
<1>3. CASE problem.shortest
    BY <1>1, <1>2, <1>3
<1>4. CASE ~problem.shortest
    BY <1>1, <1>2, <1>4
<1> QED
    BY <1>3, <1>4

(* A path stays one when nothing is registered.                            *)
LEMMA PathStays ==
    ASSUME UNCHANGED <<problem, registry>>, NEW ops, NEW states, NEW costs
    PROVE  IsSearchPath(ops, states, costs)' <=> IsSearchPath(ops, states, costs)
<1>1. problem' = problem /\ task' = task /\ registry' = registry
    BY DEF task
<1>2. \A s : Representative(s)' = Representative(s) /\ Evaluations(s)' = Evaluations(s)
    BY <1>1 DEF Representative, Evaluations
<1>3. \A o : Cost(o)' = Cost(o)
    BY <1>1 DEF Cost
<1>4. Representative(task.init)' = Representative(task.init)
    BY <1>1 DEF Representative
<1>5. \A i : Representative(Successor(task, ops[i], states[i]))'
                = Representative(Successor(task, ops[i], states[i]))
    BY <1>1 DEF Representative
<1>6. \A i : Evaluations(states[i])' = Evaluations(states[i])
    BY <1>2
<1>7. \A i : Cost(ops[i])' = Cost(ops[i])
    BY <1>3
<1> QED
    BY <1>1, <1>4, <1>5, <1>6, <1>7 DEF IsSearchPath

(* An evaluation on the path is finite.                                    *)
LEMMA PathFacts ==
    ASSUME problem \in Problems, NEW ops, NEW states, NEW costs, IsSearchPath(ops, states, costs),
           NEW k \in 1 .. Len(ops) + 1
    PROVE  /\ Len(ops) \in Nat /\ states[k] \in States(task) /\ costs[k] \in Nat
           /\ costs[Len(ops) + 1] \in Nat /\ costs[Len(ops) + 1] < problem.bound
           /\ \A h \in Evaluations(states[k]) :
                h \in Nat /\ h # INFTY /\ costs[k] + h <= costs[Len(ops) + 1]
<1>1. /\ Len(ops) \in Nat /\ states[k] \in States(task) /\ costs[k] \in Nat
      /\ costs[Len(ops) + 1] \in Nat /\ costs[Len(ops) + 1] < problem.bound
    <2>1. Len(ops) \in Nat
        BY LenProperties DEF IsSearchPath
    <2>2. Len(ops) + 1 \in 1 .. Len(ops) + 1
        BY <2>1
    <2> QED
        BY <2>1, <2>2 DEF IsSearchPath
<1>2. ASSUME NEW h \in Evaluations(states[k])
      PROVE  h \in Nat /\ h # INFTY /\ costs[k] + h <= costs[Len(ops) + 1]
    <2>1. h \in Nat /\ INFTY \in Nat /\ problem.bound \in Nat /\ problem.bound <= INFTY
        BY <1>1, EstimateFacts, ProblemFacts
    <2>2. costs[k] + h <= costs[Len(ops) + 1]
        BY DEF IsSearchPath
    <2> QED
        BY <1>1, <2>1, <2>2
<1> QED
    BY <1>1, <1>2

(* The search knows the first state of every path at no cost.              *)
LEMMA PathStarts ==
    ASSUME IInv, status # "INIT",
           NEW ops, NEW states, NEW costs, IsSearchPath(ops, states, costs)
    PROVE  \E id \in DOMAIN registry : KnownOnPath(states, costs, 1, id)
<1>1. TypeInv /\ problem \in Problems
    BY DEF IInv, TypeInv
<1>2. PICK id \in DOMAIN registry : StartsAt(id)
    BY DEF IInv, StartInv
<1>3. Len(ops) \in Nat /\ 1 \in 1 .. Len(ops) + 1
    <2>1. Len(ops) \in Nat
        BY LenProperties DEF IsSearchPath
    <2> QED
        BY <2>1
<1>4. registry[id] = states[1] /\ costs[1] = 0
    BY <1>2 DEF StartsAt, IsSearchPath
<1>5. INFTY \notin Evaluations(registry[id])
    BY <1>1, <1>3, <1>4, PathFacts
<1>6. nodes[id].status # "NEW"
    BY <1>2, <1>5 DEF StartsAt
<1>7. nodes[id].status # "DEAD_END"
    BY <1>5, <1>6 DEF IInv, NodeInv
<1>8. IsReached(nodes[id])
    BY <1>1, <1>6, <1>7, TypeFacts DEF IsReached, Infos
<1>9. /\ nodes[id].g \in Nat /\ nodes[id].d \in Nat /\ nodes[id].g <= 0
      /\ problem.shortest => nodes[id].d <= 0
    BY <1>2, <1>8 DEF IInv, NodeInv, StartsAt
<1>10. AtMost(nodes[id], 0, 0)
    BY <1>9 DEF AtMost
<1> QED
    BY <1>4, <1>8, <1>10 DEF KnownOnPath

(* Behind a closed node on the path the next state is known, too.          *)
LEMMA PathContinues ==
    ASSUME IInv, node = NoState, problem.reopen_closed, problem.cost_type = "NORMAL",
           NEW ops, NEW states, NEW costs, IsSearchPath(ops, states, costs),
           NEW k \in 1 .. Len(ops), NEW id \in DOMAIN registry,
           KnownOnPath(states, costs, k, id), nodes[id].status = "CLOSED",
           ~IsGoalState(task, registry[id])
    PROVE  \E succ \in DOMAIN registry : KnownOnPath(states, costs, k + 1, succ)
<1>1. TypeInv /\ problem \in Problems
    BY DEF IInv, TypeInv
<1> PICK o : o = ops[k]
    OBVIOUS
<1>2. /\ o \in Range(problem.kept[registry[id]])
      /\ states[k + 1] = Representative(Successor(task, o, registry[id]))
      /\ costs[k + 1] = costs[k] + Cost(o)
      /\ registry[id] = states[k] /\ AtMost(nodes[id], costs[k], k - 1)
    BY DEF IsSearchPath, KnownOnPath
<1>3. o \in Ops(task) /\ Cost(o) \in Nat /\ AdjustedCost(o) = Cost(o)
    BY <1>1, <1>2, SuccessorFacts, CostFacts, TypeFacts
<1>4. /\ Len(ops) \in Nat /\ k \in 1 .. Len(ops) + 1 /\ k + 1 \in 1 .. Len(ops) + 1
      /\ k \in Nat
    <2>1. Len(ops) \in Nat
        BY LenProperties DEF IsSearchPath
    <2> QED
        BY <2>1
<1>5. /\ nodes[id].g \in Nat /\ nodes[id].d \in Nat /\ nodes[id].real_g = nodes[id].g
      /\ DOMAIN nodes = DOMAIN registry
    BY <1>1, TypeFacts DEF IInv, NodeInv, IsReached
<1>6. /\ costs[k] \in Nat /\ costs[k + 1] \in Nat /\ costs[k + 1] <= costs[Len(ops) + 1]
      /\ costs[Len(ops) + 1] \in Nat /\ costs[Len(ops) + 1] < problem.bound
      /\ problem.bound \in Nat
    <2>1. costs[k] \in Nat /\ costs[k + 1] \in Nat /\ states[k + 1] \in States(task)
        BY <1>1, <1>4, PathFacts
    <2>2. PICK h : h \in Evaluations(states[k + 1])
        BY DEF Evaluations
    <2>3. /\ h \in Nat /\ costs[k + 1] + h <= costs[Len(ops) + 1]
          /\ costs[Len(ops) + 1] \in Nat /\ costs[Len(ops) + 1] < problem.bound
        BY <1>1, <1>4, <2>2, PathFacts
    <2> QED
        BY <1>1, <2>1, <2>3, ProblemFacts
<1>7. nodes[id].g <= costs[k]
    <2>1. k - 1 \in Int
        BY <1>4
    <2> QED
        BY <1>2, <1>5, <1>6, <2>1, AtMostFacts
<1>8. nodes[id].real_g + Cost(o) < problem.bound
    <2> PICK g, w, c, c2, total : g = nodes[id].g /\ w = Cost(o) /\ c = costs[k]
                                  /\ c2 = costs[k + 1] /\ total = costs[Len(ops) + 1]
        OBVIOUS
    <2>1. /\ g \in Nat /\ w \in Nat /\ c \in Nat /\ total \in Nat /\ problem.bound \in Nat
          /\ c2 = c + w /\ c2 <= total /\ total < problem.bound /\ g <= c
        BY <1>2, <1>3, <1>5, <1>6, <1>7
    <2>2. g + w < problem.bound
        BY <2>1
    <2> QED
        BY <1>5, <2>2
<1>9. IsRelaxed(id, o)
    <2>1. id # node
        <3>1. id \in 1 .. Len(registry) /\ Len(registry) \in Nat
            BY <1>1, TypeFacts
        <3> QED
            BY <3>1 DEF NoState
    <2>2. o \in Followed(id)
        BY <1>2, <2>1 DEF Followed
    <2> QED
        BY <1>5, <2>2 DEF IInv, ClosedNodesAreRelaxed
<1>10. PICK succ \in DOMAIN registry :
            /\ registry[succ] = states[k + 1]
            /\ nodes[succ].status # "NEW"
            /\ nodes[succ].status # "DEAD_END" =>
                  ~IsWorse(NodeReachedBy("OPEN", id, nodes[id], o, Cost(o), AdjustedCost(o)),
                           nodes[succ])
    BY <1>2, <1>5, <1>8, <1>9 DEF IsRelaxed
<1>11. INFTY \notin Evaluations(registry[succ])
    BY <1>1, <1>4, <1>10, PathFacts
<1>12. nodes[succ].status # "DEAD_END"
    BY <1>10, <1>11 DEF IInv, NodeInv
<1>13. IsReached(nodes[succ])
    BY <1>1, <1>10, <1>12, TypeFacts DEF IsReached, Infos
<1>14. nodes[succ].g \in Nat /\ nodes[succ].d \in Nat
    BY <1>13 DEF IInv, NodeInv
<1> PICK g, d, g2, d2, w, c :
        g = nodes[id].g /\ d = nodes[id].d /\ g2 = nodes[succ].g /\ d2 = nodes[succ].d
        /\ w = Cost(o) /\ c = costs[k]
    OBVIOUS
<1>15. ~(g2 > g + w) /\ (problem.shortest => (g2 = g + w => ~(d2 > d + 1)))
    <2> PICK info : info = NodeReachedBy("OPEN", id, nodes[id], o, Cost(o), AdjustedCost(o))
        OBVIOUS
    <2>1. info.g = g + w /\ info.d = d + 1
        BY <1>3 DEF NodeReachedBy
    <2> QED
        BY <1>10, <1>12, <2>1 DEF IsWorse
<1>16. AtMost(nodes[succ], costs[k + 1], k)
    <2>1. /\ g \in Nat /\ d \in Nat /\ g2 \in Nat /\ d2 \in Nat /\ w \in Nat /\ c \in Nat
          /\ k \in Nat /\ k - 1 \in Int /\ c + w \in Nat /\ costs[k + 1] = c + w
        BY <1>2, <1>3, <1>4, <1>5, <1>6, <1>14
    <2>2. g <= c /\ (problem.shortest => (g = c => d <= k - 1))
        BY <1>2, <1>5, <2>1, AtMostFacts
    <2>3. /\ g2 < c + w \/ g2 = c + w
          /\ (g = c => d <= k - 1) /\ (g2 = g + w => ~(d2 > d + 1))
                => (g2 = c + w => d2 <= k)
        <3>1. Edge(c, w, g, g2, d, d2, k)
            BY <1>15, <2>1, <2>2 DEF Edge
        <3>2. EdgeFollowed(c, w, g, g2, d, d2, k)
            BY <3>1, EdgeSums
        <3> QED
            BY <3>2 DEF EdgeFollowed
    <2>4. problem.shortest => (g2 = c + w => d2 <= k)
        BY <1>15, <2>2, <2>3
    <2> QED
        BY <2>1, <2>3, <2>4 DEF AtMost
<1>17. (k + 1) - 1 = k
    BY <1>4
<1> QED
    BY <1>10, <1>13, <1>16, <1>17 DEF KnownOnPath

(* Between two rounds a node of the path is open: the last one that is not *)
(* closed with a path as good as this one.                                 *)
LEMMA OpenOnPath ==
    ASSUME IInv, status \in {"IN_PROGRESS", "FAILED"},
           problem.reopen_closed, problem.cost_type = "NORMAL",
           NEW ops, NEW states, NEW costs, IsSearchPath(ops, states, costs)
    PROVE  \E k \in 1 .. Len(ops) + 1, id \in DOMAIN registry :
                KnownOnPath(states, costs, k, id) /\ nodes[id].status = "OPEN"
<1>1. TypeInv /\ problem \in Problems /\ node = NoState /\ status # "INIT"
    BY DEF IInv, TypeInv, ControlInv
<1>2. Len(ops) \in Nat
    BY LenProperties DEF IsSearchPath
<1> DEFINE n == Len(ops) + 1
           Known(k) == \E id \in DOMAIN registry : KnownOnPath(states, costs, k, id)
           Unknown == {k \in 1 .. n : ~Known(k)}
<1> SUFFICES ASSUME \A k \in 1 .. n, id \in DOMAIN registry :
                        KnownOnPath(states, costs, k, id) => nodes[id].status = "CLOSED"
             PROVE  FALSE
    <2>1. \A k, id : KnownOnPath(states, costs, k, id) =>
                        nodes[id].status \in {"OPEN", "CLOSED"}
        BY DEF KnownOnPath, IsReached
    <2> QED
        BY <2>1
<1>3. \A id \in DOMAIN registry :
            nodes[id].status = "CLOSED" => ~IsGoalState(task, registry[id])
    BY DEF IInv, NodeInv
<1>4. Known(1)
    BY <1>1, PathStarts
<1>5. \A k \in 1 .. Len(ops) : Known(k) => Known(k + 1)
    <2> SUFFICES ASSUME NEW k \in 1 .. Len(ops), NEW id \in DOMAIN registry,
                        KnownOnPath(states, costs, k, id)
                 PROVE  Known(k + 1)
        OBVIOUS
    <2>1. nodes[id].status = "CLOSED"
        BY <1>2
    <2> QED
        BY <1>1, <1>3, <2>1, PathContinues
<1>6. Unknown = {}
    <2> SUFFICES ASSUME Unknown # {}
                 PROVE  FALSE
        OBVIOUS
    <2>1. Unknown \in SUBSET Nat
        BY <1>2
    <2>2. PICK k \in Unknown : \A m \in Unknown : k <= m
        <3> HIDE DEF Unknown
        <3> QED
            BY <2>1, SmallestNumber
    <2>3. k \in 1 .. n /\ ~Known(k)
        OBVIOUS
    <2> HIDE DEF Known
    <2>4. k # 1
        BY <1>4, <2>3
    <2>5. k - 1 \in 1 .. Len(ops) /\ (k - 1) + 1 = k
        BY <1>2, <2>3, <2>4
    <2>6. ~Known(k - 1)
        BY <1>5, <2>3, <2>5
    <2>7. k - 1 \in Unknown
        BY <1>2, <2>5, <2>6
    <2>8. k <= k - 1
        BY <2>2, <2>7
    <2> QED
        BY <1>2, <2>3, <2>8
<1>7. Known(n)
    <2>1. n \in 1 .. n
        BY <1>2
    <2> HIDE DEF Known
    <2> QED
        BY <1>6, <2>1
<1>8. PICK id \in DOMAIN registry : KnownOnPath(states, costs, n, id)
    BY <1>7
<1>9. nodes[id].status = "CLOSED" /\ IsGoalState(task, registry[id])
    BY <1>2, <1>8 DEF KnownOnPath, IsSearchPath
<1> QED
    BY <1>3, <1>9

(* That node has an entry whose key is within what the path costs.         *)
LEMMA EntryOnPath ==
    ASSUME IInv, status \in {"IN_PROGRESS", "FAILED"},
           problem.reopen_closed, problem.cost_type = "NORMAL",
           NEW ops, NEW states, NEW costs, IsSearchPath(ops, states, costs)
    PROVE  \E j \in 1 .. Len(open_list) :
              LET key == open_list[j].key
                  cost == costs[Len(ops) + 1]
              IN  /\ key \in Keys /\ key[1] <= cost
                  /\ problem.shortest /\ key[1] = cost => key[2] <= Len(ops)
<1>1. TypeInv /\ problem \in Problems
    BY DEF IInv, TypeInv
<1>2. PICK k \in 1 .. Len(ops) + 1, id \in DOMAIN registry :
            KnownOnPath(states, costs, k, id) /\ nodes[id].status = "OPEN"
    BY OpenOnPath
<1>3. PICK h : h = estimates[id]
    OBVIOUS
<1>4. h \in Evaluations(states[k])
    BY <1>2, <1>3 DEF IInv, NodeInv, KnownOnPath
<1>5. /\ Len(ops) \in Nat /\ costs[k] \in Nat /\ costs[Len(ops) + 1] \in Nat
      /\ h \in Nat /\ h # INFTY /\ costs[k] + h <= costs[Len(ops) + 1]
    BY <1>1, <1>4, PathFacts
<1>6. /\ nodes[id].g \in Nat /\ nodes[id].d \in Nat
      /\ AtMost(nodes[id], costs[k], k - 1)
    BY <1>2 DEF IInv, NodeInv, KnownOnPath
<1> PICK g : g = nodes[id].g
    OBVIOUS
<1> PICK d : d = nodes[id].d
    OBVIOUS
<1>7. PICK j \in 1 .. Len(open_list) : open_list[j].key = Key(g, d, h)
    <2>1. DOMAIN nodes = DOMAIN registry /\ DOMAIN open_list = 1 .. Len(open_list)
        BY <1>1, TypeFacts, LenProperties DEF TypeInv
    <2> QED
        BY <1>2, <1>3, <1>5, <2>1 DEF IInv, OpenNodesAreQueued
<1> PICK key : key = Key(g, d, h)
    OBVIOUS
<1> PICK c, cost, n : c = costs[k] /\ cost = costs[Len(ops) + 1] /\ n = Len(ops)
    OBVIOUS
<1>8. /\ g \in Nat /\ d \in Nat /\ h \in Nat /\ c \in Nat /\ cost \in Nat /\ n \in Nat
      /\ g \in Int /\ d \in Int /\ h \in Int /\ c + h <= cost
      /\ k \in Nat /\ k - 1 \in Int /\ k <= n + 1
    BY <1>5, <1>6
<1>9. key \in Keys /\ key[1] = g + h /\ (problem.shortest => key[2] = d)
    <2>1. g \in Int /\ d \in Int /\ h \in Int
        BY <1>8
    <2>2. /\ Key(g, d, h) \in Keys
          /\ Key(g, d, h)[1] = g + h
          /\ problem.shortest => Key(g, d, h)[2] = d
        <3>1. CASE problem.shortest
            BY <2>1, <3>1 DEF Key, Keys
        <3>2. CASE ~problem.shortest
            BY <2>1, <3>2 DEF Key, Keys
        <3> QED
            BY <3>1, <3>2
    <2> QED
        BY <2>2
<1>10. g <= c /\ (problem.shortest => (g = c => d <= k - 1))
    BY <1>6, <1>8, AtMostFacts
<1>11. /\ g + h <= cost
       /\ (g = c => d <= k - 1) => (g + h = cost => d <= n)
    <2>1. Entry(g, h, c, d, k, n, cost)
        BY <1>8, <1>10 DEF Entry
    <2>2. EntryWithin(g, h, c, d, k, n, cost)
        BY <2>1, EntrySums
    <2> QED
        BY <2>2 DEF EntryWithin
<1>12. /\ key[1] <= cost
       /\ problem.shortest /\ key[1] = cost => key[2] <= n
    BY <1>9, <1>10, <1>11
<1> QED
    BY <1>7, <1>9, <1>12

(* The search gives up only when no path is below the bound on which the   *)
(* estimates are admissible: with reopening and real costs, whatever the   *)
(* estimates are elsewhere and however often they change.                  *)
GivesUpOnlyWithoutPath ==
    (status = "FAILED" /\ problem.reopen_closed /\ problem.cost_type = "NORMAL")
        => \A ops, states, costs : ~IsSearchPath(ops, states, costs)

(* Exhaust: a path would still have an open node, and its entry.           *)
THEOREM FailsOnlyWithoutPath == Spec => []GivesUpOnlyWithoutPath
<1>1. IInv => GivesUpOnlyWithoutPath
    <2> SUFFICES ASSUME IInv, status = "FAILED", problem.reopen_closed,
                        problem.cost_type = "NORMAL",
                        NEW ops, NEW states, NEW costs, IsSearchPath(ops, states, costs)
                 PROVE  FALSE
        BY DEF GivesUpOnlyWithoutPath
    <2>1. open_list = <<>>
        BY DEF IInv, ControlInv
    <2>2. 1 .. Len(open_list) = {}
        BY <2>1
    <2> QED
        BY <2>2, EntryOnPath
<1> QED
    BY <1>1, Invariance, PTL

(* A goal node is closed by a path that no path of the search undercuts,   *)
(* neither in cost nor, when the search is for a shortest one, in length.  *)
GoalIsCheapest ==
    (problem.reopen_closed /\ problem.cost_type = "NORMAL")
        => \A id \in DOMAIN registry :
            (nodes[id].status = "CLOSED" /\ IsGoalState(task, registry[id]))
                => \A ops, states, costs : IsSearchPath(ops, states, costs)
                        => AtMost(nodes[id], costs[Len(ops) + 1], Len(ops))

(* The node of the first entry is not worse than any path.                 *)
LEMMA HeadIsCheapest ==
    ASSUME IInv, status = "IN_PROGRESS", open_list # <<>>,
           problem.reopen_closed, problem.cost_type = "NORMAL",
           NEW ops, NEW states, NEW costs, IsSearchPath(ops, states, costs),
           IsReached(nodes[Head(open_list).id])
    PROVE  AtMost(nodes[Head(open_list).id], costs[Len(ops) + 1], Len(ops))
<1>1. TypeInv /\ problem \in Problems
    BY DEF IInv, TypeInv
<1> PICK info : info = nodes[Head(open_list).id]
    OBVIOUS
<1> PICK first : first = Head(open_list).key
    OBVIOUS
<1>2. PICK j \in 1 .. Len(open_list) :
            /\ open_list[j].key \in Keys /\ open_list[j].key[1] <= costs[Len(ops) + 1]
            /\ problem.shortest /\ open_list[j].key[1] = costs[Len(ops) + 1]
                  => open_list[j].key[2] <= Len(ops)
    BY EntryOnPath
<1> PICK key : key = open_list[j].key
    OBVIOUS
<1>3. Head(open_list) = open_list[1] /\ 1 \in 1 .. Len(open_list)
    BY HeadFacts
<1>4. first \in Keys /\ KeyBounds(first, info)
    BY <1>1, <1>3, TypeFacts DEF IInv, EntryInv
<1>5. info.g \in Nat /\ info.d \in Nat
    BY HeadFacts DEF IInv, NodeInv
<1>6. ~KeyLess(key, first)
    <2>1. CASE j = 1
        BY <1>1, <1>3, <1>4, <2>1, KeyOrderIsTotal
    <2>2. CASE j # 1
        <3>1. 1 < j
            BY <2>2
        <3> QED
            BY <1>3, <3>1 DEF IInv, SortedInv, Sorted
    <2> QED
        BY <2>1, <2>2
<1> PICK cost : cost = costs[Len(ops) + 1]
    OBVIOUS
<1>7. cost \in Nat /\ Len(ops) \in Nat
    <2>1. Len(ops) \in Nat
        BY LenProperties DEF IsSearchPath
    <2>2. Len(ops) + 1 \in 1 .. Len(ops) + 1
        BY <2>1
    <2> QED
        BY <1>1, <2>1, <2>2, PathFacts
<1>8. /\ key \in Keys /\ key[1] <= cost
      /\ problem.shortest /\ key[1] = cost => key[2] <= Len(ops)
    BY <1>2
<1>9. /\ first[1] \in Int /\ first[2] \in Int /\ key[1] \in Int /\ key[2] \in Int
    BY <1>4, <1>8, KeyParts
<1>10. first[1] <= key[1] /\ (first[1] = key[1] => first[2] <= key[2])
    BY <1>1, <1>4, <1>6, <1>8, <1>9, KeyOrder
<1> PICK g, d, f1, d1, f2, d2, n :
        g = info.g /\ d = info.d /\ f1 = first[1] /\ d1 = first[2] /\ f2 = key[1] /\ d2 = key[2]
        /\ n = Len(ops)
    OBVIOUS
<1>11. /\ f1 > g \/ f1 = g
       /\ problem.shortest => (f1 = g => d1 >= d)
    <2>1. g \in Nat /\ f1 \in Int
        BY <1>5, <1>9
    <2> QED
        BY <1>4, <2>1 DEF KeyBounds
<1>12. /\ g \in Nat /\ d \in Nat /\ f1 \in Int /\ d1 \in Int /\ f2 \in Int /\ d2 \in Int
       /\ cost \in Nat /\ n \in Nat /\ n \in Int
       /\ f1 <= f2 /\ (f1 = f2 => d1 <= d2)
       /\ f2 <= cost /\ (problem.shortest => (f2 = cost => d2 <= n))
    BY <1>5, <1>7, <1>8, <1>9, <1>10
<1>13. /\ g <= cost
       /\ (f1 = g => d1 >= d) /\ (f1 = f2 => d1 <= d2) /\ (f2 = cost => d2 <= n)
            => (g = cost => d <= n)
    <2>1. Heads(g, d, f1, d1, f2, d2, cost, n)
        BY <1>11, <1>12 DEF Heads
    <2>2. HeadWithin(g, d, f1, d1, f2, d2, cost, n)
        BY <2>1, HeadSums
    <2> QED
        BY <2>2 DEF HeadWithin
<1>14. AtMost(info, cost, n)
    <2>1. problem.shortest => (g = cost => d <= n)
        BY <1>11, <1>12, <1>13
    <2> QED
        BY <1>5, <1>12, <1>13, <2>1, AtMostFacts
<1> QED
    BY <1>14

(* ReachGoal: the first entry is of the goal node, and no entry behind it  *)
(* is better, not even that of the open node of a path.                    *)
THEOREM FindsCheapestGoal == Spec => []GoalIsCheapest
<1>1. Init => GoalIsCheapest
    BY DEF Init, GoalIsCheapest
<1>2. IInv /\ GoalIsCheapest /\ [Next]_vars => GoalIsCheapest'
    <2> SUFFICES ASSUME IInv, GoalIsCheapest, [Next]_vars
                 PROVE  GoalIsCheapest'
        OBVIOUS
    <2>1. IInv' /\ problem' = problem /\ task' = task
        BY NextPreserves DEF Extends, task
    <2>2. CASE status' \notin {"SOLVED", "TIMEOUT"}
        BY <2>1, <2>2 DEF IInv, NodeInv, GoalIsCheapest
    <2>3. CASE UNCHANGED <<problem, registry, nodes>>
        BY <2>1, <2>3, PathStays DEF GoalIsCheapest, AtMost
    <2>4. ASSUME NEW h \in HeadEvaluations, ReachGoal(h)
          PROVE  GoalIsCheapest'
        <3> SUFFICES ASSUME problem.reopen_closed, problem.cost_type = "NORMAL",
                            NEW id \in DOMAIN registry, nodes'[id].status = "CLOSED",
                            IsGoalState(task, registry[id]),
                            NEW ops, NEW states, NEW costs, IsSearchPath(ops, states, costs)
                     PROVE  AtMost(nodes'[id], costs[Len(ops) + 1], Len(ops))
            <4>1. registry' = registry
                BY <2>4 DEF ReachGoal
            <4>2. \A ops, states, costs :
                    IsSearchPath(ops, states, costs)' <=> IsSearchPath(ops, states, costs)
                BY <2>1, <4>1, PathStays
            <4> QED
                BY <2>1, <4>1, <4>2 DEF GoalIsCheapest, AtMost
        <3> PICK top : top = Head(open_list).id
            OBVIOUS
        <3>1. /\ status = "IN_PROGRESS" /\ open_list # <<>> /\ nodes[top].status = "OPEN"
              /\ nodes' = [nodes EXCEPT ![top].status = "CLOSED"]
            BY <2>4 DEF ReachGoal, RemoveMin
        <3>2. top \in DOMAIN registry /\ DOMAIN nodes = DOMAIN registry
            BY <3>1, HeadFacts, TypeFacts DEF IInv
        <3>3. nodes[id].status # "CLOSED"
            BY <3>1 DEF IInv, NodeInv
        <3>4. id = top
            BY <3>1, <3>2, <3>3
        <3>5. nodes'[id].g = nodes[id].g /\ nodes'[id].d = nodes[id].d
            BY <3>1, <3>2, <3>4, HeadFacts DEF Infos
        <3>6. AtMost(nodes[top], costs[Len(ops) + 1], Len(ops))
            BY <3>1, HeadIsCheapest DEF IsReached
        <3> QED
            BY <3>4, <3>5, <3>6 DEF AtMost
    <2>5. CASE TimeOut
        BY <2>3, <2>5 DEF TimeOut
    <2>6. CASE UNCHANGED vars
        BY <2>3, <2>6 DEF vars
    <2>7. CASE Initialize \/ Exhaust \/ SkipEntry \/ FindDeadEnd \/ EndStep
        BY <2>2, <2>7 DEF Initialize, Exhaust, SkipEntry, FindDeadEnd, RemoveMin, EndStep
    <2>8. ASSUME NEW h \in HeadEvaluations, Reevaluate(h) \/ Expand(h)
          PROVE  GoalIsCheapest'
        BY <2>2, <2>8 DEF Reevaluate, Expand, RemoveMin
    <2>9. ASSUME NEW o \in Ops(task), TakeOperator(o)
          PROVE  GoalIsCheapest'
        BY <2>2, <2>9 DEF TakeOperator
    <2>10. ASSUME NEW o \in Ops(task),
                  OverBound(o) \/ MarkDeadEnd(o) \/ Open(o) \/ Reopen(o) \/ UpdateParent(o)
                    \/ KeepOldPath(o)
           PROVE  TakeOperator(o)
        BY <2>10 DEF OverBound, MarkDeadEnd, Open, Reopen, UpdateParent, KeepOldPath,
                     HasBetterPath, Generate
    <2> QED
        BY <2>4, <2>5, <2>6, <2>7, <2>8, <2>9, <2>10 DEF Next
<1> QED
    BY <1>1, <1>2, Invariance, PTL DEF Spec
-------------------------------------------------------------------------------
(* A node that was reached once, by a path with these numbers.             *)
HasPath(info) == info.g \in Nat /\ info.d \in Nat

IsStart(id) ==
    /\ nodes[id].g = 0 /\ nodes[id].d = 0
    /\ problem.symmetries = "NONE" => registry[id] = task.init

(* A path with these numbers is no worse than the one that is known.       *)
IsWithin(g, d, info) == g < info.g \/ (g = info.g /\ (problem.shortest => d <= info.d))

(* What the parent promises.  It may have been improved since.             *)
IsReachedFrom(id, parent, o) ==
    /\ parent \in DOMAIN registry /\ HasPath(nodes[parent])
    /\ o \in Range(problem.kept[registry[parent]])
    /\ problem.symmetries = "NONE" => registry[id] = Successor(task, o, registry[parent])
    /\ IsWithin(nodes[parent].g + AdjustedCost(o), nodes[parent].d + 1, nodes[id])
    /\ nodes[id].real_g < problem.bound

IsTraced(id) ==
    /\ nodes[id].status = "NEW" => nodes[id] = NewNode
    /\ nodes[id].op # NoOperator => HasPath(nodes[id])
    /\ HasPath(nodes[id]) => IF nodes[id].op = NoOperator THEN IsStart(id)
                             ELSE IsReachedFrom(id, nodes[id].parent, nodes[id].op)

PathInv == \A id \in DOMAIN registry : IsTraced(id)

(* No node is an ancestor of itself.                                       *)
AncestryInv ==
    \A X \in SUBSET DOMAIN registry :
        X # {} /\ (\A id \in X : nodes[id].op # NoOperator)
            => \E id \in X : nodes[id].parent \notin X

(* What a step makes of the path to one node, id: it stays, there is none, *)
(* or it leads through p by o now.                                         *)
SamePath(info, old) ==
    /\ info.g = old.g /\ info.d = old.d /\ info.real_g = old.real_g
    /\ info.parent = old.parent /\ info.op = old.op

NewPath(id, info, p, o) ==
    /\ o # NoOperator /\ info.op = o /\ info.parent = p
    /\ p \in DOMAIN registry /\ HasPath(nodes[p])
    /\ o \in Range(problem.kept[registry[p]]) /\ AdjustedCost(o) \in Nat
    /\ problem.symmetries = "NONE" => registry'[id] = Successor(task, o, registry[p])
    /\ info.g = nodes[p].g + AdjustedCost(o) /\ info.d = nodes[p].d + 1
    /\ info.real_g < problem.bound
    /\ id \in DOMAIN registry =>
          \/ nodes[id].status = "NEW"
          \/ HasPath(nodes[id]) /\ IsWorse(info, nodes[id])

PathStep(id, info) ==
    /\ problem' = problem
    /\ DOMAIN registry' = DOMAIN registry \cup {id}
    /\ \A i \in DOMAIN registry : registry'[i] = registry[i]
    /\ nodes' = [i \in DOMAIN registry' |-> IF i = id THEN info ELSE nodes[i]]
    /\ info.status # "NEW"
    /\ \/ id \in DOMAIN registry /\ nodes[id].status # "NEW" /\ SamePath(info, nodes[id])
       \/ /\ info = [NewNode EXCEPT !.status = "DEAD_END"]
          /\ id \in DOMAIN registry => nodes[id].status = "NEW"
       \/ \E p, o : NewPath(id, info, p, o)
-------------------------------------------------------------------------------
(* What is better than a node is better than what follows on it.           *)
LEMMA WithinFacts ==
    ASSUME NEW x, NEW y, NEW par, HasPath(x), HasPath(y), HasPath(par), NEW w \in Nat,
           IsWithin(par.g + w, par.d + 1, x)
    PROVE  /\ IsWorse(x, y) => IsWorse(par, y)
           /\ IsWorse(y, par) => IsWithin(y.g + w, y.d + 1, x)
           /\ ~IsWorse(x, x)
<1> PICK a, b, c, e, g, d : a = x.g /\ b = x.d /\ c = y.g /\ e = y.d /\ g = par.g /\ d = par.d
    OBVIOUS
<1>1. a \in Nat /\ b \in Nat /\ c \in Nat /\ e \in Nat /\ g \in Nat /\ d \in Nat
    BY DEF HasPath
<1>2. /\ g + w < a \/ (g + w = a /\ (problem.shortest => d + 1 <= b))
      /\ IsWithin(c + w, e + 1, x) <=> c + w < a \/ (c + w = a /\ (problem.shortest => e + 1 <= b))
      /\ IsWorse(x, y) <=> c > a \/ (problem.shortest /\ c = a /\ e > b)
      /\ IsWorse(par, y) <=> c > g \/ (problem.shortest /\ c = g /\ e > d)
      /\ IsWorse(y, par) <=> g > c \/ (problem.shortest /\ g = c /\ d > e)
      /\ IsWorse(x, x) <=> a > a \/ (problem.shortest /\ a = a /\ b > b)
    BY DEF IsWithin, IsWorse
<1>3. CASE problem.shortest
    <2>1. /\ g + w < a \/ (g + w = a /\ d + 1 <= b)
          /\ c > a \/ (c = a /\ e > b) => c > g \/ (c = g /\ e > d)
          /\ g > c \/ (g = c /\ d > e) => c + w < a \/ (c + w = a /\ e + 1 <= b)
          /\ ~(a > a \/ b > b)
        BY <1>1, <1>2, <1>3
    <2> QED
        BY <1>2, <1>3, <2>1
<1>4. CASE ~problem.shortest
    <2>1. /\ g + w < a \/ g + w = a
          /\ c > a => c > g
          /\ g > c => c + w < a \/ c + w = a
          /\ ~(a > a)
        BY <1>1, <1>2, <1>4
    <2> QED
        BY <1>2, <1>4, <2>1
<1> QED
    BY <1>3, <1>4

(* The path to a node stays, is worse than a new one, or there is none.    *)
LEMMA PathStepFacts ==
    ASSUME IInv, PathInv, NEW id, NEW info, PathStep(id, info)
    PROVE  /\ problem' = problem /\ task' = task
           /\ id \in DOMAIN registry' /\ nodes'[id] = info
           /\ \A i \in DOMAIN registry' : i # id => i \in DOMAIN registry
           /\ \A i \in DOMAIN registry : /\ i \in DOMAIN registry' /\ registry'[i] = registry[i]
                                         /\ i # id => nodes'[i] = nodes[i]
           /\ id \in DOMAIN registry /\ HasPath(nodes[id]) =>
                /\ HasPath(info)
                /\ SamePath(info, nodes[id]) \/ IsWorse(info, nodes[id])
           /\ \A i \in DOMAIN registry : nodes[i].status = "NEW" => ~HasPath(nodes[i])
           /\ \A p, o : NewPath(id, info, p, o) => HasPath(info) /\ p # id
           /\ \A o : AdjustedCost(o)' = AdjustedCost(o)
<1>1. /\ problem' = problem /\ task' = task
      /\ id \in DOMAIN registry' /\ nodes'[id] = info
      /\ \A i \in DOMAIN registry' : i # id => i \in DOMAIN registry
      /\ \A i \in DOMAIN registry : /\ i \in DOMAIN registry' /\ registry'[i] = registry[i]
                                    /\ i # id => nodes'[i] = nodes[i]
    BY DEF PathStep, task
<1>2. ~HasPath(NewNode)
    BY DEF HasPath, NewNode
<1>3. \A i \in DOMAIN registry : nodes[i].status = "NEW" => ~HasPath(nodes[i])
    BY <1>2 DEF PathInv, IsTraced
<1>4. ASSUME NEW p, NEW o, NewPath(id, info, p, o)
      PROVE  HasPath(info) /\ p # id
    <2>1. HasPath(info)
        BY <1>4 DEF NewPath, HasPath
    <2>2. ASSUME p = id
          PROVE  FALSE
        <3>1. HasPath(nodes[id]) /\ IsWorse(info, nodes[id]) /\ id \in DOMAIN registry
            BY <1>3, <1>4, <2>2 DEF NewPath
        <3>2. info.g = nodes[id].g + AdjustedCost(o) /\ info.d = nodes[id].d + 1 /\ AdjustedCost(o) \in Nat
            BY <1>4, <2>2 DEF NewPath
        <3>3. \A g, d, w \in Nat : g + w >= g /\ d + 1 > d
            OBVIOUS
        <3> QED
            BY <3>1, <3>2, <3>3 DEF IsWorse, HasPath
    <2> QED
        BY <2>1, <2>2
<1>5. ASSUME id \in DOMAIN registry, HasPath(nodes[id])
      PROVE  HasPath(info) /\ (SamePath(info, nodes[id]) \/ IsWorse(info, nodes[id]))
    <2>1. nodes[id].status # "NEW"
        BY <1>3, <1>5
    <2>2. CASE SamePath(info, nodes[id])
        BY <1>5, <2>2 DEF SamePath, HasPath
    <2>3. ASSUME NEW p, NEW o, NewPath(id, info, p, o)
          PROVE  HasPath(info) /\ IsWorse(info, nodes[id])
        BY <1>4, <1>5, <2>1, <2>3 DEF NewPath
    <2> QED
        BY <1>5, <2>1, <2>2, <2>3 DEF PathStep
<1>6. \A o : AdjustedCost(o)' = AdjustedCost(o)
    BY <1>1 DEF AdjustedCost
<1> QED
    BY <1>1, <1>3, <1>4, <1>5, <1>6

(* A step to one path keeps the promises of all parents: paths only        *)
(* improve.                                                                *)
LEMMA PathStepKeepsPaths ==
    ASSUME IInv, PathInv, NEW id, NEW info, PathStep(id, info)
    PROVE  PathInv'
<1>1. /\ problem' = problem /\ task' = task
      /\ id \in DOMAIN registry' /\ nodes'[id] = info
      /\ \A i \in DOMAIN registry' : i # id => i \in DOMAIN registry
      /\ \A i \in DOMAIN registry : /\ i \in DOMAIN registry' /\ registry'[i] = registry[i]
                                    /\ i # id => nodes'[i] = nodes[i]
      /\ id \in DOMAIN registry /\ HasPath(nodes[id]) =>
            /\ HasPath(info)
            /\ SamePath(info, nodes[id]) \/ IsWorse(info, nodes[id])
      /\ \A i \in DOMAIN registry : nodes[i].status = "NEW" => ~HasPath(nodes[i])
      /\ \A p, o : NewPath(id, info, p, o) => HasPath(info) /\ p # id
      /\ \A o : AdjustedCost(o)' = AdjustedCost(o)
    BY PathStepFacts
<1>2. ASSUME NEW i \in DOMAIN registry, NEW x, HasPath(x), NEW p, NEW o \in Ops(task),
             IsReachedFrom(i, p, o),
             x.g = nodes[i].g, x.d = nodes[i].d, x.real_g = nodes[i].real_g, nodes'[i] = x
      PROVE  IsReachedFrom(i, p, o)'
    <2>1. p \in DOMAIN registry /\ HasPath(nodes[p]) /\ AdjustedCost(o) \in Nat
        BY <1>2, CostFacts DEF IsReachedFrom, IInv, TypeInv
    <2>2. HasPath(nodes'[p]) /\ p \in DOMAIN registry' /\ registry'[p] = registry[p]
        BY <1>1, <2>1
    <2>3. IsWithin(nodes[p].g + AdjustedCost(o), nodes[p].d + 1, x)
        BY <1>2 DEF IsReachedFrom, IsWithin
    <2>4. IsWithin(nodes'[p].g + AdjustedCost(o), nodes'[p].d + 1, x)
        <3>1. CASE p # id \/ SamePath(info, nodes[id])
            BY <1>1, <2>1, <2>3, <3>1 DEF SamePath
        <3>2. CASE p = id /\ IsWorse(info, nodes[id])
            <4>1. HasPath(info) /\ nodes'[p] = info
                BY <1>1, <2>1, <3>2
            <4> QED
                BY <1>2, <2>1, <2>3, <3>2, <4>1, WithinFacts
        <3> QED
            BY <1>1, <2>1, <3>1, <3>2
    <2> QED
        BY <1>1, <1>2, <2>2, <2>4 DEF IsReachedFrom, IsWithin
<1>3. ASSUME NEW i \in DOMAIN registry, nodes[i].op # NoOperator
      PROVE  nodes[i].op \in Ops(task)
    BY <1>3, TypeFacts DEF IInv, Infos
<1>4. ASSUME NEW i \in DOMAIN registry,
             i # id \/ (SamePath(info, nodes[id]) /\ info.status # "NEW")
      PROVE  IsTraced(i)'
    <2> PICK x : x = nodes'[i]
        OBVIOUS
    <2>1. /\ x.g = nodes[i].g /\ x.d = nodes[i].d /\ x.real_g = nodes[i].real_g
          /\ x.parent = nodes[i].parent /\ x.op = nodes[i].op
          /\ x.status # "NEW" \/ x = nodes[i]
          /\ i \in DOMAIN registry' /\ registry'[i] = registry[i]
        BY <1>1, <1>4 DEF SamePath
    <2>2. IsTraced(i)
        BY DEF PathInv
    <2>3. HasPath(x) <=> HasPath(nodes[i])
        BY <2>1 DEF HasPath
    <2>4. x.op # NoOperator => HasPath(x)
        BY <2>1, <2>2, <2>3 DEF IsTraced
    <2>5. HasPath(x) /\ x.op = NoOperator => IsStart(i)'
        <3> SUFFICES ASSUME HasPath(x), x.op = NoOperator
                     PROVE  IsStart(i)'
            OBVIOUS
        <3>1. IsStart(i)
            BY <2>1, <2>2, <2>3 DEF IsTraced
        <3> QED
            BY <1>1, <2>1, <3>1 DEF IsStart
    <2>6. ASSUME HasPath(x), x.op # NoOperator
          PROVE  IsReachedFrom(i, nodes[i].parent, nodes[i].op)'
        <3>1. IsReachedFrom(i, x.parent, x.op) /\ x.op \in Ops(task)
            BY <1>3, <2>1, <2>2, <2>3, <2>6 DEF IsTraced
        <3> PICK p, o : p = x.parent /\ o = x.op
            OBVIOUS
        <3>2. IsReachedFrom(i, p, o)'
            BY <1>2, <2>1, <2>6, <3>1
        <3> QED
            BY <3>2 DEF IsReachedFrom, IsWithin, HasPath, AdjustedCost
    <2>7. x.status = "NEW" => x = NewNode
        BY <2>1, <2>2 DEF IsTraced
    <2>8. HasPath(nodes[i])' <=> HasPath(x)
        BY DEF HasPath
    <2> QED
        BY <2>4, <2>5, <2>6, <2>7, <2>8 DEF IsTraced
<1>5. ASSUME NEW p, NEW o, NewPath(id, info, p, o)
      PROVE  IsReachedFrom(id, p, o)'
    <2>1. /\ p \in DOMAIN registry /\ p # id /\ HasPath(nodes[p]) /\ HasPath(info)
          /\ o \in Range(problem.kept[registry[p]])
          /\ problem.symmetries = "NONE" => registry'[id] = Successor(task, o, registry[p])
          /\ info.g = nodes[p].g + AdjustedCost(o) /\ info.d = nodes[p].d + 1
          /\ info.real_g < problem.bound
        BY <1>1, <1>5 DEF NewPath
    <2>2. nodes'[p] = nodes[p] /\ p \in DOMAIN registry' /\ registry'[p] = registry[p]
        BY <1>1, <2>1
    <2>3. IsWithin(nodes'[p].g + AdjustedCost(o), nodes'[p].d + 1, info)
        BY <2>1, <2>2 DEF IsWithin, HasPath
    <2> QED
        BY <1>1, <2>1, <2>2, <2>3 DEF IsReachedFrom, IsWithin, HasPath
<1>6. IsTraced(id)'
    <2>1. CASE SamePath(info, nodes[id]) /\ id \in DOMAIN registry /\ info.status # "NEW"
        BY <1>4, <2>1
    <2>2. CASE info = [NewNode EXCEPT !.status = "DEAD_END"]
        <3>1. info.status = "DEAD_END" /\ info.op = NoOperator /\ ~HasPath(info)
            BY <2>2 DEF NewNode, HasPath
        <3>2. HasPath(nodes[id])' <=> HasPath(info)
            BY <1>1 DEF HasPath
        <3> QED
            BY <1>1, <3>1, <3>2 DEF IsTraced
    <2>3. ASSUME NEW p, NEW o, NewPath(id, info, p, o), info.status # "NEW"
          PROVE  IsTraced(id)'
        <3>1. IsReachedFrom(id, p, o)' /\ HasPath(info) /\ info.op = o /\ o # NoOperator /\ info.parent = p
            BY <1>1, <1>5, <2>3 DEF NewPath
        <3>2. HasPath(nodes[id])' <=> HasPath(info)
            BY <1>1 DEF HasPath
        <3>3. IsReachedFrom(id, nodes[id].parent, nodes[id].op)'
            BY <1>1, <3>1 DEF IsReachedFrom, IsWithin, HasPath, AdjustedCost
        <3> QED
            BY <1>1, <2>3, <3>1, <3>2, <3>3 DEF IsTraced
    <2> QED
        BY <2>1, <2>2, <2>3 DEF PathStep
<1>7. \A i \in DOMAIN registry' : i # id => IsTraced(i)'
    BY <1>1, <1>4
<1> QED
    BY <1>6, <1>7 DEF PathInv

(* A better path does not lead through the node itself: a cycle of parents *)
(* would have to cost less than nothing, or be of no length.               *)
LEMMA PathStepKeepsAncestry ==
    ASSUME IInv, PathInv, AncestryInv, NEW id, NEW info, PathStep(id, info)
    PROVE  AncestryInv'
<1>1. /\ id \in DOMAIN registry' /\ nodes'[id] = info
      /\ \A i \in DOMAIN registry' : i # id => i \in DOMAIN registry
      /\ \A i \in DOMAIN registry : i # id => nodes'[i] = nodes[i]
      /\ \A i \in DOMAIN registry : nodes[i].status = "NEW" => ~HasPath(nodes[i])
      /\ \A p, o : NewPath(id, info, p, o) => HasPath(info) /\ p # id
    BY PathStepFacts
<1>2. SUFFICES ASSUME NEW X \in SUBSET DOMAIN registry', X # {},
                      \A i \in X : nodes'[i].op # NoOperator,
                      \A i \in X : nodes'[i].parent \in X
               PROVE  FALSE
    BY DEF AncestryInv
<1>3. ASSUME NEW E, E # {}, \A i \in E : /\ i \in DOMAIN registry
                                         /\ nodes[i].op # NoOperator
                                         /\ nodes[i].parent \in E
      PROVE  FALSE
    <2>1. E \in SUBSET DOMAIN registry
        BY <1>3
    <2> QED
        BY <1>3, <2>1 DEF AncestryInv
<1>4. ASSUME NEW i \in DOMAIN registry, nodes[i].op # NoOperator
      PROVE  /\ HasPath(nodes[i]) /\ nodes[i].op \in Ops(task)
             /\ IsReachedFrom(i, nodes[i].parent, nodes[i].op)
    BY <1>4, TypeFacts DEF PathInv, IsTraced, IInv, Infos
<1>5. CASE id \notin X
    BY <1>1, <1>2, <1>3, <1>5
<1>6. CASE id \in DOMAIN registry /\ SamePath(info, nodes[id])
    <2>1. \A i \in X : /\ i \in DOMAIN registry
                       /\ nodes[i].op = nodes'[i].op /\ nodes[i].parent = nodes'[i].parent
        BY <1>1, <1>6 DEF SamePath
    <2> QED
        BY <1>2, <1>3, <2>1
<1>7. ASSUME id \in X, NEW p, NEW o, NewPath(id, info, p, o)
      PROVE  FALSE
    <2>1. /\ info.parent = p /\ p \in X /\ p # id /\ p \in DOMAIN registry
          /\ HasPath(info) /\ HasPath(nodes[p])
          /\ info.g = nodes[p].g + AdjustedCost(o) /\ info.d = nodes[p].d + 1
          /\ AdjustedCost(o) \in Nat
        BY <1>1, <1>2, <1>7 DEF NewPath
    <2>2. CASE id \in DOMAIN registry => ~HasPath(nodes[id])
        <3> DEFINE E == X \ {id}
        <3>1. p \in E
            BY <2>1
        <3>2. ASSUME NEW i \in E
              PROVE  /\ i \in DOMAIN registry
                     /\ nodes[i].op # NoOperator
                     /\ nodes[i].parent \in E
            <4>1. i \in DOMAIN registry /\ nodes'[i] = nodes[i]
                BY <1>1
            <4>2. nodes[i].op # NoOperator /\ nodes[i].parent \in X
                BY <1>2, <4>1
            <4>3. nodes[i].parent \in DOMAIN registry /\ HasPath(nodes[nodes[i].parent])
                BY <1>4, <4>1, <4>2 DEF IsReachedFrom
            <4> QED
                BY <2>2, <4>1, <4>2, <4>3
        <3> HIDE DEF E
        <3> QED
            BY <1>3, <3>1, <3>2
    <2>3. CASE id \in DOMAIN registry /\ HasPath(nodes[id])
        <3> DEFINE E == {x \in X : x \in DOMAIN registry /\ IsWorse(nodes[x], nodes[id])}
        <3>1. p \in E
            <4>1. IsWorse(info, nodes[id])
                BY <1>1, <1>7, <2>3 DEF NewPath
            <4>2. IsWithin(nodes[p].g + AdjustedCost(o), nodes[p].d + 1, info)
                BY <2>1 DEF IsWithin, HasPath
            <4>3. IsWorse(nodes[p], nodes[id])
                BY <2>1, <2>3, <4>1, <4>2, WithinFacts
            <4> QED
                BY <2>1, <4>3
        <3>2. ASSUME NEW x \in E
              PROVE  /\ x \in DOMAIN registry
                     /\ nodes[x].op # NoOperator
                     /\ nodes[x].parent \in E
            <4>1. x # id
                BY <2>3 DEF IsWorse, HasPath
            <4>2. nodes[x].op # NoOperator /\ nodes[x].parent \in X
                BY <1>1, <1>2, <4>1
            <4>3. /\ HasPath(nodes[x]) /\ AdjustedCost(nodes[x].op) \in Nat
                  /\ IsReachedFrom(x, nodes[x].parent, nodes[x].op)
                BY <1>4, <4>2, CostFacts DEF IInv, TypeInv
            <4>4. /\ nodes[x].parent \in DOMAIN registry /\ HasPath(nodes[nodes[x].parent])
                  /\ IsWithin(nodes[nodes[x].parent].g + AdjustedCost(nodes[x].op),
                              nodes[nodes[x].parent].d + 1, nodes[x])
                BY <4>3 DEF IsReachedFrom
            <4>5. IsWorse(nodes[nodes[x].parent], nodes[id])
                BY <2>3, <4>3, <4>4, WithinFacts
            <4> QED
                BY <4>2, <4>4, <4>5
        <3> HIDE DEF E
        <3> QED
            BY <1>3, <3>1, <3>2
    <2> QED
        BY <2>2, <2>3
<1>8. info # [NewNode EXCEPT !.status = "DEAD_END"] \/ id \notin X
    BY <1>1, <1>2 DEF NewNode
<1> QED
    BY <1>5, <1>6, <1>7, <1>8 DEF PathStep

(* Both together.                                                          *)
LEMMA PathStepKeeps ==
    ASSUME IInv, PathInv, AncestryInv, NEW id, NEW info, PathStep(id, info)
    PROVE  PathInv' /\ AncestryInv'
BY PathStepKeepsPaths, PathStepKeepsAncestry

(* Steps that leave the nodes alone.                                       *)
LEMMA SameNodesKeep ==
    ASSUME PathInv, AncestryInv, UNCHANGED <<problem, registry, nodes>>
    PROVE  PathInv' /\ AncestryInv'
<1>1. problem' = problem /\ task' = task /\ registry' = registry /\ nodes' = nodes
    BY DEF task
<1>2. AncestryInv'
    BY <1>1 DEF AncestryInv
<1>3. \A o : AdjustedCost(o)' = AdjustedCost(o)
    BY <1>1 DEF AdjustedCost
<1>4. ASSUME NEW i \in DOMAIN registry
      PROVE  IsTraced(i)'
    <2> PICK p, o : p = nodes[i].parent /\ o = nodes[i].op
        OBVIOUS
    <2>1. IsTraced(i)
        BY DEF PathInv
    <2>2. IsReachedFrom(i, p, o) => IsReachedFrom(i, p, o)'
        BY <1>1, <1>3 DEF IsReachedFrom, IsWithin, HasPath
    <2>3. IsStart(i) => IsStart(i)'
        BY <1>1 DEF IsStart
    <2>4. IsReachedFrom(i, p, o)' => IsReachedFrom(i, nodes[i].parent, nodes[i].op)'
        BY <1>1, <1>3 DEF IsReachedFrom, IsWithin, HasPath
    <2> QED
        BY <1>1, <2>1, <2>2, <2>3, <2>4 DEF IsTraced, HasPath
<1> QED
    BY <1>1, <1>2, <1>4 DEF PathInv

(* Initialize: no node has a parent.                                       *)
LEMMA InitializeKeeps ==
    ASSUME IInv, Initialize
    PROVE  PathInv' /\ AncestryInv'
<1> PICK S : S = Representative(task.init)
    OBVIOUS
<1> PICK id : id = StateId(registry', S)
    OBVIOUS
<1>1. /\ registry' = Register(<<task.init>>, S)
      /\ problem' = problem /\ task' = task
    BY DEF Initialize, task
<1>2. PICK h \in Evaluations(S) :
            nodes' = [i \in 1 .. Len(registry') |->
                            IF i = id /\ h # INFTY THEN InitialNode ELSE NewNode]
    BY DEF Initialize
<1>3. DOMAIN nodes' = DOMAIN registry' /\ DOMAIN registry' = 1 .. Len(registry')
    <2>1. TypeInv'
        BY InitializePreserves DEF IInv
    <2> QED
        BY <2>1, LenProperties DEF TypeInv
<1>4. /\ InitialNode.status = "OPEN" /\ InitialNode.g = 0 /\ InitialNode.d = 0
      /\ InitialNode.op = NoOperator /\ NewNode.op = NoOperator /\ NewNode.status = "NEW"
      /\ ~HasPath(NewNode)
    BY DEF InitialNode, NewNode, HasPath
<1>5. \A i \in DOMAIN registry' : nodes'[i] = NewNode \/ (i = id /\ nodes'[i] = InitialNode)
    BY <1>2, <1>3
<1>6. problem.symmetries = "NONE" /\ id \in DOMAIN registry' => registry'[id] = task.init
    <2> SUFFICES ASSUME problem.symmetries = "NONE", id \in DOMAIN registry'
                 PROVE  registry'[id] = task.init
        OBVIOUS
    <2>1. S = task.init
        BY DEF Representative
    <2>2. registry' = <<task.init>>
        BY <1>1, <2>1 DEF Register, Range
    <2> QED
        BY <2>2
<1>7. ASSUME NEW i \in DOMAIN registry'
      PROVE  IsTraced(i)' /\ nodes'[i].op = NoOperator
    <2>1. CASE nodes'[i] = NewNode
        <3>1. HasPath(nodes[i])' <=> HasPath(NewNode)
            BY <2>1 DEF HasPath
        <3> QED
            BY <1>4, <2>1, <3>1 DEF IsTraced
    <2>2. CASE i = id /\ nodes'[i] = InitialNode
        <3>1. IsStart(i)'
            BY <1>1, <1>4, <1>6, <2>2 DEF IsStart
        <3> QED
            BY <1>4, <2>2, <3>1 DEF IsTraced
    <2> QED
        BY <1>5, <2>1, <2>2
<1>8. PathInv'
    BY <1>7 DEF PathInv
<1>9. AncestryInv'
    BY <1>7 DEF AncestryInv
<1> QED
    BY <1>8, <1>9

(* Steps about the status of the node on top of the open list.             *)
LEMMA HeadStatusKeeps ==
    ASSUME IInv, PathInv, AncestryInv, open_list # <<>>, UNCHANGED <<problem, registry>>,
           NEW st, st # "NEW", nodes' = [nodes EXCEPT ![Head(open_list).id].status = st]
    PROVE  PathInv' /\ AncestryInv'
<1> PICK id : id = Head(open_list).id
    OBVIOUS
<1> PICK info : info = [nodes[id] EXCEPT !.status = st]
    OBVIOUS
<1>1. id \in DOMAIN registry /\ nodes[id].status # "NEW" /\ nodes[id] \in Infos
    BY HeadFacts
<1>2. nodes \in [DOMAIN registry -> Infos]
    BY DEF IInv, TypeInv
<1>3. /\ info.status # "NEW" /\ info.g = nodes[id].g /\ info.d = nodes[id].d
      /\ info.real_g = nodes[id].real_g /\ info.parent = nodes[id].parent /\ info.op = nodes[id].op
    BY <1>1 DEF Infos
<1>4. nodes' = [i \in DOMAIN registry' |-> IF i = id THEN info ELSE nodes[i]]
    BY <1>1, <1>2
<1>5. PathStep(id, info)
    BY <1>1, <1>3, <1>4 DEF PathStep, SamePath
<1> QED
    BY <1>5, PathStepKeeps

(* Steps about a successor: it is a dead end, or it is reached by a path   *)
(* that is the first one or a better one.                                  *)
LEMMA SuccessorKeeps ==
    ASSUME IInv, PathInv, AncestryInv, NEW o, Generate(o), NEW succ, succ = SuccId(o),
           NEW info, NEW h, SetInfo(succ, info, h), info.status # "NEW",
           \/ IsNew(o) /\ info = [NewNode EXCEPT !.status = "DEAD_END"]
           \/ /\ SamePath(info, NewInfo(o))
              /\ \/ IsNew(o)
                 \/ /\ succ \in DOMAIN registry /\ nodes[succ].status \in {"OPEN", "CLOSED"}
                    /\ IsWorse(info, nodes[succ])
    PROVE  PathInv' /\ AncestryInv'
<1>1. /\ RegistryGrows /\ DOMAIN registry' = DOMAIN registry \cup {succ}
      /\ registry'[succ] = SuccessorState(o)
      /\ IsNew(o) /\ succ \in DOMAIN registry => nodes[succ].status = "NEW"
    BY GenerateFacts
<1>2. nodes' = [i \in DOMAIN registry' |-> IF i = succ THEN info ELSE nodes[i]]
    BY SetInfoFacts
<1>3. TakeOperator(o) /\ WithinBound(o)
    BY DEF Generate
<1>4. /\ node \in DOMAIN registry /\ nodes[node].g \in Nat /\ nodes[node].d \in Nat
      /\ o \in Range(problem.kept[registry[node]]) /\ o \in Ops(task)
    BY <1>3, TakeFacts
<1>5. o # NoOperator
    BY <1>4, EagerSearchAssumption DEF IInv, TypeInv, task
<1>6. ASSUME SamePath(info, NewInfo(o)),
             \/ IsNew(o)
             \/ /\ succ \in DOMAIN registry /\ nodes[succ].status \in {"OPEN", "CLOSED"}
                /\ IsWorse(info, nodes[succ])
      PROVE  NewPath(succ, info, node, o)
    <2>1. /\ info.g = nodes[node].g + AdjustedCost(o) /\ info.d = nodes[node].d + 1
          /\ info.real_g = nodes[node].real_g + Cost(o)
          /\ AdjustedCost(o) \in Nat
        BY <1>3, <1>6, NewInfoFacts DEF SamePath
    <2>2. info.op = o /\ info.parent = node
        BY <1>6 DEF SamePath, NewInfo, NodeReachedBy
    <2>3. problem.symmetries = "NONE" => registry'[succ] = Successor(task, o, registry[node])
        BY <1>1 DEF SuccessorState, Representative
    <2>4. succ \in DOMAIN registry /\ nodes[succ].status \in {"OPEN", "CLOSED"} => HasPath(nodes[succ])
        BY DEF IInv, NodeInv, IsReached, HasPath
    <2>5. info.real_g < problem.bound
        BY <1>3, <2>1 DEF WithinBound
    <2>6. HasPath(nodes[node])
        BY <1>4 DEF HasPath
    <2> HIDE DEF IInv
    <2> QED
        BY <1>1, <1>4, <1>5, <1>6, <2>1, <2>2, <2>3, <2>4, <2>5, <2>6 DEF NewPath
<1>7. PathStep(succ, info)
    BY <1>1, <1>2, <1>6 DEF PathStep, RegistryGrows
<1> QED
    BY <1>7, PathStepKeeps

(* Every step changes at most one path.                                    *)
LEMMA NextKeepsPaths ==
    ASSUME IInv, PathInv, AncestryInv, [Next]_vars
    PROVE  PathInv' /\ AncestryInv'
<1>1. CASE Initialize
    BY <1>1, InitializeKeeps
<1>2. CASE Exhaust \/ SkipEntry \/ EndStep \/ TimeOut \/ UNCHANGED vars
    <2>1. UNCHANGED <<problem, registry, nodes>>
        BY <1>2 DEF Exhaust, SkipEntry, EndStep, TimeOut, vars
    <2> QED
        BY <2>1, SameNodesKeep
<1>3. CASE FindDeadEnd
    <2>1. open_list # <<>> /\ UNCHANGED <<problem, registry>>
          /\ nodes' = [nodes EXCEPT ![Head(open_list).id].status = "DEAD_END"]
        BY <1>3 DEF FindDeadEnd, RemoveMin
    <2> QED
        BY <2>1, HeadStatusKeeps
<1>4. ASSUME NEW h \in HeadEvaluations, Reevaluate(h)
      PROVE  PathInv' /\ AncestryInv'
    BY <1>4, SameNodesKeep DEF Reevaluate
<1>5. ASSUME NEW h \in HeadEvaluations, ReachGoal(h) \/ Expand(h)
      PROVE  PathInv' /\ AncestryInv'
    <2>1. open_list # <<>> /\ UNCHANGED <<problem, registry>>
          /\ nodes' = [nodes EXCEPT ![Head(open_list).id].status = "CLOSED"]
        BY <1>5 DEF ReachGoal, Expand, RemoveMin
    <2> QED
        BY <2>1, HeadStatusKeeps
<1>6. ASSUME NEW o \in Ops(task), OverBound(o) \/ KeepOldPath(o)
      PROVE  PathInv' /\ AncestryInv'
    <2>1. CASE OverBound(o)
        BY <2>1, SameNodesKeep DEF OverBound, TakeOperator
    <2>2. CASE KeepOldPath(o)
        <3>1. Generate(o) /\ ~IsNew(o) /\ nodes' = nodes /\ problem' = problem
            BY <2>2 DEF KeepOldPath, Generate, TakeOperator
        <3>2. registry' = registry
            BY <3>1, GenerateFacts
        <3> QED
            BY <3>1, <3>2, SameNodesKeep
    <2> QED
        BY <1>6, <2>1, <2>2
<1>7. ASSUME NEW o \in Ops(task), MarkDeadEnd(o)
      PROVE  PathInv' /\ AncestryInv'
    <2> PICK info : info = [NewNode EXCEPT !.status = "DEAD_END"]
        OBVIOUS
    <2>1. Generate(o) /\ IsNew(o) /\ SetInfo(SuccId(o), info, INFTY)
        BY <1>7 DEF MarkDeadEnd
    <2>2. info.status # "NEW"
        BY DEF NewNode
    <2> QED
        BY <2>1, <2>2, SuccessorKeeps
<1>8. ASSUME NEW o \in Ops(task), Open(o)
      PROVE  PathInv' /\ AncestryInv'
    <2>1. Generate(o) /\ TakeOperator(o) /\ IsNew(o)
        BY <1>8 DEF Open, Generate
    <2>2. PICK h : SetInfo(SuccId(o), NewInfo(o), h)
        BY <1>8, <2>1 DEF Open, Enqueue
    <2>3. NewInfo(o).status # "NEW" /\ SamePath(NewInfo(o), NewInfo(o))
        BY <2>1, NewInfoFacts DEF SamePath
    <2> QED
        BY <2>1, <2>2, <2>3, SuccessorKeeps
<1>9. ASSUME NEW o \in Ops(task), Reopen(o)
      PROVE  PathInv' /\ AncestryInv'
    <2> PICK succ : succ = SuccId(o)
        OBVIOUS
    <2>1. HasBetterPath(o)
        BY <1>9 DEF Reopen
    <2>2. /\ Generate(o) /\ TakeOperator(o) /\ ~IsNew(o) /\ succ \in DOMAIN registry
          /\ nodes[succ].status \in {"OPEN", "CLOSED"} /\ IsWorse(NewInfo(o), nodes[succ])
        BY <2>1, BetterPathFacts
    <2>3. PICK h : SetInfo(succ, NewInfo(o), h)
        BY <1>9, <2>2 DEF Reopen, Enqueue
    <2>4. NewInfo(o).status # "NEW" /\ SamePath(NewInfo(o), NewInfo(o))
        BY <2>2, NewInfoFacts DEF SamePath
    <2> QED
        BY <2>2, <2>3, <2>4, SuccessorKeeps
<1>10. ASSUME NEW o \in Ops(task), UpdateParent(o)
       PROVE  PathInv' /\ AncestryInv'
    <2> PICK succ : succ = SuccId(o)
        OBVIOUS
    <2> PICK info : info = [NewInfo(o) EXCEPT !.status = nodes[succ].status]
        OBVIOUS
    <2>1. HasBetterPath(o) /\ SetInfo(succ, info, estimates[succ])
        BY <1>10 DEF UpdateParent
    <2>2. /\ Generate(o) /\ TakeOperator(o) /\ ~IsNew(o) /\ succ \in DOMAIN registry
          /\ nodes[succ].status \in {"OPEN", "CLOSED"} /\ IsWorse(NewInfo(o), nodes[succ])
        BY <2>1, BetterPathFacts
    <2>3. info.status = nodes[succ].status /\ SamePath(info, NewInfo(o))
        BY <2>2, NewInfoFacts DEF SamePath, Infos
    <2>4. info.status # "NEW" /\ IsWorse(info, nodes[succ])
        BY <2>2, <2>3 DEF SamePath, IsWorse
    <2> QED
        BY <2>1, <2>2, <2>3, <2>4, SuccessorKeeps
<1> QED
    BY <1>1, <1>2, <1>3, <1>4, <1>5, <1>6, <1>7, <1>8, <1>9, <1>10 DEF Next

(* The parents lead back to the initial state, however often nodes got     *)
(* better paths, and new parents, on the way.                              *)
THEOREM PathInvariance == Spec => [](IInv /\ PathInv /\ AncestryInv)
<1>1. Init => PathInv /\ AncestryInv
    <2>1. DOMAIN <<>> = {}
        OBVIOUS
    <2> QED
        BY <2>1 DEF Init, PathInv, AncestryInv
<1>2. IInv /\ PathInv /\ AncestryInv /\ [Next]_vars => PathInv' /\ AncestryInv'
    BY NextKeepsPaths
<1> QED
    BY <1>1, <1>2, Invariance, PTL DEF Spec
-------------------------------------------------------------------------------
(* Nodes that follow from one another, each the parent of the one before.  *)
IsTrace(trace, id) ==
    /\ trace \in Seq(DOMAIN registry) /\ Len(trace) \in Nat /\ Len(trace) > 0
    /\ trace[1] = id
    /\ \A i \in 1 .. Len(trace) : trace[i] \in DOMAIN registry /\ HasPath(nodes[trace[i]])
    /\ \A i \in 1 .. Len(trace) - 1 : /\ nodes[trace[i]].op # NoOperator
                                      /\ nodes[trace[i]].parent = trace[i + 1]

IsAtStart(trace) == nodes[trace[Len(trace)]].op = NoOperator

(* A trace goes on with the parent, until a node has none.                 *)
LEMMA TraceGoesOn ==
    ASSUME IInv, PathInv, NEW id, NEW trace, IsTrace(trace, id)
    PROVE  /\ IsTrace(WithParent(nodes, trace), id)
           /\ IsAtStart(trace) => WithParent(nodes, trace) = trace
           /\ ~IsAtStart(trace) => Len(WithParent(nodes, trace)) = Len(trace) + 1
<1> PICK n : n = Len(trace)
    OBVIOUS
<1>1. /\ trace \in Seq(DOMAIN registry) /\ n \in Nat /\ n > 0 /\ n \in 1 .. n /\ trace[1] = id
      /\ \A i \in 1 .. n : trace[i] \in DOMAIN registry /\ HasPath(nodes[trace[i]])
      /\ \A i \in 1 .. n - 1 : /\ nodes[trace[i]].op # NoOperator
                               /\ nodes[trace[i]].parent = trace[i + 1]
    BY DEF IsTrace
<1>2. CASE IsAtStart(trace)
    BY <1>2 DEF IsAtStart, WithParent
<1>3. CASE ~IsAtStart(trace)
    <2> PICK p : p = nodes[trace[n]].parent
        OBVIOUS
    <2>1. p \in DOMAIN registry /\ HasPath(nodes[p])
        <3>1. IsTraced(trace[n]) /\ nodes[trace[n]].op # NoOperator /\ HasPath(nodes[trace[n]])
            BY <1>1, <1>3 DEF PathInv, IsAtStart
        <3> QED
            BY <3>1 DEF IsTraced, IsReachedFrom
    <2>2. WithParent(nodes, trace) = Append(trace, p)
        BY <1>3 DEF IsAtStart, WithParent
    <2> PICK new : new = Append(trace, p)
        OBVIOUS
    <2>3. /\ new \in Seq(DOMAIN registry) /\ Len(new) = n + 1
          /\ \A i \in 1 .. n : new[i] = trace[i]
          /\ new[n + 1] = p
        BY <1>1, <2>1, AppendProperties
    <2>4. \A i \in 1 .. n + 1 : new[i] \in DOMAIN registry /\ HasPath(nodes[new[i]])
        <3> TAKE i \in 1 .. n + 1
        <3>1. i \in 1 .. n \/ i = n + 1
            BY <1>1
        <3> QED
            BY <1>1, <2>1, <2>3, <3>1
    <2>5. \A i \in 1 .. n : nodes[new[i]].op # NoOperator /\ nodes[new[i]].parent = new[i + 1]
        <3> TAKE i \in 1 .. n
        <3>1. CASE i = n
            BY <1>1, <1>3, <2>3, <3>1 DEF IsAtStart
        <3>2. CASE i # n
            <4>1. i \in 1 .. n - 1 /\ i + 1 \in 1 .. n
                BY <1>1, <3>2
            <4> QED
                BY <1>1, <2>3, <4>1
        <3> QED
            BY <3>1, <3>2
    <2>6. (n + 1) - 1 = n /\ n + 1 \in Nat /\ n + 1 > 0
        BY <1>1
    <2>7. IsTrace(new, id)
        BY <1>1, <2>3, <2>4, <2>5, <2>6 DEF IsTrace
    <2> QED
        BY <1>3, <2>2, <2>3, <2>7
<1> QED
    BY <1>2, <1>3

(* No node comes twice, so that no trace is longer than the registry.      *)
LEMMA TraceIsShort ==
    ASSUME IInv, AncestryInv, NEW id, NEW trace, IsTrace(trace, id)
    PROVE  Len(trace) <= Len(registry)
<1> PICK n, N : n = Len(trace) /\ N = Len(registry)
    OBVIOUS
<1>1. /\ n \in Nat /\ N \in Nat /\ DOMAIN registry = 1 .. N
      /\ \A i \in 1 .. n : trace[i] \in 1 .. N
      /\ \A i \in 1 .. n - 1 : /\ nodes[trace[i]].op # NoOperator
                               /\ nodes[trace[i]].parent = trace[i + 1]
    BY TypeFacts DEF IsTrace, IInv
<1> SUFFICES ASSUME n > N
             PROVE  FALSE
    BY <1>1
<1>2. PICK i \in 1 .. n, j \in 1 .. n : i < j /\ trace[i] = trace[j]
    <2> DEFINE f == [i \in 1 .. n |-> trace[i]]
    <2>1. f \in [1 .. n -> 1 .. N]
        BY <1>1
    <2>2. /\ IsFiniteSet(1 .. n) /\ IsFiniteSet(1 .. N)
          /\ Cardinality(1 .. n) = n /\ Cardinality(1 .. N) = N
        <3>1. \A m \in Nat : IsFiniteSet(1 .. m) /\ Cardinality(1 .. m) = m
            <4> TAKE m \in Nat
            <4>1. 1 \in Int /\ m \in Int /\ (IF 1 > m THEN 0 ELSE m - 1 + 1) = m
                OBVIOUS
            <4> QED
                BY <4>1, FS_Interval
        <3> QED
            BY <1>1, <3>1
    <2>3. \E x, y \in 1 .. n : x # y /\ f[x] = f[y]
        <3> PICK S, T : S = 1 .. n /\ T = 1 .. N
            OBVIOUS
        <3>1. IsFiniteSet(S) /\ IsFiniteSet(T) /\ Cardinality(T) < Cardinality(S) /\ f \in [S -> T]
            BY <1>1, <2>1, <2>2
        <3> HIDE DEF f
        <3>2. \E x, y \in S : x # y /\ f[x] = f[y]
            BY <3>1, FS_PigeonHole
        <3> QED
            BY <3>2
    <2>4. PICK x \in 1 .. n, y \in 1 .. n : x # y /\ trace[x] = trace[y]
        BY <2>3
    <2>5. x < y \/ y < x
        BY <2>4
    <2> QED
        BY <2>4, <2>5
<1> DEFINE X == {trace[k] : k \in i .. j - 1}
<1>3. X \in SUBSET DOMAIN registry /\ X # {}
    <2>1. i \in i .. j - 1 /\ \A k \in i .. j - 1 : k \in 1 .. n
        BY <1>1, <1>2
    <2> QED
        BY <1>1, <2>1
<1>4. ASSUME NEW k \in i .. j - 1
      PROVE  nodes[trace[k]].op # NoOperator /\ nodes[trace[k]].parent \in X
    <2>1. k \in 1 .. n - 1
        BY <1>1, <1>2
    <2>2. CASE k = j - 1
        <3>1. nodes[trace[k]].parent = trace[i]
            BY <1>1, <1>2, <2>1, <2>2
        <3>2. i \in i .. j - 1
            BY <1>2
        <3> QED
            BY <1>1, <2>1, <3>1, <3>2
    <2>3. CASE k # j - 1
        <3>1. k + 1 \in i .. j - 1
            BY <1>2, <2>3
        <3> QED
            BY <1>1, <2>1, <3>1
    <2> QED
        BY <2>2, <2>3
<1> QED
    <2>1. \A x \in X : nodes[x].op # NoOperator /\ nodes[x].parent \in X
        BY <1>4
    <2> HIDE DEF X
    <2> QED
        BY <1>3, <2>1 DEF AncestryInv

(* The trace of a node that was reached leads to a node without a parent.  *)
LEMMA TraceIsComplete ==
    ASSUME IInv, PathInv, AncestryInv, NEW id \in DOMAIN registry, HasPath(nodes[id])
    PROVE  IsTrace(NodeTrace(nodes, id), id) /\ IsAtStart(NodeTrace(nodes, id))
<1> DEFINE N == Len(nodes)
           Before(before) == WithParent(nodes, before)
           trace == CHOOSE g : g = [n \in 0 .. N |-> IF n = 0 THEN <<id>> ELSE Before(g[n - 1])]
           D == {t \in Seq(DOMAIN registry) : IsTrace(t, id)}
           F == [y \in D \X Nat |-> Before(y[1])]
<1>1. N \in Nat /\ N = Len(registry) /\ N > 0
    <2>1. nodes \in [1 .. Len(registry) -> Infos] /\ Len(registry) \in Nat
        BY TypeFacts DEF IInv, TypeInv
    <2>2. 1 .. Len(registry) # {}
        BY TypeFacts DEF IInv
    <2> QED
        BY <2>1, <2>2
<1>2. NodeTrace(nodes, id) = trace[N]
    BY DEF NodeTrace
<1>3. <<id>> \in D
    <2>1. /\ <<id>> \in Seq(DOMAIN registry) /\ Len(<<id>>) = 1 /\ <<id>>[1] = id
          /\ 1 .. 1 = {1} /\ 1 .. 1 - 1 = {} /\ 1 > 0 /\ 1 \in Nat
        OBVIOUS
    <2> QED
        BY <2>1 DEF IsTrace
<1>4. ASSUME NEW t \in D
      PROVE  Before(t) \in D
    <2>1. IsTrace(Before(t), id)
        BY TraceGoesOn
    <2> QED
        BY <2>1 DEF IsTrace
<1>5. F \in Steps(D)
    BY <1>4 DEF Steps
<1>6. Iterations(D, <<id>>, N, F) # {}
    <2> HIDE DEF F, D, N
    <2> QED
        BY <1>1, <1>3, <1>5, IterationExists
<1>7. \E g : g = [n \in 0 .. N |-> IF n = 0 THEN <<id>> ELSE Before(g[n - 1])]
    <2>1. PICK g \in [0 .. N -> D] : g[0] = <<id>> /\ \A n \in 1 .. N : g[n] = F[<<g[n - 1], n>>]
        <3> HIDE DEF F, D, N
        <3> QED
            BY <1>6 DEF Iterations
    <2>2. ASSUME NEW n \in 1 .. N
          PROVE  g[n] = Before(g[n - 1])
        <3>1. n - 1 \in 0 .. N /\ n \in Nat
            BY <1>1
        <3>2. <<g[n - 1], n>> \in D \X Nat
            BY <2>1, <3>1
        <3> HIDE DEF Before, D
        <3> QED
            BY <2>1, <3>2
    <2> HIDE DEF Before, D, N, F
    <2>3. g = [n \in 0 .. N |-> IF n = 0 THEN <<id>> ELSE Before(g[n - 1])]
        <3>1. \A n \in 0 .. N : n = 0 \/ n \in 1 .. N
            BY <1>1
        <3> QED
            BY <2>1, <2>2, <3>1
    <2> QED
        BY <2>3
<1>8. trace = [n \in 0 .. N |-> IF n = 0 THEN <<id>> ELSE Before(trace[n - 1])]
    <2> HIDE DEF Before, N
    <2> QED
        BY <1>7
<1> DEFINE Fine == {n \in 0 .. N : /\ IsTrace(trace[n], id)
                                   /\ IsAtStart(trace[n]) \/ Len(trace[n]) = n + 1}
<1>9. 0 \in Fine
    <2> HIDE DEF Before, N, trace
    <2>1. trace[0] = <<id>>
        BY <1>1, <1>8
    <2> QED
        BY <1>1, <1>3, <2>1
<1>10. ASSUME NEW n \in 1 .. N, n - 1 \in Fine
       PROVE  n \in Fine
    <2> HIDE DEF N, trace
    <2> PICK t : t = trace[n - 1]
        OBVIOUS
    <2>1. trace[n] = WithParent(nodes, t) /\ n \in 0 .. N
        <3>1. n \in 0 .. N /\ n # 0
            BY <1>1
        <3> QED
            BY <1>8, <3>1
    <2>2. IsTrace(t, id) /\ (IsAtStart(t) \/ Len(t) = (n - 1) + 1)
        BY <1>10
    <2>3. /\ IsTrace(trace[n], id)
          /\ IsAtStart(t) => trace[n] = t
          /\ ~IsAtStart(t) => Len(trace[n]) = Len(t) + 1
        BY <2>1, <2>2, TraceGoesOn
    <2>4. (n - 1) + 1 = n
        BY <1>1
    <2> QED
        BY <2>1, <2>2, <2>3, <2>4
<1>11. N \in Fine
    <2>1. \A n \in 1 .. N : n - 1 \in Fine => n \in Fine
        BY <1>10
    <2> HIDE DEF Fine, N
    <2> PICK good, m : good = Fine /\ m = N
        OBVIOUS
    <2>2. m \in Nat /\ 0 \in good /\ \A n \in 1 .. m : n - 1 \in good => n \in good
        BY <1>1, <1>9, <2>1
    <2>3. m \in 0 .. m /\ \A n \in 0 .. m : n \in good
        BY <2>2, UpTo
    <2> QED
        BY <2>3
<1>12. IsTrace(trace[N], id) /\ (IsAtStart(trace[N]) \/ Len(trace[N]) = N + 1)
    BY <1>11
<1> HIDE DEF trace, N
<1>13. Len(trace[N]) <= N
    BY <1>1, <1>12, TraceIsShort
<1> QED
    BY <1>1, <1>2, <1>12, <1>13
-------------------------------------------------------------------------------
(* The costs and the states along a sequence of operators.                 *)
IsSum(sum, ops) ==
    /\ sum \in [0 .. Len(ops) -> Nat] /\ sum[0] = 0
    /\ \A n \in 1 .. Len(ops) : sum[n] = sum[n - 1] + AdjustedCost(ops[n])

(* TotalCost is the sum of the costs.                                      *)
LEMMA TotalCostFacts ==
    ASSUME problem \in Problems, NEW ops \in Seq(Ops(task))
    PROVE  \E sum : IsSum(sum, ops) /\ TotalCost(ops) = sum[Len(ops)]
<1> DEFINE N == Len(ops)
           Next_(x, n) == x + AdjustedCost(ops[n])
           sum == CHOOSE g : g = [n \in 0 .. N |-> IF n = 0 THEN 0 ELSE Next_(g[n - 1], n)]
           F == [y \in Nat \X Nat |-> IF y[2] \in 1 .. N THEN Next_(y[1], y[2]) ELSE y[1]]
<1>1. N \in Nat /\ \A n \in 1 .. N : AdjustedCost(ops[n]) \in Nat
    BY CostFacts, ElementOfSeq, LenProperties
<1>2. F \in Steps(Nat)
    <2>1. \A y \in Nat \X Nat : (IF y[2] \in 1 .. N THEN Next_(y[1], y[2]) ELSE y[1]) \in Nat
        BY <1>1
    <2> HIDE DEF Next_, N
    <2> QED
        BY <2>1 DEF Steps
<1>3. PICK g \in [0 .. N -> Nat] : g[0] = 0 /\ \A n \in 1 .. N : g[n] = F[<<g[n - 1], n>>]
    <2>1. PICK G, m : G = F /\ m = N
        OBVIOUS
    <2>2. Iterations(Nat, 0, m, G) # {}
        <3> HIDE DEF F, N
        <3> QED
            BY <1>1, <1>2, <2>1, IterationExists
    <2> HIDE DEF F, N
    <2> QED
        BY <2>1, <2>2 DEF Iterations
<1>4. ASSUME NEW n \in 1 .. N
      PROVE  g[n] = Next_(g[n - 1], n)
    <2>1. n - 1 \in 0 .. N /\ n \in Nat
        BY <1>1
    <2>2. <<g[n - 1], n>> \in Nat \X Nat
        BY <1>3, <2>1
    <2> HIDE DEF Next_
    <2> QED
        BY <1>3, <2>2
<1>5. g = [n \in 0 .. N |-> IF n = 0 THEN 0 ELSE Next_(g[n - 1], n)]
    <2> HIDE DEF Next_, N, F
    <2>1. \A n \in 0 .. N : n = 0 \/ n \in 1 .. N
        BY <1>1
    <2> QED
        BY <1>3, <1>4, <2>1
<1>6. sum = [n \in 0 .. N |-> IF n = 0 THEN 0 ELSE Next_(sum[n - 1], n)]
    <2> HIDE DEF Next_, N
    <2> QED
        BY <1>5
<1>7. TotalCost(ops) = sum[N]
    BY DEF TotalCost
<1> HIDE DEF sum, N
<1>8. /\ sum[0] = 0 /\ \A n \in 1 .. N : sum[n] = sum[n - 1] + AdjustedCost(ops[n])
    <2>1. 0 \in 0 .. N /\ \A n \in 1 .. N : n \in 0 .. N /\ n # 0
        BY <1>1
    <2> QED
        BY <1>6, <2>1
<1>9. \A n \in 0 .. N : sum[n] \in Nat
    <2> PICK good, m : good = {n \in 0 .. N : sum[n] \in Nat} /\ m = N
        OBVIOUS
    <2>1. 0 \in good
        BY <1>1, <1>8
    <2>2. \A n \in 1 .. m : n - 1 \in good => n \in good
        BY <1>1, <1>8
    <2>3. \A n \in 0 .. m : n \in good
        BY <1>1, <2>1, <2>2, UpTo
    <2> QED
        BY <2>3
<1>10. sum \in [0 .. N -> Nat]
    <2> HIDE DEF Next_
    <2> QED
        BY <1>6, <1>9
<1>11. IsSum(sum, ops)
    BY <1>8, <1>10 DEF IsSum, N
<1> QED
    BY <1>7, <1>11 DEF N

AreStates(states, ops) ==
    /\ states \in [0 .. Len(ops) -> States(task)] /\ states[0] = task.init
    /\ \A n \in 1 .. Len(ops) : states[n] = ReferenceSuccessor(task, ops[n], states[n - 1])

(* StatesAlong are the states from the initial one on.                     *)
LEMMA StatesAlongFacts ==
    ASSUME problem \in Problems, IsTask(task), task.layers = <<>>, NEW ops \in Seq(Ops(task))
    PROVE  AreStates(StatesAlong(ops), ops)
<1> DEFINE N == Len(ops)
           Next_(x, n) == IF ops[n] \in Ops(task) THEN ReferenceSuccessor(task, ops[n], x) ELSE x
           states == CHOOSE g : g = [n \in 0 .. N |-> IF n = 0 THEN task.init ELSE Next_(g[n - 1], n)]
           D == States(task)
           F == [y \in D \X Nat |-> Next_(y[1], y[2])]
<1>1. N \in Nat /\ \A n \in 1 .. N : ops[n] \in Ops(task)
    BY ElementOfSeq, LenProperties
<1>2. F \in Steps(D) /\ task.init \in D
    <2>1. \A x \in D, n \in Nat : Next_(x, n) \in D
        BY SuccessorIsState
    <2> HIDE DEF Next_, N
    <2> QED
        BY <2>1, TaskParts DEF Steps
<1>3. PICK g \in [0 .. N -> D] : g[0] = task.init /\ \A n \in 1 .. N : g[n] = F[<<g[n - 1], n>>]
    <2>1. PICK G, m, S, s : G = F /\ m = N /\ S = D /\ s = task.init
        OBVIOUS
    <2>2. Iterations(S, s, m, G) # {}
        <3> HIDE DEF F, N, D
        <3> QED
            BY <1>1, <1>2, <2>1, IterationExists
    <2> HIDE DEF F, N, D
    <2> QED
        BY <2>1, <2>2 DEF Iterations
<1>4. ASSUME NEW n \in 1 .. N
      PROVE  g[n] = Next_(g[n - 1], n)
    <2>1. n - 1 \in 0 .. N /\ n \in Nat
        BY <1>1
    <2>2. <<g[n - 1], n>> \in D \X Nat
        BY <1>3, <2>1
    <2> HIDE DEF Next_, D
    <2> QED
        BY <1>3, <2>2
<1>5. g = [n \in 0 .. N |-> IF n = 0 THEN task.init ELSE Next_(g[n - 1], n)]
    <2> HIDE DEF Next_, N, F, D
    <2>1. \A n \in 0 .. N : n = 0 \/ n \in 1 .. N
        BY <1>1
    <2> QED
        BY <1>3, <1>4, <2>1
<1>6. states = [n \in 0 .. N |-> IF n = 0 THEN task.init ELSE Next_(states[n - 1], n)]
    <2> HIDE DEF Next_, N
    <2> QED
        BY <1>5
<1>7. StatesAlong(ops) = states
    BY DEF StatesAlong
<1> HIDE DEF states, N
<1>8. states[0] = task.init /\ \A n \in 1 .. N : states[n] = ReferenceSuccessor(task, ops[n], states[n - 1])
    <2>1. 0 \in 0 .. N /\ \A n \in 1 .. N : n \in 0 .. N /\ n # 0
        BY <1>1
    <2> QED
        BY <1>1, <1>6, <2>1
<1>9. \A n \in 0 .. N : states[n] \in D
    <2> PICK good, m : good = {n \in 0 .. N : states[n] \in D} /\ m = N
        OBVIOUS
    <2>1. 0 \in good
        BY <1>1, <1>2, <1>8
    <2>2. \A n \in 1 .. m : n - 1 \in good => n \in good
        <3> TAKE n \in 1 .. m
        <3> HAVE n - 1 \in good
        <3>1. n \in 0 .. N /\ ops[n] \in Ops(task) /\ states[n - 1] \in States(task)
            BY <1>1
        <3>2. ReferenceSuccessor(task, ops[n], states[n - 1]) \in States(task)
            BY <3>1, SuccessorIsState
        <3> QED
            BY <1>8, <3>1, <3>2
    <2>3. \A n \in 0 .. m : n \in good
        BY <1>1, <2>1, <2>2, UpTo
    <2> QED
        BY <2>3
<1>10. states \in [0 .. N -> States(task)]
    <2> HIDE DEF Next_
    <2> QED
        BY <1>6, <1>9
<1>11. AreStates(states, ops)
    BY <1>8, <1>10 DEF AreStates, N
<1> QED
    BY <1>7, <1>11

(* The path that is traced back from a node.                               *)
LEMMA TracedEdges ==
    ASSUME IInv, PathInv, AncestryInv, IsPlain(problem),
           NEW id \in DOMAIN registry, HasPath(nodes[id]),
           NEW trace, trace = NodeTrace(nodes, id), NEW ops, ops = TracePath(nodes, id)
    PROVE  /\ ops \in Seq(Ops(task)) /\ Len(ops) \in Nat /\ Len(trace) = Len(ops) + 1
           /\ trace[1] = id /\ IsStart(trace[Len(trace)])
           /\ \A n \in 0 .. Len(ops) :
                trace[Len(trace) - n] \in DOMAIN registry /\ HasPath(nodes[trace[Len(trace) - n]])
           /\ \A n \in 1 .. Len(ops) :
                IsReachedFrom(trace[Len(trace) - n], trace[Len(trace) - (n - 1)], ops[n])
<1>1. IsTrace(trace, id) /\ IsAtStart(trace)
    BY TraceIsComplete
<1> PICK L : L = Len(trace)
    OBVIOUS
<1>2. /\ L \in Nat /\ L > 0 /\ trace[1] = id
      /\ \A i \in 1 .. L : trace[i] \in DOMAIN registry /\ HasPath(nodes[trace[i]])
      /\ \A i \in 1 .. L - 1 : nodes[trace[i]].op # NoOperator /\ nodes[trace[i]].parent = trace[i + 1]
      /\ nodes[trace[L]].op = NoOperator
    BY <1>1 DEF IsTrace, IsAtStart
<1> PICK q : q = [i \in 1 .. L - 1 |-> nodes[trace[i]].op]
    OBVIOUS
<1>3. ASSUME NEW i \in 1 .. L - 1
      PROVE  /\ q[i] \in Ops(task)
             /\ IsReachedFrom(trace[i], trace[i + 1], q[i])
    <2>1. /\ i \in 1 .. L /\ q[i] = nodes[trace[i]].op /\ q[i] # NoOperator
          /\ nodes[trace[i]].parent = trace[i + 1] /\ trace[i] \in DOMAIN registry
        BY <1>2
    <2>2. IsTraced(trace[i]) /\ nodes[trace[i]] \in Infos
        BY <2>1, TypeFacts DEF PathInv, IInv
    <2> QED
        BY <1>2, <2>1, <2>2 DEF IsTraced, Infos
<1>4. q \in [1 .. L - 1 -> Ops(task)] /\ L - 1 \in Nat
    BY <1>2, <1>3
<1>5. q \in Seq(Ops(task)) /\ Len(q) = L - 1
    BY <1>4
<1>6. ops = [n \in 1 .. L - 1 |-> q[(L - 1 - n) + 1]]
    <2>1. ops = Reverse(q)
        BY DEF TracePath
    <2>2. Reverse(q) = [n \in 1 .. Len(q) |-> q[(Len(q) - n) + 1]]
        BY DEF Reverse
    <2>3. Len(q) = L - 1
        BY <1>5
    <2> QED
        BY ONLY <2>1, <2>2, <2>3, Zenon
<1>7. ASSUME NEW n \in 1 .. L - 1
      PROVE  ops[n] = q[L - n] /\ L - n \in 1 .. L - 1 /\ (L - n) + 1 = L - (n - 1)
    <2>1. (L - 1 - n) + 1 = L - n
        BY <1>2
    <2> QED
        BY <1>2, <1>6, <2>1
<1>8. ops \in Seq(Ops(task)) /\ Len(ops) = L - 1
    <2>1. ops \in [1 .. L - 1 -> Ops(task)]
        BY <1>3, <1>6, <1>7
    <2> QED
        BY <1>4, <2>1
<1>9. IsStart(trace[L])
    <2>1. IsTraced(trace[L]) /\ HasPath(nodes[trace[L]])
        BY <1>2 DEF PathInv
    <2> QED
        BY <1>2, <2>1 DEF IsTraced
<1>10. \A n \in 0 .. L - 1 : L - n \in 1 .. L
    BY <1>2
<1>11. \A n \in 1 .. L - 1 : IsReachedFrom(trace[L - n], trace[L - (n - 1)], ops[n])
    BY <1>3, <1>7
<1>12. ops \in Seq(Ops(task)) /\ L - 1 = Len(ops) /\ L = Len(ops) + 1 /\ Len(ops) \in Nat
    BY <1>2, <1>4, <1>8
<1>13. \A n \in 0 .. Len(ops) : trace[L - n] \in DOMAIN registry /\ HasPath(nodes[trace[L - n]])
    BY <1>2, <1>10, <1>12
<1> QED
    BY <1>2, <1>9, <1>11, <1>12, <1>13

(* Costs add up along the path within what the nodes know.                 *)
LEMMA WithinSums ==
    ASSUME NEW x, NEW y, HasPath(x), HasPath(y), NEW w \in Nat, NEW c \in Nat, NEW n \in Nat,
           IsWithin(c, n, x), IsWithin(x.g + w, x.d + 1, y)
    PROVE  IsWithin(c + w, n + 1, y)
<1> PICK g, d, g2, d2 : g = x.g /\ d = x.d /\ g2 = y.g /\ d2 = y.d
    OBVIOUS
<1>1. /\ g \in Nat /\ d \in Nat /\ g2 \in Nat /\ d2 \in Nat
      /\ c < g \/ (c = g /\ (problem.shortest => n <= d))
      /\ g + w < g2 \/ (g + w = g2 /\ (problem.shortest => d + 1 <= d2))
    BY DEF HasPath, IsWithin
<1>2. CASE problem.shortest
    <2>1. c + w < g2 \/ (c + w = g2 /\ n + 1 <= d2)
        BY <1>1, <1>2
    <2> QED
        BY <2>1 DEF IsWithin
<1>3. CASE ~problem.shortest
    <2>1. c + w < g2 \/ c + w = g2
        BY <1>1
    <2> QED
        BY <1>3, <2>1 DEF IsWithin
<1> QED
    BY <1>2, <1>3

(* What is traced back from a goal node is a plan, within the numbers of   *)
(* the node: parents may have got better paths since they were set.        *)
LEMMA TraceIsPlan ==
    ASSUME IInv, PathInv, AncestryInv, IsPlain(problem),
           NEW id \in DOMAIN registry, HasPath(nodes[id]), IsGoalState(task, registry[id]),
           NEW ops, ops = TracePath(nodes, id)
    PROVE  /\ IsPlan(ops) /\ ops \in Seq(Ops(task))
           /\ Len(ops) \in Nat /\ TotalCost(ops) \in Nat
           /\ IsWithin(TotalCost(ops), Len(ops), nodes[id])
           /\ (Len(ops) = 0 /\ TotalCost(ops) = 0) \/ nodes[id].real_g < problem.bound
<1> PICK trace : trace = NodeTrace(nodes, id)
    OBVIOUS
<1> PICK N, L : N = Len(ops) /\ L = Len(trace)
    OBVIOUS
<1>1. /\ ops \in Seq(Ops(task)) /\ N \in Nat /\ L = N + 1
      /\ trace[1] = id /\ IsStart(trace[L])
      /\ \A n \in 0 .. N : trace[L - n] \in DOMAIN registry /\ HasPath(nodes[trace[L - n]])
      /\ \A n \in 1 .. N : IsReachedFrom(trace[L - n], trace[L - (n - 1)], ops[n])
    BY TracedEdges
<1>2. /\ problem \in Problems /\ IsTask(task) /\ task.layers = <<>> /\ problem.symmetries = "NONE"
      /\ \A n \in 1 .. N : ops[n] \in Ops(task) /\ AdjustedCost(ops[n]) \in Nat
    BY <1>1, ElementOfSeq, LenProperties, CostFacts DEF IInv, TypeInv, IsPlain, task
<1>3. \A n \in 0 .. N : registry[trace[L - n]] \in States(task)
    BY <1>1, TypeFacts DEF IInv
<1> DEFINE at(n) == trace[L - n]
<1>4. at(0) = trace[L] /\ at(N) = id /\ 0 \in 0 .. N /\ N \in 0 .. N
    BY <1>1
<1>5. ASSUME NEW n \in 1 .. N
      PROVE  /\ n \in 0 .. N /\ n - 1 \in 0 .. N /\ n - 1 \in Nat /\ (n - 1) + 1 = n
             /\ ops[n] \in Range(problem.kept[registry[at(n - 1)]])
             /\ registry[at(n)] = Successor(task, ops[n], registry[at(n - 1)])
             /\ IsWithin(nodes[at(n - 1)].g + AdjustedCost(ops[n]), nodes[at(n - 1)].d + 1,
                         nodes[at(n)])
             /\ nodes[at(n)].real_g < problem.bound
    <2>1. n \in 0 .. N /\ n - 1 \in 0 .. N /\ n - 1 \in Nat /\ (n - 1) + 1 = n
        BY <1>1
    <2>2. IsReachedFrom(at(n), at(n - 1), ops[n])
        BY <1>1
    <2> QED
        BY <1>2, <2>1, <2>2 DEF IsReachedFrom
<1> HIDE DEF at
<1>6. PICK states : states = StatesAlong(ops) /\ AreStates(states, ops)
    BY <1>1, <1>2, StatesAlongFacts
<1>7. \A n \in 0 .. N : states[n] = registry[at(n)]
    <2> PICK good : good = {n \in 0 .. N : states[n] = registry[at(n)]}
        OBVIOUS
    <2>1. 0 \in good
        BY <1>1, <1>2, <1>4, <1>6 DEF AreStates, IsStart
    <2>2. \A n \in 1 .. N : n - 1 \in good => n \in good
        <3> TAKE n \in 1 .. N
        <3> HAVE n - 1 \in good
        <3>1. states[n] = ReferenceSuccessor(task, ops[n], registry[at(n - 1)])
            BY <1>6 DEF AreStates
        <3>2. registry[at(n)] = ReferenceSuccessor(task, ops[n], registry[at(n - 1)])
            <4>1. Derived(task) = {}
                BY <1>2 DEF Derived
            <4> QED
                BY <1>2, <1>5, <4>1, PlainSuccessor DEF Successor, Evaluate
        <3> QED
            BY <1>5, <3>1, <3>2
    <2>3. \A n \in 0 .. N : n \in good
        BY <1>1, <2>1, <2>2, UpTo
    <2> QED
        BY <2>3
<1>8. IsPlan(ops)
    <2>1. ASSUME NEW n \in 1 .. N
          PROVE  ops[n] \in Ops(task) /\ IsApplicable(task, ops[n], states[n - 1])
        <3>1. registry[at(n - 1)] \in States(task)
            BY <1>3, <1>5 DEF at
        <3> QED
            BY <1>2, <1>5, <1>7, <3>1 DEF IsPlain, task
    <2>2. IsGoalState(task, states[N])
        BY <1>4, <1>7
    <2> QED
        BY <1>6, <2>1, <2>2 DEF IsPlan
<1>9. PICK sum : IsSum(sum, ops) /\ TotalCost(ops) = sum[N]
    BY <1>1, <1>2, TotalCostFacts
<1>10. /\ sum[0] = 0 /\ \A n \in 0 .. N : sum[n] \in Nat
       /\ \A n \in 1 .. N : sum[n] = sum[n - 1] + AdjustedCost(ops[n])
    BY <1>9 DEF IsSum
<1>11. \A n \in 0 .. N : IsWithin(sum[n], n, nodes[at(n)])
    <2> PICK good : good = {n \in 0 .. N : IsWithin(sum[n], n, nodes[at(n)])}
        OBVIOUS
    <2>1. 0 \in good
        BY <1>1, <1>4, <1>10 DEF IsStart, IsWithin
    <2>2. \A n \in 1 .. N : n - 1 \in good => n \in good
        <3> TAKE n \in 1 .. N
        <3> HAVE n - 1 \in good
        <3>1. HasPath(nodes[at(n - 1)]) /\ HasPath(nodes[at(n)])
            BY <1>1, <1>5 DEF at
        <3>2. IsWithin(sum[n - 1] + AdjustedCost(ops[n]), (n - 1) + 1, nodes[at(n)])
            BY <1>2, <1>5, <1>10, <3>1, WithinSums
        <3> QED
            BY <1>5, <1>10, <3>2
    <2>3. \A n \in 0 .. N : n \in good
        BY <1>1, <2>1, <2>2, UpTo
    <2> QED
        BY <2>3
<1>12. (Len(ops) = 0 /\ TotalCost(ops) = 0) \/ nodes[id].real_g < problem.bound
    <2>1. CASE N = 0
        BY <1>9, <1>10, <2>1
    <2>2. CASE N # 0
        <3>1. N \in 1 .. N
            BY <1>1, <2>2
        <3> QED
            BY <1>4, <1>5, <3>1
    <2> QED
        BY <2>1, <2>2
<1> QED
    BY <1>1, <1>4, <1>8, <1>9, <1>10, <1>11, <1>12
-------------------------------------------------------------------------------
(* The plan that is set is the one of a goal node that is closed.          *)
IsPlanOf(p, id) ==
    /\ nodes[id].status = "CLOSED" /\ IsGoalState(task, registry[id])
    /\ IsWithin(TotalCost(p), Len(p), nodes[id])
    /\ (Len(p) = 0 /\ TotalCost(p) = 0) \/ nodes[id].real_g < problem.bound

PlanInv ==
    /\ plan # {} => status \in {"SOLVED", "TIMEOUT"}
    /\ IsPlain(problem) => \A p \in plan :
            /\ IsPlan(p) /\ Len(p) \in Nat /\ TotalCost(p) \in Nat
            /\ \E id \in DOMAIN registry : IsPlanOf(p, id)

(* Plans stay plans of the task.                                           *)
LEMMA PlanStays ==
    ASSUME problem' = problem, NEW p
    PROVE  (IsPlan(p)' <=> IsPlan(p)) /\ TotalCost(p)' = TotalCost(p)
<1>1. task' = task
    BY DEF task
<1>2. IsPlan(p)' <=> IsPlan(p)
    BY ONLY <1>1, Zenon DEF IsPlan, StatesAlong
<1>3. TotalCost(p)' = TotalCost(p)
    BY ONLY <1>1, problem' = problem, Zenon DEF TotalCost, AdjustedCost
<1> QED
    BY <1>2, <1>3

(* ReachGoal sets a plan of the node it closes; after it nothing changes.  *)
LEMMA NextKeepsPlan ==
    ASSUME IInv, PathInv, AncestryInv, PlanInv, [Next]_vars
    PROVE  PlanInv'
<1>1. problem' = problem /\ task' = task
    BY NextPreserves DEF Extends, task
<1>2. CASE plan' = plan /\ status \notin {"SOLVED", "TIMEOUT"}
    BY <1>2 DEF PlanInv
<1>3. CASE UNCHANGED <<registry, nodes, plan>> /\ (plan # {} => status' \in {"SOLVED", "TIMEOUT"})
    <2>1. IsPlain(problem') <=> IsPlain(problem)
        BY <1>1
    <2>2. ASSUME NEW p, NEW id
          PROVE  IsPlanOf(p, id)' <=> IsPlanOf(p, id)
        BY <1>1, <1>3, PlanStays DEF IsPlanOf, IsWithin
    <2> QED
        BY <1>1, <1>3, <2>1, <2>2, PlanStays DEF PlanInv
<1>4. ASSUME NEW h \in HeadEvaluations, ReachGoal(h)
      PROVE  PlanInv'
    <2> PICK id : id = Head(open_list).id
        OBVIOUS
    <2>1. /\ open_list # <<>> /\ nodes[id].status = "OPEN" /\ IsGoalState(task, registry[id])
          /\ nodes' = [nodes EXCEPT ![id].status = "CLOSED"]
          /\ registry' = registry /\ status' = "SOLVED"
          /\ problem.symmetries = "NONE" => plan' = {TracePath(nodes, id)}
        BY <1>4 DEF ReachGoal, RemoveMin
    <2>2. id \in DOMAIN registry /\ nodes[id] \in Infos /\ id \in DOMAIN nodes
        BY <2>1, HeadFacts, TypeFacts DEF IInv
    <2>3. HasPath(nodes[id])
        BY <2>1, <2>2 DEF IInv, NodeInv, IsReached, HasPath
    <2>4. ASSUME IsPlain(problem), NEW p \in plan'
          PROVE  /\ IsPlan(p)' /\ Len(p) \in Nat /\ TotalCost(p)' \in Nat
                 /\ IsPlanOf(p, id)'
        <3>1. p = TracePath(nodes, id)
            BY <2>1, <2>4 DEF IsPlain
        <3>2. /\ IsPlan(p) /\ Len(p) \in Nat /\ TotalCost(p) \in Nat
              /\ IsWithin(TotalCost(p), Len(p), nodes[id])
              /\ (Len(p) = 0 /\ TotalCost(p) = 0) \/ nodes[id].real_g < problem.bound
            BY <2>1, <2>2, <2>3, <2>4, <3>1, TraceIsPlan
        <3>3. /\ nodes'[id].status = "CLOSED" /\ nodes'[id].g = nodes[id].g
              /\ nodes'[id].d = nodes[id].d /\ nodes'[id].real_g = nodes[id].real_g
            BY <2>1, <2>2 DEF Infos
        <3> QED
            BY <1>1, <2>1, <3>2, <3>3, PlanStays DEF IsPlanOf, IsWithin
    <2>5. IsPlain(problem)' <=> IsPlain(problem)
        BY <1>1
    <2> QED
        BY <2>1, <2>2, <2>4, <2>5 DEF PlanInv
<1>5. CASE TimeOut
    BY <1>3, <1>5 DEF TimeOut
<1>6. CASE UNCHANGED vars
    BY <1>3, <1>6 DEF vars, PlanInv
<1>7. CASE Initialize \/ Exhaust \/ SkipEntry \/ FindDeadEnd \/ EndStep
    BY <1>2, <1>7 DEF Initialize, Exhaust, SkipEntry, FindDeadEnd, RemoveMin, EndStep
<1>8. ASSUME NEW h \in HeadEvaluations, Reevaluate(h) \/ Expand(h)
      PROVE  PlanInv'
    BY <1>2, <1>8 DEF Reevaluate, Expand, RemoveMin
<1>9. ASSUME NEW o \in Ops(task), TakeOperator(o)
      PROVE  PlanInv'
    BY <1>2, <1>9 DEF TakeOperator
<1>10. ASSUME NEW o \in Ops(task),
              OverBound(o) \/ MarkDeadEnd(o) \/ Open(o) \/ Reopen(o) \/ UpdateParent(o)
                \/ KeepOldPath(o)
       PROVE  TakeOperator(o)
    BY <1>10 DEF OverBound, MarkDeadEnd, Open, Reopen, UpdateParent, KeepOldPath,
                 HasBetterPath, Generate
<1> QED
    BY <1>4, <1>5, <1>6, <1>7, <1>8, <1>9, <1>10 DEF Next

(* A plan is set only when the search ends, and it is the one of the goal  *)
(* node.                                                                   *)
THEOREM PlanInvariance == Spec => [](IInv /\ PlanInv)
<1>1. Init => PlanInv
    BY DEF Init, PlanInv
<1>2. IInv /\ PathInv /\ AncestryInv /\ PlanInv /\ [Next]_vars => PlanInv'
    BY NextKeepsPlan
<1> QED
    BY <1>1, <1>2, PathInvariance, PTL DEF Spec

(* What the search sets as the plan of a task without axioms is a plan of  *)
(* it: the parents of its nodes, which change while the search goes on,    *)
(* lead back to the initial state by operators that can be applied one     *)
(* after the other.                                                        *)
SetsOnlyPlans == IsPlain(problem) => \A p \in plan : IsPlan(p)

(* It follows from what is known of the plan that was set.                 *)
THEOREM PlanIsPlan == Spec => []SetsOnlyPlans
<1>1. PlanInv => SetsOnlyPlans
    BY DEF PlanInv, SetsOnlyPlans
<1> QED
    BY <1>1, PlanInvariance, PTL
-------------------------------------------------------------------------------
(* The classic search without axioms and symmetries: every path of the     *)
(* task to a goal below the bound is one of the search.                    *)
LEMMA ClassicFacts ==
    ASSUME problem \in Problems, IsClassic(problem)
    PROVE  /\ IsTask(task) /\ task.layers = <<>> /\ task.init \in States(task)
           /\ \A s : Representative(s) = s
           /\ \A o, s : Successor(task, o, s) = ReferenceSuccessor(task, o, s)
           /\ OperatorCosts(task) \in [Ops(task) -> Nat]
           /\ \A o \in Ops(task) : OperatorCosts(task)[o] = Cost(o)
           /\ AdjustedCosts = OperatorCosts(task)
<1>1. IsTask(task) /\ task.layers = <<>> /\ task.init \in States(task)
    BY ProblemFacts DEF IsClassic, IsPlain, task
<1>2. \A s : Representative(s) = s
    BY DEF Representative, IsClassic, IsPlain
<1>3. \A o, s : Successor(task, o, s) = ReferenceSuccessor(task, o, s)
    <2>1. Derived(task) = {}
        BY <1>1 DEF Derived
    <2> QED
        BY <1>1, <2>1, PlainSuccessor DEF Successor, Evaluate
<1>4. ASSUME NEW o \in Ops(task)
      PROVE  AdjustedCost(o) = Cost(o) /\ Cost(o) \in Nat
    BY CostFacts DEF IsClassic
<1>5. \A o \in Ops(task) : OperatorCosts(task)[o] = Cost(o)
    BY DEF OperatorCosts, Cost
<1>6. OperatorCosts(task) \in [Ops(task) -> Nat]
    BY <1>4 DEF OperatorCosts, Cost
<1>7. AdjustedCosts = OperatorCosts(task)
    BY <1>4 DEF AdjustedCosts, OperatorCosts, Cost
<1> QED
    BY <1>1, <1>2, <1>3, <1>5, <1>6, <1>7

(* What is no more than the cost of the rest of a path.                    *)
LEMMA RestSums ==
    ASSUME NEW a \in Nat, NEW b \in Nat, NEW c \in Nat, NEW e \in Nat,
           e <= c, c < b - a \/ c = b - a
    PROVE  a + e <= b
OBVIOUS

(* The path behind a cost of the reference definition: what is left of it  *)
(* from each of its states costs no less than the estimate there.          *)
LEMMA GoalPathIsSearchPath ==
    ASSUME problem \in Problems, IsClassic(problem),
           NEW x \in GoalCosts(task, AdjustedCosts, task.init)
    PROVE  /\ x[2] \in Nat /\ x[3] \in Nat
           /\ x[2] < problem.bound => \E ops, states, costs :
                /\ IsSearchPath(ops, states, costs)
                /\ costs[Len(ops) + 1] = x[2] /\ Len(ops) = x[3]
<1> PICK w, s : w = OperatorCosts(task) /\ s = task.init
    OBVIOUS
<1>1. /\ IsTask(task) /\ task.layers = <<>> /\ s \in States(task)
      /\ \A q : Representative(q) = q
      /\ \A o, q : Successor(task, o, q) = ReferenceSuccessor(task, o, q)
      /\ w \in [Ops(task) -> Nat]
      /\ \A o \in Ops(task) : w[o] = Cost(o)
      /\ AdjustedCosts = w
    BY ClassicFacts
<1>2. x \in PathCosts(task, w, s) /\ IsGoalState(task, x[1])
    BY <1>1 DEF GoalCosts
<1>3. x \in PathEnds(task, w, s)
    BY <1>1, <1>2, PathCostsAreReal
<1>4. PICK ops, states, costs :
            IsPathOf(task, w, s, ops, states, costs) /\ EndsIn(ops, states, costs, x)
    BY <1>3 DEF PathEnds
<1> PICK n : n = Len(ops)
    OBVIOUS
<1>5. /\ ops \in Seq(Ops(task)) /\ n \in Nat
      /\ states \in [1 .. n + 1 -> States(task)] /\ costs \in [1 .. n + 1 -> Nat]
      /\ states[1] = s /\ costs[1] = 0
      /\ \A i \in 1 .. n : /\ IsApplicable(task, ops[i], states[i])
                           /\ states[i + 1] = ReferenceSuccessor(task, ops[i], states[i])
                           /\ costs[i + 1] = costs[i] + w[ops[i]]
    BY <1>4 DEF IsPathOf
<1>6. x[1] = states[n + 1] /\ x[2] = costs[n + 1] /\ x[3] = n
    BY <1>4 DEF EndsIn
<1>7. x[2] \in Nat /\ x[3] \in Nat
    BY <1>3 DEF PathEnds
<1>8. ASSUME NEW i \in 1 .. n
      PROVE  /\ ops[i] \in Range(problem.kept[states[i]])
             /\ states[i + 1] = Representative(Successor(task, ops[i], states[i]))
             /\ costs[i + 1] = costs[i] + Cost(ops[i])
    <2>1. ops[i] \in Ops(task)
        BY <1>5, ElementOfSeq
    <2>2. states[i] \in States(task)
        <3>1. i \in 1 .. n + 1
            BY <1>5
        <3> QED
            BY <1>5, <3>1
    <2>3. ops[i] \in Range(problem.kept[states[i]])
        BY <1>5, <2>1, <2>2 DEF IsClassic, task
    <2> QED
        BY <1>1, <1>5, <2>1, <2>3
<1>9. ASSUME NEW i \in 1 .. n + 1, NEW h \in Evaluations(states[i])
      PROVE  costs[i] + h <= costs[n + 1]
    <2> PICK st : st = states[i]
        OBVIOUS
    <2>1. st \in States(task) /\ costs[i] \in Nat /\ costs[n + 1] \in Nat
        BY <1>5, <1>6, <1>7
    <2> PICK y : y = <<states[n + 1], costs[n + 1] - costs[i], n + 1 - i>>
        OBVIOUS
    <2>2. y \in PathEnds(task, w, st) /\ y[1] = x[1] /\ y[2] = costs[n + 1] - costs[i]
        <3>1. <<states[n + 1], costs[n + 1] - costs[i], n + 1 - i>> \in PathEnds(task, w, states[i])
            BY <1>1, <1>4, SuffixPath
        <3> QED
            BY <1>6, <3>1
    <2>3. PICK z \in PathCosts(task, w, st) : z[1] = y[1] /\ NotAbove(z, y)
        BY <1>1, <2>1, <2>2, PathCostsAreLeast
    <2>4. z \in GoalCosts(task, w, st)
        BY <1>2, <2>2, <2>3 DEF GoalCosts
    <2>5. z[2] \in Nat
        BY <1>1, <2>1, <2>3, PathCostsAreReal DEF PathEnds
    <2>6. h <= z[2]
        BY <2>1, <2>4 DEF IsClassic, IsAdmissible, Evaluations, task
    <2>7. h \in Nat
        BY <2>1, EstimateFacts
    <2> PICK a, b, c, e : a = costs[i] /\ b = costs[n + 1] /\ c = z[2] /\ e = h
        OBVIOUS
    <2>8. a \in Nat /\ b \in Nat /\ c \in Nat /\ e \in Nat /\ e <= c /\ (c < b - a \/ c = b - a)
        BY <2>1, <2>2, <2>3, <2>5, <2>6, <2>7 DEF NotAbove
    <2>9. a + e <= b
        BY <2>8, RestSums
    <2> QED
        BY <2>9
<1>10. ASSUME x[2] < problem.bound
       PROVE  IsSearchPath(ops, states, costs)
    BY <1>1, <1>2, <1>5, <1>6, <1>8, <1>9, <1>10 DEF IsSearchPath
<1> QED
    BY <1>6, <1>7, <1>10

(* The plan costs what the path of the goal node costs, or less, and the   *)
(* path of the goal node costs no more than any plan.                      *)
LEMMA SearchIsOptimal ==
    ASSUME IInv, GoalIsCheapest, PlanInv, IsClassic(problem)
    PROVE  FindsCheapestPlan
<1>1. problem \in Problems /\ IsPlain(problem) /\ problem.cost_type = "NORMAL"
      /\ problem.reopen_closed
    BY DEF IInv, TypeInv, IsClassic
<1> SUFFICES ASSUME NEW p \in plan
             PROVE  /\ IsPlan(p)
                    /\ IsOptimum(TotalCost(p), IF problem.shortest THEN Len(p) ELSE 0)
    BY DEF FindsCheapestPlan
<1>2. /\ IsPlan(p) /\ Len(p) \in Nat /\ TotalCost(p) \in Nat
      /\ \E id \in DOMAIN registry : IsPlanOf(p, id)
    BY <1>1 DEF PlanInv
<1>3. PICK id \in DOMAIN registry : IsPlanOf(p, id)
    BY <1>2
<1>4. /\ nodes[id].status = "CLOSED" /\ IsGoalState(task, registry[id])
      /\ IsWithin(TotalCost(p), Len(p), nodes[id])
      /\ (Len(p) = 0 /\ TotalCost(p) = 0) \/ nodes[id].real_g < problem.bound
    BY <1>3 DEF IsPlanOf
<1>5. /\ nodes[id].g \in Nat /\ nodes[id].d \in Nat /\ nodes[id].real_g = nodes[id].g
      /\ problem.bound \in Nat
    BY <1>1, <1>4, ProblemFacts DEF IInv, NodeInv, IsReached
<1> PICK cost, length, g, d : /\ cost = TotalCost(p) /\ length = Len(p)
                              /\ g = nodes[id].g /\ d = nodes[id].d
    OBVIOUS
<1>6. ASSUME NEW x \in GoalCosts(task, AdjustedCosts, task.init)
      PROVE  \/ cost < x[2]
             \/ cost = x[2] /\ (IF problem.shortest THEN length ELSE 0) <= x[3]
    <2> PICK c, n : c = x[2] /\ n = x[3]
        OBVIOUS
    <2>1. c \in Nat /\ n \in Nat
        BY <1>1, GoalPathIsSearchPath
    <2>2. /\ cost \in Nat /\ length \in Nat /\ g \in Nat /\ d \in Nat
          /\ cost < g \/ (cost = g /\ (problem.shortest => length <= d))
        BY <1>2, <1>4, <1>5 DEF IsWithin
    <2>3. CASE c < problem.bound
        <3>1. PICK ops, states, costs : /\ IsSearchPath(ops, states, costs)
                                        /\ costs[Len(ops) + 1] = c /\ Len(ops) = n
            BY <1>1, <2>3, GoalPathIsSearchPath
        <3>2. AtMost(nodes[id], c, n)
            BY <1>1, <1>4, <3>1 DEF GoalIsCheapest
        <3>3. g < c \/ (g = c /\ (problem.shortest => d <= n))
            BY <3>2 DEF AtMost
        <3>4. CASE problem.shortest
            <4>1. cost < c \/ (cost = c /\ length <= n)
                BY <2>1, <2>2, <3>3, <3>4
            <4> QED
                BY <3>4, <4>1
        <3>5. CASE ~problem.shortest
            <4>1. cost < c \/ (cost = c /\ 0 <= n)
                BY <2>1, <2>2, <3>3, <3>5
            <4> QED
                BY <3>5, <4>1
        <3> QED
            BY <3>4, <3>5
    <2>4. CASE ~(c < problem.bound)
        <3>1. (length = 0 /\ cost = 0) \/ g < problem.bound
            BY <1>4, <1>5
        <3>2. CASE length = 0 /\ cost = 0
            <4>1. cost = 0 /\ (IF problem.shortest THEN length ELSE 0) = 0
                BY <3>2
            <4>2. 0 < c \/ (0 = c /\ 0 <= n)
                BY <2>1
            <4> QED
                BY <4>1, <4>2
        <3>3. CASE g < problem.bound
            <4>1. cost < c
                BY <1>5, <2>1, <2>2, <2>4, <3>3
            <4> QED
                BY <4>1
        <3> QED
            BY <3>1, <3>2, <3>3
    <2> QED
        BY <2>3, <2>4
<1> QED
    BY <1>2, <1>6 DEF IsOptimum

(* The classic search is correct: whatever the admissible estimates, the   *)
(* first goal node that is closed gives a plan, a cheapest one and, for    *)
(* the shortest search, one of the shortest among these.                   *)
THEOREM ClassicSearchIsOptimal == Spec => [](IsClassic(problem) => FindsCheapestPlan)
<1>1. IInv /\ PlanInv /\ GoalIsCheapest => (IsClassic(problem) => FindsCheapestPlan)
    BY SearchIsOptimal
<1> QED
    BY <1>1, PlanInvariance, FindsCheapestGoal, PTL

(* It gives up only when no plan is below the bound.                       *)
THEOREM ClassicSearchIsComplete == Spec => [](IsClassic(problem) => GivesUpOnlyWithoutPlan)
<1>1. IInv /\ GivesUpOnlyWithoutPath => (IsClassic(problem) => GivesUpOnlyWithoutPlan)
    <2> SUFFICES ASSUME IInv, GivesUpOnlyWithoutPath, IsClassic(problem), status = "FAILED",
                        NEW x \in GoalCosts(task, AdjustedCosts, task.init)
                 PROVE  x[2] >= problem.bound
        BY DEF GivesUpOnlyWithoutPlan
    <2>1. problem \in Problems /\ problem.cost_type = "NORMAL" /\ problem.reopen_closed
        BY DEF IInv, TypeInv, IsClassic
    <2>2. ~(x[2] < problem.bound)
        BY <2>1, GoalPathIsSearchPath DEF GivesUpOnlyWithoutPath
    <2>3. x[2] \in Nat /\ problem.bound \in Nat
        BY <2>1, GoalPathIsSearchPath, ProblemFacts
    <2> QED
        BY <2>2, <2>3
<1> QED
    BY <1>1, Invariance, FailsOnlyWithoutPath, PTL
===============================================================================
