--------------------------- MODULE LandmarkCutProofs ---------------------------
(***************************************************************************)
(* For every task without axioms: the incremental exploration of LM-cut    *)
(* leaves h_max as a new exploration would compute it, every cut is one    *)
(* that each plan has to cross, and no plan is cheaper than all landmarks. *)
(***************************************************************************)
EXTENDS LandmarkCut, TaskLemmas

Reached == {p \in Propositions : h_max_cost[p] # UNREACHED}

TypeOK ==
    /\ task \in Tasks
    /\ phase \in {"FIRST", "LOOP", "INCREMENTAL", "DONE", "DEAD_END"}
    /\ h_max_cost \in [Propositions -> Nat \cup {UNREACHED}]
    /\ queue \in SUBSET Propositions
    /\ unsatisfied \in [RelaxedOperators -> Int]
    /\ supporter \in [RelaxedOperators -> Propositions \cup {NoSupporter}]
    /\ supporter_cost \in [RelaxedOperators -> Nat \cup {UNREACHED}]
    /\ pending \in SUBSET RelaxedOperators
    /\ cost \in [Groups -> Nat]
    /\ landmarks \in Seq([groups : SUBSET Groups, cost : Nat])

(* What the explorations have to do is waiting: nothing in between.        *)
PhaseInv ==
    /\ phase = "FIRST" => pending = {}
    /\ phase \in {"LOOP", "DONE", "DEAD_END"} => queue = {} /\ pending = {}
    /\ phase \in {"FIRST", "DEAD_END"} => landmarks = <<>>
    /\ phase \in {"LOOP", "INCREMENTAL", "DONE"} => artificial_goal \in Reached
    /\ phase = "DEAD_END" => artificial_goal \notin Reached

(* The state is reached for nothing, what is queued at some cost.          *)
ReachedInv ==
    /\ \A p \in StatePropositions : h_max_cost[p] = 0
    /\ queue \subseteq Reached

(* The first exploration: what has been taken from the queue is no         *)
(* costlier than what is in it, and an operator is reached with the last   *)
(* of its preconditions, a costliest one.                                  *)
Expanded == Reached \ queue

FirstInv ==
    phase = "FIRST" =>
        /\ \A p \in Expanded, q \in queue : h_max_cost[p] <= h_max_cost[q]
        /\ \A i \in RelaxedOperators :
            /\ unsatisfied[i] = Cardinality(i.pre \ Expanded)
            /\ IF i.pre \subseteq Expanded
               THEN /\ supporter[i] \in i.pre
                    /\ supporter_cost[i] = h_max_cost[supporter[i]]
               ELSE supporter[i] = NoSupporter

(* What an operator was reached for is at least what its preconditions     *)
(* cost, and its effects cost no more than that and the operator.  When it *)
(* has become less, that is still waiting.                                 *)
IsSupported(i) ==
    /\ supporter[i] \in i.pre
    /\ supporter_cost[i] # UNREACHED
    /\ \A q \in i.pre : h_max_cost[q] # UNREACHED /\ h_max_cost[q] <= supporter_cost[i]
    /\ \A e \in i.eff : /\ h_max_cost[e] # UNREACHED
                        /\ h_max_cost[e] <= supporter_cost[i] + cost[i.group]
    /\ \/ h_max_cost[supporter[i]] = supporter_cost[i]
       \/ supporter[i] \in queue
       \/ i \in pending

SupportInv ==
    \A i \in RelaxedOperators :
        /\ supporter[i] # NoSupporter => IsSupported(i)
        /\ i \in pending => supporter[i] # NoSupporter
        /\ phase # "FIRST" /\ i.pre \subseteq Reached => supporter[i] # NoSupporter

(* A set of propositions and costs of them that explain themselves: h_max  *)
(* reaches nothing else and at no lower cost.                              *)
Explains(R, d) ==
    /\ \A p \in StatePropositions : p \in R /\ d[p] = 0
    /\ \A i \in RelaxedOperators : i.pre \subseteq R =>
        \A e \in i.eff : e \in R /\ \E q \in i.pre : d[e] <= cost[i.group] + d[q]

SoundInv ==
    \A R \in SUBSET Propositions : \A d \in [Propositions -> Nat] :
        Explains(R, d) => \A p \in Reached : p \in R /\ d[p] <= h_max_cost[p]

(* Propositions that the state is within and the goal is not, and that no  *)
(* operator of another group leads out of.                                 *)
Separates(B, groups) ==
    /\ StatePropositions \subseteq B
    /\ artificial_goal \notin B
    /\ \A i \in RelaxedOperators : i.group \notin groups /\ i.pre \subseteq B => i.eff \subseteq B

CutInv ==
    \A k \in DOMAIN landmarks :
        /\ landmarks[k].cost # 0
        /\ landmarks[k].groups \subseteq Ops(task)
        /\ \E B \in SUBSET Propositions : Separates(B, landmarks[k].groups)

CostInv ==
    \A g \in Groups :
        /\ cost[g] <= BaseCost(g)
        /\ TotalCost(landmarks, LandmarksOf(g)) = BaseCost(g) - cost[g]
-------------------------------------------------------------------------------
(* Propositions are the facts and two more.                                *)
LEMMA PropositionParts ==
    ASSUME task \in Tasks
    PROVE  /\ IsTask(task) /\ task.layers = <<>>
           /\ IsFiniteSet(Propositions) /\ Cardinality(Propositions) \in Nat
           /\ NoSupporter \notin Propositions
           /\ StatePropositions \in SUBSET Propositions
           /\ artificial_precondition \in StatePropositions
           /\ artificial_goal \in Propositions
           /\ artificial_goal \notin StatePropositions
           /\ artificial_goal \notin Facts(task)
<1>1. IsTask(task) /\ task.layers = <<>>
    BY LandmarkCutAssumption
<1>2. /\ Vars(task) = 1 .. Len(task.domains) /\ Len(task.domains) \in Nat
      /\ task.init \in States(task)
    BY <1>1, TaskParts
<1>3. \A f \in Facts(task) : f[1] # 0
    <2> SUFFICES ASSUME NEW f \in Facts(task)
                 PROVE  f[1] # 0
        OBVIOUS
    <2>1. PICK v \in Vars(task) : \E d \in Nat : f = <<v, d>>
        BY <1>1, FactParts
    <2> QED
        BY <1>2, <2>1
<1>4. \A v \in Vars(task) : <<v, task.init[v]>> \in Facts(task) /\ v # 0
    BY <1>1, <1>2, StateParts, FactParts
<1>5. IsFiniteSet(Propositions)
    <2>1. IsFiniteSet(Facts(task))
        BY <1>1, FactsAreFinite
    <2>2. IsFiniteSet((Facts(task) \cup {artificial_precondition}) \cup {artificial_goal})
        BY <2>1, FS_AddElement
    <2>3. Propositions = (Facts(task) \cup {artificial_precondition}) \cup {artificial_goal}
        BY DEF Propositions
    <2> QED
        BY <2>2, <2>3
<1>6. Cardinality(Propositions) \in Nat
    BY <1>5, FS_CardinalityType
<1>7. artificial_goal \notin StatePropositions
    <2>1. artificial_goal # artificial_precondition
        BY DEF artificial_goal, artificial_precondition
    <2>2. \A v \in Vars(task) : artificial_goal # <<v, task.init[v]>>
        BY <1>4 DEF artificial_goal
    <2> QED
        BY <2>1, <2>2 DEF StatePropositions
<1>8. StatePropositions \in SUBSET Propositions /\ artificial_precondition \in StatePropositions
    BY <1>4 DEF StatePropositions, Propositions
<1>9. NoSupporter \notin Propositions /\ artificial_goal \notin Facts(task)
    BY <1>3 DEF NoSupporter, Propositions, artificial_goal, artificial_precondition
<1> QED
    BY <1>1, <1>5, <1>6, <1>7, <1>8, <1>9 DEF Propositions

(* Every relaxed operator has preconditions, which are propositions other  *)
(* than the artificial goal.                                               *)
LEMMA RelaxedParts ==
    ASSUME task \in Tasks, NEW i \in RelaxedOperators
    PROVE  /\ i.pre \in SUBSET Propositions /\ i.pre # {} /\ IsFiniteSet(i.pre)
           /\ artificial_goal \notin i.pre
           /\ i.eff \in SUBSET Propositions
           /\ i.group \in Groups
<1> DEFINE IsFine(pre, cond) == pre \subseteq Facts(task) /\ cond \subseteq Facts(task)
<1>1. /\ IsTask(task) /\ artificial_goal \notin Facts(task) /\ artificial_goal \in Propositions
      /\ artificial_goal # artificial_precondition
    BY PropositionParts
<1>2. Facts(task) \subseteq Propositions /\ artificial_precondition \in Propositions
    BY DEF Propositions
<1>3. PICK pre, cond, eff, group :
            /\ i = RelaxedOperator(pre, cond, eff, group)
            /\ IsFine(pre, cond) /\ eff \subseteq Propositions /\ group \in Groups
    <2>1. CASE i = GoalOperator
        <3>1. /\ IsFine(task.goal, {}) /\ {artificial_goal} \subseteq Propositions
              /\ Len(task.operators) + 1 \in Groups
            BY <1>1, TaskParts DEF Groups
        <3> HIDE DEF IsFine
        <3> QED
            BY <2>1, <3>1 DEF GoalOperator
    <2>2. CASE \E o \in Ops(task) : i \in RelaxedOperatorGroup(o)
        <3>1. PICK o \in Ops(task) : i \in RelaxedOperatorGroup(o)
            BY <2>2
        <3> DEFINE op == task.operators[o]
                   conditional == {e \in op.effects : e.cond # {}}
                   unconditional == {<<e.var, e.val>> : e \in op.effects \ conditional}
        <3>2. /\ op.pre \subseteq Facts(task) /\ o \in Groups
              /\ \A e \in op.effects : e.cond \subseteq Facts(task) /\ <<e.var, e.val>> \in Facts(task)
            <4>1. /\ op.pre \subseteq Facts(task)
                  /\ \A e \in op.effects : /\ e.cond \subseteq Facts(task) /\ e.var \in Vars(task)
                                           /\ e.val \in Nat /\ e.val < task.domains[e.var]
                BY <1>1, TaskParts
            <4>2. o \in Groups
                BY <1>1, TaskParts DEF Groups
            <4> HIDE DEF op
            <4> QED
                BY <1>1, <4>1, <4>2, FactParts
        <3>3. \/ i = RelaxedOperator(op.pre, {}, unconditional, o)
              \/ \E e \in conditional : i = RelaxedOperator(op.pre, e.cond, {<<e.var, e.val>>}, o)
            BY <3>1 DEF RelaxedOperatorGroup
        <3>4. unconditional \subseteq Propositions
            BY <1>2, <3>2
        <3>5. IsFine(op.pre, {}) /\ \A e \in conditional : IsFine(op.pre, e.cond) /\ {<<e.var, e.val>>} \subseteq Propositions
            BY <1>2, <3>2
        <3> HIDE DEF op, conditional, unconditional, IsFine
        <3> QED
            BY <3>2, <3>3, <3>4, <3>5
    <2> QED
        BY <2>1, <2>2 DEF RelaxedOperators
<1>4. /\ i.pre = IF pre \cup cond = {} THEN {artificial_precondition} ELSE pre \cup cond
      /\ i.eff = eff /\ i.group = group
    BY <1>3 DEF RelaxedOperator
<1>5. i.pre \in SUBSET Propositions /\ i.pre # {} /\ artificial_goal \notin i.pre
    BY <1>1, <1>2, <1>3, <1>4
<1>6. IsFiniteSet(i.pre)
    BY <1>5, PropositionParts, FS_Subset
<1> QED
    BY <1>3, <1>4, <1>5, <1>6

(* Every effect of an operator is that of a relaxed one that needs no more. *)
LEMMA EffectsAreRelaxed ==
    ASSUME task \in Tasks, NEW o \in Ops(task), NEW e \in task.operators[o].effects
    PROVE  \E i \in RelaxedOperators :
                /\ i.group = o
                /\ i.pre \subseteq task.operators[o].pre \cup e.cond \cup {artificial_precondition}
                /\ <<e.var, e.val>> \in i.eff
<1> DEFINE op == task.operators[o]
           conditional == {f \in op.effects : f.cond # {}}
           unconditional == {<<f.var, f.val>> : f \in op.effects \ conditional}
<1>1. CASE e.cond = {}
    <2> DEFINE i == RelaxedOperator(op.pre, {}, unconditional, o)
    <2>1. <<e.var, e.val>> \in unconditional
        BY <1>1
    <2>2. i \in RelaxedOperatorGroup(o)
        BY <2>1 DEF RelaxedOperatorGroup
    <2>3. i \in RelaxedOperators
        BY <2>2 DEF RelaxedOperators
    <2>4. i.group = o /\ <<e.var, e.val>> \in i.eff /\ i.pre \subseteq op.pre \cup {artificial_precondition}
        BY <2>1 DEF RelaxedOperator
    <2> HIDE DEF i
    <2> QED
        BY <2>3, <2>4
<1>2. CASE e.cond # {}
    <2> DEFINE i == RelaxedOperator(op.pre, e.cond, {<<e.var, e.val>>}, o)
    <2>1. i \in RelaxedOperatorGroup(o)
        BY <1>2 DEF RelaxedOperatorGroup
    <2>2. i \in RelaxedOperators
        BY <2>1 DEF RelaxedOperators
    <2>3. i.group = o /\ <<e.var, e.val>> \in i.eff
          /\ i.pre \subseteq op.pre \cup e.cond \cup {artificial_precondition}
        BY DEF RelaxedOperator
    <2> HIDE DEF i
    <2> QED
        BY <2>2, <2>3
<1> QED
    BY <1>1, <1>2

LEMMA GoalIsRelaxed ==
    \E i \in RelaxedOperators :
        /\ i.group = Len(task.operators) + 1
        /\ i.pre \subseteq task.goal \cup {artificial_precondition}
        /\ artificial_goal \in i.eff
<1>1. GoalOperator \in RelaxedOperators
    BY DEF RelaxedOperators
<1>2. /\ GoalOperator.group = Len(task.operators) + 1 /\ artificial_goal \in GoalOperator.eff
      /\ GoalOperator.pre \subseteq task.goal \cup {artificial_precondition}
    BY DEF GoalOperator, RelaxedOperator
<1> QED
    BY <1>1, <1>2
-------------------------------------------------------------------------------
LEMMA LeastParts ==
    ASSUME NEW S \in SUBSET Nat, S # {}
    PROVE  Least(S) \in S /\ \A n \in S : Least(S) <= n
<1>1. \E n \in S : \A m \in S : n <= m
    BY SmallestNumber
<1> QED
    BY <1>1 DEF Least

LEMMA HighestParts ==
    ASSUME NEW S \in SUBSET Nat, NEW n \in S, \A m \in S : m <= n
    PROVE  Highest(S) = n
<1>1. Highest(S) \in S /\ \A m \in S : m <= Highest(S)
    BY DEF Highest
<1>2. Highest(S) \in Nat /\ n \in Nat /\ n <= Highest(S) /\ Highest(S) <= n
    BY <1>1
<1> QED
    BY <1>2

(* No step changes the task or what is made of it.                         *)
LEMMA SameTask ==
    ASSUME task' = task
    PROVE  /\ Propositions' = Propositions /\ StatePropositions' = StatePropositions
           /\ RelaxedOperators' = RelaxedOperators /\ Groups' = Groups
           /\ \A g : BaseCost(g)' = BaseCost(g)
<1>1. \A o : RelaxedOperatorGroup(o)' = RelaxedOperatorGroup(o)
    BY DEF RelaxedOperatorGroup
<1>2. GoalOperator' = GoalOperator
    BY DEF GoalOperator
<1> QED
    BY <1>1, <1>2 DEF Propositions, StatePropositions, RelaxedOperators, Groups, BaseCost

(* What is offered less than it costs gets the least offer and is queued,  *)
(* and nothing else changes.                                               *)
LEMMA EnqueueParts ==
    ASSUME h_max_cost \in [Propositions -> Nat \cup {UNREACHED}],
           NEW others, NEW offers \in SUBSET (Propositions \X Nat), Enqueue(others, offers)
    PROVE  /\ h_max_cost' \in [Propositions -> Nat \cup {UNREACHED}]
           /\ \A p \in Propositions :
                \/ h_max_cost'[p] = h_max_cost[p] /\ (p \in queue' <=> p \in others)
                \/ /\ <<p, h_max_cost'[p]>> \in offers
                   /\ h_max_cost'[p] \in Nat
                   /\ h_max_cost[p] = UNREACHED \/ h_max_cost'[p] < h_max_cost[p]
                   /\ p \in queue'
           /\ \A x \in offers : h_max_cost'[x[1]] # UNREACHED /\ h_max_cost'[x[1]] <= x[2]
           /\ queue' \subseteq others \cup Propositions
<1> DEFINE Imp(p) == Improvements(offers, p)
<1>1. /\ h_max_cost' = [p \in Propositions |-> IF Imp(p) = {} THEN h_max_cost[p] ELSE Least(Imp(p))]
      /\ queue' = others \cup {p \in Propositions : Imp(p) # {}}
    BY DEF Enqueue
<1>2. \A p, c : c \in Imp(p) <=> /\ \E y \in offers : y[1] = p /\ y[2] = c
                                 /\ h_max_cost[p] = UNREACHED \/ c < h_max_cost[p]
    BY DEF Improvements
<1>3. \A y \in offers : y[1] \in Propositions /\ y[2] \in Nat /\ y = <<y[1], y[2]>>
    OBVIOUS
<1>4. ASSUME NEW p \in Propositions
      PROVE  IF Imp(p) = {} THEN h_max_cost'[p] = h_max_cost[p] /\ (p \in queue' <=> p \in others)
             ELSE /\ h_max_cost'[p] \in Imp(p) /\ p \in queue'
                  /\ \A c \in Imp(p) : h_max_cost'[p] <= c
    <2>1. Imp(p) \in SUBSET Nat
        <3> HIDE DEF Imp
        <3> QED
            BY <1>2, <1>3
    <2>2. Imp(p) # {} => Least(Imp(p)) \in Imp(p) /\ \A c \in Imp(p) : Least(Imp(p)) <= c
        <3> HIDE DEF Imp
        <3> QED
            BY <2>1, LeastParts
    <2> HIDE DEF Imp
    <2> QED
        BY <1>1, <2>2
<1> HIDE DEF Imp
<1>5. ASSUME NEW p \in Propositions, Imp(p) # {}
      PROVE  /\ <<p, h_max_cost'[p]>> \in offers
             /\ h_max_cost'[p] \in Nat
             /\ h_max_cost[p] = UNREACHED \/ h_max_cost'[p] < h_max_cost[p]
    BY <1>2, <1>3, <1>4, <1>5
<1>6. h_max_cost' \in [Propositions -> Nat \cup {UNREACHED}]
    BY <1>1, <1>4, <1>5
<1>7. ASSUME NEW x \in offers
      PROVE  h_max_cost'[x[1]] # UNREACHED /\ h_max_cost'[x[1]] <= x[2]
    <2>1. CASE x[2] \in Imp(x[1])
        <3>1. x[1] \in Propositions /\ Imp(x[1]) # {}
            BY <1>3, <2>1
        <3>2. h_max_cost'[x[1]] \in Nat /\ h_max_cost'[x[1]] <= x[2]
            BY <1>4, <1>5, <2>1, <3>1
        <3> QED
            BY <3>2 DEF UNREACHED
    <2>2. CASE x[2] \notin Imp(x[1])
        <3>1. /\ x[1] \in Propositions /\ x[2] \in Nat
              /\ h_max_cost[x[1]] \in Nat \cup {UNREACHED}
              /\ h_max_cost[x[1]] # UNREACHED /\ ~(x[2] < h_max_cost[x[1]])
            BY <1>2, <1>3, <2>2
        <3>2. h_max_cost[x[1]] \in Nat /\ h_max_cost[x[1]] <= x[2]
            BY <3>1
        <3>3. CASE Imp(x[1]) = {}
            BY <1>4, <3>1, <3>2, <3>3
        <3>4. CASE Imp(x[1]) # {}
            <4>1. h_max_cost'[x[1]] \in Nat /\ h_max_cost'[x[1]] < h_max_cost[x[1]]
                BY <1>5, <3>1, <3>4
            <4> QED
                BY <3>1, <3>2, <4>1 DEF UNREACHED
        <3> QED
            BY <3>3, <3>4
    <2> QED
        BY <2>1, <2>2
<1>8. ASSUME NEW p \in Propositions
      PROVE  \/ h_max_cost'[p] = h_max_cost[p] /\ (p \in queue' <=> p \in others)
             \/ /\ <<p, h_max_cost'[p]>> \in offers
                /\ h_max_cost'[p] \in Nat
                /\ h_max_cost[p] = UNREACHED \/ h_max_cost'[p] < h_max_cost[p]
                /\ p \in queue'
    BY <1>4, <1>5
<1> QED
    BY <1>1, <1>6, <1>7, <1>8
-------------------------------------------------------------------------------
(* The invariant, and what its parts say of a single proposition or        *)
(* relaxed operator.                                                       *)
ExploreInv ==
    TypeOK /\ PhaseInv /\ ReachedInv /\ FirstInv /\ SupportInv /\ SoundInv

LEMMA InitExploreInv == Init => ExploreInv
<1> SUFFICES ASSUME Init
             PROVE  ExploreInv
    OBVIOUS
<1>1. task \in Tasks
    BY DEF Init
<1> USE PropositionParts, RelaxedParts, <1>1
<1>2. TypeOK
    <2>1. unsatisfied \in [RelaxedOperators -> Int]
        <3>1. \A i \in RelaxedOperators : Cardinality(i.pre) \in Nat
            BY FS_CardinalityType
        <3> QED
            BY <3>1 DEF Init
    <2>2. cost \in [Groups -> Nat]
        <3>1. \A g \in Groups : BaseCost(g) \in Nat
            BY TaskParts DEF BaseCost
        <3> QED
            BY <3>1 DEF Init
    <2>3. landmarks \in Seq([groups : SUBSET Groups, cost : Nat])
        BY DEF Init
    <2> QED
        BY <2>1, <2>2, <2>3 DEF Init, TypeOK
<1>3. Reached = StatePropositions /\ queue = StatePropositions
    BY DEF Init, Reached, UNREACHED
<1>4. PhaseInv
    BY DEF Init, PhaseInv
<1>5. ReachedInv
    BY <1>3 DEF Init, ReachedInv
<1>6. Expanded = {}
    BY <1>3 DEF Expanded
<1>7. FirstInv
    <2>1. \A i \in RelaxedOperators : i.pre \ Expanded = i.pre /\ ~(i.pre \subseteq Expanded)
        BY <1>6
    <2> QED
        BY <1>6, <2>1 DEF Init, FirstInv
<1>8. SupportInv
    BY DEF Init, SupportInv
<1>9. SoundInv
    <2> SUFFICES ASSUME NEW R \in SUBSET Propositions, NEW d \in [Propositions -> Nat],
                        Explains(R, d), NEW p \in Reached
                 PROVE  p \in R /\ d[p] <= h_max_cost[p]
        BY DEF SoundInv
    <2>1. p \in R /\ d[p] = 0 /\ h_max_cost[p] = 0
        BY <1>3 DEF Explains, Init
    <2> QED
        BY <2>1
<1> QED
    BY <1>2, <1>4, <1>5, <1>7, <1>8, <1>9 DEF ExploreInv
-------------------------------------------------------------------------------
(* Offers at what explains them are sound, with the costs of before or     *)
(* with lower ones.                                                        *)
IsExplained(x) ==
    \E i \in RelaxedOperators : \E c \in Nat :
        /\ x[1] \in i.eff
        /\ \A q \in i.pre : h_max_cost[q] # UNREACHED /\ h_max_cost[q] <= c
        /\ x[2] = c + cost'[i.group]

LEMMA EnqueueKeepsSound ==
    ASSUME TypeOK, SoundInv, task' = task,
           cost' \in [Groups -> Nat], \A g \in Groups : cost'[g] <= cost[g],
           NEW others, NEW offers \in SUBSET (Propositions \X Nat), Enqueue(others, offers),
           \A x \in offers : IsExplained(x)
    PROVE  SoundInv'
<1> USE SameTask, PropositionParts, RelaxedParts
<1>1. task \in Tasks /\ cost \in [Groups -> Nat] /\ h_max_cost \in [Propositions -> Nat \cup {UNREACHED}]
    BY DEF TypeOK
<1> SUFFICES ASSUME NEW R \in SUBSET Propositions, NEW d \in [Propositions -> Nat],
                    Explains(R, d)', NEW p \in Reached'
             PROVE  p \in R /\ d[p] <= h_max_cost'[p]
    BY DEF SoundInv
<1>2. /\ \A q \in StatePropositions : q \in R /\ d[q] = 0
      /\ \A i \in RelaxedOperators : i.pre \subseteq R =>
            \A e \in i.eff : e \in R /\ \E q \in i.pre : d[e] <= cost'[i.group] + d[q]
    BY DEF Explains
<1>3. Explains(R, d)
    <2> SUFFICES ASSUME NEW i \in RelaxedOperators, i.pre \subseteq R, NEW e \in i.eff
                 PROVE  e \in R /\ \E q \in i.pre : d[e] <= cost[i.group] + d[q]
        BY <1>2 DEF Explains
    <2>1. e \in R /\ e \in Propositions
        BY <1>1, <1>2
    <2>2. PICK q \in i.pre : d[e] <= cost'[i.group] + d[q]
        BY <1>2
    <2>3. q \in Propositions /\ i.group \in Groups
        BY <1>1
    <2>4. /\ d[e] \in Nat /\ d[q] \in Nat /\ cost[i.group] \in Nat /\ cost'[i.group] \in Nat
          /\ cost'[i.group] <= cost[i.group]
        BY <1>1, <2>1, <2>3
    <2>5. d[e] <= cost[i.group] + d[q]
        BY <2>2, <2>4
    <2> QED
        BY <2>1, <2>5
<1>4. \A q \in Reached : q \in R /\ d[q] <= h_max_cost[q]
    BY <1>3 DEF SoundInv
<1>5. p \in Propositions /\ h_max_cost'[p] # UNREACHED
    BY DEF Reached
<1>6. CASE h_max_cost'[p] = h_max_cost[p]
    BY <1>4, <1>5, <1>6 DEF Reached
<1>7. CASE h_max_cost'[p] # h_max_cost[p]
    <2> DEFINE x == <<p, h_max_cost'[p]>>
    <2>1. x \in offers
        BY <1>1, <1>5, <1>7, EnqueueParts
    <2>2. PICK i \in RelaxedOperators : \E c \in Nat :
                /\ p \in i.eff
                /\ \A q \in i.pre : h_max_cost[q] # UNREACHED /\ h_max_cost[q] <= c
                /\ h_max_cost'[p] = c + cost'[i.group]
        BY <2>1 DEF IsExplained
    <2>3. PICK c \in Nat :
                /\ p \in i.eff
                /\ \A q \in i.pre : h_max_cost[q] # UNREACHED /\ h_max_cost[q] <= c
                /\ h_max_cost'[p] = c + cost'[i.group]
        BY <2>2
    <2>4. i.pre \subseteq Propositions /\ i.group \in Groups
        BY <1>1
    <2>5. \A q \in i.pre : q \in R /\ d[q] <= h_max_cost[q] /\ h_max_cost[q] \in Nat
        BY <1>1, <1>4, <2>3, <2>4 DEF Reached
    <2>6. p \in R /\ \E q \in i.pre : d[p] <= cost'[i.group] + d[q]
        BY <1>2, <2>3, <2>5
    <2>7. PICK q \in i.pre : d[p] <= cost'[i.group] + d[q]
        BY <2>6
    <2>8. /\ d[p] \in Nat /\ d[q] \in Nat /\ cost'[i.group] \in Nat /\ h_max_cost[q] \in Nat
          /\ d[q] <= h_max_cost[q] /\ h_max_cost[q] <= c
        BY <1>5, <2>3, <2>4, <2>5
    <2>9. d[p] <= c + cost'[i.group]
        BY <2>7, <2>8
    <2> QED
        BY <2>3, <2>6, <2>9
<1> QED
    BY <1>6, <1>7

(* The relaxed operators are those that were made at the start.            *)
LEMMA RelaxedIsRelaxedOperators == ASSUME TypeOK PROVE Relaxed = RelaxedOperators
BY DEF TypeOK, Relaxed

LEMMA PopFirstKeepsExploreInv ==
    ASSUME ExploreInv, NEW p \in queue, PopFirst(p)
    PROVE  ExploreInv'
<1> DEFINE New == {i \in RelaxedOperators : p \in i.pre /\ unsatisfied[i] = 1}
           offers == UNION {i.eff \X {h_max_cost[p] + cost[i.group]} : i \in New}
           others == queue \ {p}
<1>1. TypeOK /\ PhaseInv /\ ReachedInv /\ FirstInv /\ SupportInv /\ SoundInv
    BY DEF ExploreInv
<1>2. /\ phase = "FIRST" /\ IsCheapest(p) /\ Enqueue(others, offers)
      /\ unsatisfied' = [i \in RelaxedOperators |-> IF p \in i.pre THEN unsatisfied[i] - 1
                                                    ELSE unsatisfied[i]]
      /\ supporter' = [i \in RelaxedOperators |-> IF i \in New THEN p ELSE supporter[i]]
      /\ supporter_cost' = [i \in RelaxedOperators |-> IF i \in New THEN h_max_cost[p]
                                                       ELSE supporter_cost[i]]
      /\ UNCHANGED <<task, phase, pending, cost, landmarks>>
    BY <1>1, RelaxedIsRelaxedOperators DEF PopFirst
<1>3. /\ task \in Tasks /\ cost \in [Groups -> Nat]
      /\ h_max_cost \in [Propositions -> Nat \cup {UNREACHED}]
      /\ unsatisfied \in [RelaxedOperators -> Int]
      /\ supporter \in [RelaxedOperators -> Propositions \cup {NoSupporter}]
      /\ supporter_cost \in [RelaxedOperators -> Nat \cup {UNREACHED}]
      /\ queue \in SUBSET Propositions /\ queue \subseteq Reached
    BY <1>1 DEF TypeOK, ReachedInv
<1>4. p \in Propositions /\ h_max_cost[p] \in Nat /\ p \notin Expanded /\ p \in Reached
    BY <1>3 DEF Reached, Expanded
<1>5. \A i \in RelaxedOperators :
        /\ i.pre \in SUBSET Propositions /\ i.pre # {} /\ IsFiniteSet(i.pre)
        /\ i.eff \in SUBSET Propositions /\ i.group \in Groups
    BY <1>3, RelaxedParts
<1>6. Expanded \subseteq Propositions
      /\ \A q \in Expanded : h_max_cost[q] \in Nat /\ h_max_cost[q] <= h_max_cost[p] /\ q \notin queue
    BY <1>1, <1>2, <1>3 DEF FirstInv, Expanded, Reached
<1>7. ASSUME NEW i \in RelaxedOperators
      PROVE  /\ i \in New <=> p \in i.pre /\ i.pre \ Expanded = {p}
             /\ p \in i.pre => unsatisfied[i] - 1 = Cardinality(i.pre \ (Expanded \cup {p}))
             /\ p \notin i.pre => unsatisfied[i] = Cardinality(i.pre \ (Expanded \cup {p}))
    <2> DEFINE left == i.pre \ Expanded
    <2>1. IsFiniteSet(left) /\ unsatisfied[i] = Cardinality(left) /\ Cardinality(left) \in Nat
        <3>1. IsFiniteSet(left)
            BY <1>5, FS_Subset
        <3>2. unsatisfied[i] = Cardinality(left)
            BY <1>1, <1>2 DEF FirstInv
        <3> HIDE DEF left
        <3> QED
            BY <3>1, <3>2, FS_CardinalityType
    <2>2. Cardinality(left) = 1 <=> \E x : left = {x}
        <3> HIDE DEF left
        <3> QED
            BY <2>1, FS_Singleton
    <2>3. Cardinality(left \ {p}) = IF p \in left THEN Cardinality(left) - 1 ELSE Cardinality(left)
        <3> HIDE DEF left
        <3> QED
            BY <2>1, FS_RemoveElement
    <2>4. p \in left <=> p \in i.pre
        BY <1>4
    <2>5. i.pre \ (Expanded \cup {p}) = left \ {p}
        OBVIOUS
    <2>6. i \in New <=> p \in i.pre /\ left = {p}
        BY <2>1, <2>2, <2>4
    <2> HIDE DEF left, New
    <2> QED
        BY <2>1, <2>3, <2>4, <2>5, <2>6 DEF left
<1>8. ASSUME NEW i \in New
      PROVE  /\ i \in RelaxedOperators /\ p \in i.pre
             /\ \A q \in i.pre : h_max_cost[q] # UNREACHED /\ h_max_cost[q] <= h_max_cost[p]
    <2>1. i \in RelaxedOperators /\ p \in i.pre /\ i.pre \ Expanded = {p}
        BY <1>7
    <2>2. \A q \in i.pre : q = p \/ q \in Expanded
        BY <2>1
    <2> HIDE DEF New
    <2> QED
        BY <1>4, <1>6, <2>1, <2>2 DEF UNREACHED
<1>9. ASSUME NEW x \in offers
      PROVE  \E i \in New : x[1] \in i.eff /\ x[2] = h_max_cost[p] + cost[i.group] /\ x = <<x[1], x[2]>>
    OBVIOUS
<1>10. ASSUME NEW x \in offers
       PROVE  /\ x \in Propositions \X Nat
              /\ h_max_cost[p] <= x[2]
              /\ IsExplained(x)
    <2> HIDE DEF offers
    <2>1. PICK i \in New : x[1] \in i.eff /\ x[2] = h_max_cost[p] + cost[i.group] /\ x = <<x[1], x[2]>>
        BY <1>9
    <2>2. i \in RelaxedOperators /\ x[1] \in Propositions /\ cost[i.group] \in Nat
        BY <1>3, <1>5, <1>8, <2>1
    <2>3. x[2] \in Nat /\ h_max_cost[p] <= x[2]
        BY <1>4, <2>1, <2>2
    <2>4. cost' = cost
        BY <1>2
    <2>5. IsExplained(x)
        <3> HIDE DEF New
        <3> QED
            BY <1>4, <1>8, <2>1, <2>2, <2>4 DEF IsExplained
    <2>6. x \in Propositions \X Nat
        BY <2>1, <2>2, <2>3
    <2> QED
        BY <2>3, <2>5, <2>6
<1> HIDE DEF New, offers
<1>11. offers \in SUBSET (Propositions \X Nat)
    BY <1>10
<1>12. /\ h_max_cost' \in [Propositions -> Nat \cup {UNREACHED}]
       /\ \A q \in Propositions :
            \/ h_max_cost'[q] = h_max_cost[q] /\ (q \in queue' <=> q \in others)
            \/ /\ <<q, h_max_cost'[q]>> \in offers
               /\ h_max_cost'[q] \in Nat
               /\ h_max_cost[q] = UNREACHED \/ h_max_cost'[q] < h_max_cost[q]
               /\ q \in queue'
       /\ \A x \in offers : h_max_cost'[x[1]] # UNREACHED /\ h_max_cost'[x[1]] <= x[2]
       /\ queue' \subseteq others \cup Propositions
    <2> HIDE DEF others
    <2> QED
        BY <1>2, <1>3, <1>11, EnqueueParts
<1>13. /\ Propositions' = Propositions /\ StatePropositions' = StatePropositions
       /\ RelaxedOperators' = RelaxedOperators /\ Groups' = Groups
    BY <1>2, SameTask
<1>14. ASSUME NEW q \in Propositions, h_max_cost'[q] # h_max_cost[q]
       PROVE  /\ q \in queue' /\ h_max_cost'[q] \in Nat /\ h_max_cost[p] <= h_max_cost'[q]
              /\ h_max_cost[q] = UNREACHED \/ h_max_cost'[q] < h_max_cost[q]
    BY <1>10, <1>12, <1>14
<1>15. ASSUME NEW q \in Propositions, q \in Expanded \/ q = p
       PROVE  h_max_cost'[q] = h_max_cost[q] /\ q \notin queue'
    <2>1. h_max_cost[q] \in Nat /\ h_max_cost[q] <= h_max_cost[p] /\ q \notin others
        BY <1>4, <1>6, <1>15
    <2>2. ~(<<q, h_max_cost'[q]>> \in offers /\ h_max_cost'[q] \in Nat /\ h_max_cost'[q] < h_max_cost[q])
        BY <1>4, <1>10, <2>1
    <2> HIDE DEF others
    <2> QED
        BY <1>12, <2>1, <2>2 DEF UNREACHED
<1>16. Expanded' = Expanded \cup {p}
    <2>1. ASSUME NEW q \in Propositions
          PROVE  q \in Expanded' <=> q \in Expanded \/ q = p
        <3>1. CASE h_max_cost'[q] = h_max_cost[q]
            BY <1>4, <1>12, <1>13, <1>15, <3>1 DEF Expanded, Reached
        <3>2. CASE h_max_cost'[q] # h_max_cost[q]
            BY <1>14, <1>15, <3>2 DEF Expanded, Reached
        <3> QED
            BY <3>1, <3>2
    <2>2. Expanded' \subseteq Propositions
        BY <1>13 DEF Expanded, Reached
    <2> QED
        BY <1>4, <1>6, <2>1, <2>2
<1>17. queue' \in SUBSET Propositions
    BY <1>3, <1>12
<1>18. ASSUME NEW q \in queue'
       PROVE  h_max_cost'[q] \in Nat /\ h_max_cost[p] <= h_max_cost'[q]
    <2>1. CASE h_max_cost'[q] = h_max_cost[q]
        <3>1. /\ q \in Propositions
              /\ q \in queue \/ (h_max_cost'[q] \in Nat /\ <<q, h_max_cost'[q]>> \in offers)
            BY <1>12, <1>17 DEF others
        <3>2. CASE q \in queue
            <4>1. h_max_cost[p] <= h_max_cost[q]
                BY <1>2, <3>2 DEF IsCheapest
            <4>2. h_max_cost[q] \in Nat
                BY <1>3, <3>1, <3>2 DEF Reached
            <4> QED
                BY <2>1, <4>1, <4>2
        <3>3. CASE q \notin queue
            BY <1>10, <3>1, <3>3
        <3> QED
            BY <3>2, <3>3
    <2>2. CASE h_max_cost'[q] # h_max_cost[q]
        BY <1>14, <1>17, <2>2
    <2> QED
        BY <2>1, <2>2
<1> HIDE DEF others
<1>19. \A q \in Propositions : q \in Reached => q \in Reached'
    BY <1>12, <1>13 DEF Reached, UNREACHED
<1>20. TypeOK'
    <2>1. unsatisfied' \in [RelaxedOperators -> Int]
        BY <1>2, <1>3
    <2>2. supporter' \in [RelaxedOperators -> Propositions \cup {NoSupporter}]
        BY <1>2, <1>3, <1>4
    <2>3. supporter_cost' \in [RelaxedOperators -> Nat \cup {UNREACHED}]
        BY <1>2, <1>3, <1>4
    <2> QED
        BY <1>1, <1>2, <1>12, <1>13, <1>17, <2>1, <2>2, <2>3 DEF TypeOK
<1>21. PhaseInv'
    BY <1>1, <1>2 DEF PhaseInv
<1>22. ReachedInv'
    <2>1. ASSUME NEW q \in StatePropositions
          PROVE  h_max_cost'[q] = 0
        <3>1. q \in Propositions /\ h_max_cost[q] = 0
            BY <1>1, <1>3, PropositionParts DEF ReachedInv
        <3> QED
            <4>1. ~(h_max_cost'[q] \in Nat /\ (h_max_cost[q] = UNREACHED \/ h_max_cost'[q] < h_max_cost[q]))
                BY <3>1 DEF UNREACHED
            <4> QED
                BY <1>12, <3>1, <4>1
    <2>2. queue' \subseteq Reached'
        BY <1>13, <1>17, <1>18 DEF Reached, UNREACHED
    <2> QED
        BY <1>13, <2>1, <2>2 DEF ReachedInv
<1>23. ASSUME NEW i \in RelaxedOperators
       PROVE  /\ unsatisfied'[i] = Cardinality(i.pre \ Expanded')
              /\ IF i.pre \subseteq Expanded'
                 THEN /\ supporter'[i] \in i.pre
                      /\ supporter_cost'[i] = h_max_cost'[supporter'[i]]
                 ELSE supporter'[i] = NoSupporter
    <2>1. unsatisfied'[i] = Cardinality(i.pre \ Expanded')
        <3>1. unsatisfied'[i] = IF p \in i.pre THEN unsatisfied[i] - 1 ELSE unsatisfied[i]
            BY <1>2
        <3> QED
            BY <1>7, <1>16, <3>1
    <2>2. CASE i \in New
        <3>1. i.pre \subseteq Expanded' /\ p \in i.pre
            BY <1>7, <1>16, <2>2
        <3>2. supporter'[i] = p /\ supporter_cost'[i] = h_max_cost[p]
            BY <1>2, <2>2
        <3> QED
            BY <1>4, <1>15, <2>1, <3>1, <3>2
    <2>3. CASE i \notin New
        <3>1. supporter'[i] = supporter[i] /\ supporter_cost'[i] = supporter_cost[i]
            BY <1>2, <2>3
        <3>2. i.pre \subseteq Expanded' <=> i.pre \subseteq Expanded
            <4>1. ~(p \in i.pre /\ i.pre \ Expanded = {p})
                BY <1>7, <2>3
            <4> QED
                BY <1>16, <4>1
        <3>3. IF i.pre \subseteq Expanded
              THEN supporter[i] \in i.pre /\ supporter_cost[i] = h_max_cost[supporter[i]]
              ELSE supporter[i] = NoSupporter
            BY <1>1, <1>2 DEF FirstInv
        <3>4. CASE i.pre \subseteq Expanded
            BY <1>6, <1>15, <2>1, <3>1, <3>2, <3>3, <3>4
        <3>5. CASE ~(i.pre \subseteq Expanded)
            BY <2>1, <3>1, <3>2, <3>3, <3>5
        <3> QED
            BY <3>4, <3>5
    <2> QED
        BY <2>2, <2>3
<1>24. FirstInv'
    <2>1. \A q \in Expanded', r \in queue' : h_max_cost'[q] <= h_max_cost'[r]
        <3> SUFFICES ASSUME NEW q \in Expanded', NEW r \in queue'
                     PROVE  h_max_cost'[q] <= h_max_cost'[r]
            OBVIOUS
        <3>1. h_max_cost'[q] \in Nat /\ h_max_cost'[q] <= h_max_cost[p]
            BY <1>4, <1>6, <1>15, <1>16
        <3>2. h_max_cost'[r] \in Nat /\ h_max_cost[p] <= h_max_cost'[r]
            BY <1>18
        <3> QED
            BY <1>4, <3>1, <3>2
    <2> QED
        BY <1>13, <1>23, <2>1 DEF FirstInv
<1>25. ASSUME NEW i \in RelaxedOperators, supporter'[i] # NoSupporter
       PROVE  IsSupported(i)'
    <2>1. i.pre \subseteq Expanded'
        BY <1>23, <1>25
    <2>2. /\ supporter'[i] \in i.pre
          /\ supporter_cost'[i] = h_max_cost'[supporter'[i]]
        BY <1>23, <2>1
    <2>3. \A q \in i.pre : q \in Propositions /\ h_max_cost'[q] = h_max_cost[q] /\ h_max_cost[q] \in Nat
        BY <1>4, <1>6, <1>15, <1>16, <2>1
    <2>4. CASE i \in New
        <3>1. supporter'[i] = p /\ supporter_cost'[i] = h_max_cost[p]
            BY <1>2, <2>4
        <3>2. \A q \in i.pre : h_max_cost'[q] # UNREACHED /\ h_max_cost'[q] <= h_max_cost[p]
            BY <1>8, <2>3, <2>4
        <3>3. ASSUME NEW e \in i.eff
              PROVE  h_max_cost'[e] # UNREACHED /\ h_max_cost'[e] <= h_max_cost[p] + cost[i.group]
            <4>1. <<e, h_max_cost[p] + cost[i.group]>> \in offers
                BY <2>4 DEF offers
            <4> QED
                BY <1>12, <4>1
        <3>4. h_max_cost[p] # UNREACHED
            BY <1>4 DEF UNREACHED
        <3> QED
            BY <1>2, <2>2, <3>1, <3>2, <3>3, <3>4 DEF IsSupported
    <2>5. CASE i \notin New
        <3>1. supporter'[i] = supporter[i] /\ supporter_cost'[i] = supporter_cost[i]
            BY <1>2, <2>5
        <3>2. IsSupported(i)
            BY <1>1, <1>25, <3>1 DEF SupportInv
        <3>3. ASSUME NEW e \in i.eff
              PROVE  h_max_cost'[e] # UNREACHED /\ h_max_cost'[e] <= supporter_cost[i] + cost[i.group]
            <4>1. /\ h_max_cost[e] # UNREACHED /\ h_max_cost[e] <= supporter_cost[i] + cost[i.group]
                  /\ e \in Propositions /\ supporter_cost[i] # UNREACHED
                BY <1>5, <3>2 DEF IsSupported
            <4>2. h_max_cost[e] \in Nat /\ supporter_cost[i] \in Nat /\ cost[i.group] \in Nat
                BY <1>3, <1>5, <4>1
            <4>3. h_max_cost'[e] = h_max_cost[e] \/ (h_max_cost'[e] \in Nat /\ h_max_cost'[e] < h_max_cost[e])
                BY <1>14, <4>1
            <4> QED
                BY <4>1, <4>2, <4>3 DEF UNREACHED
        <3>4. \A q \in i.pre : h_max_cost'[q] # UNREACHED /\ h_max_cost'[q] <= supporter_cost[i]
            BY <2>3, <3>2 DEF IsSupported
        <3> QED
            BY <1>2, <2>2, <3>1, <3>2, <3>3, <3>4 DEF IsSupported
    <2> QED
        BY <2>4, <2>5
<1>26. SupportInv'
    <2>1. pending' = {}
        BY <1>1, <1>2 DEF PhaseInv
    <2> QED
        BY <1>2, <1>13, <1>25, <2>1 DEF SupportInv
<1>27. SoundInv'
    <2>1. cost' \in [Groups -> Nat] /\ \A g \in Groups : cost'[g] <= cost[g]
        BY <1>2, <1>3
    <2> QED
        BY <1>1, <1>2, <1>10, <1>11, <2>1, EnqueueKeepsSound
<1> QED
    BY <1>20, <1>21, <1>22, <1>24, <1>26, <1>27 DEF ExploreInv
-------------------------------------------------------------------------------
LEMMA SoundUnchanged ==
    ASSUME SoundInv, UNCHANGED <<task, h_max_cost, cost>>
    PROVE  SoundInv'
<1>1. /\ Propositions' = Propositions /\ StatePropositions' = StatePropositions
      /\ RelaxedOperators' = RelaxedOperators /\ Reached' = Reached
    BY SameTask DEF Reached
<1>2. \A R, d : Explains(R, d)' <=> Explains(R, d)
    BY <1>1 DEF Explains
<1> QED
    BY <1>1, <1>2 DEF SoundInv

LEMMA EndFirstKeepsExploreInv ==
    ASSUME ExploreInv, EndFirst
    PROVE  ExploreInv'
<1>1. TypeOK /\ PhaseInv /\ ReachedInv /\ FirstInv /\ SupportInv /\ SoundInv
    BY DEF ExploreInv
<1>2. /\ phase = "FIRST" /\ queue = {}
      /\ phase' = IF h_max_cost[artificial_goal] = UNREACHED THEN "DEAD_END" ELSE "LOOP"
      /\ UNCHANGED <<task, h_max_cost, queue, unsatisfied, supporter, supporter_cost, pending,
                     cost, landmarks>>
    BY DEF EndFirst
<1>3. /\ Propositions' = Propositions /\ StatePropositions' = StatePropositions
      /\ RelaxedOperators' = RelaxedOperators /\ Groups' = Groups /\ Reached' = Reached
    BY <1>2, SameTask DEF Reached
<1>4. Expanded = Reached
    BY <1>2 DEF Expanded
<1>5. phase' \in {"DEAD_END", "LOOP"}
    BY <1>2
<1>6. TypeOK'
    BY <1>1, <1>2, <1>3, <1>5 DEF TypeOK
<1>7. PhaseInv'
    <2>1. artificial_goal \in Propositions
        BY <1>1, PropositionParts DEF TypeOK
    <2>2. artificial_goal \in Reached <=> h_max_cost[artificial_goal] # UNREACHED
        BY <2>1 DEF Reached
    <2> QED
        BY <1>1, <1>2, <1>3, <2>2 DEF PhaseInv
<1>8. ReachedInv'
    BY <1>1, <1>2, <1>3 DEF ReachedInv
<1>9. FirstInv'
    BY <1>5 DEF FirstInv
<1>10. SupportInv'
    <2> SUFFICES ASSUME NEW i \in RelaxedOperators
                 PROVE  /\ supporter[i] # NoSupporter => IsSupported(i)'
                        /\ i \in pending => supporter[i] # NoSupporter
                        /\ i.pre \subseteq Reached => supporter[i] # NoSupporter
        BY <1>2, <1>3 DEF SupportInv
    <2>1. i.pre \subseteq Reached => supporter[i] \in i.pre
        BY <1>1, <1>2, <1>4 DEF FirstInv
    <2>2. i.pre \subseteq Propositions /\ NoSupporter \notin Propositions
        BY <1>1, RelaxedParts, PropositionParts DEF TypeOK
    <2>3. IsSupported(i)' <=> IsSupported(i)
        BY <1>2 DEF IsSupported
    <2> QED
        BY <1>1, <2>1, <2>2, <2>3 DEF SupportInv
<1>11. SoundInv'
    BY <1>1, <1>2, SoundUnchanged
<1> QED
    BY <1>6, <1>7, <1>8, <1>9, <1>10, <1>11 DEF ExploreInv

(* What ends a round leaves everything as it is.                           *)
LEMMA EndKeepsExploreInv ==
    ASSUME ExploreInv, \/ EndIncremental \/ EndLoop
    PROVE  ExploreInv'
<1>1. TypeOK /\ PhaseInv /\ ReachedInv /\ FirstInv /\ SupportInv /\ SoundInv
    BY DEF ExploreInv
<1>2. /\ phase \in {"LOOP", "INCREMENTAL"} /\ phase' \in {"LOOP", "DONE"} /\ queue = {} /\ pending = {}
      /\ UNCHANGED <<task, h_max_cost, queue, unsatisfied, supporter, supporter_cost, pending,
                     cost, landmarks>>
    BY <1>1 DEF EndIncremental, EndLoop, PhaseInv
<1>3. /\ Propositions' = Propositions /\ StatePropositions' = StatePropositions
      /\ RelaxedOperators' = RelaxedOperators /\ Groups' = Groups /\ Reached' = Reached
    BY <1>2, SameTask DEF Reached
<1>4. \A i \in RelaxedOperators : IsSupported(i)' <=> IsSupported(i)
    BY <1>2 DEF IsSupported
<1>5. TypeOK'
    BY <1>1, <1>2, <1>3 DEF TypeOK
<1>6. PhaseInv'
    BY <1>1, <1>2, <1>3 DEF PhaseInv
<1>7. ReachedInv'
    BY <1>1, <1>2, <1>3 DEF ReachedInv
<1>8. FirstInv'
    BY <1>2 DEF FirstInv
<1>9. SupportInv'
    BY <1>1, <1>2, <1>3, <1>4 DEF SupportInv
<1>10. SoundInv'
    BY <1>1, <1>2, SoundUnchanged
<1> QED
    BY <1>5, <1>6, <1>7, <1>8, <1>9, <1>10 DEF ExploreInv

LEMMA PopIncrementalKeepsExploreInv ==
    ASSUME ExploreInv, NEW p \in queue, PopIncremental(p)
    PROVE  ExploreInv'
<1>1. TypeOK /\ PhaseInv /\ ReachedInv /\ FirstInv /\ SupportInv /\ SoundInv
    BY DEF ExploreInv
<1>2. /\ phase = "INCREMENTAL" /\ pending = {} /\ queue' = queue \ {p}
      /\ pending' = {i \in RelaxedOperators : supporter[i] = p /\ supporter_cost[i] > h_max_cost[p]}
      /\ UNCHANGED <<task, phase, h_max_cost, unsatisfied, supporter, supporter_cost, cost, landmarks>>
    BY <1>1, RelaxedIsRelaxedOperators DEF PopIncremental
<1>3. /\ Propositions' = Propositions /\ StatePropositions' = StatePropositions
      /\ RelaxedOperators' = RelaxedOperators /\ Groups' = Groups /\ Reached' = Reached
    BY <1>2, SameTask DEF Reached
<1>4. /\ task \in Tasks /\ queue \subseteq Propositions
      /\ h_max_cost \in [Propositions -> Nat \cup {UNREACHED}]
      /\ supporter_cost \in [RelaxedOperators -> Nat \cup {UNREACHED}]
    BY <1>1 DEF TypeOK
<1>5. NoSupporter \notin Propositions
    BY <1>4, PropositionParts
<1>6. TypeOK'
    BY <1>1, <1>2, <1>3 DEF TypeOK
<1>7. PhaseInv'
    BY <1>1, <1>2, <1>3 DEF PhaseInv
<1>8. ReachedInv'
    BY <1>1, <1>2, <1>3 DEF ReachedInv
<1>9. FirstInv'
    BY <1>2 DEF FirstInv
<1>10. ASSUME NEW i \in RelaxedOperators, IsSupported(i)
       PROVE  IsSupported(i)'
    <2>1. \/ h_max_cost[supporter[i]] = supporter_cost[i]
          \/ supporter[i] \in queue'
          \/ i \in pending'
        <3>1. CASE supporter[i] = p
            <4>1. supporter_cost[i] \in Nat /\ h_max_cost[p] \in Nat /\ h_max_cost[p] <= supporter_cost[i]
                BY <1>4, <1>10, <3>1 DEF IsSupported
            <4> QED
                BY <1>2, <3>1, <4>1
        <3>2. CASE supporter[i] # p
            BY <1>2, <1>10, <3>2 DEF IsSupported
        <3> QED
            BY <3>1, <3>2
    <2> QED
        BY <1>2, <1>10, <2>1 DEF IsSupported
<1>11. SupportInv'
    BY <1>1, <1>2, <1>3, <1>4, <1>5, <1>10 DEF SupportInv
<1>12. SoundInv'
    BY <1>1, <1>2, SoundUnchanged
<1> QED
    BY <1>6, <1>7, <1>8, <1>9, <1>11, <1>12 DEF ExploreInv
-------------------------------------------------------------------------------
(* Offers leave an operator supported, when its effects are offered at     *)
(* what they are to cost or cost no more already.                          *)
LEMMA EnqueueSupports ==
    ASSUME TypeOK, task' = task, cost' \in [Groups -> Nat],
           NEW others, NEW offers \in SUBSET (Propositions \X Nat), Enqueue(others, offers),
           NEW i \in RelaxedOperators,
           supporter'[i] \in i.pre, supporter_cost'[i] \in Nat,
           \A q \in i.pre : h_max_cost[q] # UNREACHED /\ h_max_cost[q] <= supporter_cost'[i],
           \A e \in i.eff :
                \/ <<e, supporter_cost'[i] + cost'[i.group]>> \in offers
                \/ /\ h_max_cost[e] # UNREACHED
                   /\ h_max_cost[e] <= supporter_cost'[i] + cost'[i.group],
           \/ h_max_cost[supporter'[i]] = supporter_cost'[i]
           \/ supporter'[i] \in others
           \/ i \in pending'
    PROVE  IsSupported(i)'
<1>1. /\ h_max_cost \in [Propositions -> Nat \cup {UNREACHED}] /\ task \in Tasks
    BY DEF TypeOK
<1>2. i.pre \subseteq Propositions /\ i.eff \subseteq Propositions /\ cost'[i.group] \in Nat
    BY <1>1, RelaxedParts
<1>3. /\ \A p \in Propositions :
            \/ h_max_cost'[p] = h_max_cost[p] /\ (p \in queue' <=> p \in others)
            \/ /\ h_max_cost'[p] \in Nat /\ p \in queue'
               /\ h_max_cost[p] = UNREACHED \/ h_max_cost'[p] < h_max_cost[p]
      /\ \A x \in offers : h_max_cost'[x[1]] # UNREACHED /\ h_max_cost'[x[1]] <= x[2]
    BY <1>1, EnqueueParts
<1>4. ASSUME NEW p \in Propositions, NEW c \in Nat, h_max_cost[p] # UNREACHED, h_max_cost[p] <= c
      PROVE  h_max_cost'[p] # UNREACHED /\ h_max_cost'[p] <= c
    <2>1. h_max_cost[p] \in Nat
        BY <1>1, <1>4
    <2>2. h_max_cost'[p] = h_max_cost[p] \/ (h_max_cost'[p] \in Nat /\ h_max_cost'[p] < h_max_cost[p])
        BY <1>3, <1>4
    <2> QED
        BY <1>4, <2>1, <2>2 DEF UNREACHED
<1>5. supporter_cost'[i] # UNREACHED /\ supporter_cost'[i] + cost'[i.group] \in Nat
    BY <1>2 DEF UNREACHED
<1>6. \A q \in i.pre : h_max_cost'[q] # UNREACHED /\ h_max_cost'[q] <= supporter_cost'[i]
    BY <1>2, <1>4
<1>7. ASSUME NEW e \in i.eff
      PROVE  h_max_cost'[e] # UNREACHED /\ h_max_cost'[e] <= supporter_cost'[i] + cost'[i.group]
    <2>1. CASE <<e, supporter_cost'[i] + cost'[i.group]>> \in offers
        BY <1>3, <2>1
    <2>2. CASE /\ h_max_cost[e] # UNREACHED
               /\ h_max_cost[e] <= supporter_cost'[i] + cost'[i.group]
        BY <1>2, <1>4, <1>5, <2>2
    <2> QED
        BY <2>1, <2>2
<1>8. \/ h_max_cost'[supporter'[i]] = supporter_cost'[i]
      \/ supporter'[i] \in queue'
      \/ i \in pending'
    <2>1. supporter'[i] \in Propositions
        BY <1>2
    <2> QED
        BY <1>3, <2>1
<1> QED
    BY <1>5, <1>6, <1>7, <1>8 DEF IsSupported

(* Offers to what has been reached reach nothing new, and what they make   *)
(* cheaper is reached.                                                     *)
LEMMA EnqueueKeepsReached ==
    ASSUME TypeOK, ReachedInv, task' = task,
           NEW others \in SUBSET queue,
           NEW offers \in SUBSET (Propositions \X Nat), Enqueue(others, offers),
           \A x \in offers : x[1] \in Reached
    PROVE  /\ Reached' = Reached /\ ReachedInv'
           /\ h_max_cost' \in [Propositions -> Nat \cup {UNREACHED}]
           /\ queue' \in SUBSET Propositions
<1>1. /\ h_max_cost \in [Propositions -> Nat \cup {UNREACHED}] /\ task \in Tasks
      /\ queue \in SUBSET Propositions /\ queue \subseteq Reached
    BY DEF TypeOK, ReachedInv
<1>2. /\ h_max_cost' \in [Propositions -> Nat \cup {UNREACHED}]
      /\ \A p \in Propositions :
            \/ h_max_cost'[p] = h_max_cost[p] /\ (p \in queue' <=> p \in others)
            \/ /\ <<p, h_max_cost'[p]>> \in offers /\ h_max_cost'[p] \in Nat /\ p \in queue'
               /\ h_max_cost[p] = UNREACHED \/ h_max_cost'[p] < h_max_cost[p]
      /\ queue' \subseteq others \cup Propositions
    BY <1>1, EnqueueParts
<1>3. Propositions' = Propositions /\ StatePropositions' = StatePropositions
    BY SameTask
<1>4. ASSUME NEW p \in Propositions
      PROVE  /\ p \in Reached' <=> p \in Reached
             /\ p \in queue' => p \in Reached
    <2>1. CASE h_max_cost'[p] = h_max_cost[p] /\ (p \in queue' <=> p \in others)
        BY <1>1, <1>3, <2>1 DEF Reached
    <2>2. CASE <<p, h_max_cost'[p]>> \in offers /\ h_max_cost'[p] \in Nat
        BY <1>3, <2>2 DEF Reached, UNREACHED
    <2> QED
        BY <1>2, <2>1, <2>2
<1>5. Reached' = Reached
    BY <1>3, <1>4 DEF Reached
<1>6. queue' \in SUBSET Propositions /\ queue' \subseteq Reached'
    BY <1>1, <1>2, <1>4, <1>5
<1>7. ASSUME NEW p \in StatePropositions
      PROVE  h_max_cost'[p] = 0
    <2>1. p \in Propositions /\ h_max_cost[p] = 0
        BY <1>1, PropositionParts DEF ReachedInv
    <2>2. ~(h_max_cost'[p] \in Nat /\ (h_max_cost[p] = UNREACHED \/ h_max_cost'[p] < h_max_cost[p]))
        BY <2>1 DEF UNREACHED
    <2> QED
        BY <1>2, <2>1, <2>2
<1> QED
    BY <1>2, <1>3, <1>5, <1>6, <1>7 DEF ReachedInv

LEMMA RepairKeepsExploreInv ==
    ASSUME ExploreInv, NEW i \in pending, Repair(i)
    PROVE  ExploreInv'
<1>1. TypeOK /\ PhaseInv /\ ReachedInv /\ FirstInv /\ SupportInv /\ SoundInv
    BY DEF ExploreInv
<1>2. PICK p \in UpdatedSupporters(i) :
        /\ supporter' = [supporter EXCEPT ![i] = p]
        /\ supporter_cost' = [supporter_cost EXCEPT ![i] = h_max_cost[p]]
        /\ Enqueue(queue, IF h_max_cost[p] = supporter_cost[i] THEN {}
                          ELSE i.eff \X {h_max_cost[p] + cost[i.group]})
        /\ pending' = pending \ {i}
        /\ UNCHANGED <<task, phase, unsatisfied, cost, landmarks>>
    BY DEF Repair
<1> DEFINE offers == IF h_max_cost[p] = supporter_cost[i] THEN {}
                     ELSE i.eff \X {h_max_cost[p] + cost[i.group]}
<1>3. Enqueue(queue, offers)
    BY <1>2
<1>4. /\ task \in Tasks /\ queue \subseteq Propositions /\ pending \in SUBSET RelaxedOperators
      /\ h_max_cost \in [Propositions -> Nat \cup {UNREACHED}] /\ cost \in [Groups -> Nat]
      /\ supporter \in [RelaxedOperators -> Propositions \cup {NoSupporter}]
      /\ supporter_cost \in [RelaxedOperators -> Nat \cup {UNREACHED}]
    BY <1>1 DEF TypeOK
<1>5. i \in RelaxedOperators /\ IsSupported(i) /\ phase = "INCREMENTAL"
    BY <1>1, <1>4 DEF SupportInv, PhaseInv, TypeOK
<1>6. /\ i.pre \subseteq Propositions /\ i.eff \subseteq Propositions /\ i.group \in Groups
      /\ cost[i.group] \in Nat
    BY <1>4, <1>5, RelaxedParts
<1>7. p \in i.pre /\ \A q \in i.pre : h_max_cost[q] <= h_max_cost[p]
    BY <1>2 DEF UpdatedSupporters
<1>8. /\ h_max_cost[p] \in Nat /\ supporter_cost[i] \in Nat /\ h_max_cost[p] <= supporter_cost[i]
      /\ \A q \in i.pre : h_max_cost[q] # UNREACHED
    BY <1>4, <1>5, <1>6, <1>7 DEF IsSupported
<1>9. ASSUME NEW x \in offers
      PROVE  /\ x \in Propositions \X Nat /\ x[1] \in i.eff /\ x[2] = h_max_cost[p] + cost[i.group]
             /\ x[1] \in Reached
    <2>1. x[1] \in i.eff /\ x[2] = h_max_cost[p] + cost[i.group] /\ x = <<x[1], x[2]>>
        OBVIOUS
    <2>2. x[1] \in Propositions /\ x[2] \in Nat /\ h_max_cost[x[1]] # UNREACHED
        BY <1>5, <1>6, <1>8, <2>1 DEF IsSupported
    <2> HIDE DEF offers
    <2> QED
        BY <2>1, <2>2 DEF Reached
<1>10. \A e \in i.eff : \/ <<e, h_max_cost[p] + cost[i.group]>> \in offers
                        \/ h_max_cost[p] = supporter_cost[i]
    OBVIOUS
<1> HIDE DEF offers
<1>11. offers \in SUBSET (Propositions \X Nat)
    BY <1>9
<1>12. /\ Propositions' = Propositions /\ StatePropositions' = StatePropositions
       /\ RelaxedOperators' = RelaxedOperators /\ Groups' = Groups
       /\ task' = task
    BY <1>2, SameTask
<1>13. /\ Reached' = Reached /\ ReachedInv'
       /\ h_max_cost' \in [Propositions -> Nat \cup {UNREACHED}]
       /\ queue' \in SUBSET Propositions
    BY <1>1, <1>3, <1>9, <1>11, <1>12, EnqueueKeepsReached
<1>14. /\ supporter'[i] = p /\ supporter_cost'[i] = h_max_cost[p]
       /\ \A j \in RelaxedOperators : j # i => /\ supporter'[j] = supporter[j]
                                               /\ supporter_cost'[j] = supporter_cost[j]
    BY <1>2, <1>4, <1>5
<1>15. TypeOK'
    <2>1. supporter' \in [RelaxedOperators -> Propositions \cup {NoSupporter}]
        BY <1>2, <1>4, <1>6, <1>7
    <2>2. supporter_cost' \in [RelaxedOperators -> Nat \cup {UNREACHED}]
        BY <1>2, <1>4, <1>8
    <2> QED
        BY <1>1, <1>2, <1>12, <1>13, <2>1, <2>2 DEF TypeOK
<1>16. PhaseInv'
    BY <1>1, <1>2, <1>5, <1>13 DEF PhaseInv
<1>17. FirstInv'
    BY <1>2, <1>5 DEF FirstInv
<1>18. cost' = cost /\ cost' \in [Groups -> Nat]
    BY <1>2, <1>4
<1>19. IsSupported(i)'
    <2>1. \A e \in i.eff :
            \/ <<e, supporter_cost'[i] + cost'[i.group]>> \in offers
            \/ /\ h_max_cost[e] # UNREACHED
               /\ h_max_cost[e] <= supporter_cost'[i] + cost'[i.group]
        BY <1>5, <1>10, <1>14, <1>18 DEF IsSupported
    <2>2. /\ supporter'[i] \in i.pre /\ supporter_cost'[i] \in Nat
          /\ \A q \in i.pre : h_max_cost[q] # UNREACHED /\ h_max_cost[q] <= supporter_cost'[i]
          /\ h_max_cost[supporter'[i]] = supporter_cost'[i]
        BY <1>7, <1>8, <1>14
    <2> QED
        BY <1>1, <1>3, <1>5, <1>11, <1>12, <1>18, <2>1, <2>2, EnqueueSupports
<1>20. ASSUME NEW j \in RelaxedOperators, j # i, IsSupported(j)
       PROVE  IsSupported(j)'
    <2>1. /\ supporter'[j] = supporter[j] /\ supporter_cost'[j] = supporter_cost[j]
          /\ supporter_cost[j] \in Nat
        BY <1>4, <1>14, <1>20 DEF IsSupported
    <2>2. /\ supporter'[j] \in j.pre /\ supporter_cost'[j] \in Nat
          /\ \A q \in j.pre : h_max_cost[q] # UNREACHED /\ h_max_cost[q] <= supporter_cost'[j]
          /\ \A e \in j.eff : /\ h_max_cost[e] # UNREACHED
                              /\ h_max_cost[e] <= supporter_cost'[j] + cost'[j.group]
          /\ \/ h_max_cost[supporter'[j]] = supporter_cost'[j]
             \/ supporter'[j] \in queue
             \/ j \in pending'
        BY <1>2, <1>18, <1>20, <2>1 DEF IsSupported
    <2> QED
        BY <1>1, <1>3, <1>11, <1>12, <1>18, <2>2, EnqueueSupports
<1>21. SupportInv'
    <2> SUFFICES ASSUME NEW j \in RelaxedOperators
                 PROVE  /\ supporter'[j] # NoSupporter => IsSupported(j)'
                        /\ j \in pending' => supporter'[j] # NoSupporter
                        /\ j.pre \subseteq Reached => supporter'[j] # NoSupporter
        BY <1>12, <1>13 DEF SupportInv
    <2>1. CASE j = i
        <3>1. p # NoSupporter
            BY <1>4, <1>6, <1>7, PropositionParts
        <3> QED
            BY <1>14, <1>19, <2>1, <3>1
    <2>2. CASE j # i
        BY <1>1, <1>2, <1>5, <1>14, <1>20, <2>2 DEF SupportInv
    <2> QED
        BY <2>1, <2>2
<1>22. SoundInv'
    <2>1. ASSUME NEW x \in offers
          PROVE  IsExplained(x)
        <3>1. x[1] \in i.eff /\ x[2] = h_max_cost[p] + cost[i.group]
            BY <1>9
        <3> QED
            BY <1>5, <1>7, <1>8, <1>18, <3>1 DEF IsExplained
    <2>2. \A g \in Groups : cost'[g] <= cost[g]
        BY <1>4, <1>18
    <2> QED
        BY <1>1, <1>3, <1>11, <1>12, <1>18, <2>1, <2>2, EnqueueKeepsSound
<1> QED
    BY <1>13, <1>15, <1>16, <1>17, <1>21, <1>22 DEF ExploreInv
-------------------------------------------------------------------------------
(* Between the explorations supporters cost what they were taken for, and  *)
(* nothing that is reached leads to something that is not.                 *)
LEMMA LoopParts ==
    ASSUME ExploreInv, phase = "LOOP", NEW i \in RelaxedOperators
    PROVE  /\ supporter[i] # NoSupporter =>
                /\ supporter[i] \in i.pre
                /\ h_max_cost[supporter[i]] = supporter_cost[i] /\ supporter_cost[i] \in Nat
                /\ \A q \in i.pre : /\ q \in Reached /\ h_max_cost[q] \in Nat
                                    /\ h_max_cost[q] <= h_max_cost[supporter[i]]
                /\ \A e \in i.eff : /\ e \in Reached /\ h_max_cost[e] \in Nat
                                    /\ h_max_cost[e] <= h_max_cost[supporter[i]] + cost[i.group]
           /\ supporter[i] # NoSupporter <=> i.pre \subseteq Reached
<1>1. TypeOK /\ PhaseInv /\ ReachedInv /\ SupportInv
    BY DEF ExploreInv
<1>2. /\ task \in Tasks /\ h_max_cost \in [Propositions -> Nat \cup {UNREACHED}]
      /\ supporter_cost \in [RelaxedOperators -> Nat \cup {UNREACHED}]
      /\ queue = {} /\ pending = {}
    BY <1>1 DEF TypeOK, PhaseInv
<1>3. /\ i.pre \subseteq Propositions /\ i.eff \subseteq Propositions
    BY <1>2, RelaxedParts
<1>4. \A q \in Propositions : /\ q \in Reached <=> h_max_cost[q] # UNREACHED
                              /\ q \in Reached => h_max_cost[q] \in Nat
    BY <1>2 DEF Reached
<1>5. ASSUME supporter[i] # NoSupporter
      PROVE  /\ supporter[i] \in i.pre
             /\ h_max_cost[supporter[i]] = supporter_cost[i] /\ supporter_cost[i] \in Nat
             /\ \A q \in i.pre : h_max_cost[q] # UNREACHED /\ h_max_cost[q] <= supporter_cost[i]
             /\ \A e \in i.eff : /\ h_max_cost[e] # UNREACHED
                                 /\ h_max_cost[e] <= supporter_cost[i] + cost[i.group]
    BY <1>1, <1>2, <1>5 DEF SupportInv, IsSupported
<1>6. i.pre \subseteq Reached => supporter[i] # NoSupporter
    BY <1>1 DEF SupportInv
<1> QED
    BY <1>3, <1>4, <1>5, <1>6

LEMMA GoalZoneParts ==
    ASSUME ExploreInv, phase = "LOOP"
    PROVE  /\ GoalZone \in SUBSET Propositions /\ artificial_goal \in GoalZone
           /\ WithFreeSupporters(GoalZone) = GoalZone
           /\ \A p \in GoalZone : h_max_cost[p] \in Nat /\ h_max_cost[artificial_goal] <= h_max_cost[p]
<1> DEFINE N == Cardinality(Propositions)
           start == {artificial_goal}
           zone == CHOOSE g : g = [n \in 0 .. N |-> IF n = 0 THEN start
                                                    ELSE WithFreeSupporters(g[n - 1])]
           F == [x \in SUBSET Propositions |-> WithFreeSupporters(x)]
           Costly == {p \in Reached : h_max_cost[artificial_goal] <= h_max_cost[p]}
<1>1. /\ task \in Tasks /\ artificial_goal \in Reached
      /\ h_max_cost \in [Propositions -> Nat \cup {UNREACHED}]
      /\ supporter \in [RelaxedOperators -> Propositions \cup {NoSupporter}]
      /\ Relaxed = RelaxedOperators
      /\ cost \in [Groups -> Nat]
    BY RelaxedIsRelaxedOperators DEF ExploreInv, TypeOK, PhaseInv
<1>2. IsFiniteSet(Propositions) /\ N \in Nat /\ start \in SUBSET Propositions
    BY <1>1, PropositionParts
<1>3. GoalZone = zone[N]
    BY DEF GoalZone
<1>4. \A x \in SUBSET Propositions : WithFreeSupporters(x) \in SUBSET Propositions /\ x \subseteq WithFreeSupporters(x)
    BY <1>1 DEF WithFreeSupporters
<1>5. /\ F \in [SUBSET Propositions -> SUBSET Propositions]
      /\ \A x \in SUBSET Propositions : F[x] = WithFreeSupporters(x)
    BY <1>4
<1>6. Growths(Propositions, start, N, F) # {}
    <2> HIDE DEF N, F, start
    <2> QED
        BY <1>2, <1>5, GrowthExists
<1>7. \E g : g = [n \in 0 .. N |-> IF n = 0 THEN start ELSE WithFreeSupporters(g[n - 1])]
    <2>1. PICK g \in Growths(Propositions, start, N, F) : TRUE
        BY <1>6
    <2>2. g \in [0 .. N -> SUBSET Propositions] /\ g[0] = start /\ \A n \in 1 .. N : g[n] = F[g[n - 1]]
        BY <2>1 DEF Growths
    <2>3. \A n \in 0 .. N : n = 0 \/ (n \in 1 .. N /\ n - 1 \in 0 .. N)
        BY <1>2
    <2> HIDE DEF N, start, F
    <2>4. ASSUME NEW n \in 1 .. N
          PROVE  g[n] = WithFreeSupporters(g[n - 1])
        <3>1. g[n] = F[g[n - 1]] /\ n - 1 \in 0 .. N
            BY <1>2, <2>2
        <3> QED
            BY <1>5, <2>2, <3>1
    <2>5. g = [n \in 0 .. N |-> IF n = 0 THEN start ELSE WithFreeSupporters(g[n - 1])]
        BY <2>2, <2>3, <2>4
    <2> QED
        BY <2>5
<1>8. zone = [n \in 0 .. N |-> IF n = 0 THEN start ELSE WithFreeSupporters(zone[n - 1])]
    <2> HIDE DEF N, start
    <2> QED
        BY <1>7
<1> HIDE DEF zone
<1> DEFINE Within == {n \in 0 .. N : zone[n] \in SUBSET Propositions}
<1>9. \A n \in 0 .. N : n \in Within
    <2> HIDE DEF N
    <2>1. 0 \in Within
        BY <1>2, <1>8
    <2>2. ASSUME NEW n \in 1 .. N, n - 1 \in Within
          PROVE  n \in Within
        <3>1. n \in 0 .. N /\ n # 0
            BY <1>2
        <3> QED
            BY <1>4, <1>8, <2>2, <3>1
    <2> HIDE DEF Within
    <2> QED
        BY <1>2, <2>1, <2>2, UpTo
<1>10. /\ zone[0] \in SUBSET Propositions /\ zone[0] = start /\ zone[0] # {}
       /\ \A n \in 1 .. N : zone[n] = F[zone[n - 1]]
    <2> HIDE DEF N, F
    <2>1. \A n \in 1 .. N : n \in 0 .. N /\ n # 0 /\ n - 1 \in 0 .. N
        BY <1>2
    <2>2. \A n \in 1 .. N : zone[n] = F[zone[n - 1]]
        <3> TAKE n \in 1 .. N
        <3>1. zone[n] = WithFreeSupporters(zone[n - 1])
            BY <1>8, <2>1
        <3>2. zone[n - 1] \in SUBSET Propositions
            BY <1>9, <2>1
        <3> QED
            BY <1>5, <3>1, <3>2
    <2>3. zone[0] = start
        BY <1>2, <1>8
    <2> QED
        BY <1>2, <2>2, <2>3
<1>11. \A x \in SUBSET Propositions : x \subseteq F[x]
    BY <1>4
<1>12. /\ zone[N] \in SUBSET Propositions
       /\ zone[0] \subseteq zone[N]
       /\ F[zone[N]] = zone[N]
       /\ \A closed \in SUBSET Propositions :
            zone[0] \subseteq closed /\ (\A x \in SUBSET closed : F[x] \subseteq closed)
                => zone[N] \subseteq closed
    <2> HIDE DEF F
    <2> QED
        BY <1>2, <1>5, <1>10, <1>11, GrowthCompletes
<1>13. zone[N] \subseteq Costly
    <2>1. Costly \in SUBSET Propositions
        BY DEF Reached
    <2>2. zone[0] \subseteq Costly
        <3>1. h_max_cost[artificial_goal] \in Nat
            BY <1>1 DEF Reached
        <3> QED
            BY <1>1, <1>10, <3>1
    <2>3. ASSUME NEW x \in SUBSET Costly
          PROVE  WithFreeSupporters(x) \subseteq Costly
        <3> SUFFICES ASSUME NEW i \in RelaxedOperators, cost[i.group] = 0, i.eff \cap x # {},
                            supporter[i] # NoSupporter
                     PROVE  supporter[i] \in Costly
            BY <1>1, <2>3 DEF WithFreeSupporters
        <3>1. PICK e \in i.eff : e \in Costly
            BY <2>3
        <3>2. /\ h_max_cost[e] \in Nat /\ h_max_cost[supporter[i]] \in Nat
              /\ supporter[i] \in Reached /\ h_max_cost[e] <= h_max_cost[supporter[i]] + 0
            BY LoopParts
        <3>3. h_max_cost[artificial_goal] \in Nat /\ h_max_cost[artificial_goal] <= h_max_cost[e]
            BY <1>1, <3>1 DEF Reached
        <3> QED
            BY <3>2, <3>3
    <2>4. \A x \in SUBSET Costly : F[x] \subseteq Costly
        BY <2>1, <2>3
    <2> HIDE DEF Costly, F
    <2> QED
        BY <1>12, <2>1, <2>2, <2>4
<1>14. \A p \in Costly : h_max_cost[p] \in Nat /\ h_max_cost[artificial_goal] <= h_max_cost[p]
    BY <1>1 DEF Reached
<1> QED
    BY <1>3, <1>10, <1>12, <1>13, <1>14

(* The propositions before the goal zone are reached, contain the state    *)
(* and lie outside the zone; no operator adds another one outside it.      *)
LEMMA BeforeGoalZoneParts ==
    ASSUME ExploreInv, phase = "LOOP", NEW goal_zone, goal_zone \cap StatePropositions = {}
    PROVE  /\ BeforeGoalZone(StatePropositions, goal_zone) \subseteq Reached
           /\ BeforeGoalZone(StatePropositions, goal_zone) \cap goal_zone = {}
           /\ StatePropositions \subseteq BeforeGoalZone(StatePropositions, goal_zone)
           /\ WithEffectsOutside(goal_zone, BeforeGoalZone(StatePropositions, goal_zone))
                = BeforeGoalZone(StatePropositions, goal_zone)
<1> DEFINE N == Cardinality(Propositions)
           start == StatePropositions
           zone == CHOOSE g : g = [n \in 0 .. N |-> IF n = 0 THEN start
                                                    ELSE WithEffectsOutside(goal_zone, g[n - 1])]
           F == [x \in SUBSET Propositions |-> WithEffectsOutside(goal_zone, x)]
           Outside == Reached \ goal_zone
<1>1. /\ task \in Tasks /\ artificial_goal \in Reached
      /\ h_max_cost \in [Propositions -> Nat \cup {UNREACHED}]
      /\ supporter \in [RelaxedOperators -> Propositions \cup {NoSupporter}]
      /\ Relaxed = RelaxedOperators
      /\ cost \in [Groups -> Nat]
    BY RelaxedIsRelaxedOperators DEF ExploreInv, TypeOK, PhaseInv
<1>2. IsFiniteSet(Propositions) /\ N \in Nat /\ start \in SUBSET Propositions /\ start # {}
    BY <1>1, PropositionParts
<1>3. BeforeGoalZone(StatePropositions, goal_zone) = zone[N]
    BY DEF BeforeGoalZone
<1>4. \A x \in SUBSET Propositions : /\ WithEffectsOutside(goal_zone, x) \in SUBSET Propositions
                                    /\ x \subseteq WithEffectsOutside(goal_zone, x)
    BY <1>1, RelaxedParts DEF WithEffectsOutside
<1>5. /\ F \in [SUBSET Propositions -> SUBSET Propositions]
      /\ \A x \in SUBSET Propositions : F[x] = WithEffectsOutside(goal_zone, x)
    BY <1>4
<1>6. Growths(Propositions, start, N, F) # {}
    <2> HIDE DEF N, F, start
    <2> QED
        BY <1>2, <1>5, GrowthExists
<1>7. \E g : g = [n \in 0 .. N |-> IF n = 0 THEN start ELSE WithEffectsOutside(goal_zone, g[n - 1])]
    <2>1. PICK g \in Growths(Propositions, start, N, F) : TRUE
        BY <1>6
    <2>2. g \in [0 .. N -> SUBSET Propositions] /\ g[0] = start /\ \A n \in 1 .. N : g[n] = F[g[n - 1]]
        BY <2>1 DEF Growths
    <2>3. \A n \in 0 .. N : n = 0 \/ (n \in 1 .. N /\ n - 1 \in 0 .. N)
        BY <1>2
    <2> HIDE DEF N, start, F
    <2>4. ASSUME NEW n \in 1 .. N
          PROVE  g[n] = WithEffectsOutside(goal_zone, g[n - 1])
        <3>1. g[n] = F[g[n - 1]] /\ n - 1 \in 0 .. N
            BY <1>2, <2>2
        <3> QED
            BY <1>5, <2>2, <3>1
    <2>5. g = [n \in 0 .. N |-> IF n = 0 THEN start ELSE WithEffectsOutside(goal_zone, g[n - 1])]
        BY <2>2, <2>3, <2>4
    <2> QED
        BY <2>5
<1>8. zone = [n \in 0 .. N |-> IF n = 0 THEN start ELSE WithEffectsOutside(goal_zone, zone[n - 1])]
    <2> HIDE DEF N, start
    <2> QED
        BY <1>7
<1> HIDE DEF zone
<1> DEFINE Within == {n \in 0 .. N : zone[n] \in SUBSET Propositions}
<1>9. \A n \in 0 .. N : n \in Within
    <2> HIDE DEF N
    <2>1. 0 \in Within
        BY <1>2, <1>8
    <2>2. ASSUME NEW n \in 1 .. N, n - 1 \in Within
          PROVE  n \in Within
        <3>1. n \in 0 .. N /\ n # 0
            BY <1>2
        <3> QED
            BY <1>4, <1>8, <2>2, <3>1
    <2> HIDE DEF Within
    <2> QED
        BY <1>2, <2>1, <2>2, UpTo
<1>10. /\ zone[0] \in SUBSET Propositions /\ zone[0] = start /\ zone[0] # {}
       /\ \A n \in 1 .. N : zone[n] = F[zone[n - 1]]
    <2> HIDE DEF N, F
    <2>1. \A n \in 1 .. N : n \in 0 .. N /\ n # 0 /\ n - 1 \in 0 .. N
        BY <1>2
    <2>2. \A n \in 1 .. N : zone[n] = F[zone[n - 1]]
        <3> TAKE n \in 1 .. N
        <3>1. zone[n] = WithEffectsOutside(goal_zone, zone[n - 1])
            BY <1>8, <2>1
        <3>2. zone[n - 1] \in SUBSET Propositions
            BY <1>9, <2>1
        <3> QED
            BY <1>5, <3>1, <3>2
    <2>3. zone[0] = start
        BY <1>2, <1>8
    <2> QED
        BY <1>2, <2>2, <2>3
<1>11. \A x \in SUBSET Propositions : x \subseteq F[x]
    BY <1>4
<1>12. /\ zone[N] \in SUBSET Propositions
       /\ zone[0] \subseteq zone[N]
       /\ F[zone[N]] = zone[N]
       /\ \A closed \in SUBSET Propositions :
            zone[0] \subseteq closed /\ (\A x \in SUBSET closed : F[x] \subseteq closed)
                => zone[N] \subseteq closed
    <2> HIDE DEF F
    <2> QED
        BY <1>2, <1>5, <1>10, <1>11, GrowthCompletes
<1>13. zone[N] \subseteq Outside
    <2>1. Outside \in SUBSET Propositions
        BY DEF Reached
    <2>2. zone[0] \subseteq Outside
        <3>1. \A p \in StatePropositions : p \in Propositions /\ h_max_cost[p] = 0
            BY <1>1, PropositionParts DEF ExploreInv, ReachedInv
        <3> QED
            BY <1>10, <3>1 DEF Reached, UNREACHED
    <2>3. ASSUME NEW x \in SUBSET Outside
          PROVE  WithEffectsOutside(goal_zone, x) \subseteq Outside
        <3> SUFFICES ASSUME NEW i \in RelaxedOperators, supporter[i] \in x, i.eff \cap goal_zone = {},
                            NEW e \in i.eff
                     PROVE  e \in Outside
            BY <1>1, <2>3 DEF WithEffectsOutside
        <3>1. supporter[i] # NoSupporter
            BY <1>1, <2>1, <2>3, PropositionParts
        <3> QED
            BY <3>1, LoopParts
    <2>4. \A x \in SUBSET Outside : F[x] \subseteq Outside
        BY <2>1, <2>3
    <2> HIDE DEF Outside, F
    <2> QED
        BY <1>12, <2>1, <2>2, <2>4
<1> QED
    BY <1>3, <1>10, <1>12, <1>13

(* The operators of a cut cost something, those who are in it are the only *)
(* ones that lead out of what is before it, and the goal is beyond it.     *)
LEMMA CutParts ==
    ASSUME ExploreInv, phase = "LOOP", h_max_cost[artificial_goal] # 0
    PROVE  /\ Cut \subseteq RelaxedOperators /\ Cut # {}
           /\ \A i \in Cut : cost[i.group] # 0
           /\ \E B \in SUBSET Propositions : Separates(B, {i.group : i \in Cut})
<1> DEFINE goal_zone == GoalZone \ StatePropositions
           B == BeforeGoalZone(StatePropositions, goal_zone)
           groups == {i.group : i \in Cut}
<1>1. /\ task \in Tasks /\ artificial_goal \in Reached
      /\ h_max_cost \in [Propositions -> Nat \cup {UNREACHED}]
      /\ supporter \in [RelaxedOperators -> Propositions \cup {NoSupporter}]
      /\ Relaxed = RelaxedOperators /\ cost \in [Groups -> Nat]
    BY RelaxedIsRelaxedOperators DEF ExploreInv, TypeOK, PhaseInv
<1>2. h_max_cost[artificial_goal] \in Nat /\ h_max_cost[artificial_goal] > 0
    BY <1>1 DEF Reached
<1>3. goal_zone = GoalZone
    <2>1. \A p \in StatePropositions : h_max_cost[p] = 0
        BY DEF ExploreInv, ReachedInv
    <2>2. \A p \in GoalZone : h_max_cost[p] # 0
        BY <1>2, GoalZoneParts
    <2> QED
        BY <2>1, <2>2
<1>4. /\ B \subseteq Reached /\ B \cap goal_zone = {} /\ StatePropositions \subseteq B
      /\ WithEffectsOutside(goal_zone, B) = B
    <2>1. goal_zone \cap StatePropositions = {}
        OBVIOUS
    <2> HIDE DEF goal_zone
    <2> QED
        BY <2>1, BeforeGoalZoneParts
<1>5. Cut = {i \in RelaxedOperators : supporter[i] \in B /\ i.eff \cap goal_zone # {}}
    BY <1>1 DEF Cut
<1> HIDE DEF goal_zone, B
<1>6. ASSUME NEW i \in RelaxedOperators, i.pre \subseteq B, i \notin Cut
      PROVE  i.eff \subseteq B
    <2>1. supporter[i] \in B
        <3>1. i.pre \subseteq Reached
            BY <1>4, <1>6
        <3> QED
            BY <1>6, <3>1, LoopParts
    <2>2. i.eff \cap goal_zone = {}
        BY <1>5, <1>6, <2>1
    <2> QED
        BY <1>1, <1>4, <2>1, <2>2 DEF WithEffectsOutside
<1>7. artificial_goal \notin B
    BY <1>3, <1>4, GoalZoneParts
<1>8. B \in SUBSET Propositions
    BY <1>4 DEF Reached
<1>9. Separates(B, groups)
    BY <1>4, <1>6, <1>7 DEF Separates
<1>10. Cut # {}
    <2> SUFFICES ASSUME Cut = {}
                 PROVE  FALSE
        OBVIOUS
    <2> DEFINE d == [p \in Propositions |-> 0]
    <2>1. d \in [Propositions -> Nat]
        OBVIOUS
    <2>2. Explains(B, d)
        <3>1. \A p \in StatePropositions : p \in B /\ d[p] = 0
            BY <1>4, <1>8
        <3>2. ASSUME NEW i \in RelaxedOperators, i.pre \subseteq B, NEW e \in i.eff
              PROVE  e \in B /\ \E q \in i.pre : d[e] <= cost[i.group] + d[q]
            <4>1. e \in B /\ e \in Propositions
                BY <1>6, <1>8, <3>2
            <4>2. PICK q \in i.pre : TRUE
                BY <1>1, RelaxedParts
            <4>3. q \in Propositions /\ cost[i.group] \in Nat
                BY <1>1, RelaxedParts
            <4>4. d[e] = 0 /\ d[q] = 0
                BY <4>1, <4>3
            <4>5. d[e] <= cost[i.group] + d[q]
                BY <4>3, <4>4
            <4> QED
                BY <4>1, <4>5
        <3> HIDE DEF d
        <3> QED
            BY <3>1, <3>2 DEF Explains
    <2>3. artificial_goal \in B
        <3> HIDE DEF d
        <3> QED
            BY <1>1, <1>8, <2>1, <2>2 DEF ExploreInv, SoundInv
    <2> QED
        BY <1>7, <2>3
<1>11. ASSUME NEW i \in Cut
       PROVE  cost[i.group] # 0
    <2> SUFFICES ASSUME cost[i.group] = 0
                 PROVE  FALSE
        OBVIOUS
    <2>1. i \in RelaxedOperators /\ supporter[i] \in B /\ i.eff \cap goal_zone # {}
        BY <1>5
    <2>2. supporter[i] # NoSupporter
        BY <1>1, <1>8, <2>1, PropositionParts
    <2>3. supporter[i] \in WithFreeSupporters(GoalZone)
        BY <1>1, <1>3, <2>1, <2>2 DEF WithFreeSupporters
    <2>4. supporter[i] \in goal_zone
        BY <1>3, <2>3, GoalZoneParts
    <2> QED
        BY <1>4, <2>1, <2>4
<1> QED
    BY <1>5, <1>8, <1>9, <1>10, <1>11

LEMMA FindCutParts ==
    ASSUME ExploreInv, FindCut
    PROVE  \E groups \in SUBSET Groups : \E cut_cost \in Nat :
                /\ groups = {i.group : i \in Cut}
                /\ \E B \in SUBSET Propositions : Separates(B, groups)
                /\ cut_cost # 0 /\ \A g \in groups : cost[g] # 0 /\ cut_cost <= cost[g]
                /\ cost' = [g \in Groups |-> IF g \in groups THEN cost[g] - cut_cost ELSE cost[g]]
                /\ landmarks' = Append(landmarks, [groups |-> groups, cost |-> cut_cost])
                /\ cost' \in [Groups -> Nat]
                /\ \A g \in Groups : cost'[g] <= cost[g]
                /\ landmarks' \in Seq([groups : SUBSET Groups, cost : Nat])
<1> DEFINE groups == {i.group : i \in Cut}
           costs == {cost[g] : g \in groups}
           cut_cost == Least(costs)
<1>1. /\ task \in Tasks /\ cost \in [Groups -> Nat] /\ phase = "LOOP"
      /\ h_max_cost[artificial_goal] # 0
      /\ landmarks \in Seq([groups : SUBSET Groups, cost : Nat])
    BY DEF ExploreInv, TypeOK, FindCut
<1>2. /\ Cut \subseteq RelaxedOperators /\ Cut # {}
      /\ \A i \in Cut : cost[i.group] # 0
      /\ \E B \in SUBSET Propositions : Separates(B, groups)
    BY <1>1, CutParts
<1>3. groups \in SUBSET Groups /\ groups # {} /\ \A g \in groups : cost[g] # 0
    BY <1>1, <1>2, RelaxedParts
<1>4. /\ cost' = [g \in Groups |-> IF g \in groups THEN cost[g] - cut_cost ELSE cost[g]]
      /\ landmarks' = Append(landmarks, [groups |-> groups, cost |-> cut_cost])
    BY DEF FindCut
<1> HIDE DEF groups
<1>5. cut_cost \in costs /\ \A n \in costs : cut_cost <= n
    <2>1. costs \in SUBSET Nat /\ costs # {}
        BY <1>1, <1>3
    <2> HIDE DEF costs
    <2> QED
        BY <2>1, LeastParts
<1>6. cut_cost \in Nat /\ cut_cost # 0 /\ \A g \in groups : cut_cost <= cost[g]
    BY <1>1, <1>3, <1>5
<1> HIDE DEF cut_cost, costs
<1>7. cost' \in [Groups -> Nat] /\ \A g \in Groups : cost'[g] <= cost[g]
    BY <1>1, <1>3, <1>4, <1>6
<1>8. landmarks' \in Seq([groups : SUBSET Groups, cost : Nat])
    <2> DEFINE L == [groups : SUBSET Groups, cost : Nat]
    <2>1. [groups |-> groups, cost |-> cut_cost] \in L
        BY <1>3, <1>6
    <2>2. landmarks \in Seq(L)
        BY <1>1
    <2> HIDE DEF L
    <2>3. landmarks' \in Seq(L)
        BY <1>4, <2>1, <2>2
    <2> QED
        BY <2>3 DEF L
<1> QED
    BY <1>2, <1>3, <1>4, <1>6, <1>7, <1>8 DEF groups

LEMMA FindCutKeepsExploreInv ==
    ASSUME ExploreInv, FindCut
    PROVE  ExploreInv'
<1>1. TypeOK /\ PhaseInv /\ ReachedInv /\ FirstInv /\ SupportInv /\ SoundInv
    BY DEF ExploreInv
<1>2. PICK groups \in SUBSET Groups, cut_cost \in Nat :
        /\ groups = {i.group : i \in Cut}
        /\ cost' = [g \in Groups |-> IF g \in groups THEN cost[g] - cut_cost ELSE cost[g]]
        /\ cost' \in [Groups -> Nat]
        /\ \A g \in Groups : cost'[g] <= cost[g]
        /\ landmarks' \in Seq([groups : SUBSET Groups, cost : Nat])
    BY FindCutParts
<1> DEFINE again == OfferedAgain(groups, Cut)
           offers == UNION {i.eff \X {supporter_cost[i] + cost'[i.group]} : i \in again}
<1>3. /\ phase = "LOOP" /\ phase' = "INCREMENTAL" /\ Enqueue({}, offers)
      /\ UNCHANGED <<task, unsatisfied, supporter, supporter_cost, pending>>
    BY <1>2 DEF FindCut
<1>4. /\ task \in Tasks /\ Relaxed = RelaxedOperators /\ cost \in [Groups -> Nat]
      /\ queue = {} /\ pending = {}
    BY <1>1, <1>3, RelaxedIsRelaxedOperators DEF TypeOK, PhaseInv
<1>5. \A i \in again : i \in RelaxedOperators /\ supporter[i] # NoSupporter
    BY <1>4 DEF OfferedAgain
<1>6. \A i \in RelaxedOperators :
            i \notin again => supporter[i] = NoSupporter \/ cost'[i.group] = cost[i.group]
    BY <1>2, <1>4, RelaxedParts DEF OfferedAgain
<1> HIDE DEF again
<1>7. ASSUME NEW x \in offers
      PROVE  /\ x \in Propositions \X Nat /\ x[1] \in Reached /\ IsExplained(x)
    <2>1. PICK i \in again : /\ x[1] \in i.eff /\ x[2] = supporter_cost[i] + cost'[i.group]
                             /\ x = <<x[1], x[2]>>
        OBVIOUS
    <2> HIDE DEF offers
    <2>2. i \in RelaxedOperators /\ supporter[i] # NoSupporter
        BY <1>5
    <2>3. /\ supporter_cost[i] \in Nat /\ x[1] \in Reached
          /\ \A q \in i.pre : q \in Reached /\ h_max_cost[q] <= supporter_cost[i]
        BY <1>3, <2>1, <2>2, LoopParts
    <2>4. cost'[i.group] \in Nat
        BY <1>2, <1>4, <2>2, RelaxedParts
    <2>5. x \in Propositions \X Nat
        BY <2>1, <2>3, <2>4 DEF Reached
    <2>6. IsExplained(x)
        BY <2>1, <2>2, <2>3 DEF IsExplained, Reached
    <2> QED
        BY <2>3, <2>5, <2>6
<1>8. ASSUME NEW i \in again, NEW e \in i.eff
      PROVE  <<e, supporter_cost[i] + cost'[i.group]>> \in offers
    OBVIOUS
<1> HIDE DEF offers
<1>9. offers \in SUBSET (Propositions \X Nat)
    BY <1>7
<1>10. /\ Propositions' = Propositions /\ StatePropositions' = StatePropositions
       /\ RelaxedOperators' = RelaxedOperators /\ Groups' = Groups /\ task' = task
    BY <1>3, SameTask
<1>11. /\ Reached' = Reached /\ ReachedInv'
       /\ h_max_cost' \in [Propositions -> Nat \cup {UNREACHED}]
       /\ queue' \in SUBSET Propositions
    <2>1. {} \in SUBSET queue
        OBVIOUS
    <2> QED
        BY <1>1, <1>3, <1>7, <1>9, <1>10, <2>1, EnqueueKeepsReached
<1>12. TypeOK'
    BY <1>1, <1>2, <1>3, <1>10, <1>11 DEF TypeOK
<1>13. PhaseInv'
    BY <1>1, <1>3, <1>11 DEF PhaseInv
<1>14. FirstInv'
    BY <1>3 DEF FirstInv
<1>15. ASSUME NEW i \in RelaxedOperators, supporter[i] # NoSupporter
       PROVE  IsSupported(i)'
    <2>1. /\ supporter[i] \in i.pre
          /\ h_max_cost[supporter[i]] = supporter_cost[i] /\ supporter_cost[i] \in Nat
          /\ \A q \in i.pre : h_max_cost[q] # UNREACHED /\ h_max_cost[q] <= supporter_cost[i]
          /\ \A e \in i.eff : /\ h_max_cost[e] # UNREACHED
                              /\ h_max_cost[e] <= supporter_cost[i] + cost[i.group]
        BY <1>3, <1>15, LoopParts DEF Reached
    <2>2. \A e \in i.eff :
            \/ <<e, supporter_cost[i] + cost'[i.group]>> \in offers
            \/ /\ h_max_cost[e] # UNREACHED
               /\ h_max_cost[e] <= supporter_cost[i] + cost'[i.group]
        BY <1>6, <1>8, <1>15, <2>1
    <2>3. supporter'[i] = supporter[i] /\ supporter_cost'[i] = supporter_cost[i]
        BY <1>3
    <2> QED
        BY <1>1, <1>2, <1>3, <1>9, <1>10, <2>1, <2>2, <2>3, EnqueueSupports
<1>16. SupportInv'
    <2> SUFFICES ASSUME NEW i \in RelaxedOperators
                 PROVE  /\ supporter[i] # NoSupporter => IsSupported(i)'
                        /\ i \in pending => supporter[i] # NoSupporter
                        /\ i.pre \subseteq Reached => supporter[i] # NoSupporter
        BY <1>3, <1>10, <1>11 DEF SupportInv
    <2> QED
        BY <1>1, <1>3, <1>15 DEF SupportInv
<1>17. SoundInv'
    BY <1>1, <1>2, <1>3, <1>7, <1>9, <1>10, EnqueueKeepsSound
<1> QED
    BY <1>11, <1>12, <1>13, <1>14, <1>16, <1>17 DEF ExploreInv

LEMMA NextKeepsExploreInv == ExploreInv /\ [Next]_vars => ExploreInv'
<1> SUFFICES ASSUME ExploreInv, [Next]_vars
             PROVE  ExploreInv'
    OBVIOUS
<1>1. CASE \E p \in queue : PopFirst(p)
    BY <1>1, PopFirstKeepsExploreInv
<1>2. CASE \E p \in queue : PopIncremental(p)
    BY <1>2, PopIncrementalKeepsExploreInv
<1>3. CASE \E i \in pending : Repair(i)
    BY <1>3, RepairKeepsExploreInv
<1>4. CASE EndFirst
    BY <1>4, EndFirstKeepsExploreInv
<1>5. CASE FindCut
    BY <1>5, FindCutKeepsExploreInv
<1>6. CASE EndIncremental \/ EndLoop
    BY <1>6, EndKeepsExploreInv
<1>7. CASE UNCHANGED vars
    <2>1. TypeOK /\ PhaseInv /\ ReachedInv /\ FirstInv /\ SupportInv /\ SoundInv
        BY DEF ExploreInv
    <2>2. UNCHANGED <<task, phase, h_max_cost, queue, unsatisfied, supporter, supporter_cost,
                      pending, cost, landmarks>>
        BY <1>7 DEF vars
    <2>3. /\ Propositions' = Propositions /\ StatePropositions' = StatePropositions
          /\ RelaxedOperators' = RelaxedOperators /\ Groups' = Groups /\ Reached' = Reached
        BY <2>2, SameTask DEF Reached
    <2>4. Expanded' = Expanded
        BY <2>2, <2>3 DEF Expanded
    <2>5. \A i : IsSupported(i)' <=> IsSupported(i)
        BY <2>2 DEF IsSupported
    <2>6. SoundInv'
        BY <2>1, <2>2, SoundUnchanged
    <2>7. TypeOK' /\ PhaseInv' /\ ReachedInv'
        BY <2>1, <2>2, <2>3 DEF TypeOK, PhaseInv, ReachedInv
    <2>8. FirstInv'
        BY <2>1, <2>2, <2>3, <2>4 DEF FirstInv
    <2>9. SupportInv'
        BY <2>1, <2>2, <2>3, <2>5 DEF SupportInv
    <2> QED
        BY <2>6, <2>7, <2>8, <2>9 DEF ExploreInv
<1> QED
    BY <1>1, <1>2, <1>3, <1>4, <1>5, <1>6, <1>7 DEF Next

(* The explorations of every task keep the invariant.                      *)
THEOREM ExplorationInvariance == Spec => []ExploreInv
BY InitExploreInv, NextKeepsExploreInv, PTL DEF Spec
-------------------------------------------------------------------------------
LEMMA FiniteHasHighest ==
    ASSUME NEW S \in SUBSET Nat, IsFiniteSet(S), S # {}
    PROVE  Highest(S) \in S /\ \A n \in S : n <= Highest(S)
<1> DEFINE N == Cardinality(S)
<1>1. N \in Nat /\ ExistsBijection(1 .. N, S)
    BY FS_CardinalityType
<1>2. PICK f \in [1 .. N -> S] : \A s \in S : \E n \in 1 .. N : f[n] = s
    BY <1>1 DEF ExistsBijection, Bijection, Surjection
<1>3. \A n \in 1 .. N : f[n] \in Nat
    BY <1>2
<1> DEFINE IsTop(j, k) == j \in 1 .. k /\ \A n \in 1 .. k : f[n] <= f[j]
           Good == {k \in 0 .. N : k = 0 \/ \E j : IsTop(j, k)}
<1>4. 0 \in Good /\ \A k \in 1 .. N : k - 1 \in Good => k \in Good
    <2> SUFFICES ASSUME NEW k \in 1 .. N, k - 1 \in Good
                 PROVE  \E j : IsTop(j, k)
        BY <1>1
    <2>1. CASE k = 1
        <3>1. \A n \in 1 .. k : n = 1 /\ f[n] = f[1]
            BY <2>1
        <3>2. f[1] \in Nat
            BY <1>3, <2>1
        <3>3. IsTop(1, k)
            BY <2>1, <3>1, <3>2
        <3> QED
            BY <3>3
    <2>2. CASE k # 1
        <3>1. PICK j : IsTop(j, k - 1)
            <4>1. k - 1 # 0
                BY <2>2
            <4> HIDE DEF IsTop
            <4> QED
                BY <4>1
        <3>2. \A n \in 1 .. k : f[n] \in Nat /\ (n = k \/ n \in 1 .. k - 1)
            BY <1>1, <1>3
        <3>3. j \in 1 .. k /\ k \in 1 .. k /\ f[j] \in Nat /\ f[k] \in Nat
            BY <3>1, <3>2
        <3>4. \A n \in 1 .. k - 1 : f[n] <= f[j]
            BY <3>1
        <3>5. CASE f[k] <= f[j]
            <4>1. \A n \in 1 .. k : f[n] <= f[j]
                BY <3>2, <3>4, <3>5
            <4>2. IsTop(j, k)
                BY <3>3, <4>1
            <4> QED
                BY <4>2
        <3>6. CASE ~(f[k] <= f[j])
            <4>1. \A n \in 1 .. k : f[n] <= f[k]
                <5> TAKE n \in 1 .. k
                <5>1. f[n] \in Nat /\ (n = k \/ f[n] <= f[j])
                    BY <3>2, <3>4
                <5> QED
                    BY <3>3, <3>6, <5>1
            <4>2. IsTop(k, k)
                BY <3>3, <4>1
            <4> QED
                BY <4>2
        <3> QED
            BY <3>5, <3>6
    <2> QED
        BY <2>1, <2>2
<1>5. N \in Good
    <2> HIDE DEF Good, N
    <2> QED
        BY <1>1, <1>4, UpTo
<1>6. N # 0
    BY <1>1, FS_EmptySet
<1>7. PICK j \in 1 .. N : \A i \in 1 .. N : f[i] <= f[j]
    BY <1>5, <1>6
<1>8. f[j] \in S /\ \A n \in S : n <= f[j]
    BY <1>2, <1>7
<1> QED
    BY <1>8, HighestParts

(* Estimates that are not below h_max.                                     *)
Estimates ==
    {r \in SUBSET (Reached \X Nat) :
        /\ \A x, y \in r : x[1] = y[1] => x[2] = y[2]
        /\ \A x \in r : h_max_cost[x[1]] <= x[2]}

LEMMA CostsInParts ==
    ASSUME ExploreInv, phase = "LOOP", NEW r \in Estimates, NEW i \in RelaxedOperators,
           \A q \in i.pre : CostsIn(r, {q}) # {}
    PROVE  /\ supporter[i] # NoSupporter
           /\ Highest(CostsIn(r, i.pre)) \in Nat
           /\ h_max_cost[supporter[i]] <= Highest(CostsIn(r, i.pre))
           /\ (\A q \in i.pre : <<q, h_max_cost[q]>> \in r) =>
                Highest(CostsIn(r, i.pre)) = h_max_cost[supporter[i]]
<1> DEFINE S == CostsIn(r, i.pre)
<1>1. /\ i.pre # {} /\ IsFiniteSet(i.pre)
    BY RelaxedParts DEF ExploreInv, TypeOK
<1>2. /\ \A x \in r : /\ x[1] \in Reached /\ x[2] \in Nat /\ x = <<x[1], x[2]>>
                      /\ h_max_cost[x[1]] <= x[2]
      /\ \A x, y \in r : x[1] = y[1] => x[2] = y[2]
    BY DEF Estimates
<1>3. \A q \in i.pre : \E x \in r : x[1] = q
    BY DEF CostsIn
<1>4. \A c : c \in S <=> \E x \in r : x[1] \in i.pre /\ x[2] = c
    BY DEF CostsIn
<1> HIDE DEF S
<1>5. S \in SUBSET Nat /\ S # {}
    BY <1>1, <1>2, <1>3, <1>4
<1>6. IsFiniteSet(S)
    <2> DEFINE Of(q) == CHOOSE x \in r : x[1] = q
               f == [q \in i.pre |-> Of(q)[2]]
    <2>1. \A q \in i.pre : Of(q) \in r /\ Of(q)[1] = q
        BY <1>3
    <2> HIDE DEF Of
    <2>2. f \in [i.pre -> S]
        BY <1>4, <2>1
    <2>3. \A c \in S : \E q \in i.pre : f[q] = c
        <3> SUFFICES ASSUME NEW c \in S
                     PROVE  \E q \in i.pre : f[q] = c
            OBVIOUS
        <3>1. PICK x \in r : x[1] \in i.pre /\ x[2] = c
            BY <1>4
        <3>2. f[x[1]] = c
            BY <1>2, <2>1, <3>1
        <3> QED
            BY <3>1, <3>2
    <2>4. f \in Surjection(i.pre, S)
        BY <2>2, <2>3 DEF Surjection
    <2> HIDE DEF f
    <2> QED
        BY <1>1, <2>4, FS_Surjection
<1>7. Highest(S) \in S /\ \A n \in S : n <= Highest(S)
    BY <1>5, <1>6, FiniteHasHighest
<1>8. i.pre \subseteq Reached
    BY <1>2, <1>3
<1>9. /\ supporter[i] # NoSupporter /\ supporter[i] \in i.pre
      /\ \A q \in i.pre : /\ h_max_cost[q] \in Nat
                          /\ h_max_cost[q] <= h_max_cost[supporter[i]]
    BY <1>8, LoopParts
<1>10. h_max_cost[supporter[i]] <= Highest(S)
    <2>1. PICK x \in r : x[1] = supporter[i]
        BY <1>3, <1>9
    <2>2. x[2] \in S /\ h_max_cost[supporter[i]] <= x[2]
        BY <1>2, <1>4, <1>9, <2>1
    <2> QED
        BY <1>5, <1>7, <1>9, <2>2
<1>11. ASSUME \A q \in i.pre : <<q, h_max_cost[q]>> \in r
       PROVE  Highest(S) = h_max_cost[supporter[i]]
    <2>1. h_max_cost[supporter[i]] \in S
        <3> DEFINE x == <<supporter[i], h_max_cost[supporter[i]]>>
        <3>1. x \in r /\ x[1] \in i.pre /\ x[2] = h_max_cost[supporter[i]]
            BY <1>9, <1>11
        <3> QED
            BY <1>4, <3>1
    <2>2. ASSUME NEW c \in S
          PROVE  c <= h_max_cost[supporter[i]]
        <3>1. PICK x \in r : x[1] \in i.pre /\ x[2] = c
            BY <1>4
        <3> DEFINE y == <<x[1], h_max_cost[x[1]]>>
        <3>2. y \in r /\ y[1] = x[1] /\ y[2] = h_max_cost[x[1]]
            BY <1>11, <3>1
        <3>3. c = h_max_cost[x[1]]
            BY <1>2, <3>1, <3>2
        <3> QED
            BY <1>9, <3>1, <3>3
    <2> QED
        BY <1>5, <2>1, <2>2, HighestParts
<1> QED
    BY <1>5, <1>7, <1>9, <1>10, <1>11 DEF S

(* A round makes estimates of estimates, none higher than it was, and      *)
(* uses what is exact already.                                             *)
LEMMA RoundParts ==
    ASSUME ExploreInv, phase = "LOOP", NEW r \in Estimates
    PROVE  /\ HMaxRound(r) \in Estimates
           /\ \A x \in r : \E y \in HMaxRound(r) : y[1] = x[1] /\ y[2] <= x[2]
           /\ \A i \in RelaxedOperators : \A e \in i.eff :
                (\A q \in i.pre : <<q, h_max_cost[q]>> \in r) =>
                    \E y \in HMaxRound(r) : /\ y[1] = e
                                            /\ y[2] <= cost[i.group] + h_max_cost[supporter[i]]
<1> DEFINE Full(i) == \A q \in i.pre : CostsIn(r, {q}) # {}
           Offer(i) == cost[i.group] + Highest(CostsIn(r, i.pre))
<1>1. /\ task \in Tasks /\ Relaxed = RelaxedOperators /\ cost \in [Groups -> Nat]
    BY RelaxedIsRelaxedOperators DEF ExploreInv, TypeOK
<1>2. /\ \A x \in r : /\ x[1] \in Reached /\ x[2] \in Nat /\ x = <<x[1], x[2]>>
                      /\ h_max_cost[x[1]] <= x[2]
      /\ \A x, y \in r : x[1] = y[1] => x[2] = y[2]
    BY DEF Estimates
<1>3. ASSUME NEW i \in RelaxedOperators, Full(i), NEW e \in i.eff
      PROVE  Offer(i) \in Nat /\ e \in Reached /\ h_max_cost[e] <= Offer(i)
    <2>1. /\ supporter[i] # NoSupporter /\ Highest(CostsIn(r, i.pre)) \in Nat
          /\ h_max_cost[supporter[i]] <= Highest(CostsIn(r, i.pre))
        BY <1>3, CostsInParts
    <2>2. /\ e \in Reached /\ h_max_cost[e] \in Nat /\ h_max_cost[supporter[i]] \in Nat
          /\ h_max_cost[e] <= h_max_cost[supporter[i]] + cost[i.group]
        BY <2>1, LoopParts
    <2>3. cost[i.group] \in Nat
        BY <1>1, RelaxedParts
    <2> QED
        BY <2>1, <2>2, <2>3
<1>4. ASSUME NEW p, NEW c
      PROVE  c \in OffersTo(r, p) <=>
                \/ \E x \in r : x[1] = p /\ x[2] = c
                \/ \E i \in RelaxedOperators : p \in i.eff /\ Full(i) /\ c = Offer(i)
    BY <1>1 DEF OffersTo, CostsIn
<1> HIDE DEF Full, Offer
<1>5. ASSUME NEW p, NEW c \in OffersTo(r, p)
      PROVE  c \in Nat /\ p \in Reached /\ h_max_cost[p] <= c
    BY <1>2, <1>3, <1>4
<1>6. ASSUME NEW p, OffersTo(r, p) # {}
      PROVE  /\ Least(OffersTo(r, p)) \in OffersTo(r, p)
             /\ \A c \in OffersTo(r, p) : Least(OffersTo(r, p)) <= c
    <2>1. OffersTo(r, p) \in SUBSET Nat
        BY <1>5
    <2> QED
        BY <1>6, <2>1, LeastParts
<1>7. ASSUME NEW y \in HMaxRound(r)
      PROVE  /\ y = <<y[1], Least(OffersTo(r, y[1]))>> /\ OffersTo(r, y[1]) # {}
    BY DEF HMaxRound
<1>8. HMaxRound(r) \in Estimates
    <2>1. \A y \in HMaxRound(r) : /\ y \in Reached \X Nat /\ h_max_cost[y[1]] <= y[2]
                                  /\ y[2] = Least(OffersTo(r, y[1]))
        <3> TAKE y \in HMaxRound(r)
        <3>1. y = <<y[1], Least(OffersTo(r, y[1]))>> /\ OffersTo(r, y[1]) # {}
            BY <1>7
        <3>2. Least(OffersTo(r, y[1])) \in OffersTo(r, y[1])
            BY <1>6, <3>1
        <3>3. /\ y[2] = Least(OffersTo(r, y[1])) /\ y[2] \in Nat /\ y[1] \in Reached
              /\ h_max_cost[y[1]] <= y[2]
            BY <1>5, <3>1, <3>2
        <3> QED
            BY <3>1, <3>3
    <2> QED
        BY <2>1 DEF Estimates
<1>9. ASSUME NEW p, NEW c \in OffersTo(r, p)
      PROVE  \E y \in HMaxRound(r) : y[1] = p /\ y[2] <= c
    <2> DEFINE y == <<p, Least(OffersTo(r, p))>>
    <2>1. p \in Propositions
        BY <1>5 DEF Reached
    <2>2. y \in HMaxRound(r)
        BY <2>1 DEF HMaxRound
    <2>3. y[1] = p /\ y[2] <= c
        BY <1>6
    <2> QED
        BY <2>2, <2>3
<1>10. ASSUME NEW x \in r
       PROVE  \E y \in HMaxRound(r) : y[1] = x[1] /\ y[2] <= x[2]
    <2>1. x[2] \in OffersTo(r, x[1])
        BY <1>4
    <2> QED
        BY <1>9, <2>1
<1>11. ASSUME NEW i \in RelaxedOperators, NEW e \in i.eff,
              \A q \in i.pre : <<q, h_max_cost[q]>> \in r
       PROVE  \E y \in HMaxRound(r) : /\ y[1] = e
                                      /\ y[2] <= cost[i.group] + h_max_cost[supporter[i]]
    <2>1. Full(i)
        <3> SUFFICES ASSUME NEW q \in i.pre
                     PROVE  CostsIn(r, {q}) # {}
            BY DEF Full
        <3>1. <<q, h_max_cost[q]>> \in r
            BY <1>11
        <3> DEFINE x == <<q, h_max_cost[q]>>
        <3>2. x \in r /\ x[1] \in {q}
            BY <3>1
        <3> HIDE DEF x
        <3> QED
            BY <3>2 DEF CostsIn
    <2>2. Offer(i) \in OffersTo(r, e)
        BY <1>4, <2>1
    <2>3. Offer(i) = cost[i.group] + h_max_cost[supporter[i]]
        BY <1>11, <2>1, CostsInParts DEF Full, Offer
    <2> QED
        BY <1>9, <2>2, <2>3
<1> QED
    BY <1>8, <1>10, <1>11

(* When a round makes nothing exact that was not exact before, everything  *)
(* is: the cheapest of what is not could cost more, against soundness.     *)
LEMMA NothingIsLeft ==
    ASSUME ExploreInv, phase = "LOOP", NEW r \in Estimates,
           \A p \in StatePropositions : <<p, h_max_cost[p]>> \in r,
           \A p \in Reached : <<p, h_max_cost[p]>> \in HMaxRound(r) => <<p, h_max_cost[p]>> \in r
    PROVE  \A p \in Reached : <<p, h_max_cost[p]>> \in r
<1> DEFINE U == {p \in Reached : <<p, h_max_cost[p]>> \notin r}
<1> SUFFICES ASSUME U # {}
             PROVE  FALSE
    OBVIOUS
<1>1. /\ task \in Tasks /\ cost \in [Groups -> Nat]
      /\ h_max_cost \in [Propositions -> Nat \cup {UNREACHED}]
      /\ \A p \in StatePropositions : h_max_cost[p] = 0
    BY DEF ExploreInv, TypeOK, ReachedInv
<1>2. Reached \subseteq Propositions /\ \A p \in Reached : h_max_cost[p] \in Nat
    BY <1>1 DEF Reached
<1>3. PICK m \in {h_max_cost[p] : p \in U} : \A n \in {h_max_cost[p] : p \in U} : m <= n
    <2> DEFINE H == {h_max_cost[p] : p \in U}
    <2>1. H \in SUBSET Nat /\ H # {}
        BY <1>2
    <2>2. \E m \in H : \A n \in H : m <= n
        <3> HIDE DEF H
        <3> QED
            BY <2>1, SmallestNumber
    <2> QED
        BY <2>2
<1>4. m \in Nat /\ \A p \in U : m <= h_max_cost[p]
    BY <1>2, <1>3
<1>5. PICK u \in U : h_max_cost[u] = m
    BY <1>3
<1> DEFINE d == [p \in Propositions |-> IF p \notin Reached THEN 0
                                        ELSE IF p \in U /\ h_max_cost[p] = m THEN m + 1
                                        ELSE h_max_cost[p]]
<1>6. d \in [Propositions -> Nat]
    BY <1>2, <1>4
<1>7. ASSUME NEW p \in Reached
      PROVE  /\ d[p] \in Nat /\ h_max_cost[p] <= d[p]
             /\ p \in U => m + 1 <= d[p]
             /\ p \in U /\ h_max_cost[p] = m => d[p] = m + 1
             /\ ~(p \in U /\ h_max_cost[p] = m) => d[p] = h_max_cost[p]
    <2>1. p \in Propositions /\ h_max_cost[p] \in Nat /\ (p \in U => m <= h_max_cost[p])
        BY <1>2, <1>4
    <2>2. d[p] = IF p \in U /\ h_max_cost[p] = m THEN m + 1 ELSE h_max_cost[p]
        BY <2>1
    <2> HIDE DEF d, U
    <2> QED
        BY <1>4, <2>1, <2>2
<1> HIDE DEF d
<1>8. ASSUME NEW i \in RelaxedOperators, i.pre \subseteq Reached, NEW e \in i.eff
      PROVE  e \in Reached /\ \E q \in i.pre : d[e] <= cost[i.group] + d[q]
    <2> DEFINE s == supporter[i]
    <2>1. /\ s \in i.pre /\ h_max_cost[s] \in Nat
          /\ e \in Reached /\ h_max_cost[e] \in Nat /\ h_max_cost[e] <= h_max_cost[s] + cost[i.group]
        BY <1>8, LoopParts
    <2>2. cost[i.group] \in Nat
        BY <1>1, RelaxedParts
    <2>3. d[s] \in Nat /\ h_max_cost[s] <= d[s]
        BY <1>7, <1>8, <2>1
    <2> HIDE DEF s
    <2>4. CASE ~(e \in U /\ h_max_cost[e] = m)
        <3>1. d[e] = h_max_cost[e]
            BY <1>7, <2>1, <2>4
        <3>2. d[e] <= cost[i.group] + d[s]
            BY <2>1, <2>2, <2>3, <3>1
        <3> QED
            BY <2>1, <3>2
    <2>5. CASE e \in U /\ h_max_cost[e] = m /\ \E q \in i.pre : q \in U
        <3>1. PICK q \in i.pre : q \in U
            BY <2>5
        <3>2. d[e] = m + 1 /\ d[q] \in Nat /\ m + 1 <= d[q]
            BY <1>7, <1>8, <2>1, <2>5, <3>1
        <3>3. d[e] <= cost[i.group] + d[q]
            BY <1>4, <2>2, <3>2
        <3> QED
            BY <2>1, <3>3
    <2>6. CASE e \in U /\ h_max_cost[e] = m /\ \A q \in i.pre : q \notin U
        <3>1. \A q \in i.pre : <<q, h_max_cost[q]>> \in r
            BY <1>8, <2>6
        <3>2. PICK y \in HMaxRound(r) : y[1] = e /\ y[2] <= cost[i.group] + h_max_cost[s]
            BY <3>1, RoundParts DEF s
        <3>3. y = <<y[1], y[2]>> /\ y[2] \in Nat /\ h_max_cost[e] <= y[2]
            BY <3>2, RoundParts DEF Estimates
        <3>4. <<e, h_max_cost[e]>> \notin HMaxRound(r)
            BY <2>1, <2>6
        <3>5. y[2] # m
            BY <2>6, <3>2, <3>3, <3>4
        <3>6. d[e] = m + 1
            BY <1>7, <2>1, <2>6
        <3>7. d[e] <= cost[i.group] + d[s]
            BY <1>4, <2>1, <2>2, <2>3, <2>6, <3>2, <3>3, <3>5, <3>6
        <3> QED
            BY <2>1, <3>7
    <2> QED
        BY <2>4, <2>5, <2>6
<1>9. \A p \in StatePropositions : p \in Reached /\ d[p] = 0
    <2> TAKE p \in StatePropositions
    <2>1. h_max_cost[p] = 0 /\ p \in Reached
        BY <1>1, PropositionParts DEF Reached, UNREACHED
    <2>2. p \notin U
        OBVIOUS
    <2> HIDE DEF U
    <2> QED
        BY <1>7, <2>1, <2>2
<1>10. Explains(Reached, d)
    BY <1>8, <1>9 DEF Explains
<1>11. d[u] <= h_max_cost[u]
    BY <1>2, <1>5, <1>6, <1>10 DEF ExploreInv, SoundInv
<1>12. u \in Reached /\ d[u] = m + 1
    BY <1>5, <1>7
<1> QED
    BY <1>4, <1>5, <1>11, <1>12

LEMMA HMaxAgrees ==
    ASSUME ExploreInv, phase = "LOOP"
    PROVE  {<<p, h_max_cost[p]>> : p \in Reached} = HMax
<1> DEFINE N == Cardinality(Propositions)
           start == StatePropositions \X {0}
           rounds == CHOOSE g : g = [n \in 0 .. N |-> IF n = 0 THEN start ELSE HMaxRound(g[n - 1])]
           F == [y \in Estimates \X Nat |-> HMaxRound(y[1])]
           IsExact(p, r) == <<p, h_max_cost[p]>> \in r
<1>1. /\ task \in Tasks /\ h_max_cost \in [Propositions -> Nat \cup {UNREACHED}]
      /\ \A p \in StatePropositions : h_max_cost[p] = 0
    BY DEF ExploreInv, TypeOK, ReachedInv
<1>2. /\ IsFiniteSet(Propositions) /\ N \in Nat
      /\ StatePropositions \in SUBSET Propositions /\ StatePropositions # {}
    BY <1>1, PropositionParts
<1>3. HMax = rounds[N]
    BY DEF HMax
<1>4. start \in Estimates
    <2>1. \A p \in StatePropositions : p \in Reached /\ h_max_cost[p] = 0
        BY <1>1, <1>2 DEF Reached, UNREACHED
    <2> QED
        BY <2>1 DEF Estimates
<1>5. \A r \in Estimates : HMaxRound(r) \in Estimates
    BY RoundParts
<1>6. Iterations(Estimates, start, N, F) # {}
    <2>1. F \in Steps(Estimates)
        BY <1>5 DEF Steps
    <2> HIDE DEF F, N, start
    <2> QED
        BY <1>2, <1>4, <2>1, IterationExists
<1>7. \E g : g = [n \in 0 .. N |-> IF n = 0 THEN start ELSE HMaxRound(g[n - 1])]
    <2>1. PICK g \in Iterations(Estimates, start, N, F) : TRUE
        BY <1>6
    <2>2. /\ g \in [0 .. N -> Estimates] /\ g[0] = start
          /\ \A n \in 1 .. N : g[n] = F[<<g[n - 1], n>>]
        BY <2>1 DEF Iterations
    <2>3. \A n \in 0 .. N : n = 0 \/ (n \in 1 .. N /\ n - 1 \in 0 .. N)
        BY <1>2
    <2>4. \A r \in Estimates, n \in Nat : F[<<r, n>>] = HMaxRound(r)
        OBVIOUS
    <2> HIDE DEF N, start, F
    <2>5. ASSUME NEW n \in 1 .. N
          PROVE  g[n] = HMaxRound(g[n - 1])
        <3>1. g[n] = F[<<g[n - 1], n>>] /\ n - 1 \in 0 .. N /\ n \in Nat
            BY <1>2, <2>2
        <3> QED
            BY <2>2, <2>4, <3>1
    <2>6. g = [n \in 0 .. N |-> IF n = 0 THEN start ELSE HMaxRound(g[n - 1])]
        BY <2>2, <2>3, <2>5
    <2> QED
        BY <2>6
<1>8. rounds = [n \in 0 .. N |-> IF n = 0 THEN start ELSE HMaxRound(rounds[n - 1])]
    <2> HIDE DEF N, start
    <2> QED
        BY <1>7
<1> HIDE DEF rounds
<1>9. rounds[0] = start /\ \A n \in 1 .. N : n - 1 \in 0 .. N /\ rounds[n] = HMaxRound(rounds[n - 1])
    <2> HIDE DEF N, start
    <2>1. \A n \in 1 .. N : n \in 0 .. N /\ n # 0 /\ n - 1 \in 0 .. N
        BY <1>2
    <2> QED
        BY <1>2, <1>8, <2>1
<1>10. \A n \in 0 .. N : rounds[n] \in Estimates
    <2> DEFINE Fine == {n \in 0 .. N : rounds[n] \in Estimates}
    <2> HIDE DEF N, start
    <2>1. 0 \in Fine
        BY <1>2, <1>4, <1>9
    <2>2. \A n \in 1 .. N : n - 1 \in Fine => n \in Fine
        BY <1>2, <1>5, <1>9
    <2>3. \A n \in 0 .. N : n \in Fine
        <3> HIDE DEF Fine
        <3> QED
            BY <1>2, <2>1, <2>2, UpTo
    <2> QED
        BY <2>3
<1> DEFINE exact == [n \in 0 .. N |-> {p \in Reached : IsExact(p, rounds[n])}]
<1>11. ASSUME NEW n \in 1 .. N
       PROVE  exact[n - 1] \subseteq exact[n]
    <2>1. /\ n - 1 \in 0 .. N /\ n \in 0 .. N /\ rounds[n] = HMaxRound(rounds[n - 1])
          /\ rounds[n - 1] \in Estimates /\ rounds[n] \in Estimates
        BY <1>2, <1>9, <1>10
    <2>2. ASSUME NEW p \in Reached, IsExact(p, rounds[n - 1])
          PROVE  IsExact(p, rounds[n])
        <3> DEFINE x == <<p, h_max_cost[p]>>
        <3>1. x \in rounds[n - 1] /\ x[1] = p /\ x[2] = h_max_cost[p]
            BY <2>2
        <3>2. PICK y \in rounds[n] : y[1] = x[1] /\ y[2] <= x[2]
            <4> HIDE DEF x
            <4> QED
                BY <2>1, <3>1, RoundParts
        <3>3. y[2] \in Nat /\ h_max_cost[p] <= y[2] /\ y = <<y[1], y[2]>>
            BY <2>1, <3>1, <3>2 DEF Estimates
        <3>4. y[2] = h_max_cost[p] /\ y = <<p, h_max_cost[p]>>
            BY <1>1, <3>1, <3>2, <3>3 DEF Reached
        <3> QED
            BY <3>2, <3>4
    <2> QED
        BY <2>1, <2>2
<1>12. PICK m \in 1 .. N : exact[m] = exact[m - 1]
    <2>1. exact[0] # {}
        <3>1. PICK p \in StatePropositions : TRUE
            BY <1>2
        <3>2. h_max_cost[p] = 0 /\ p \in Reached
            BY <1>1, <1>2 DEF Reached, UNREACHED
        <3>3. IsExact(p, rounds[0])
            BY <1>9, <3>2
        <3> QED
            BY <1>2, <3>2, <3>3
    <2>2. \A n \in 0 .. N : exact[n] \in SUBSET Propositions
        BY DEF Reached
    <2> HIDE DEF exact
    <2> QED
        BY <1>2, <1>11, <2>1, <2>2, ChainStandsStill
<1>13. \A p \in Reached : IsExact(p, rounds[m - 1])
    <2>1. /\ m - 1 \in 0 .. N /\ m \in 0 .. N /\ rounds[m] = HMaxRound(rounds[m - 1])
          /\ rounds[m - 1] \in Estimates
        BY <1>2, <1>9, <1>10
    <2>2. \A p \in Reached : IsExact(p, rounds[m]) => IsExact(p, rounds[m - 1])
        BY <1>12, <2>1
    <2>3. \A p \in StatePropositions : IsExact(p, rounds[m - 1])
        <3> DEFINE Kept == {n \in 0 .. N : StatePropositions \subseteq exact[n]}
        <3>1. 0 \in Kept
            <4>1. \A p \in StatePropositions : p \in Reached /\ IsExact(p, rounds[0])
                BY <1>1, <1>2, <1>9 DEF Reached, UNREACHED
            <4> QED
                BY <1>2, <4>1
        <3>2. \A n \in 1 .. N : n - 1 \in Kept => n \in Kept
            <4> HIDE DEF exact
            <4> QED
                BY <1>2, <1>11
        <3>3. m - 1 \in Kept
            <4> HIDE DEF Kept
            <4> QED
                BY <1>2, <2>1, <3>1, <3>2, UpTo
        <3> QED
            BY <2>1, <3>3
    <2> QED
        BY <2>1, <2>2, <2>3, NothingIsLeft
<1>14. \A p \in Reached : IsExact(p, rounds[N])
    <2> DEFINE Kept == {n \in 0 .. N : n < m \/ exact[n] = Reached}
    <2>1. 0 \in Kept /\ N \in 0 .. N
        BY <1>2
    <2>2. exact[m] = Reached
        <3>1. m - 1 \in 0 .. N
            BY <1>9
        <3> QED
            BY <1>12, <1>13, <3>1
    <2>3. \A n \in 0 .. N : exact[n] \subseteq Reached
        OBVIOUS
    <2>4. ASSUME NEW n \in 1 .. N, n - 1 \in Kept
          PROVE  n \in Kept
        <3> HIDE DEF exact
        <3>1. n < m \/ n = m \/ ~(n - 1 < m)
            BY <1>2
        <3>2. n \in 0 .. N
            BY <1>2
        <3>3. CASE n < m
            BY <3>2, <3>3
        <3>4. CASE n = m
            BY <2>2, <3>2, <3>4
        <3>5. CASE ~(n - 1 < m)
            <4>1. exact[n - 1] = Reached
                BY <2>4, <3>5
            <4>2. exact[n - 1] \subseteq exact[n] /\ exact[n] \subseteq Reached
                BY <1>11, <2>3, <3>2
            <4> QED
                BY <3>2, <4>1, <4>2
        <3> QED
            BY <3>1, <3>3, <3>4, <3>5
    <2>5. N \in Kept
        <3> HIDE DEF Kept
        <3> QED
            BY <1>2, <2>1, <2>4, UpTo
    <2>6. ~(N < m)
        BY <1>2
    <2> QED
        BY <2>1, <2>5, <2>6
<1>15. rounds[N] \in Estimates
    BY <1>2, <1>10
<1>16. ASSUME NEW x \in rounds[N]
       PROVE  x[1] \in Reached /\ x = <<x[1], h_max_cost[x[1]]>>
    <2>1. x[1] \in Reached /\ x = <<x[1], x[2]>>
        BY <1>15 DEF Estimates
    <2> DEFINE y == <<x[1], h_max_cost[x[1]]>>
    <2>2. y \in rounds[N] /\ y[1] = x[1] /\ y[2] = h_max_cost[x[1]]
        BY <1>14, <2>1
    <2>3. x[2] = y[2]
        <3> HIDE DEF y
        <3> QED
            BY <1>15, <2>2 DEF Estimates
    <2> QED
        BY <2>1, <2>2, <2>3
<1> QED
    BY <1>3, <1>14, <1>16

(* Whenever the next cut is to be found, what the incremental exploration  *)
(* repaired is what a new one would compute, for every task and whatever   *)
(* the order in which cheapest propositions and operators are taken.       *)
THEOREM HMaxStaysUpToDate == Spec => []HMaxIsUpToDate
<1>1. ExploreInv => HMaxIsUpToDate
    <2> SUFFICES ASSUME ExploreInv, phase = "LOOP"
                 PROVE  HMaxIsUpToDate
        BY DEF HMaxIsUpToDate
    <2>1. {<<p, h_max_cost[p]>> : p \in {q \in Propositions : h_max_cost[q] # UNREACHED}} = HMax
        BY HMaxAgrees DEF Reached
    <2>2. ASSUME NEW i \in Relaxed
          PROVE  LET costs == {h_max_cost[p] : p \in i.pre}
                 IN  IF UNREACHED \in costs THEN supporter[i] = NoSupporter
                     ELSE /\ supporter[i] \in i.pre
                          /\ supporter_cost[i] = Highest(costs)
                          /\ h_max_cost[supporter[i]] = Highest(costs)
        <3> DEFINE costs == {h_max_cost[p] : p \in i.pre}
        <3>1. i \in RelaxedOperators /\ task \in Tasks
            BY RelaxedIsRelaxedOperators DEF ExploreInv, TypeOK
        <3>2. i.pre \subseteq Propositions
            BY <3>1, RelaxedParts
        <3>3. UNREACHED \in costs <=> ~(i.pre \subseteq Reached)
            BY <3>2 DEF Reached
        <3>4. CASE UNREACHED \in costs
            BY <3>1, <3>3, <3>4, LoopParts
        <3>5. CASE UNREACHED \notin costs
            <4>1. /\ supporter[i] \in i.pre /\ h_max_cost[supporter[i]] = supporter_cost[i]
                  /\ \A q \in i.pre : h_max_cost[q] \in Nat /\ h_max_cost[q] <= h_max_cost[supporter[i]]
                BY <3>1, <3>3, <3>5, LoopParts
            <4>2. costs \in SUBSET Nat /\ h_max_cost[supporter[i]] \in costs
                  /\ \A c \in costs : c <= h_max_cost[supporter[i]]
                BY <4>1
            <4>3. Highest(costs) = h_max_cost[supporter[i]]
                <5> HIDE DEF costs
                <5> QED
                    BY <4>2, HighestParts
            <4> QED
                BY <3>5, <4>1, <4>3
        <3> QED
            BY <3>4, <3>5
    <2> QED
        BY <2>1, <2>2 DEF HMaxIsUpToDate
<1> QED
    BY <1>1, ExplorationInvariance, PTL
-------------------------------------------------------------------------------
(* The total cost of landmarks is a sum over their numbers.                *)
AreMarks(marks) ==
    /\ Len(marks) \in Nat /\ DOMAIN marks = 1 .. Len(marks)
    /\ \A n \in DOMAIN marks : marks[n].cost \in Nat

Share(marks, numbers, n) == IF n \in numbers THEN marks[n].cost ELSE 0

SumsUp(marks, numbers, sum) ==
    /\ sum \in [0 .. Len(marks) -> Nat] /\ sum[0] = 0
    /\ \A n \in 1 .. Len(marks) : sum[n] = sum[n - 1] + Share(marks, numbers, n)

LEMMA TotalCostParts ==
    ASSUME NEW marks, AreMarks(marks), NEW numbers
    PROVE  \E sum : SumsUp(marks, numbers, sum) /\ TotalCost(marks, numbers) = sum[Len(marks)]
<1> DEFINE N == Len(marks)
           Part(n) == IF n \in numbers THEN marks[n].cost ELSE 0
           sum == CHOOSE g : g = [n \in 0 .. N |-> IF n = 0 THEN 0 ELSE g[n - 1] + Part(n)]
           F == [y \in Nat \X Nat |-> y[1] + (IF y[2] \in 1 .. N THEN Part(y[2]) ELSE 0)]
<1>1. N \in Nat /\ \A n \in 1 .. N : Part(n) \in Nat
    BY DEF AreMarks
<1>2. TotalCost(marks, numbers) = sum[N]
    BY DEF TotalCost
<1>3. F \in Steps(Nat)
    <2>1. \A y \in Nat \X Nat : y[1] + (IF y[2] \in 1 .. N THEN Part(y[2]) ELSE 0) \in Nat
        <3> HIDE DEF Part, N
        <3> QED
            BY <1>1
    <2> HIDE DEF Part, N
    <2> QED
        BY <2>1 DEF Steps
<1>4. PICK g \in [0 .. N -> Nat] : g[0] = 0 /\ \A n \in 1 .. N : g[n] = F[<<g[n - 1], n>>]
    <2> HIDE DEF F, N
    <2>1. Iterations(Nat, 0, N, F) # {}
        BY <1>1, <1>3, IterationExists
    <2> QED
        BY <2>1 DEF Iterations
<1>5. \A m \in Nat : \A n \in 1 .. N : F[<<m, n>>] = m + Part(n)
    <2> HIDE DEF Part
    <2> QED
        BY <1>1
<1>6. ASSUME NEW n \in 1 .. N
      PROVE  g[n] = g[n - 1] + Part(n)
    <2> HIDE DEF F, Part, N
    <2>1. n - 1 \in 0 .. N
        BY <1>1
    <2> QED
        BY <1>4, <1>5, <2>1
<1>7. g = [n \in 0 .. N |-> IF n = 0 THEN 0 ELSE g[n - 1] + Part(n)]
    <2> HIDE DEF F, Part, N
    <2>1. \A n \in 0 .. N : n = 0 \/ n \in 1 .. N
        BY <1>1
    <2> QED
        BY <1>4, <1>6, <2>1
<1>8. \E f : f = [n \in 0 .. N |-> IF n = 0 THEN 0 ELSE f[n - 1] + Part(n)]
    <2> HIDE DEF F, Part, N
    <2> QED
        BY <1>7
<1>9. sum = [n \in 0 .. N |-> IF n = 0 THEN 0 ELSE sum[n - 1] + Part(n)]
    <2> HIDE DEF Part, N
    <2> QED
        BY <1>8
<1> HIDE DEF sum
<1>10. sum[0] = 0 /\ \A n \in 1 .. N : sum[n] = sum[n - 1] + Part(n) /\ n - 1 \in 0 .. N
    <2> HIDE DEF Part, N
    <2>1. \A n \in 1 .. N : n \in 0 .. N /\ n # 0 /\ n - 1 \in 0 .. N
        BY <1>1
    <2> QED
        BY <1>1, <1>9, <2>1
<1>11. \A n \in 0 .. N : sum[n] \in Nat
    <2> DEFINE Good == {n \in 0 .. N : sum[n] \in Nat}
    <2>1. 0 \in Good /\ \A n \in 1 .. N : n - 1 \in Good => n \in Good
        <3> HIDE DEF Part, N
        <3> QED
            BY <1>1, <1>10
    <2>2. \A n \in 0 .. N : n \in Good
        <3> HIDE DEF Good, N
        <3> QED
            BY <1>1, <2>1, UpTo
    <2> QED
        BY <2>2
<1>12. sum \in [0 .. N -> Nat]
    <2> HIDE DEF Part, N
    <2> QED
        BY <1>9, <1>11
<1>13. SumsUp(marks, numbers, sum)
    <2>1. \A n : Part(n) = Share(marks, numbers, n)
        BY DEF Share
    <2> HIDE DEF Part
    <2> QED
        BY <1>10, <1>12, <2>1 DEF SumsUp
<1> QED
    BY <1>2, <1>13

(* What is counted in one of two sums or in both.                          *)
LEMMA TotalCostOfParts ==
    ASSUME NEW marks, AreMarks(marks), NEW A, NEW B, NEW K,
           \A n \in DOMAIN marks : n \in K => n \in A \/ n \in B
    PROVE  /\ TotalCost(marks, A) \in Nat /\ TotalCost(marks, B) \in Nat /\ TotalCost(marks, K) \in Nat
           /\ TotalCost(marks, K) <= TotalCost(marks, A) + TotalCost(marks, B)
<1> DEFINE N == Len(marks)
<1>1. N \in Nat /\ DOMAIN marks = 1 .. N /\ \A n \in 1 .. N : marks[n].cost \in Nat
    BY DEF AreMarks
<1>2. PICK a : SumsUp(marks, A, a) /\ TotalCost(marks, A) = a[N]
    BY TotalCostParts
<1>3. PICK b : SumsUp(marks, B, b) /\ TotalCost(marks, B) = b[N]
    BY TotalCostParts
<1>4. PICK k : SumsUp(marks, K, k) /\ TotalCost(marks, K) = k[N]
    BY TotalCostParts
<1> DEFINE Good == {n \in 0 .. N : k[n] <= a[n] + b[n]}
<1>5. 0 \in Good
    BY <1>1, <1>2, <1>3, <1>4 DEF SumsUp
<1>6. ASSUME NEW n \in 1 .. N, n - 1 \in Good
      PROVE  n \in Good
    <2>1. /\ n - 1 \in 0 .. N /\ n \in 0 .. N
          /\ a[n] = a[n - 1] + Share(marks, A, n) /\ a[n - 1] \in Nat
          /\ b[n] = b[n - 1] + Share(marks, B, n) /\ b[n - 1] \in Nat
          /\ k[n] = k[n - 1] + Share(marks, K, n) /\ k[n - 1] \in Nat
          /\ k[n - 1] <= a[n - 1] + b[n - 1]
        <3>1. n - 1 \in 0 .. N /\ n \in 0 .. N
            BY <1>1
        <3> QED
            BY <1>2, <1>3, <1>4, <1>6, <3>1 DEF SumsUp
    <2>2. /\ Share(marks, A, n) \in Nat /\ Share(marks, B, n) \in Nat /\ Share(marks, K, n) \in Nat
          /\ Share(marks, K, n) <= Share(marks, A, n) + Share(marks, B, n)
        BY <1>1 DEF Share
    <2>3. k[n] <= a[n] + b[n]
        <3>1. \A x, y, z, u, v, w \in Nat : x <= y + z /\ u <= v + w => x + u <= (y + v) + (z + w)
            OBVIOUS
        <3> DEFINE x == k[n - 1]
                   y == a[n - 1]
                   z == b[n - 1]
                   u == Share(marks, K, n)
                   v == Share(marks, A, n)
                   w == Share(marks, B, n)
        <3>2. /\ x \in Nat /\ y \in Nat /\ z \in Nat /\ x <= y + z
              /\ u \in Nat /\ v \in Nat /\ w \in Nat /\ u <= v + w
              /\ k[n] = x + u /\ a[n] = y + v /\ b[n] = z + w
            BY <2>1, <2>2
        <3> HIDE DEF x, y, z, u, v, w
        <3> QED
            BY <3>1, <3>2
    <2> QED
        BY <2>1, <2>3
<1>7. N \in Good
    <2>1. N \in 0 .. N
        BY <1>1
    <2> HIDE DEF Good
    <2> QED
        BY <1>1, <1>5, <1>6, <2>1, UpTo
<1>8. a[N] \in Nat /\ b[N] \in Nat /\ k[N] \in Nat
    BY <1>1, <1>2, <1>3, <1>4 DEF SumsUp
<1> QED
    BY <1>2, <1>3, <1>4, <1>7, <1>8

(* Nothing is counted when no number is a landmark's.                      *)
LEMMA TotalCostOfNothing ==
    ASSUME NEW marks, AreMarks(marks), NEW K, \A n \in DOMAIN marks : n \notin K
    PROVE  TotalCost(marks, K) = 0
<1> DEFINE N == Len(marks)
<1>1. N \in Nat /\ DOMAIN marks = 1 .. N
    BY DEF AreMarks
<1>2. PICK k : SumsUp(marks, K, k) /\ TotalCost(marks, K) = k[N]
    BY TotalCostParts
<1> DEFINE Good == {n \in 0 .. N : k[n] = 0}
<1>3. 0 \in Good /\ \A n \in 1 .. N : n - 1 \in Good => n \in Good
    <2>1. k[0] = 0 /\ \A n \in 1 .. N : k[n] = k[n - 1] + Share(marks, K, n)
        BY <1>2 DEF SumsUp
    <2>2. \A n \in 1 .. N : Share(marks, K, n) = 0 /\ n \in 0 .. N
        BY <1>1 DEF Share
    <2> QED
        BY <1>1, <2>1, <2>2
<1>4. N \in Good
    <2>1. N \in 0 .. N
        BY <1>1
    <2> HIDE DEF Good
    <2> QED
        BY <1>1, <1>3, <2>1, UpTo
<1> QED
    BY <1>2, <1>4

(* One landmark more counts when its number does.                          *)
LEMMA TotalCostOfMore ==
    ASSUME NEW marks, AreMarks(marks), NEW more, AreMarks(more), Len(more) = Len(marks) + 1,
           \A n \in DOMAIN marks : more[n] = marks[n],
           NEW K, NEW L, \A n \in DOMAIN marks : n \in K <=> n \in L
    PROVE  TotalCost(more, L) = TotalCost(marks, K) + Share(more, L, Len(more))
<1> DEFINE N == Len(marks)
<1>1. N \in Nat /\ DOMAIN marks = 1 .. N /\ DOMAIN more = 1 .. N + 1
    BY DEF AreMarks
<1>2. PICK k : SumsUp(marks, K, k) /\ TotalCost(marks, K) = k[N]
    BY TotalCostParts
<1>3. PICK l : SumsUp(more, L, l) /\ TotalCost(more, L) = l[N + 1]
    BY TotalCostParts
<1> DEFINE Good == {n \in 0 .. N : l[n] = k[n]}
<1>4. 0 \in Good
    BY <1>1, <1>2, <1>3 DEF SumsUp
<1>5. ASSUME NEW n \in 1 .. N, n - 1 \in Good
      PROVE  n \in Good
    <2>1. n \in 1 .. N + 1 /\ n \in 0 .. N /\ n - 1 \in 0 .. N /\ n \in DOMAIN marks
        BY <1>1
    <2>2. l[n] = l[n - 1] + Share(more, L, n) /\ k[n] = k[n - 1] + Share(marks, K, n)
        BY <1>2, <1>3, <2>1 DEF SumsUp
    <2>3. Share(more, L, n) = Share(marks, K, n)
        BY <2>1 DEF Share
    <2> QED
        BY <1>5, <2>1, <2>2, <2>3
<1>6. N \in Good
    <2>1. N \in 0 .. N
        BY <1>1
    <2> HIDE DEF Good
    <2> QED
        BY <1>1, <1>4, <1>5, <2>1, UpTo
<1>7. l[N + 1] = l[N] + Share(more, L, N + 1)
    <2>1. N + 1 \in 1 .. Len(more) /\ (N + 1) - 1 = N
        BY <1>1
    <2> QED
        BY <1>3, <2>1 DEF SumsUp
<1> QED
    BY <1>2, <1>3, <1>6, <1>7
-------------------------------------------------------------------------------
(* What a cut adds to the landmarks, and takes off the costs of its groups. *)
LandmarkInv == ExploreInv /\ CutInv /\ CostInv

LEMMA LandmarksAreMarks ==
    ASSUME TypeOK
    PROVE  /\ AreMarks(landmarks)
           /\ \A k \in DOMAIN landmarks : landmarks[k].groups \subseteq Groups
<1> DEFINE Record == [groups : SUBSET Groups, cost : Nat]
<1>1. landmarks \in Seq(Record)
    BY DEF TypeOK
<1>2. /\ Len(landmarks) \in Nat /\ DOMAIN landmarks = 1 .. Len(landmarks)
      /\ \A k \in DOMAIN landmarks : landmarks[k] \in Record
    <2> HIDE DEF Record
    <2> QED
        BY <1>1
<1>3. \A l \in Record : l.cost \in Nat /\ l.groups \subseteq Groups
    OBVIOUS
<1> HIDE DEF Record
<1> QED
    BY <1>2, <1>3 DEF AreMarks

LEMMA InitLandmarkInv == Init => LandmarkInv
<1> SUFFICES ASSUME Init
             PROVE  LandmarkInv
    OBVIOUS
<1>1. ExploreInv /\ TypeOK
    BY InitExploreInv DEF ExploreInv
<1>2. landmarks = <<>> /\ cost = [group \in Groups |-> BaseCost(group)] /\ task \in Tasks
    BY DEF Init
<1>3. CutInv
    BY <1>2 DEF CutInv
<1>4. ASSUME NEW g \in Groups
      PROVE  cost[g] <= BaseCost(g) /\ TotalCost(landmarks, LandmarksOf(g)) = BaseCost(g) - cost[g]
    <2>1. cost[g] = BaseCost(g) /\ cost[g] \in Nat
        BY <1>1, <1>2 DEF TypeOK
    <2>2. \A n \in DOMAIN landmarks : n \notin LandmarksOf(g)
        BY <1>2
    <2>3. TotalCost(landmarks, LandmarksOf(g)) = 0
        BY <1>1, <2>2, LandmarksAreMarks, TotalCostOfNothing
    <2> QED
        BY <2>1, <2>3
<1> QED
    BY <1>1, <1>3, <1>4 DEF LandmarkInv, CostInv

(* The goal operator is free, and so in no cut.                            *)
LEMMA CostlyGroups ==
    ASSUME task \in Tasks, NEW g \in Groups
    PROVE  /\ BaseCost(g) \in Nat
           /\ BaseCost(g) # 0 => g \in Ops(task)
<1>1. \A o \in Ops(task) : task.operators[o].cost \in Nat
    BY PropositionParts, TaskParts
<1> QED
    BY <1>1 DEF BaseCost

LEMMA FindCutKeepsLandmarkInv ==
    ASSUME LandmarkInv, FindCut
    PROVE  CutInv' /\ CostInv'
<1>1. ExploreInv /\ TypeOK /\ CutInv /\ CostInv /\ task \in Tasks /\ cost \in [Groups -> Nat]
    BY DEF LandmarkInv, ExploreInv, TypeOK
<1>2. PICK groups \in SUBSET Groups, cut_cost \in Nat :
        /\ \E B \in SUBSET Propositions : Separates(B, groups)
        /\ cut_cost # 0 /\ \A g \in groups : cost[g] # 0 /\ cut_cost <= cost[g]
        /\ cost' = [g \in Groups |-> IF g \in groups THEN cost[g] - cut_cost ELSE cost[g]]
        /\ landmarks' = Append(landmarks, [groups |-> groups, cost |-> cut_cost])
        /\ cost' \in [Groups -> Nat]
        /\ landmarks' \in Seq([groups : SUBSET Groups, cost : Nat])
    BY <1>1, FindCutParts
<1>3. task' = task
    BY DEF FindCut
<1>4. /\ Propositions' = Propositions /\ StatePropositions' = StatePropositions
      /\ RelaxedOperators' = RelaxedOperators /\ Groups' = Groups
      /\ (\A g : BaseCost(g)' = BaseCost(g)) /\ Ops(task)' = Ops(task)
    BY <1>3, SameTask
<1> DEFINE N == Len(landmarks)
           l == [groups |-> groups, cost |-> cut_cost]
<1>5. AreMarks(landmarks) /\ N \in Nat /\ DOMAIN landmarks = 1 .. N
    BY <1>1, LandmarksAreMarks DEF AreMarks
<1>6. /\ Len(landmarks') = N + 1 /\ DOMAIN landmarks' = 1 .. N + 1
      /\ \A n \in 1 .. N : landmarks'[n] = landmarks[n]
      /\ landmarks'[N + 1] = l
    <2>1. landmarks \in Seq([groups : SUBSET Groups, cost : Nat]) /\ landmarks' = Append(landmarks, l)
        BY <1>1, <1>2 DEF TypeOK
    <2> HIDE DEF l
    <2> QED
        BY <1>5, <2>1
<1>7. l.groups = groups /\ l.cost = cut_cost
    OBVIOUS
<1> HIDE DEF l
<1>8. \A n \in 1 .. N + 1 : n \in 1 .. N \/ n = N + 1
    BY <1>5
<1>9. AreMarks(landmarks')
    <2>1. \A n \in 1 .. N : landmarks[n].cost \in Nat
        BY <1>5 DEF AreMarks
    <2>2. \A n \in 1 .. N + 1 : landmarks'[n].cost \in Nat
        BY <1>2, <1>6, <1>7, <1>8, <2>1
    <2> QED
        BY <1>5, <1>6, <2>2 DEF AreMarks
<1>10. groups \subseteq Ops(task)
    <2> SUFFICES ASSUME NEW g \in groups
                 PROVE  g \in Ops(task)
        OBVIOUS
    <2>1. cost[g] \in Nat /\ cost[g] # 0 /\ cost[g] <= BaseCost(g) /\ g \in Groups
        BY <1>1, <1>2 DEF CostInv
    <2> QED
        BY <1>1, <2>1, CostlyGroups
<1>11. \A B, gs : Separates(B, gs)' <=> Separates(B, gs)
    BY <1>4 DEF Separates
<1>12. CutInv'
    <2> DEFINE Fine(c, gs) == /\ c # 0 /\ gs \subseteq Ops(task)
                              /\ \E B \in SUBSET Propositions : Separates(B, gs)
    <2>1. \A n \in 1 .. N : Fine(landmarks[n].cost, landmarks[n].groups)
        BY <1>1, <1>5 DEF CutInv
    <2>2. Fine(cut_cost, groups)
        BY <1>2, <1>10
    <2>3. \A n \in 1 .. N + 1 : Fine(landmarks'[n].cost, landmarks'[n].groups)
        <3> HIDE DEF Fine
        <3> QED
            BY <1>6, <1>7, <1>8, <2>1, <2>2
    <2> QED
        BY <1>4, <1>6, <1>11, <2>3 DEF CutInv
<1>13. ASSUME NEW g \in Groups
       PROVE  /\ cost'[g] <= BaseCost(g)
              /\ TotalCost(landmarks', LandmarksOf(g)') = BaseCost(g) - cost'[g]
    <2> DEFINE K == LandmarksOf(g)
               L == LandmarksOf(g)'
    <2>1. K = {k \in 1 .. N : g \in landmarks[k].groups}
        BY <1>5 DEF LandmarksOf
    <2>2. L = {k \in 1 .. N + 1 : g \in landmarks'[k].groups}
        BY <1>6 DEF LandmarksOf
    <2> HIDE DEF K, L
    <2>3. \A n \in 1 .. N : n \in 1 .. N + 1 /\ (n \in K <=> n \in L)
        BY <1>5, <1>6, <2>1, <2>2
    <2>4. N + 1 \in L <=> g \in groups
        BY <1>5, <1>6, <1>7, <2>2
    <2>5. TotalCost(landmarks', L) = TotalCost(landmarks, K) + Share(landmarks', L, N + 1)
        <3>1. /\ Len(landmarks') = Len(landmarks) + 1
              /\ \A n \in DOMAIN landmarks : landmarks'[n] = landmarks[n]
              /\ \A n \in DOMAIN landmarks : n \in K <=> n \in L
            BY <1>5, <1>6, <2>3
        <3> HIDE DEF N
        <3>2. TotalCost(landmarks', L) = TotalCost(landmarks, K) + Share(landmarks', L, Len(landmarks'))
            BY <1>5, <1>9, <3>1, TotalCostOfMore
        <3> QED
            BY <1>6, <3>2
    <2>6. Share(landmarks', L, N + 1) = IF g \in groups THEN cut_cost ELSE 0
        BY <1>6, <1>7, <2>4 DEF Share
    <2>7. /\ cost[g] \in Nat /\ cost[g] <= BaseCost(g) /\ BaseCost(g) \in Nat
          /\ TotalCost(landmarks, K) = BaseCost(g) - cost[g]
          /\ cost'[g] = IF g \in groups THEN cost[g] - cut_cost ELSE cost[g]
          /\ g \in groups => cut_cost <= cost[g]
        BY <1>1, <1>2, CostlyGroups DEF CostInv, K
    <2>8. /\ cost'[g] <= BaseCost(g)
          /\ TotalCost(landmarks', L) = BaseCost(g) - cost'[g]
        <3> DEFINE tk == TotalCost(landmarks, K)
                   tl == TotalCost(landmarks', L)
                   c == cost[g]
                   d == cost'[g]
                   b == BaseCost(g)
        <3>1. /\ c \in Nat /\ b \in Nat /\ c <= b /\ tk = b - c
              /\ d = (IF g \in groups THEN c - cut_cost ELSE c) /\ (g \in groups => cut_cost <= c)
              /\ tl = tk + (IF g \in groups THEN cut_cost ELSE 0)
            BY <2>5, <2>6, <2>7
        <3> HIDE DEF tk, tl, c, d, b
        <3>2. d <= b /\ tl = b - d
            BY <3>1
        <3> QED
            BY <3>2 DEF tl, d, b
    <2> QED
        BY <2>8 DEF L
<1>14. CostInv'
    BY <1>4, <1>13 DEF CostInv
<1> QED
    BY <1>12, <1>14

LEMMA NextKeepsLandmarkInv == LandmarkInv /\ [Next]_vars => LandmarkInv'
<1> SUFFICES ASSUME LandmarkInv, [Next]_vars
             PROVE  LandmarkInv'
    OBVIOUS
<1>1. ExploreInv'
    BY NextKeepsExploreInv DEF LandmarkInv
<1>2. CASE FindCut
    BY <1>1, <1>2, FindCutKeepsLandmarkInv DEF LandmarkInv
<1>3. CASE UNCHANGED <<task, cost, landmarks>>
    <2>1. /\ Propositions' = Propositions /\ StatePropositions' = StatePropositions
          /\ RelaxedOperators' = RelaxedOperators /\ Groups' = Groups
          /\ \A g : BaseCost(g)' = BaseCost(g)
        BY <1>3, SameTask
    <2>2. \A g : LandmarksOf(g)' = LandmarksOf(g)
        BY <1>3 DEF LandmarksOf
    <2>3. \A B, gs : Separates(B, gs)' <=> Separates(B, gs)
        BY <2>1 DEF Separates
    <2>4. CutInv' <=> CutInv
        BY <1>3, <2>1, <2>3 DEF CutInv
    <2>5. CostInv' <=> CostInv
        BY <1>3, <2>1, <2>2 DEF CostInv
    <2> QED
        BY <1>1, <2>4, <2>5 DEF LandmarkInv
<1>4. FindCut \/ UNCHANGED <<task, cost, landmarks>>
    BY DEF Next, PopFirst, PopIncremental, Repair, EndFirst, EndIncremental, EndLoop, vars
<1> QED
    BY <1>2, <1>3, <1>4

(* No cost is taken off twice: what the landmarks an operator is in cost   *)
(* and what is left of its cost make up its cost, for every task; and      *)
(* every landmark costs something and separates the state from the goal.   *)
THEOREM LandmarksShareCosts == Spec => [](CutInv /\ CostInv)
<1>1. LandmarkInv => CutInv /\ CostInv
    BY DEF LandmarkInv
<1> QED
    BY <1>1, InitLandmarkInv, NextKeepsLandmarkInv, PTL DEF Spec
-------------------------------------------------------------------------------
(* Effects lead no further than the relaxed operators do.                  *)
LEMMA EffectsStayInside ==
    ASSUME task \in Tasks, NEW B, artificial_precondition \in B, NEW o \in Ops(task),
           \A i \in RelaxedOperators : i.group = o /\ i.pre \subseteq B => i.eff \subseteq B,
           NEW e \in task.operators[o].effects,
           task.operators[o].pre \subseteq B, e.cond \subseteq B
    PROVE  <<e.var, e.val>> \in B
<1>1. PICK i \in RelaxedOperators :
            /\ i.group = o
            /\ i.pre \subseteq task.operators[o].pre \cup e.cond \cup {artificial_precondition}
            /\ <<e.var, e.val>> \in i.eff
    BY EffectsAreRelaxed
<1>2. i.pre \subseteq B
    BY <1>1
<1> QED
    BY <1>1, <1>2

(* On the near side of a cut there is no goal state.                       *)
LEMMA GoalIsOutside ==
    ASSUME task \in Tasks, NEW B, NEW groups, groups \subseteq Ops(task), Separates(B, groups),
           NEW s \in States(task), FactsOf(task, s) \subseteq B
    PROVE  ~IsGoalState(task, s)
<1> SUFFICES ASSUME IsGoalState(task, s)
             PROVE  FALSE
    OBVIOUS
<1>1. IsTask(task) /\ artificial_precondition \in B
    BY PropositionParts DEF Separates
<1>2. task.goal \subseteq B
    BY <1>1, TaskParts, HoldsWithin DEF IsGoalState
<1>3. PICK i \in RelaxedOperators :
            /\ i.group = Len(task.operators) + 1
            /\ i.pre \subseteq task.goal \cup {artificial_precondition}
            /\ artificial_goal \in i.eff
    BY GoalIsRelaxed
<1>4. i.group \notin groups
    <2>1. Len(task.operators) \in Nat /\ Ops(task) = 1 .. Len(task.operators)
        BY <1>1, TaskParts
    <2>2. Len(task.operators) + 1 \notin Ops(task)
        BY <2>1
    <2> QED
        BY <1>3, <2>2
<1>5. i.pre \subseteq B
    BY <1>1, <1>2, <1>3
<1> QED
    BY <1>3, <1>4, <1>5 DEF Separates

(* Where the operators of a cut do nothing, the goal is not reached.       *)
LEMMA CutOffFromGoal ==
    ASSUME task \in Tasks, NEW B, NEW groups, groups \subseteq Ops(task), Separates(B, groups),
           NEW t, IsTask(t), t.layers = <<>>,
           t.domains = task.domains, t.init = task.init, t.goal = task.goal,
           Ops(t) = Ops(task),
           \A o \in Ops(task) : IF o \in groups THEN t.operators[o].effects = {}
                                ELSE t.operators[o] = task.operators[o]
    PROVE  GoalCosts(t, FreeCosts(task), task.init) = {}
<1>1. IsTask(task) /\ artificial_precondition \in B /\ StatePropositions \subseteq B
    BY PropositionParts DEF Separates
<1>2. Vars(t) = Vars(task) /\ States(t) = States(task)
      /\ \A s : FactsOf(t, s) = FactsOf(task, s)
    BY DEF Vars, States, FactsOf
<1>3. FactsOf(t, t.init) \subseteq B
    BY <1>1, <1>2 DEF FactsOf, StatePropositions
<1>4. ASSUME NEW o \in Ops(t), NEW e \in t.operators[o].effects,
             t.operators[o].pre \subseteq B, e.cond \subseteq B
      PROVE  <<e.var, e.val>> \in B
    <2>1. o \notin groups /\ t.operators[o] = task.operators[o] /\ o \in Ops(task)
        BY <1>4
    <2>2. \A i \in RelaxedOperators : i.group = o /\ i.pre \subseteq B => i.eff \subseteq B
        BY <2>1 DEF Separates
    <2> QED
        BY <1>1, <1>4, <2>1, <2>2, EffectsStayInside
<1>5. \A o \in Ops(t) : EffectsStayIn(t, o, B)
    BY <1>4 DEF EffectsStayIn
<1>6. FreeCosts(task) \in [Ops(t) -> Nat]
    BY DEF FreeCosts
<1>7. \A x \in PathCosts(t, FreeCosts(task), task.init) :
            x[1] \in States(task) /\ FactsOf(task, x[1]) \subseteq B
    <2>1. \A x \in PathCosts(t, FreeCosts(task), t.init) : x[1] \in States(t) /\ FactsOf(t, x[1]) \subseteq B
        BY <1>3, <1>5, <1>6, PathsStayInside
    <2> QED
        BY <1>2, <2>1
<1>8. ASSUME NEW s \in States(task), FactsOf(task, s) \subseteq B
      PROVE  ~IsGoalState(t, s)
    BY <1>8, GoalIsOutside DEF IsGoalState
<1> QED
    BY <1>7, <1>8 DEF GoalCosts

LEMMA WithoutLandmarkParts ==
    ASSUME task \in Tasks, NEW l
    PROVE  LET t == WithoutLandmark(l)
           IN  /\ IsTask(t) /\ t.layers = <<>>
               /\ t.domains = task.domains /\ t.init = task.init /\ t.goal = task.goal
               /\ Ops(t) = Ops(task)
               /\ \A o \in Ops(task) : IF o \in l.groups THEN t.operators[o].effects = {}
                                       ELSE t.operators[o] = task.operators[o]
<1> DEFINE t == WithoutLandmark(l)
           Kept(o) == IF o \in l.groups THEN [task.operators[o] EXCEPT !.effects = {}]
                      ELSE task.operators[o]
           operators == [o \in DOMAIN task.operators |-> Kept(o)]
           Effs == {e \in [var : Vars(task),
                           val : UNION {0 .. task.domains[v] - 1 : v \in Vars(task)},
                           cond : SUBSET Facts(task)] : e.val < task.domains[e.var]}
           Records == [pre : SUBSET Facts(task), effects : SUBSET Effs, cost : Nat]
<1>1. IsTask(task) /\ task.layers = <<>>
    BY PropositionParts
<1>2. t = [task EXCEPT !.operators = operators]
    BY DEF WithoutLandmark
<1>3. task.operators \in Seq(Records)
    BY <1>1 DEF IsTask
<1>4. /\ Len(task.operators) \in Nat /\ Ops(task) = 1 .. Len(task.operators)
      /\ DOMAIN task.operators = Ops(task)
    BY <1>1, TaskParts DEF Ops
<1>5. \A o \in Ops(task) : task.operators[o] \in Records
    <2> HIDE DEF Records
    <2> QED
        BY <1>3, <1>4
<1>6. \A r \in Records : /\ [r EXCEPT !.effects = {}] \in Records
                         /\ [r EXCEPT !.effects = {}].effects = {}
    <2> HIDE DEF Effs
    <2> QED
        OBVIOUS
<1>7. \A o \in Ops(task) : /\ Kept(o) \in Records
                           /\ IF o \in l.groups THEN Kept(o).effects = {}
                              ELSE Kept(o) = task.operators[o]
    <2> HIDE DEF Records
    <2> QED
        BY <1>5, <1>6
<1>8. operators \in Seq(Records) /\ DOMAIN operators = Ops(task)
      /\ \A o \in Ops(task) : operators[o] = Kept(o)
    <2> HIDE DEF Records, Kept
    <2>1. operators = [o \in 1 .. Len(task.operators) |-> Kept(o)]
        BY <1>4
    <2>2. operators \in [1 .. Len(task.operators) -> Records]
        BY <1>4, <1>7, <2>1
    <2>3. \A n \in Nat : [1 .. n -> Records] \subseteq Seq(Records)
        OBVIOUS
    <2>4. operators \in Seq(Records)
        <3> HIDE DEF operators
        <3> QED
            BY <1>4, <2>2, <2>3
    <2> QED
        BY <1>4, <2>1, <2>4
<1>9. DOMAIN task = {"domains", "operators", "axioms", "layers", "init", "goal"}
    BY <1>1 DEF IsTask
<1> HIDE DEF operators
<1>10. /\ DOMAIN t = DOMAIN task
       /\ t.domains = task.domains /\ t.init = task.init /\ t.goal = task.goal
       /\ t.layers = task.layers /\ t.operators = operators
    BY <1>2, <1>9
<1> HIDE DEF t, Kept
<1>11. /\ Vars(t) = Vars(task) /\ States(t) = States(task) /\ Facts(t) = Facts(task)
       /\ Ops(t) = Ops(task)
    BY <1>8, <1>10 DEF Vars, States, Facts, Ops
<1>12. IsTask(t)
    <2>1. /\ DOMAIN t = {"domains", "operators", "axioms", "layers", "init", "goal"}
          /\ t.domains \in Seq(Nat \ {0}) /\ t.goal \subseteq Facts(t) /\ t.init \in States(t)
        BY <1>1, <1>9, <1>10, <1>11 DEF IsTask
    <2>2. Effs = {e \in [var : Vars(t), val : UNION {0 .. t.domains[v] - 1 : v \in Vars(t)},
                         cond : SUBSET Facts(t)] : e.val < t.domains[e.var]}
        BY <1>10, <1>11
    <2>3. t.operators \in Seq([pre : SUBSET Facts(t), effects : SUBSET Effs, cost : Nat])
        BY <1>8, <1>10, <1>11
    <2> HIDE DEF Effs, Records
    <2> QED
        BY <2>1, <2>2, <2>3 DEF IsTask
<1>13. \A o \in Ops(task) : IF o \in l.groups THEN t.operators[o].effects = {}
                            ELSE t.operators[o] = task.operators[o]
    <2> HIDE DEF Records
    <2> QED
        BY <1>7, <1>8, <1>10
<1> HIDE DEF Records, Effs
<1> QED
    BY <1>1, <1>10, <1>11, <1>12, <1>13 DEF t

(* When the first exploration does not get to the goal, no path does.      *)
LEMMA DeadEnd ==
    ASSUME ExploreInv, phase = "DEAD_END"
    PROVE  GoalCosts(task, FreeCosts(task), task.init) = {}
<1>1. /\ TypeOK /\ PhaseInv /\ ReachedInv /\ SupportInv /\ task \in Tasks
    BY DEF ExploreInv, TypeOK
<1>2. Separates(Reached, {})
    <2>1. artificial_goal \notin Reached
        BY <1>1 DEF PhaseInv
    <2>2. StatePropositions \subseteq Reached
        BY <1>1, PropositionParts DEF ReachedInv, Reached, UNREACHED
    <2>3. ASSUME NEW i \in RelaxedOperators, i.pre \subseteq Reached, NEW e \in i.eff
          PROVE  e \in Reached
        <3>1. supporter[i] # NoSupporter
            BY <1>1, <2>3 DEF SupportInv
        <3>2. h_max_cost[e] # UNREACHED
            BY <1>1, <2>3, <3>1 DEF SupportInv, IsSupported
        <3>3. e \in Propositions
            BY <1>1, <2>3, RelaxedParts
        <3> QED
            BY <3>2, <3>3 DEF Reached
    <2> QED
        BY <2>1, <2>2, <2>3 DEF Separates
<1>3. IsTask(task) /\ task.layers = <<>>
    BY <1>1, PropositionParts
<1> QED
    BY <1>1, <1>2, <1>3, CutOffFromGoal

(* A path pays for every landmark whose near side it leaves: an operator   *)
(* leaves those it is in only, and they cost no more than it does.         *)
LEMMA PathsPayForLandmarks ==
    ASSUME LandmarkInv
    PROVE  \A x \in GoalCosts(task, OperatorCosts(task), task.init) :
                TotalCost(landmarks, DOMAIN landmarks) <= x[2]
<1> DEFINE costs == OperatorCosts(task)
           Near(k) == CHOOSE B \in SUBSET Propositions : Separates(B, landmarks[k].groups)
           Passed(s) == {k \in DOMAIN landmarks : ~(FactsOf(task, s) \subseteq Near(k))}
           Good == {x \in States(task) \X Nat \X Nat : TotalCost(landmarks, Passed(x[1])) <= x[2]}
<1>1. /\ TypeOK /\ CutInv /\ CostInv /\ task \in Tasks /\ cost \in [Groups -> Nat]
    BY DEF LandmarkInv, ExploreInv, TypeOK
<1>2. IsTask(task) /\ task.layers = <<>> /\ Ops(task) \subseteq Groups
    BY <1>1, PropositionParts, TaskParts DEF Groups
<1>3. AreMarks(landmarks)
    BY <1>1, LandmarksAreMarks
<1>4. ASSUME NEW k \in DOMAIN landmarks
      PROVE  /\ Separates(Near(k), landmarks[k].groups)
             /\ landmarks[k].groups \subseteq Ops(task)
    BY <1>1 DEF CutInv
<1> HIDE DEF Near
<1>5. \A k : k \in Passed(task.init) => FALSE
    <2> SUFFICES ASSUME NEW k \in DOMAIN landmarks
                 PROVE  FactsOf(task, task.init) \subseteq Near(k)
        OBVIOUS
    <2> QED
        BY <1>4 DEF Separates, StatePropositions, FactsOf
<1>6. ASSUME NEW o \in Ops(task), NEW s \in States(task), IsApplicable(task, o, s)
      PROVE  /\ ReferenceSuccessor(task, o, s) \in States(task)
             /\ \A k \in Passed(ReferenceSuccessor(task, o, s)) : k \in Passed(s) \/ k \in LandmarksOf(o)
    <2> SUFFICES ASSUME NEW k \in DOMAIN landmarks, k \notin LandmarksOf(o),
                        FactsOf(task, s) \subseteq Near(k)
                 PROVE  FactsOf(task, ReferenceSuccessor(task, o, s)) \subseteq Near(k)
        BY <1>2, SuccessorIsState
    <2>1. o \notin landmarks[k].groups
        BY DEF LandmarksOf
    <2>2. /\ \A i \in RelaxedOperators : i.group = o /\ i.pre \subseteq Near(k) => i.eff \subseteq Near(k)
          /\ artificial_precondition \in Near(k)
        BY <1>1, <1>4, <2>1, PropositionParts DEF Separates
    <2>3. EffectsStayIn(task, o, Near(k))
        BY <1>1, <2>2, EffectsStayInside DEF EffectsStayIn
    <2> QED
        BY <1>2, <1>6, <2>3, StepStaysInside
<1>7. ASSUME NEW o \in Ops(task)
      PROVE  /\ costs[o] \in Nat /\ TotalCost(landmarks, LandmarksOf(o)) \in Nat
             /\ TotalCost(landmarks, LandmarksOf(o)) <= costs[o]
    <2>1. /\ costs[o] = BaseCost(o) /\ BaseCost(o) \in Nat /\ o \in Groups
        BY <1>1, <1>2, CostlyGroups DEF OperatorCosts, BaseCost
    <2>2. /\ cost[o] \in Nat /\ cost[o] <= BaseCost(o)
          /\ TotalCost(landmarks, LandmarksOf(o)) = BaseCost(o) - cost[o]
        BY <1>1, <2>1 DEF CostInv
    <2> HIDE DEF costs
    <2> QED
        BY <2>1, <2>2
<1>8. <<task.init, 0, 0>> \in Good
    <2>1. TotalCost(landmarks, Passed(task.init)) = 0
        <3> HIDE DEF Passed
        <3> QED
            BY <1>3, <1>5, TotalCostOfNothing
    <2>2. task.init \in States(task)
        BY <1>2, TaskParts
    <2> HIDE DEF Passed
    <2> QED
        BY <2>1, <2>2
<1>9. ASSUME NEW x \in Good, NEW o \in Ops(task), IsApplicable(task, o, x[1])
      PROVE  <<ReferenceSuccessor(task, o, x[1]), x[2] + costs[o], x[3] + 1>> \in Good
    <2> DEFINE next == ReferenceSuccessor(task, o, x[1])
               before == Passed(x[1])
               after == Passed(next)
    <2>1. x[1] \in States(task) /\ x[2] \in Nat /\ x[3] + 1 \in Nat
          /\ TotalCost(landmarks, before) <= x[2]
        <3> HIDE DEF Passed
        <3> QED
            OBVIOUS
    <2>2. next \in States(task) /\ \A k \in after : k \in before \/ k \in LandmarksOf(o)
        BY <1>6, <1>9, <2>1
    <2> HIDE DEF before, after, costs
    <2>3. /\ TotalCost(landmarks, before) \in Nat /\ TotalCost(landmarks, after) \in Nat
          /\ TotalCost(landmarks, after)
                <= TotalCost(landmarks, before) + TotalCost(landmarks, LandmarksOf(o))
        BY <1>3, <2>2, TotalCostOfParts
    <2>4. TotalCost(landmarks, after) <= x[2] + costs[o] /\ x[2] + costs[o] \in Nat
        <3>1. \A a, b, l, c, d \in Nat : a <= b + l /\ b <= c /\ l <= d => a <= c + d /\ c + d \in Nat
            OBVIOUS
        <3> QED
            BY <1>7, <2>1, <2>3, <3>1
    <2>5. TotalCost(landmarks, Passed(next)) <= x[2] + costs[o]
        BY <2>4 DEF after
    <2> HIDE DEF next, Passed
    <2> QED
        BY <2>1, <2>2, <2>4, <2>5 DEF next
<1>10. PathCosts(task, costs, task.init) \subseteq Good
    <2> HIDE DEF Good, costs
    <2> QED
        BY <1>2, <1>8, <1>9, PathsStayGood
<1>11. ASSUME NEW x \in PathCosts(task, costs, task.init), IsGoalState(task, x[1])
       PROVE  TotalCost(landmarks, DOMAIN landmarks) <= x[2]
    <2>1. /\ x[1] \in States(task) /\ x[2] \in Nat
          /\ TotalCost(landmarks, Passed(x[1])) <= x[2]
        <3> HIDE DEF Passed, costs
        <3> QED
            BY <1>10
    <2>2. \A k \in DOMAIN landmarks : k \in Passed(x[1])
        BY <1>1, <1>4, <1>11, <2>1, GoalIsOutside
    <2> HIDE DEF Passed
    <2>3. /\ TotalCost(landmarks, DOMAIN landmarks) \in Nat
          /\ TotalCost(landmarks, Passed(x[1])) \in Nat /\ TotalCost(landmarks, {}) \in Nat
          /\ TotalCost(landmarks, DOMAIN landmarks)
                <= TotalCost(landmarks, Passed(x[1])) + TotalCost(landmarks, {})
          /\ TotalCost(landmarks, {}) = 0
        BY <1>3, <2>2, TotalCostOfParts, TotalCostOfNothing
    <2> QED
        BY <2>1, <2>3
<1> QED
    BY <1>11 DEF GoalCosts

(* For every task: the operators of a landmark, which costs something, are *)
(* needed to reach the goal, no operator is charged more than it costs, no *)
(* plan is cheaper than all landmarks together, and where the heuristic    *)
(* finds a dead end there is no plan.                                      *)
THEOREM LandmarksStayAdmissible == Spec => []LandmarksAreAdmissible
<1>1. LandmarkInv => LandmarksAreAdmissible
    <2> SUFFICES ASSUME LandmarkInv
                 PROVE  LandmarksAreAdmissible
        OBVIOUS
    <2>1. ExploreInv /\ TypeOK /\ CutInv /\ CostInv /\ task \in Tasks
        BY DEF LandmarkInv, ExploreInv, TypeOK
    <2>2. ASSUME NEW k \in DOMAIN landmarks
          PROVE  /\ landmarks[k].cost > 0
                 /\ GoalCosts(WithoutLandmark(landmarks[k]), FreeCosts(task), task.init) = {}
        <3>1. landmarks[k].cost \in Nat /\ landmarks[k].cost # 0 /\ landmarks[k].groups \subseteq Ops(task)
            BY <2>1, LandmarksAreMarks DEF CutInv, AreMarks
        <3>2. PICK B \in SUBSET Propositions : Separates(B, landmarks[k].groups)
            BY <2>1 DEF CutInv
        <3> DEFINE t == WithoutLandmark(landmarks[k])
        <3>3. /\ IsTask(t) /\ t.layers = <<>>
              /\ t.domains = task.domains /\ t.init = task.init /\ t.goal = task.goal
              /\ Ops(t) = Ops(task)
              /\ \A o \in Ops(task) : IF o \in landmarks[k].groups THEN t.operators[o].effects = {}
                                      ELSE t.operators[o] = task.operators[o]
            BY <2>1, WithoutLandmarkParts
        <3> HIDE DEF t
        <3>4. GoalCosts(t, FreeCosts(task), task.init) = {}
            BY <2>1, <3>1, <3>2, <3>3, CutOffFromGoal
        <3> QED
            BY <3>1, <3>4 DEF t
    <2>3. \A g \in Groups : TotalCost(landmarks, LandmarksOf(g)) = BaseCost(g) - cost[g]
        BY <2>1 DEF CostInv
    <2>4. phase = "DEAD_END" => GoalCosts(task, FreeCosts(task), task.init) = {}
        BY <2>1, DeadEnd
    <2>5. \A x \in GoalCosts(task, OperatorCosts(task), task.init) :
                TotalCost(landmarks, DOMAIN landmarks) <= x[2]
        BY PathsPayForLandmarks
    <2> QED
        BY <2>2, <2>3, <2>4, <2>5 DEF LandmarksAreAdmissible
<1> QED
    BY <1>1, InitLandmarkInv, NextKeepsLandmarkInv, PTL DEF Spec
===============================================================================
