------------------------------- MODULE TaskLemmas -------------------------------
(***************************************************************************)
(* Facts that the proofs about the models share: about sets of numbers and *)
(* functions defined step by step; what the search over interchangeable    *)
(* operators relies on, in every task without axioms and conditional       *)
(* effects: operators that do not interfere can be applied in either       *)
(* order, with the same result; and about paths and what they cost.        *)
(***************************************************************************)
EXTENDS OperatorInteraction, TaskSemantics, FiniteSetsExt, FiniteSetTheorems, SequenceTheorems, WellFoundedInduction, TLAPS

(* Every set of numbers has a least one, and Min and Max are what they say. *)
LEMMA SmallestNumber ==
    ASSUME NEW S \in SUBSET Nat, S # {}
    PROVE  \E n \in S : \A m \in S : n <= m
<1> DEFINE R == {p \in Nat \X Nat : p[1] < p[2]}
<1>1. IsWellFoundedOn(R, Nat)
    BY NatLessThanWellFounded DEF OpToRel
<1>2. \E n \in S : \A m \in S : ~(<<m, n>> \in R)
    <2> HIDE DEF R
    <2> QED
        BY <1>1, WFMin
<1>3. \A m, n \in Nat : ~(<<m, n>> \in R) => n <= m
    OBVIOUS
<1> QED
    BY <1>2, <1>3

(* Min of a set of numbers with a least member is that member. *)
LEMMA MinIsLeast ==
    ASSUME NEW S \in SUBSET Nat, NEW n \in S, \A m \in S : n <= m
    PROVE  Min(S) = n
<1>1. Min(S) \in S /\ \A m \in S : Min(S) <= m
    BY DEF Min
<1>2. Min(S) \in Nat /\ n \in Nat /\ n <= Min(S) /\ Min(S) <= n
    BY <1>1
<1> QED
    BY <1>2

(* Min of a set of numbers that is not empty is its least member.         *)
LEMMA MinIsMember ==
    ASSUME NEW S \in SUBSET Nat, S # {}
    PROVE  Min(S) \in S /\ Min(S) \in Nat /\ \A m \in S : Min(S) <= m
<1>1. PICK n \in S : \A m \in S : n <= m
    BY SmallestNumber
<1>2. Min(S) = n
    BY <1>1, MinIsLeast
<1> QED
    BY <1>1, <1>2

(* Max of a set of numbers with a largest member is that member. *)
LEMMA MaxIsLargest ==
    ASSUME NEW S \in SUBSET Nat, NEW n \in S, \A m \in S : m <= n
    PROVE  Max(S) = n
<1>1. Max(S) \in S /\ \A m \in S : Max(S) >= m
    BY DEF Max
<1>2. Max(S) \in Nat /\ n \in Nat /\ Max(S) <= n /\ n <= Max(S)
    BY <1>1
<1> QED
    BY <1>2

(* A finite set of numbers that is not empty has a largest member.         *)
LEMMA MaxIsMember ==
    ASSUME NEW S \in SUBSET Nat, NEW bound \in Nat, S # {}, \A m \in S : m <= bound
    PROVE  Max(S) \in S
<1> DEFINE Above == {n \in Nat : \A m \in S : m <= n}
<1>1. Above \in SUBSET Nat /\ bound \in Above
    OBVIOUS
<1>2. PICK n \in Above : \A m \in Above : n <= m
    BY <1>1, SmallestNumber
<1>3. n \in S
    <2> SUFFICES ASSUME n \notin S
                 PROVE  FALSE
        OBVIOUS
    <2>1. \A m \in S : m \in Nat /\ m <= n /\ m # n
        OBVIOUS
    <2>2. PICK m \in S : TRUE
        OBVIOUS
    <2>3. n \in Nat /\ m \in Nat /\ m <= n /\ m # n
        BY <2>1, <2>2
    <2>4. n - 1 \in Nat /\ ~(n <= n - 1)
        BY <2>3
    <2>5. \A k \in S : k <= n - 1
        BY <2>1
    <2>6. n - 1 \in Above
        BY <2>4, <2>5
    <2> QED
        BY <1>2, <2>4, <2>6
<1>4. \A m \in S : m <= n
    OBVIOUS
<1>5. Max(S) = n
    <2> HIDE DEF Above
    <2> QED
        BY <1>3, <1>4, MaxIsLargest
<1> QED
    BY <1>3, <1>5
-------------------------------------------------------------------------------
(* What holds of 0 and with a number also of the next one holds of all up  *)
(* to a bound: the numbers of which it holds form a set.                   *)
LEMMA UpTo ==
    ASSUME NEW N \in Nat, NEW Good, 0 \in Good,
           \A n \in 1 .. N : n - 1 \in Good => n \in Good
    PROVE  \A n \in 0 .. N : n \in Good
<1> DEFINE Bad == {n \in 0 .. N : n \notin Good}
<1> SUFFICES ASSUME Bad # {}
             PROVE  FALSE
    OBVIOUS
<1>1. PICK n \in Bad : \A m \in Bad : n <= m
    <2>1. Bad \in SUBSET Nat
        OBVIOUS
    <2> HIDE DEF Bad
    <2> QED
        BY <2>1, SmallestNumber
<1>2. n \in 1 .. N /\ n - 1 \in 0 .. N /\ ~(n <= n - 1)
    OBVIOUS
<1> QED
    BY <1>1, <1>2

(* A function can be defined step by step up to a number.                  *)
Steps(D) == [D \X Nat -> D]
Iterations(D, start, N, F) ==
    {g \in [0 .. N -> D] : g[0] = start /\ \A n \in 1 .. N : g[n] = F[<<g[n - 1], n>>]}

LEMMA IterationExists ==
    ASSUME NEW D, NEW start \in D, NEW N \in Nat, NEW F \in Steps(D)
    PROVE  Iterations(D, start, N, F) # {}
<1> DEFINE Is(g, m) == g \in [0 .. m -> D] /\ g[0] = start /\ \A n \in 1 .. m : g[n] = F[<<g[n - 1], n>>]
           Good == {m \in Nat : \E g : Is(g, m)}
<1>1. 0 \in Good
    <2>1. Is([n \in 0 .. 0 |-> start], 0)
        OBVIOUS
    <2> QED
        BY <2>1
<1>2. ASSUME NEW m \in 1 .. N, m - 1 \in Good
      PROVE  m \in Good
    <2>1. PICK g : Is(g, m - 1)
        BY <1>2
    <2> DEFINE f == [n \in 0 .. m |-> IF n = m THEN F[<<g[m - 1], m>>] ELSE g[n]]
    <2>2. F[<<g[m - 1], m>>] \in D
        <3>1. m - 1 \in 0 .. m - 1 /\ m \in Nat
            OBVIOUS
        <3>2. <<g[m - 1], m>> \in D \X Nat
            BY <2>1, <3>1
        <3> QED
            BY <3>2 DEF Steps
    <2>3. f \in [0 .. m -> D] /\ f[0] = start
        BY <2>1, <2>2
    <2>4. ASSUME NEW n \in 1 .. m
          PROVE  f[n] = F[<<f[n - 1], n>>]
        <3>1. n - 1 \in 0 .. m - 1 /\ f[n - 1] = g[n - 1]
            OBVIOUS
        <3>2. CASE n = m
            <4>1. f[m] = F[<<g[m - 1], m>>] /\ f[m - 1] = g[m - 1]
                BY <3>1, <3>2
            <4> HIDE DEF f
            <4> QED
                BY <3>2, <4>1
        <3>3. CASE n # m
            BY <2>1, <3>1, <3>3
        <3> QED
            BY <3>2, <3>3
    <2>5. Is(f, m)
        BY <2>3, <2>4
    <2>6. \E h : Is(h, m)
        <3> HIDE DEF f, Is
        <3> QED
            BY <2>5
    <2> QED
        BY <2>6
<1>3. N \in Good
    <2> HIDE DEF Good
    <2> QED
        BY <1>1, <1>2, UpTo
<1> QED
    BY <1>3 DEF Iterations

(* A growing sequence of subsets of a finite set stands still at some      *)
(* point no later than the set has members.                                *)
LEMMA ChainStandsStill ==
    ASSUME NEW S, IsFiniteSet(S), NEW z, z[0] # {},
           \A n \in 0 .. Cardinality(S) : z[n] \in SUBSET S,
           \A n \in 1 .. Cardinality(S) : z[n - 1] \subseteq z[n]
    PROVE  \E n \in 1 .. Cardinality(S) : z[n] = z[n - 1]
<1> DEFINE N == Cardinality(S)
           Good == {n \in 0 .. N : Cardinality(z[n]) > n}
<1>1. N \in Nat /\ \A n \in 0 .. N : IsFiniteSet(z[n]) /\ Cardinality(z[n]) \in Nat /\ Cardinality(z[n]) <= N
    <2>1. N \in Nat
        BY FS_CardinalityType
    <2>2. ASSUME NEW n \in 0 .. N
          PROVE  IsFiniteSet(z[n]) /\ Cardinality(z[n]) \in Nat /\ Cardinality(z[n]) <= N
        <3>1. IsFiniteSet(z[n]) /\ Cardinality(z[n]) <= N
            BY FS_Subset
        <3> QED
            BY <3>1, FS_CardinalityType
    <2> QED
        BY <2>1, <2>2
<1> SUFFICES ASSUME \A n \in 1 .. N : z[n] # z[n - 1]
             PROVE  FALSE
    OBVIOUS
<1>2. 0 \in Good
    <2>1. IsFiniteSet(z[0]) /\ Cardinality(z[0]) \in Nat
        BY <1>1
    <2>2. Cardinality(z[0]) # 0
        BY <2>1, FS_EmptySet
    <2> QED
        BY <1>1, <2>1, <2>2
<1>3. ASSUME NEW n \in 1 .. N, n - 1 \in Good
      PROVE  n \in Good
    <2>1. z[n - 1] \in SUBSET z[n] /\ z[n - 1] # z[n]
        OBVIOUS
    <2>2. n - 1 \in 0 .. N /\ n \in 0 .. N
        BY <1>1
    <2>3. IsFiniteSet(z[n]) /\ Cardinality(z[n]) \in Nat /\ Cardinality(z[n - 1]) \in Nat
        BY <1>1, <2>2
    <2>4. Cardinality(z[n - 1]) <= Cardinality(z[n]) /\ Cardinality(z[n - 1]) # Cardinality(z[n])
        BY <2>1, <2>3, FS_Subset
    <2>5. Cardinality(z[n - 1]) > n - 1
        BY <1>3
    <2> QED
        BY <2>2, <2>3, <2>4, <2>5
<1>4. N \in Good
    <2> HIDE DEF Good, N
    <2> QED
        BY <1>1, <1>2, <1>3, UpTo
<1> QED
    BY <1>1, <1>4

(* A set that is extended again and again is complete after as many rounds *)
(* as there can be members, and has only what had to be added.             *)
LEMMA GrowthCompletes ==
    ASSUME NEW S, IsFiniteSet(S), NEW F \in [SUBSET S -> SUBSET S],
           \A x \in SUBSET S : x \subseteq F[x],
           NEW z, z[0] \in SUBSET S, z[0] # {},
           \A n \in 1 .. Cardinality(S) : z[n] = F[z[n - 1]]
    PROVE  /\ z[Cardinality(S)] \in SUBSET S
           /\ z[0] \subseteq z[Cardinality(S)]
           /\ F[z[Cardinality(S)]] = z[Cardinality(S)]
           /\ \A closed \in SUBSET S :
                z[0] \subseteq closed /\ (\A x \in SUBSET closed : F[x] \subseteq closed)
                    => z[Cardinality(S)] \subseteq closed
<1> DEFINE N == Cardinality(S)
           Within == {n \in 0 .. N : z[n] \in SUBSET S /\ z[0] \subseteq z[n]}
<1>1. N \in Nat
    BY FS_CardinalityType
<1>2. \A n \in 0 .. N : n \in Within
    <2> HIDE DEF N
    <2>1. 0 \in Within
        BY <1>1
    <2>2. ASSUME NEW n \in 1 .. N, n - 1 \in Within
          PROVE  n \in Within
        <3>1. n \in 0 .. N /\ z[n] = F[z[n - 1]]
            BY <1>1 DEF N
        <3>2. F[z[n - 1]] \in SUBSET S /\ z[n - 1] \subseteq F[z[n - 1]]
            BY <2>2
        <3> QED
            BY <2>2, <3>1, <3>2
    <2> HIDE DEF Within
    <2> QED
        BY <1>1, <2>1, <2>2, UpTo
<1>3. PICK m \in 1 .. N : z[m] = z[m - 1]
    <2>1. \A n \in 1 .. N : z[n - 1] \subseteq z[n]
        <3> TAKE n \in 1 .. N
        <3>1. n - 1 \in 0 .. N
            BY <1>1
        <3> QED
            BY <1>2, <3>1
    <2> QED
        BY <1>2, <2>1, ChainStandsStill
<1>4. F[z[m]] = z[m]
    BY <1>3
<1>5. z[N] = z[m]
    <2> DEFINE Still == {n \in 0 .. N : n < m \/ z[n] = z[m]}
    <2> HIDE DEF N
    <2>1. 0 \in Still
        BY <1>1, <1>3
    <2>2. ASSUME NEW n \in 1 .. N, n - 1 \in Still
          PROVE  n \in Still
        <3>1. n \in 0 .. N /\ z[n] = F[z[n - 1]]
            BY <1>1 DEF N
        <3>2. n < m \/ n = m \/ ~(n - 1 < m)
            BY <1>1
        <3> QED
            BY <1>4, <2>2, <3>1, <3>2
    <2> HIDE DEF Still
    <2>3. N \in Still
        BY <1>1, <2>1, <2>2, UpTo
    <2> QED
        BY <1>1, <2>3 DEF Still
<1>6. ASSUME NEW closed \in SUBSET S, z[0] \subseteq closed,
             \A x \in SUBSET closed : F[x] \subseteq closed
      PROVE  z[N] \subseteq closed
    <2> DEFINE In == {n \in 0 .. N : z[n] \subseteq closed}
    <2> HIDE DEF N
    <2>1. 0 \in In
        BY <1>1, <1>6
    <2>2. ASSUME NEW n \in 1 .. N, n - 1 \in In
          PROVE  n \in In
        <3>1. n \in 0 .. N /\ z[n] = F[z[n - 1]]
            BY <1>1 DEF N
        <3> QED
            BY <1>6, <2>2, <3>1
    <2> HIDE DEF In
    <2>3. N \in In
        BY <1>1, <2>1, <2>2, UpTo
    <2> QED
        BY <2>3 DEF In
<1>7. N \in 0 .. N
    BY <1>1
<1> QED
    BY <1>2, <1>4, <1>5, <1>6, <1>7

(* Such a sequence of sets exists.                                         *)
Growths(S, start, N, F) ==
    {g \in [0 .. N -> SUBSET S] : g[0] = start /\ \A n \in 1 .. N : g[n] = F[g[n - 1]]}

LEMMA GrowthExists ==
    ASSUME NEW S, NEW start \in SUBSET S, NEW N \in Nat, NEW F \in [SUBSET S -> SUBSET S]
    PROVE  Growths(S, start, N, F) # {}
<1> DEFINE D == SUBSET S
           G == [x \in D \X Nat |-> F[x[1]]]
<1>1. G \in Steps(D) /\ start \in D
    BY DEF Steps
<1>2. Iterations(D, start, N, G) # {}
    <2> HIDE DEF D, G
    <2> QED
        BY <1>1, IterationExists
<1>3. PICK g \in Iterations(D, start, N, G) : TRUE
    BY <1>2
<1>4. g \in [0 .. N -> D] /\ g[0] = start /\ \A n \in 1 .. N : g[n] = G[<<g[n - 1], n>>]
    BY <1>3 DEF Iterations
<1>5. ASSUME NEW n \in 1 .. N
      PROVE  g[n] = F[g[n - 1]]
    <2>1. n - 1 \in 0 .. N /\ n \in Nat
        OBVIOUS
    <2>2. <<g[n - 1], n>> \in D \X Nat
        BY <1>4, <2>1
    <2> HIDE DEF D
    <2> QED
        BY <1>4, <2>2
<1> QED
    BY <1>4, <1>5 DEF Growths
-------------------------------------------------------------------------------

(* The tasks that the constructor of OperatorInteraction accepts.          *)
IsSimpleTask(t) ==
    /\ Derived(t) = {}
    /\ \A o \in Ops(t) : /\ \A f \in t.operators[o].pre : f[1] \in Vars(t)
                         /\ \A e \in t.operators[o].effects : e.cond = {}

(* The value that an operator which sets a variable gives to it.           *)
Sets(t, o, v) == \E e \in t.operators[o].effects : e.var = v
ValueSet(t, o, v) == (CHOOSE e \in {f \in t.operators[o].effects : f.var = v} : TRUE).val

(* In such tasks the successor has the values set, and the old ones.       *)
LEMMA SimpleSuccessor ==
    ASSUME NEW t, IsSimpleTask(t), NEW o \in Ops(t), NEW s
    PROVE  Successor(t, o, s) =
                [v \in Vars(t) |-> IF Sets(t, o, v) THEN ValueSet(t, o, v) ELSE s[v]]
<1>1. Successor(t, o, s) = ApplyEffects(t, o, s)
    BY DEF Successor, Evaluate, IsSimpleTask
<1>2. FiringEffects(t, o, s) = t.operators[o].effects
    BY DEF FiringEffects, Holds, IsSimpleTask
<1> QED
    BY <1>1, <1>2 DEF ApplyEffects, Sets, ValueSet

(* A variable is set by one of the effects.                                *)
LEMMA SetByEffect ==
    ASSUME NEW t, NEW o, NEW v, Sets(t, o, v)
    PROVE  \E e \in t.operators[o].effects : e.var = v /\ e.val = ValueSet(t, o, v)
BY DEF Sets, ValueSet

(* An operator that cannot disable another one leaves it applicable.       *)
LEMMA StaysApplicable ==
    ASSUME NEW t, IsSimpleTask(t), NEW o1 \in Ops(t), NEW o2 \in Ops(t), NEW s,
           ~CanDisable(t, o1, o2), IsApplicable(t, o2, s)
    PROVE  IsApplicable(t, o2, Successor(t, o1, s))
<1> SUFFICES ASSUME NEW f \in t.operators[o2].pre
             PROVE  Successor(t, o1, s)[f[1]] = f[2]
    BY DEF IsApplicable, Holds
<1>1. f[1] \in Vars(t) /\ s[f[1]] = f[2]
    BY DEF IsSimpleTask, IsApplicable, Holds
<1>2. Successor(t, o1, s)[f[1]] = IF Sets(t, o1, f[1]) THEN ValueSet(t, o1, f[1]) ELSE s[f[1]]
    BY <1>1, SimpleSuccessor
<1>3. CASE Sets(t, o1, f[1])
    <2>1. PICK e \in t.operators[o1].effects :
                e.var = f[1] /\ e.val = ValueSet(t, o1, f[1])
        BY <1>3, SetByEffect
    <2>2. <<e.var, e.val>> \in Effects(t, o1)
        BY DEF Effects
    <2>3. e.val = f[2]
        BY <2>1, <2>2 DEF CanDisable, ContainConflictingFact
    <2> QED
        BY <1>2, <1>3, <2>1, <2>3
<1> QED
    BY <1>1, <1>2, <1>3

(* Operators that do not interfere, both applicable in a state, remain so  *)
(* after one another, and both orders lead to the same state: the test of  *)
(* interfere is enough for add_plan_reduce_order_neighbors, which takes it *)
(* for granted for every state of its search.                              *)
THEOREM InterchangeableOperators ==
    ASSUME NEW t, IsSimpleTask(t), NEW o1 \in Ops(t), NEW o2 \in Ops(t), NEW s,
           ~InterferingPair(t, o1, o2),
           IsApplicable(t, o1, s), IsApplicable(t, o2, s)
    PROVE  /\ IsApplicable(t, o2, Successor(t, o1, s))
           /\ IsApplicable(t, o1, Successor(t, o2, s))
           /\ Successor(t, o2, Successor(t, o1, s)) = Successor(t, o1, Successor(t, o2, s))
<1>1. ~CanDisable(t, o1, o2) /\ ~CanDisable(t, o2, o1) /\ ~CanConflict(t, o1, o2)
    BY DEF InterferingPair
<1>2. /\ IsApplicable(t, o2, Successor(t, o1, s))
      /\ IsApplicable(t, o1, Successor(t, o2, s))
    BY <1>1, StaysApplicable
<1> DEFINE Value(o, v, old) == IF Sets(t, o, v) THEN ValueSet(t, o, v) ELSE old
<1>3. /\ Successor(t, o2, Successor(t, o1, s)) =
            [v \in Vars(t) |-> Value(o2, v, Value(o1, v, s[v]))]
      /\ Successor(t, o1, Successor(t, o2, s)) =
            [v \in Vars(t) |-> Value(o1, v, Value(o2, v, s[v]))]
    <2>1. \A state : /\ Successor(t, o1, state) = [v \in Vars(t) |-> Value(o1, v, state[v])]
                     /\ Successor(t, o2, state) = [v \in Vars(t) |-> Value(o2, v, state[v])]
        BY SimpleSuccessor
    <2> HIDE DEF Value
    <2> QED
        BY <2>1
<1>4. ASSUME NEW v \in Vars(t)
      PROVE  Value(o2, v, Value(o1, v, s[v])) = Value(o1, v, Value(o2, v, s[v]))
    <2>1. ASSUME Sets(t, o1, v), Sets(t, o2, v)
          PROVE  ValueSet(t, o1, v) = ValueSet(t, o2, v)
        <3>1. PICK e \in t.operators[o1].effects : e.var = v /\ e.val = ValueSet(t, o1, v)
            BY <2>1, SetByEffect
        <3>2. PICK f \in t.operators[o2].effects : f.var = v /\ f.val = ValueSet(t, o2, v)
            BY <2>1, SetByEffect
        <3>3. <<e.var, e.val>> \in Effects(t, o1) /\ <<f.var, f.val>> \in Effects(t, o2)
            BY DEF Effects
        <3> QED
            BY <1>1, <3>1, <3>2, <3>3 DEF CanConflict, ContainConflictingFact
    <2> QED
        BY <2>1
<1> QED
    BY <1>2, <1>3, <1>4
-------------------------------------------------------------------------------
(* What a task that is read consists of.                                   *)
LEMMA TaskParts ==
    ASSUME NEW t, IsTask(t)
    PROVE  /\ Len(t.domains) \in Nat /\ Vars(t) = 1 .. Len(t.domains)
           /\ \A v \in Vars(t) : t.domains[v] \in Nat /\ t.domains[v] # 0
           /\ Len(t.operators) \in Nat /\ Ops(t) = 1 .. Len(t.operators)
           /\ \A o \in Ops(t) :
                /\ t.operators[o].pre \subseteq Facts(t)
                /\ t.operators[o].cost \in Nat
                /\ \A e \in t.operators[o].effects :
                    /\ e.var \in Vars(t) /\ e.val \in Nat /\ e.val < t.domains[e.var]
                    /\ e.cond \subseteq Facts(t)
           /\ t.goal \subseteq Facts(t)
           /\ t.init \in States(t)
<1>1. Len(t.domains) \in Nat /\ Vars(t) = 1 .. Len(t.domains)
    BY DEF IsTask, Vars
<1>2. \A v \in Vars(t) : t.domains[v] \in Nat /\ t.domains[v] # 0
    BY DEF IsTask, Vars
<1>3. Len(t.operators) \in Nat /\ Ops(t) = 1 .. Len(t.operators)
    BY DEF IsTask, Ops
<1>4. ASSUME NEW o \in Ops(t)
      PROVE  /\ t.operators[o].pre \subseteq Facts(t)
             /\ t.operators[o].cost \in Nat
             /\ \A e \in t.operators[o].effects :
                    /\ e.var \in Vars(t) /\ e.val \in Nat /\ e.val < t.domains[e.var]
                    /\ e.cond \subseteq Facts(t)
    <2> DEFINE Values == UNION {0 .. t.domains[v] - 1 : v \in Vars(t)}
               Effs == {e \in [var : Vars(t), val : Values, cond : SUBSET Facts(t)] :
                            e.val < t.domains[e.var]}
               Records == [pre : SUBSET Facts(t), effects : SUBSET Effs, cost : Nat]
    <2>1. t.operators[o] \in Records
        <3>1. t.operators \in Seq(Records)
            BY DEF IsTask
        <3>2. \A q \in Seq(Records) : \A n \in DOMAIN q : q[n] \in Records
            <4> HIDE DEF Records
            <4> QED
                OBVIOUS
        <3> HIDE DEF Records
        <3> QED
            BY <3>1, <3>2 DEF Ops
    <2>2. Values \subseteq Nat
        BY <1>2
    <2>3. \A e \in Effs : /\ e.var \in Vars(t) /\ e.val \in Nat /\ e.val < t.domains[e.var]
                         /\ e.cond \subseteq Facts(t)
        <3> HIDE DEF Values
        <3>1. \A e \in [var : Vars(t), val : Values, cond : SUBSET Facts(t)] :
                    e.var \in Vars(t) /\ e.val \in Values /\ e.cond \in SUBSET Facts(t)
            OBVIOUS
        <3> QED
            BY <2>2, <3>1
    <2> HIDE DEF Effs
    <2> QED
        BY <2>1, <2>3
<1> QED
    BY <1>1, <1>2, <1>3, <1>4 DEF IsTask

(* Facts and the values of a state.                                        *)
LEMMA FactParts ==
    ASSUME NEW t, IsTask(t), NEW f
    PROVE  f \in Facts(t) <=> \E v \in Vars(t), d \in Nat : d < t.domains[v] /\ f = <<v, d>>
<1>1. \A v \in Vars(t) : t.domains[v] \in Nat
    BY TaskParts
<1>2. \A v \in Vars(t) : \A d : d \in 0 .. t.domains[v] - 1 <=> d \in Nat /\ d < t.domains[v]
    BY <1>1
<1>3. f \in Facts(t) <=> \E v \in Vars(t), d \in Nat : d \in 0 .. t.domains[v] - 1 /\ f = <<v, d>>
    BY <1>2 DEF Facts
<1> QED
    BY <1>2, <1>3

(* A state gives each variable one of its values.                          *)
LEMMA StateParts ==
    ASSUME NEW t, IsTask(t), NEW s
    PROVE  s \in States(t) <=> /\ s = [v \in Vars(t) |-> s[v]]
                              /\ \A v \in Vars(t) : s[v] \in Nat /\ s[v] < t.domains[v]
<1> DEFINE Values == UNION {0 .. t.domains[v] - 1 : v \in Vars(t)}
<1>1. \A v \in Vars(t) : t.domains[v] \in Nat
    BY TaskParts
<1>2. \A v \in Vars(t) : \A d : d \in 0 .. t.domains[v] - 1 <=> d \in Nat /\ d < t.domains[v]
    BY <1>1
<1>3. Values \subseteq Nat
    BY <1>2
<1>4. \A v \in Vars(t) : s[v] \in Nat /\ s[v] < t.domains[v] => s[v] \in Values
    BY <1>2
<1>5. States(t) = {x \in [Vars(t) -> Values] : \A v \in Vars(t) : x[v] < t.domains[v]}
    BY DEF States
<1> HIDE DEF Values
<1> QED
    BY <1>3, <1>4, <1>5
-------------------------------------------------------------------------------
(* There are finitely many facts, and finitely many states.                *)
LEMMA FactsAreFinite ==
    ASSUME NEW t, IsTask(t)
    PROVE  IsFiniteSet(Facts(t))
<1> DEFINE Of(v) == {v} \X (0 .. t.domains[v] - 1)
           Sets_ == {Of(v) : v \in Vars(t)}
<1>1. IsFiniteSet(Vars(t)) /\ \A v \in Vars(t) : t.domains[v] \in Nat
    BY TaskParts, FS_Interval
<1>2. IsFiniteSet(Sets_)
    <2> DEFINE g == [v \in Vars(t) |-> Of(v)]
    <2>1. g \in Surjection(Vars(t), Sets_)
        BY DEF Surjection
    <2> HIDE DEF g, Sets_
    <2> QED
        BY <1>1, <2>1, FS_Surjection
<1>3. \A x \in Sets_ : IsFiniteSet(x)
    <2> SUFFICES ASSUME NEW v \in Vars(t)
                 PROVE  IsFiniteSet(Of(v))
        OBVIOUS
    <2>1. t.domains[v] - 1 \in Int
        BY <1>1
    <2>2. IsFiniteSet({v})
        BY FS_Singleton
    <2>3. IsFiniteSet(0 .. t.domains[v] - 1)
        BY <2>1, FS_Interval
    <2> QED
        BY <2>2, <2>3, FS_Product
<1>4. Facts(t) = UNION Sets_
    BY DEF Facts
<1> HIDE DEF Sets_
<1> QED
    BY <1>2, <1>3, <1>4, FS_UNION

(* A state is determined by its facts.                                     *)
LEMMA StatesAreFinite ==
    ASSUME NEW t, IsTask(t)
    PROVE  IsFiniteSet(States(t)) /\ Cardinality(States(t)) \in Nat
<1> DEFINE Graph(s) == {<<v, s[v]>> : v \in Vars(t)}
           graph == [s \in States(t) |-> Graph(s)]
<1>1. IsFiniteSet(SUBSET Facts(t))
    BY FactsAreFinite, FS_SUBSET
<1>2. ASSUME NEW s \in States(t)
      PROVE  Graph(s) \in SUBSET Facts(t)
    BY StateParts, FactParts
<1>3. ASSUME NEW s1 \in States(t), NEW s2 \in States(t), Graph(s1) = Graph(s2)
      PROVE  s1 = s2
    <2>1. \A v \in Vars(t) : <<v, s1[v]>> \in Graph(s2)
        BY <1>3
    <2>2. \A v \in Vars(t) : s1[v] = s2[v]
        BY <2>1
    <2>3. s1 = [v \in Vars(t) |-> s1[v]] /\ s2 = [v \in Vars(t) |-> s2[v]]
        BY StateParts
    <2> QED
        BY <2>2, <2>3
<1>4. graph \in Injection(States(t), SUBSET Facts(t))
    <2> HIDE DEF Graph
    <2>1. graph \in [States(t) -> SUBSET Facts(t)]
        BY <1>2
    <2>2. \A s1, s2 \in States(t) : graph[s1] = graph[s2] => s1 = s2
        BY <1>3
    <2> QED
        BY <2>1, <2>2 DEF Injection, IsInjective
<1>5. IsFiniteSet(States(t))
    <2> HIDE DEF graph
    <2> QED
        BY ONLY <1>1, <1>4, FS_Injection
<1> QED
    BY <1>5, FS_CardinalityType
-------------------------------------------------------------------------------
(* Without derived variables a successor is what the effects make of the   *)
(* state, and a state again.                                               *)
LEMMA PlainSuccessor ==
    ASSUME NEW t, t.layers = <<>>, NEW o, NEW s
    PROVE  ReferenceSuccessor(t, o, s) = ApplyEffects(t, o, s)
<1> DEFINE x == ApplyEffects(t, o, s)
           here(l) == {v \in Derived(t) : t.layers[v] = l}
           With(below, set) == [v \in Vars(t) |-> IF v \in set THEN 1 ELSE below[v]]
           closed(l, below) == {set \in SUBSET here(l) : \A i \in DOMAIN t.axioms :
                                    (/\ t.axioms[i].var \in here(l)
                                     /\ Holds(t.axioms[i].cond, With(below, set)))
                                        => t.axioms[i].var \in set}
           next(l, below) == With(below, {v \in here(l) : \A set \in closed(l, below) : v \in set})
           base == [v \in Vars(t) |-> IF v \in Derived(t) THEN 0 ELSE x[v]]
           layer == CHOOSE g : g = [l \in -1 .. LastLayer(t) |->
                                        IF l = -1 THEN base ELSE next(l, g[l - 1])]
<1>1. Derived(t) = {} /\ LastLayer(t) = -1
    BY DEF Derived, LastLayer
<1>2. StratifiedModel(t, x) = layer[LastLayer(t)]
    BY DEF StratifiedModel
<1>3. base = x
    BY <1>1 DEF ApplyEffects
<1>4. \E g : g = [l \in -1 .. LastLayer(t) |-> IF l = -1 THEN base ELSE next(l, g[l - 1])]
    <2> DEFINE g == [l \in -1 .. -1 |-> base]
    <2> HIDE DEF base, next
    <2>1. g = [l \in -1 .. LastLayer(t) |-> IF l = -1 THEN base ELSE next(l, g[l - 1])]
        BY <1>1
    <2> HIDE DEF g
    <2> QED
        BY <2>1
<1>5. layer = [l \in -1 .. LastLayer(t) |-> IF l = -1 THEN base ELSE next(l, layer[l - 1])]
    <2> HIDE DEF base, next
    <2> QED
        BY <1>4
<1>6. layer[LastLayer(t)] = base
    <2> HIDE DEF base, next, layer
    <2> QED
        BY <1>1, <1>5
<1> QED
    BY <1>2, <1>3, <1>6 DEF ReferenceSuccessor

(* It is a state, in which a value is the old one or that of an effect.    *)
LEMMA SuccessorIsState ==
    ASSUME NEW t, IsTask(t), t.layers = <<>>, NEW o \in Ops(t), NEW s \in States(t)
    PROVE  /\ ReferenceSuccessor(t, o, s) \in States(t)
           /\ \A v \in Vars(t) :
                \/ ReferenceSuccessor(t, o, s)[v] = s[v]
                \/ \E e \in t.operators[o].effects :
                        /\ Holds(e.cond, s) /\ e.var = v
                        /\ ReferenceSuccessor(t, o, s)[v] = e.val
<1> DEFINE next == ApplyEffects(t, o, s)
           Hits(v) == {e \in FiringEffects(t, o, s) : e.var = v}
<1>1. next = [v \in Vars(t) |-> IF Hits(v) = {} THEN s[v] ELSE (CHOOSE e \in Hits(v) : TRUE).val]
    BY DEF ApplyEffects
<1>2. ASSUME NEW v \in Vars(t)
      PROVE  \/ next[v] = s[v]
             \/ \E e \in t.operators[o].effects :
                        Holds(e.cond, s) /\ e.var = v /\ next[v] = e.val
    <2>1. CASE Hits(v) = {}
        BY <1>1, <2>1
    <2>2. CASE Hits(v) # {}
        <3> DEFINE e == CHOOSE e \in Hits(v) : TRUE
        <3>1. e \in Hits(v) /\ next[v] = e.val
            BY <1>1, <2>2
        <3> QED
            BY <3>1 DEF FiringEffects
    <2> QED
        BY <2>1, <2>2
<1>3. next \in States(t)
    <2>1. ASSUME NEW v \in Vars(t)
          PROVE  next[v] \in Nat /\ next[v] < t.domains[v]
        <3>1. s[v] \in Nat /\ s[v] < t.domains[v]
            BY StateParts
        <3>2. \A e \in t.operators[o].effects : e.var = v => e.val \in Nat /\ e.val < t.domains[v]
            BY TaskParts
        <3> HIDE DEF next
        <3> QED
            BY <1>2, <3>1, <3>2
    <2>2. next = [v \in Vars(t) |-> next[v]]
        BY <1>1
    <2> HIDE DEF next
    <2> QED
        BY <2>1, <2>2, StateParts
<1> QED
    BY <1>2, <1>3, PlainSuccessor
-------------------------------------------------------------------------------
(* The rounds in which the costs of paths are computed.  Whatever holds of *)
(* the start and along every step holds of everything in them.             *)
IsGood(t, costs, s, Good) ==
    /\ <<s, 0, 0>> \in Good
    /\ \A x \in Good : \A o \in Ops(t) : IsApplicable(t, o, x[1]) =>
            <<ReferenceSuccessor(t, o, x[1]), x[2] + costs[o], x[3] + 1>> \in Good

AreRounds(t, costs, s, Good, rounds) ==
    LET N == Cardinality(States(t))
    IN  /\ \A n \in 0 .. N : rounds[n] \in SUBSET Good
        /\ rounds[0] = {<<s, 0, 0>>}
        /\ \A n \in 1 .. N : rounds[n] = Cheapest(Extended(t, costs, rounds[n - 1]))
        /\ PathCosts(t, costs, s) = rounds[N]

(* The rounds stay within what is good.                                    *)
LEMMA PathRounds ==
    ASSUME NEW t, IsTask(t), NEW costs, NEW s, NEW Good, IsGood(t, costs, s, Good)
    PROVE  \E rounds : AreRounds(t, costs, s, Good, rounds)
<1> DEFINE N == Cardinality(States(t))
           start == {<<s, 0, 0>>}
           Round(reached) == Cheapest(Extended(t, costs, reached))
           rounds == CHOOSE g : g = [n \in 0 .. N |-> IF n = 0 THEN start ELSE Round(g[n - 1])]
           D == SUBSET Good
           F == [y \in D \X Nat |-> Round(y[1])]
<1>1. N \in Nat
    BY StatesAreFinite
<1>2. PathCosts(t, costs, s) = rounds[N]
    BY DEF PathCosts
<1>3. ASSUME NEW reached \in D
      PROVE  Round(reached) \in D
    <2>1. Extended(t, costs, reached) \subseteq Good
        BY DEF Extended, IsGood
    <2> QED
        BY <2>1 DEF Cheapest
<1>4. F \in Steps(D) /\ start \in D
    BY <1>3 DEF Steps, IsGood
<1>5. Iterations(D, start, N, F) # {}
    <2> HIDE DEF F, D, start, N
    <2> QED
        BY <1>1, <1>4, IterationExists
<1>6. \E g : g = [n \in 0 .. N |-> IF n = 0 THEN start ELSE Round(g[n - 1])]
    <2>1. PICK g \in [0 .. N -> D] : g[0] = start /\ \A n \in 1 .. N : g[n] = F[<<g[n - 1], n>>]
        <3> HIDE DEF F, D, start, N
        <3> QED
            BY <1>5 DEF Iterations
    <2>2. ASSUME NEW n \in 1 .. N
          PROVE  g[n] = Round(g[n - 1])
        <3>1. n - 1 \in 0 .. N /\ n \in Nat
            BY <1>1
        <3>2. <<g[n - 1], n>> \in D \X Nat
            BY <2>1, <3>1
        <3> HIDE DEF Round, D
        <3> QED
            BY <2>1, <3>2
    <2> HIDE DEF Round, D, start, N, F
    <2>3. g = [n \in 0 .. N |-> IF n = 0 THEN start ELSE Round(g[n - 1])]
        <3>1. \A n \in 0 .. N : n = 0 \/ n \in 1 .. N
            BY <1>1
        <3> QED
            BY <2>1, <2>2, <3>1
    <2> QED
        BY <2>3
<1>7. rounds = [n \in 0 .. N |-> IF n = 0 THEN start ELSE Round(rounds[n - 1])]
    <2> HIDE DEF Round, start, N
    <2> QED
        BY <1>6
<1> DEFINE Fine == {n \in 0 .. N : rounds[n] \in D}
<1>8. 0 \in Fine /\ \A n \in 1 .. N : n - 1 \in Fine => n \in Fine
    <2> HIDE DEF Round, N, rounds, start, D
    <2>1. 0 \in Fine
        BY <1>1, <1>4, <1>7
    <2>2. ASSUME NEW n \in 1 .. N, n - 1 \in Fine
          PROVE  n \in Fine
        <3>1. rounds[n] = Round(rounds[n - 1]) /\ n \in 0 .. N
            BY <1>1, <1>7
        <3> QED
            BY <1>3, <2>2, <3>1
    <2> QED
        BY <2>1, <2>2
<1>9. \A n \in 0 .. N : rounds[n] \in D
    <2>1. \A n \in 0 .. N : n \in Fine
        <3> HIDE DEF Fine, N
        <3> QED
            BY <1>1, <1>8, UpTo
    <2> QED
        BY <2>1
<1>10. rounds[0] = start /\ \A n \in 1 .. N : rounds[n] = Round(rounds[n - 1])
    <2> HIDE DEF Round, N, rounds, start
    <2>1. 0 \in 0 .. N /\ \A n \in 1 .. N : n \in 0 .. N /\ n # 0
        BY <1>1
    <2> QED
        BY <1>7, <2>1
<1> HIDE DEF rounds
<1>11. AreRounds(t, costs, s, Good, rounds)
    BY <1>2, <1>9, <1>10 DEF AreRounds
<1> QED
    BY <1>11

(* So does what they end with.                                             *)
LEMMA PathsStayGood ==
    ASSUME NEW t, IsTask(t), NEW costs, NEW s, NEW Good, <<s, 0, 0>> \in Good,
           \A x \in Good : \A o \in Ops(t) : IsApplicable(t, o, x[1]) =>
                <<ReferenceSuccessor(t, o, x[1]), x[2] + costs[o], x[3] + 1>> \in Good
    PROVE  PathCosts(t, costs, s) \subseteq Good
<1>1. PICK rounds : AreRounds(t, costs, s, Good, rounds)
    BY PathRounds DEF IsGood
<1>2. Cardinality(States(t)) \in 0 .. Cardinality(States(t))
    <2>1. Cardinality(States(t)) \in Nat
        BY StatesAreFinite
    <2> QED
        BY <2>1
<1> QED
    BY <1>1, <1>2 DEF AreRounds
-------------------------------------------------------------------------------
(* A state as a set of facts: conditions hold whose facts are among them.  *)
FactsOf(t, s) == {<<v, s[v]>> : v \in Vars(t)}

(* Conditions that hold in a state are among its facts.                    *)
LEMMA HoldsWithin ==
    ASSUME NEW t, IsTask(t), NEW s \in States(t), NEW facts, facts \subseteq Facts(t)
    PROVE  /\ FactsOf(t, s) \subseteq Facts(t)
           /\ Holds(facts, s) => facts \subseteq FactsOf(t, s)
<1>1. FactsOf(t, s) \subseteq Facts(t)
    BY StateParts, FactParts DEF FactsOf
<1>2. ASSUME Holds(facts, s), NEW f \in facts
      PROVE  f \in FactsOf(t, s)
    <2>1. PICK v \in Vars(t), d \in Nat : f = <<v, d>>
        BY FactParts
    <2>2. s[v] = d
        BY <1>2, <2>1 DEF Holds
    <2> QED
        BY <2>1, <2>2 DEF FactsOf
<1> QED
    BY <1>1, <1>2

(* Of an operator whose conditions are within a set, the effects are. *)
EffectsStayIn(t, o, B) ==
    \A e \in t.operators[o].effects :
        t.operators[o].pre \subseteq B /\ e.cond \subseteq B => <<e.var, e.val>> \in B

(* A step does not leave a set of facts that the effects do not lead out of. *)
LEMMA StepStaysInside ==
    ASSUME NEW t, IsTask(t), t.layers = <<>>, NEW o \in Ops(t), NEW s \in States(t),
           IsApplicable(t, o, s), NEW B, FactsOf(t, s) \subseteq B,
           EffectsStayIn(t, o, B)
    PROVE  FactsOf(t, ReferenceSuccessor(t, o, s)) \subseteq B
<1> DEFINE next == ReferenceSuccessor(t, o, s)
<1>1. /\ t.operators[o].pre \subseteq Facts(t)
      /\ \A e \in t.operators[o].effects : e.cond \subseteq Facts(t)
    BY TaskParts
<1>2. t.operators[o].pre \subseteq B
    BY <1>1, HoldsWithin DEF IsApplicable
<1>3. ASSUME NEW v \in Vars(t)
      PROVE  <<v, next[v]>> \in B
    <2>1. CASE next[v] = s[v]
        BY <2>1 DEF FactsOf
    <2>2. CASE \E e \in t.operators[o].effects : Holds(e.cond, s) /\ e.var = v /\ next[v] = e.val
        <3>1. PICK e \in t.operators[o].effects : Holds(e.cond, s) /\ e.var = v /\ next[v] = e.val
            BY <2>2
        <3>2. e.cond \subseteq B
            BY <1>1, <3>1, HoldsWithin
        <3> HIDE DEF next
        <3> QED
            BY <1>2, <3>1, <3>2 DEF EffectsStayIn
    <2> QED
        BY <2>1, <2>2, SuccessorIsState
<1> HIDE DEF next
<1>4. FactsOf(t, next) \subseteq B
    BY <1>3 DEF FactsOf
<1> QED
    BY <1>4 DEF next

(* Neither does a path.                                                    *)
LEMMA PathsStayInside ==
    ASSUME NEW t, IsTask(t), t.layers = <<>>, NEW costs \in [Ops(t) -> Nat],
           NEW B, FactsOf(t, t.init) \subseteq B,
           \A o \in Ops(t) : EffectsStayIn(t, o, B)
    PROVE  \A x \in PathCosts(t, costs, t.init) : x[1] \in States(t) /\ FactsOf(t, x[1]) \subseteq B
<1> DEFINE Good == {x \in States(t) \X Nat \X Nat : FactsOf(t, x[1]) \subseteq B}
<1>1. <<t.init, 0, 0>> \in Good
    BY TaskParts
<1>2. ASSUME NEW x \in Good, NEW o \in Ops(t), IsApplicable(t, o, x[1])
      PROVE  <<ReferenceSuccessor(t, o, x[1]), x[2] + costs[o], x[3] + 1>> \in Good
    <2>1. x[1] \in States(t) /\ x[2] + costs[o] \in Nat /\ x[3] + 1 \in Nat
        OBVIOUS
    <2>2. ReferenceSuccessor(t, o, x[1]) \in States(t)
        BY <2>1, SuccessorIsState
    <2>3. FactsOf(t, ReferenceSuccessor(t, o, x[1])) \subseteq B
        BY <1>2, <2>1, StepStaysInside
    <2> QED
        BY <2>1, <2>2, <2>3
<1>3. PathCosts(t, costs, t.init) \subseteq Good
    <2> HIDE DEF Good
    <2> QED
        BY <1>1, <1>2, PathsStayGood
<1> QED
    BY <1>3
-------------------------------------------------------------------------------
(* A path of the task from s, by its operators, its states and the sums of *)
(* their costs, and the triples of the paths: state, cost, length.         *)
IsPathOf(t, costs, s, ops, states, sums) ==
    /\ ops \in Seq(Ops(t)) /\ Len(ops) \in Nat
    /\ states \in [1 .. Len(ops) + 1 -> States(t)] /\ sums \in [1 .. Len(ops) + 1 -> Nat]
    /\ states[1] = s /\ sums[1] = 0
    /\ \A i \in 1 .. Len(ops) :
        /\ IsApplicable(t, ops[i], states[i])
        /\ states[i + 1] = ReferenceSuccessor(t, ops[i], states[i])
        /\ sums[i + 1] = sums[i] + costs[ops[i]]

EndsIn(ops, states, sums, x) ==
    x = <<states[Len(ops) + 1], sums[Len(ops) + 1], Len(ops)>>

PathEnds(t, costs, s) ==
    {x \in States(t) \X Nat \X Nat : \E ops, states, sums :
        IsPathOf(t, costs, s, ops, states, sums) /\ EndsIn(ops, states, sums, x)}

StepOf(t, costs, x, o) == <<ReferenceSuccessor(t, o, x[1]), x[2] + costs[o], x[3] + 1>>

(* The path of no operators.                                               *)
LEMMA EmptyPath ==
    ASSUME NEW t, NEW costs, NEW s \in States(t)
    PROVE  <<s, 0, 0>> \in PathEnds(t, costs, s)
<1> DEFINE ops == <<>>
           states == [i \in 1 .. 1 |-> s]
           sums == [i \in 1 .. 1 |-> 0]
<1>1. ops \in Seq(Ops(t)) /\ Len(ops) = 0 /\ 1 .. 0 = {} /\ 0 + 1 = 1
    OBVIOUS
<1>2. states[1] = s /\ sums[1] = 0 /\ states \in [1 .. 1 -> States(t)] /\ sums \in [1 .. 1 -> Nat]
    OBVIOUS
<1> HIDE DEF ops, states, sums
<1>3. IsPathOf(t, costs, s, ops, states, sums)
    BY <1>1, <1>2 DEF IsPathOf
<1>4. EndsIn(ops, states, sums, <<s, 0, 0>>)
    BY <1>1, <1>2 DEF EndsIn
<1> QED
    BY <1>3, <1>4 DEF PathEnds

(* A path goes on with every applicable operator.                          *)
LEMMA LongerPath ==
    ASSUME NEW t, IsTask(t), t.layers = <<>>, NEW costs \in [Ops(t) -> Nat], NEW s,
           NEW x \in PathEnds(t, costs, s), NEW o \in Ops(t), IsApplicable(t, o, x[1])
    PROVE  StepOf(t, costs, x, o) \in PathEnds(t, costs, s)
<1>1. PICK ops, states, sums :
            IsPathOf(t, costs, s, ops, states, sums) /\ EndsIn(ops, states, sums, x)
    BY DEF PathEnds
<1> PICK n : n = Len(ops)
    OBVIOUS
<1>2. /\ ops \in Seq(Ops(t)) /\ n \in Nat
      /\ states \in [1 .. n + 1 -> States(t)] /\ sums \in [1 .. n + 1 -> Nat]
      /\ states[1] = s /\ sums[1] = 0
      /\ \A i \in 1 .. n : /\ IsApplicable(t, ops[i], states[i])
                           /\ states[i + 1] = ReferenceSuccessor(t, ops[i], states[i])
                           /\ sums[i + 1] = sums[i] + costs[ops[i]]
    BY <1>1 DEF IsPathOf
<1>3. x[1] = states[n + 1] /\ x[2] = sums[n + 1] /\ x[3] = n
    BY <1>1 DEF EndsIn
<1> PICK next, w : next = ReferenceSuccessor(t, o, x[1]) /\ w = x[2] + costs[o]
    OBVIOUS
<1>4. next \in States(t) /\ w \in Nat /\ costs[o] \in Nat
    <2>1. x[1] \in States(t) /\ x[2] \in Nat
        BY DEF PathEnds
    <2> QED
        BY <2>1, SuccessorIsState
<1> DEFINE ops2 == Append(ops, o)
           states2 == [i \in 1 .. (n + 1) + 1 |-> IF i = n + 2 THEN next ELSE states[i]]
           sums2 == [i \in 1 .. (n + 1) + 1 |-> IF i = n + 2 THEN w ELSE sums[i]]
<1>5. /\ ops2 \in Seq(Ops(t)) /\ Len(ops2) = n + 1 /\ n + 1 \in Nat
      /\ \A i \in 1 .. n : ops2[i] = ops[i]
      /\ ops2[n + 1] = o
    BY <1>2
<1>6. /\ \A i \in 1 .. n + 1 : /\ states2[i] = states[i] /\ sums2[i] = sums[i]
                               /\ i \in 1 .. (n + 1) + 1
      /\ states2[n + 2] = next /\ sums2[n + 2] = w
    BY <1>2
<1>7. states2 \in [1 .. (n + 1) + 1 -> States(t)] /\ sums2 \in [1 .. (n + 1) + 1 -> Nat]
    <2>1. \A i \in 1 .. (n + 1) + 1 : i = n + 2 \/ i \in 1 .. n + 1
        BY <1>2
    <2> QED
        BY <1>2, <1>4, <2>1
<1> HIDE DEF ops2, states2, sums2
<1>8. ASSUME NEW i \in 1 .. n + 1
      PROVE  /\ IsApplicable(t, ops2[i], states2[i])
             /\ states2[i + 1] = ReferenceSuccessor(t, ops2[i], states2[i])
             /\ sums2[i + 1] = sums2[i] + costs[ops2[i]]
    <2>1. CASE i = n + 1
        <3>1. i + 1 = n + 2
            BY <1>2, <2>1
        <3> QED
            BY <1>3, <1>5, <1>6, <2>1, <3>1
    <2>2. CASE i # n + 1
        <3>1. i \in 1 .. n /\ i + 1 \in 1 .. n + 1
            BY <1>2, <2>2
        <3> QED
            BY <1>2, <1>5, <1>6, <3>1
    <2> QED
        BY <2>1, <2>2
<1>9. 1 \in 1 .. n + 1 /\ (n + 1) + 1 = n + 2
    BY <1>2
<1>10. IsPathOf(t, costs, s, ops2, states2, sums2)
    BY <1>2, <1>5, <1>6, <1>7, <1>8, <1>9 DEF IsPathOf
<1>11. EndsIn(ops2, states2, sums2, StepOf(t, costs, x, o))
    BY <1>3, <1>5, <1>6, <1>9 DEF EndsIn, StepOf
<1>12. StepOf(t, costs, x, o) \in States(t) \X Nat \X Nat
    <2>1. x[3] + 1 \in Nat
        BY <1>2, <1>3
    <2> QED
        BY <1>4, <2>1 DEF StepOf
<1> QED
    BY <1>10, <1>11, <1>12 DEF PathEnds

(* Every path but the empty one goes on from a path.                       *)
LEMMA ShorterPath ==
    ASSUME NEW t, NEW costs, NEW s, NEW x \in PathEnds(t, costs, s)
    PROVE  \/ x = <<s, 0, 0>>
           \/ \E y \in PathEnds(t, costs, s), o \in Ops(t) :
                IsApplicable(t, o, y[1]) /\ x = StepOf(t, costs, y, o)
<1>1. PICK ops, states, sums :
            IsPathOf(t, costs, s, ops, states, sums) /\ EndsIn(ops, states, sums, x)
    BY DEF PathEnds
<1> PICK n : n = Len(ops)
    OBVIOUS
<1>2. /\ ops \in Seq(Ops(t)) /\ n \in Nat
      /\ states \in [1 .. n + 1 -> States(t)] /\ sums \in [1 .. n + 1 -> Nat]
      /\ states[1] = s /\ sums[1] = 0
      /\ \A i \in 1 .. n : /\ IsApplicable(t, ops[i], states[i])
                           /\ states[i + 1] = ReferenceSuccessor(t, ops[i], states[i])
                           /\ sums[i + 1] = sums[i] + costs[ops[i]]
    BY <1>1 DEF IsPathOf
<1>3. x = <<states[n + 1], sums[n + 1], n>>
    BY <1>1 DEF EndsIn
<1>4. CASE n = 0
    BY <1>2, <1>3, <1>4
<1>5. CASE n # 0
    <2> DEFINE front == SubSeq(ops, 1, n - 1)
               states2 == [i \in 1 .. (n - 1) + 1 |-> states[i]]
               sums2 == [i \in 1 .. (n - 1) + 1 |-> sums[i]]
    <2> PICK y : y = <<states[n], sums[n], n - 1>>
        OBVIOUS
    <2>1. /\ n - 1 \in Nat /\ n \in 1 .. n /\ 1 \in 1 .. n /\ (n - 1) + 1 = n
          /\ \A i \in 1 .. n : i \in 1 .. n + 1
          /\ \A i \in 1 .. n - 1 : i \in 1 .. n /\ i + 1 \in 1 .. n
        BY <1>2, <1>5
    <2>2. /\ front \in Seq(Ops(t)) /\ Len(front) = n - 1
          /\ \A i \in 1 .. n - 1 : front[i] = ops[i]
        BY <1>2, <2>1
    <2>3. ops[n] \in Ops(t)
        BY <1>2, <2>1, ElementOfSeq
    <2>4. /\ states2 \in [1 .. (n - 1) + 1 -> States(t)] /\ sums2 \in [1 .. (n - 1) + 1 -> Nat]
          /\ \A i \in 1 .. n : states2[i] = states[i] /\ sums2[i] = sums[i]
        BY <1>2, <2>1
    <2> HIDE DEF front, states2, sums2
    <2>5. IsPathOf(t, costs, s, front, states2, sums2)
        BY <1>2, <2>1, <2>2, <2>4 DEF IsPathOf
    <2>6. EndsIn(front, states2, sums2, y)
        BY <2>1, <2>2, <2>4 DEF EndsIn
    <2>7. y \in States(t) \X Nat \X Nat
        BY <1>2, <2>1
    <2>8. y \in PathEnds(t, costs, s)
        BY <2>5, <2>6, <2>7 DEF PathEnds
    <2>9. IsApplicable(t, ops[n], y[1]) /\ x = StepOf(t, costs, y, ops[n])
        BY <1>2, <1>3, <2>1 DEF StepOf
    <2> QED
        BY <2>3, <2>8, <2>9
<1> QED
    BY <1>4, <1>5

(* The costs of paths are those of paths that there are.                   *)
LEMMA PathCostsAreReal ==
    ASSUME NEW t, IsTask(t), t.layers = <<>>, NEW costs \in [Ops(t) -> Nat], NEW s \in States(t)
    PROVE  PathCosts(t, costs, s) \subseteq PathEnds(t, costs, s)
<1> PICK Good : Good = PathEnds(t, costs, s)
    OBVIOUS
<1>1. <<s, 0, 0>> \in Good
    BY EmptyPath
<1>2. ASSUME NEW x \in Good, NEW o \in Ops(t), IsApplicable(t, o, x[1])
      PROVE  <<ReferenceSuccessor(t, o, x[1]), x[2] + costs[o], x[3] + 1>> \in Good
    BY <1>2, LongerPath DEF StepOf
<1> QED
    BY <1>1, <1>2, PathsStayGood

(* The order of paths to a state: by cost, then by length.                 *)
NotAbove(x, y) == x[2] < y[2] \/ (x[2] = y[2] /\ x[3] <= y[3])

(* It is a total order.                                                    *)
LEMMA PathOrder ==
    ASSUME NEW S, NEW x \in S \X Nat \X Nat, NEW y \in S \X Nat \X Nat
    PROVE  /\ NotAbove(x, x)
           /\ NotAbove(x, y) \/ NotAbove(y, x)
           /\ \A z \in S \X Nat \X Nat : NotAbove(x, y) /\ NotAbove(y, z) => NotAbove(x, z)
<1>1. /\ x[2] \in Nat /\ x[3] \in Nat /\ y[2] \in Nat /\ y[3] \in Nat
      /\ \A z \in S \X Nat \X Nat : z[2] \in Nat /\ z[3] \in Nat
    OBVIOUS
<1>2. NotAbove(x, x) /\ (NotAbove(x, y) \/ NotAbove(y, x))
    BY <1>1 DEF NotAbove
<1>3. ASSUME NEW z \in S \X Nat \X Nat, NotAbove(x, y), NotAbove(y, z)
      PROVE  NotAbove(x, z)
    <2> PICK a, b, c, d, e, f : a = x[2] /\ b = x[3] /\ c = y[2] /\ d = y[3] /\ e = z[2] /\ f = z[3]
        OBVIOUS
    <2>1. /\ a \in Nat /\ b \in Nat /\ c \in Nat /\ d \in Nat /\ e \in Nat /\ f \in Nat
          /\ a < c \/ (a = c /\ b <= d)
          /\ c < e \/ (c = e /\ d <= f)
        BY <1>1, <1>3 DEF NotAbove
    <2>2. a < e \/ (a = e /\ b <= f)
        BY <2>1
    <2> QED
        BY <2>2 DEF NotAbove
<1> QED
    BY <1>2, <1>3

(* Among paths there is a least one.                                       *)
LEMMA LeastPath ==
    ASSUME NEW S, NEW D, D \subseteq S \X Nat \X Nat, D # {}
    PROVE  \E x \in D : \A y \in D : NotAbove(x, y)
<1> DEFINE Costs == {x[2] : x \in D}
<1>1. PICK c \in Costs : \A e \in Costs : c <= e
    <2>1. Costs \in SUBSET Nat /\ Costs # {}
        OBVIOUS
    <2> HIDE DEF Costs
    <2> QED
        BY <2>1, SmallestNumber
<1> DEFINE Lengths == {x[3] : x \in {y \in D : y[2] = c}}
<1>2. PICK n \in Lengths : \A m \in Lengths : n <= m
    <2>1. Lengths \in SUBSET Nat /\ Lengths # {}
        OBVIOUS
    <2> HIDE DEF Lengths
    <2> QED
        BY <2>1, SmallestNumber
<1>3. PICK x \in D : x[2] = c /\ x[3] = n
    OBVIOUS
<1>4. ASSUME NEW y \in D
      PROVE  NotAbove(x, y)
    <2>1. y[2] \in Nat /\ c \in Nat /\ c <= y[2] /\ (y[2] = c => n <= y[3])
        <3>1. y[2] \in Costs /\ (y[2] = c => y[3] \in Lengths)
            OBVIOUS
        <3>2. y[2] \in Nat /\ c \in Nat
            BY <1>3
        <3> QED
            BY <1>1, <1>2, <3>1, <3>2
    <2>2. c < y[2] \/ c = y[2]
        BY <2>1
    <2> QED
        BY <1>3, <2>1, <2>2 DEF NotAbove
<1> QED
    BY <1>3, <1>4

(* The states whose best path is among those that were reached.            *)
SettledBy(t, costs, s, reached) ==
    {st \in States(t) : \E x \in reached : x[1] = st /\
        \A y \in PathEnds(t, costs, s) : y[1] = st => NotAbove(x, y)}

(* The same step keeps it.                                                 *)
LEMMA StepsKeepOrder ==
    ASSUME NEW t, NEW S, NEW costs, NEW x \in S \X Nat \X Nat, NEW y \in S \X Nat \X Nat,
           x[1] = y[1], NotAbove(x, y), NEW o, costs[o] \in Nat
    PROVE  NotAbove(StepOf(t, costs, x, o), StepOf(t, costs, y, o))
<1> PICK a, b, c, d, w : a = x[2] /\ b = x[3] /\ c = y[2] /\ d = y[3] /\ w = costs[o]
    OBVIOUS
<1>1. /\ a \in Nat /\ b \in Nat /\ c \in Nat /\ d \in Nat /\ w \in Nat
      /\ a < c \/ (a = c /\ b <= d)
    BY DEF NotAbove
<1>2. a + w < c + w \/ (a + w = c + w /\ b + 1 <= d + 1)
    BY <1>1
<1> QED
    BY <1>2 DEF NotAbove, StepOf

(* One round: what was settled stays so, and while there is a state with a *)
(* path that is not settled, the one with the best such path becomes so.   *)
LEMMA RoundSettles ==
    ASSUME NEW t, IsTask(t), t.layers = <<>>, NEW costs \in [Ops(t) -> Nat], NEW s \in States(t),
           NEW reached, reached \subseteq PathEnds(t, costs, s),
           <<s, 0, 0>> \in reached \/ s \in SettledBy(t, costs, s, reached),
           NEW next, next = Cheapest(Extended(t, costs, reached))
    PROVE  /\ SettledBy(t, costs, s, reached) \subseteq SettledBy(t, costs, s, next)
           /\ (\E x \in PathEnds(t, costs, s) : x[1] \notin SettledBy(t, costs, s, reached))
                => SettledBy(t, costs, s, next) # SettledBy(t, costs, s, reached)
<1> DEFINE Triples == States(t) \X Nat \X Nat
<1> PICK R, Old, all : /\ R = PathEnds(t, costs, s) /\ Old = SettledBy(t, costs, s, reached)
                       /\ all = Extended(t, costs, reached)
    OBVIOUS
<1>1. R \subseteq Triples
    BY DEF PathEnds
<1>2. reached \subseteq all /\ all \subseteq R
    <2>1. reached \subseteq all
        BY DEF Extended
    <2>2. \A x \in reached : \A o \in Ops(t) : IsApplicable(t, o, x[1]) => StepOf(t, costs, x, o) \in R
        BY LongerPath
    <2> QED
        BY <2>1, <2>2 DEF Extended, StepOf
<1>3. \A x \in reached : \A o \in Ops(t) : IsApplicable(t, o, x[1]) => StepOf(t, costs, x, o) \in all
    BY DEF Extended, StepOf
(* An entry that is not above any path to its state stays.                 *)
<1>4. ASSUME NEW x \in all, \A y \in R : y[1] = x[1] => NotAbove(x, y)
      PROVE  x[1] \in SettledBy(t, costs, s, next)
    <2>1. x \in next
        <3>1. next = {z \in all : \A y \in all : y[1] = z[1] => NotAbove(z, y)}
            BY DEF Cheapest, NotAbove
        <3> QED
            BY <1>2, <1>4, <3>1
    <2>2. x[1] \in States(t)
        BY <1>1, <1>2
    <2> QED
        BY <1>4, <2>1, <2>2 DEF SettledBy
<1>5. ASSUME NEW st \in Old
      PROVE  \E x \in reached : x[1] = st /\ \A y \in R : y[1] = st => NotAbove(x, y)
    BY DEF SettledBy
<1>6. Old \subseteq SettledBy(t, costs, s, next)
    BY <1>2, <1>4, <1>5
<1>7. s \in Old
    <2>1. CASE <<s, 0, 0>> \in reached
        <3> PICK x : x = <<s, 0, 0>>
            OBVIOUS
        <3>1. x[1] = s /\ x[2] = 0 /\ x[3] = 0
            OBVIOUS
        <3>2. \A y \in R : NotAbove(x, y)
            BY <1>1, <3>1 DEF NotAbove
        <3> QED
            BY <2>1, <3>1, <3>2 DEF SettledBy
    <2> QED
        BY <2>1
<1>8. ASSUME NEW z \in R, z[1] \notin Old
      PROVE  SettledBy(t, costs, s, next) # Old
    <2> DEFINE D == {x \in R : x[1] \notin Old}
    <2>1. PICK x \in D : \A y \in D : NotAbove(x, y)
        <3>1. D \subseteq Triples /\ D # {}
            BY <1>1, <1>8
        <3> HIDE DEF D, Triples
        <3> QED
            BY <3>1, LeastPath DEF Triples
    <2>2. x \in R /\ x[1] \notin Old /\ x \in Triples
        BY <1>1
    <2>3. \A y \in R : y[1] = x[1] => NotAbove(x, y)
        BY <2>1, <2>2
    <2>4. x # <<s, 0, 0>>
        BY <1>7, <2>2
    <2>5. PICK y \in R, o \in Ops(t) : IsApplicable(t, o, y[1]) /\ x = StepOf(t, costs, y, o)
        BY <2>2, <2>4, ShorterPath
    <2>6. y \in Triples /\ costs[o] \in Nat
        BY <1>1
    <2>7. y[1] \in Old
        <3>1. ~NotAbove(x, y)
            <4> PICK a, b, w : a = y[2] /\ b = y[3] /\ w = costs[o]
                OBVIOUS
            <4>1. a \in Nat /\ b \in Nat /\ w \in Nat
                BY <2>6
            <4>2. x[2] = a + w /\ x[3] = b + 1
                BY <2>5 DEF StepOf
            <4>3. ~(a + w < a \/ (a + w = a /\ b + 1 <= b))
                BY <4>1
            <4> QED
                BY <4>2, <4>3 DEF NotAbove
        <3> QED
            BY <2>1, <3>1
    <2>8. PICK u \in reached : u[1] = y[1] /\ NotAbove(u, y)
        BY <1>5, <2>7
    <2>9. u \in Triples
        BY <1>1, <1>2
    <2> PICK v : v = StepOf(t, costs, u, o)
        OBVIOUS
    <2>10. v \in all /\ v \in Triples
        BY <1>1, <1>2, <1>3, <2>5, <2>8
    <2>11. v[1] = x[1]
        BY <2>5, <2>8 DEF StepOf
    <2>12. NotAbove(v, x)
        <3> HIDE DEF Triples
        <3> QED
            BY <2>5, <2>6, <2>8, <2>9, StepsKeepOrder DEF Triples
    <2>13. \A q \in R : q[1] = v[1] => NotAbove(v, q)
        <3> SUFFICES ASSUME NEW q \in R, q[1] = v[1]
                     PROVE  NotAbove(v, q)
            OBVIOUS
        <3>1. NotAbove(x, q) /\ q \in Triples
            BY <1>1, <2>3, <2>11
        <3> HIDE DEF Triples
        <3> QED
            BY <2>2, <2>10, <2>12, <3>1, PathOrder DEF Triples
    <2>14. v[1] \in SettledBy(t, costs, s, next)
        BY <1>4, <2>10, <2>13
    <2> QED
        BY <2>2, <2>11, <2>14
<1> QED
    BY <1>6, <1>8

(* The costs that the rounds end with are the least ones: no path of the   *)
(* task, however long, is cheaper, or as cheap and shorter, than the one   *)
(* to the same state.                                                      *)
THEOREM PathCostsAreLeast ==
    ASSUME NEW t, IsTask(t), t.layers = <<>>, NEW costs \in [Ops(t) -> Nat], NEW s \in States(t),
           NEW x \in PathEnds(t, costs, s)
    PROVE  \E y \in PathCosts(t, costs, s) : y[1] = x[1] /\ NotAbove(y, x)
<1> DEFINE N == Cardinality(States(t))
           R == PathEnds(t, costs, s)
<1>1. N \in Nat /\ IsFiniteSet(States(t))
    BY StatesAreFinite
<1>2. PICK rounds : AreRounds(t, costs, s, R, rounds)
    <2>1. IsGood(t, costs, s, R)
        BY EmptyPath, LongerPath DEF IsGood, StepOf
    <2> HIDE DEF R
    <2> QED
        BY <2>1, PathRounds
<1>3. /\ \A n \in 0 .. N : rounds[n] \subseteq R
      /\ rounds[0] = {<<s, 0, 0>>}
      /\ \A n \in 1 .. N : rounds[n] = Cheapest(Extended(t, costs, rounds[n - 1]))
      /\ PathCosts(t, costs, s) = rounds[N]
    BY <1>2 DEF AreRounds
<1> DEFINE settled == [n \in 0 .. N |-> SettledBy(t, costs, s, rounds[n])]
<1>4. \A n \in 0 .. N : settled[n] = SettledBy(t, costs, s, rounds[n]) /\ settled[n] \in SUBSET States(t)
    BY DEF SettledBy
<1> HIDE DEF settled, N, R
<1>5. s \in settled[0]
    <2>1. 0 \in 0 .. N
        BY <1>1
    <2> PICK a : a = <<s, 0, 0>>
        OBVIOUS
    <2>2. a \in rounds[0] /\ a[1] = s /\ a[2] = 0 /\ a[3] = 0
        BY <1>3
    <2>3. \A y \in PathEnds(t, costs, s) : NotAbove(a, y)
        BY <2>2 DEF PathEnds, NotAbove
    <2> QED
        BY <1>4, <2>1, <2>2, <2>3 DEF SettledBy
<1>6. ASSUME NEW n \in 1 .. N, s \in settled[n - 1]
      PROVE  /\ settled[n - 1] \subseteq settled[n]
             /\ (\E y \in R : y[1] \notin settled[n - 1]) => settled[n] # settled[n - 1]
    <2>1. n - 1 \in 0 .. N /\ n \in 0 .. N
        BY <1>1
    <2>2. rounds[n - 1] \subseteq PathEnds(t, costs, s)
        BY <1>3, <2>1 DEF R
    <2>3. s \in SettledBy(t, costs, s, rounds[n - 1])
        BY <1>4, <1>6, <2>1
    <2>4. /\ SettledBy(t, costs, s, rounds[n - 1]) \subseteq SettledBy(t, costs, s, rounds[n])
          /\ (\E y \in PathEnds(t, costs, s) : y[1] \notin SettledBy(t, costs, s, rounds[n - 1]))
                => SettledBy(t, costs, s, rounds[n]) # SettledBy(t, costs, s, rounds[n - 1])
        BY <1>3, <2>2, <2>3, RoundSettles
    <2> QED
        BY <1>4, <2>1, <2>4 DEF R
<1>7. \A n \in 0 .. N : s \in settled[n]
    <2> PICK good, m : good = {n \in 0 .. N : s \in settled[n]} /\ m = N
        OBVIOUS
    <2>1. m \in Nat /\ 0 \in good
        BY <1>1, <1>5
    <2>2. \A n \in 1 .. m : n - 1 \in good => n \in good
        BY <1>1, <1>6
    <2>3. \A n \in 0 .. m : n \in good
        BY <2>1, <2>2, UpTo
    <2> QED
        BY <2>3
<1>8. \A n \in 1 .. N : n - 1 \in 0 .. N
    BY <1>1
<1>9. PICK n \in 1 .. N : settled[n] = settled[n - 1]
    <2>1. settled[0] # {}
        BY <1>5
    <2>2. \A k \in 1 .. N : settled[k - 1] \subseteq settled[k]
        BY <1>6, <1>7, <1>8
    <2>3. \A k \in 0 .. N : settled[k] \in SUBSET States(t)
        BY <1>4
    <2> QED
        BY <1>1, <2>1, <2>2, <2>3, ChainStandsStill DEF N
<1>10. \A y \in R : y[1] \in settled[n - 1]
    BY <1>6, <1>7, <1>8, <1>9
<1>11. settled[n - 1] \subseteq settled[N]
    <2> PICK good, m : good = {k \in 0 .. N : k < n - 1 \/ settled[n - 1] \subseteq settled[k]} /\ m = N
        OBVIOUS
    <2>1. m \in Nat /\ n \in 1 .. m
        BY <1>1
    <2>2. 0 \in good
        <3>1. 0 < n - 1 \/ 0 = n - 1
            BY <2>1
        <3> QED
            BY <2>1, <3>1
    <2>3. ASSUME NEW k \in 1 .. m, k - 1 \in good
          PROVE  k \in good
        <3>1. settled[k - 1] \subseteq settled[k]
            BY <1>6, <1>7, <1>8
        <3>2. k < n - 1 \/ k = n - 1 \/ ~(k - 1 < n - 1)
            BY <2>1
        <3> QED
            BY <2>1, <2>3, <3>1, <3>2
    <2>4. \A k \in 0 .. m : k \in good
        BY <2>1, <2>2, <2>3, UpTo
    <2>5. N \in good /\ ~(N < n - 1)
        BY <2>1, <2>4
    <2> QED
        BY <2>5
<1>12. x[1] \in SettledBy(t, costs, s, rounds[N])
    <2>1. N \in 0 .. N /\ x \in R
        BY <1>1 DEF R
    <2> QED
        BY <1>4, <1>10, <1>11, <2>1
<1> QED
    BY <1>3, <1>12 DEF SettledBy

(* What is left of a path from one of its states is a path, too.           *)
LEMMA SuffixPath ==
    ASSUME NEW t, IsTask(t), NEW costs \in [Ops(t) -> Nat], NEW s, NEW ops, NEW states, NEW sums,
           IsPathOf(t, costs, s, ops, states, sums), NEW n, n = Len(ops), NEW i \in 1 .. n + 1
    PROVE  /\ sums[n + 1] - sums[i] \in Nat
           /\ <<states[n + 1], sums[n + 1] - sums[i], n + 1 - i>> \in PathEnds(t, costs, states[i])
<1>1. /\ ops \in Seq(Ops(t)) /\ n \in Nat
      /\ states \in [1 .. n + 1 -> States(t)] /\ sums \in [1 .. n + 1 -> Nat]
      /\ \A k \in 1 .. n : /\ IsApplicable(t, ops[k], states[k])
                           /\ states[k + 1] = ReferenceSuccessor(t, ops[k], states[k])
                           /\ sums[k + 1] = sums[k] + costs[ops[k]]
    BY DEF IsPathOf
<1>2. sums[i] \in Nat
    <2>1. \A k \in 1 .. n + 1 : sums[k] \in Nat
        BY <1>1
    <2> QED
        BY <2>1
<1>3. /\ i \in Nat /\ n + 1 - i \in Nat /\ 1 <= i
      /\ \A k \in 0 .. n + 1 - i : k + i \in 1 .. n + 1
    BY <1>1
<1> PICK m : m = n + 1 - i
    OBVIOUS
<1>4. /\ m \in Nat /\ i \in Nat /\ 1 <= i /\ m + i = n + 1
      /\ \A k \in 0 .. m : k + i \in 1 .. n + 1
      /\ \A k \in 1 .. m : k + i - 1 \in 1 .. n /\ (k + i - 1) + 1 = k + i /\ (k - 1) + i = k + i - 1
      /\ \A k \in 1 .. m + 1 : k + i - 1 \in 1 .. n + 1
    BY <1>1, <1>3
<1>5. \A k \in 0 .. m : sums[i] <= sums[k + i]
    <2> PICK good : good = {k \in 0 .. m : sums[i] <= sums[k + i]}
        OBVIOUS
    <2>1. 0 \in good
        <3>1. 0 \in 0 .. m /\ 0 + i = i /\ i \in 1 .. n + 1
            BY <1>4
        <3>2. sums[i] <= sums[i]
            BY <1>2
        <3> QED
            BY <3>1, <3>2
    <2>2. ASSUME NEW k \in 1 .. m, k - 1 \in good
          PROVE  k \in good
        <3>1. k + i - 1 \in 1 .. n /\ (k + i - 1) + 1 = k + i /\ (k - 1) + i = k + i - 1
            BY <1>4
        <3>2. sums[k + i] = sums[k + i - 1] + costs[ops[k + i - 1]]
            BY <1>1, <3>1
        <3>3. sums[i] <= sums[k + i - 1]
            BY <2>2, <3>1
        <3>4. costs[ops[k + i - 1]] \in Nat /\ sums[k + i - 1] \in Nat /\ sums[i] \in Nat
            <4>1. ops[k + i - 1] \in Ops(t)
                BY <1>1, <3>1, ElementOfSeq
            <4>2. k + i - 1 \in 1 .. n + 1
                BY <1>1, <3>1
            <4> QED
                BY <1>1, <4>1, <4>2
        <3>5. k \in 0 .. m
            BY <1>4
        <3> QED
            BY <3>2, <3>3, <3>4, <3>5
    <2>3. \A k \in 0 .. m : k \in good
        BY <1>4, <2>1, <2>2, UpTo
    <2> QED
        BY <2>3
<1> DEFINE ops2 == [k \in 1 .. m |-> ops[k + i - 1]]
           states2 == [k \in 1 .. m + 1 |-> states[k + i - 1]]
           sums2 == [k \in 1 .. m + 1 |-> sums[k + i - 1] - sums[i]]
<1>6. ASSUME NEW k \in 1 .. m + 1
      PROVE  /\ states2[k] \in States(t) /\ sums2[k] \in Nat
             /\ states2[k] = states[k + i - 1] /\ sums2[k] = sums[k + i - 1] - sums[i]
    <2>1. k + i - 1 \in 1 .. n + 1 /\ k - 1 \in 0 .. m /\ (k - 1) + i = k + i - 1
        BY <1>4
    <2>2. sums[i] <= sums[k + i - 1]
        BY <1>5, <2>1
    <2>3. states[k + i - 1] \in States(t) /\ sums[k + i - 1] \in Nat /\ sums[i] \in Nat
        BY <1>1, <2>1
    <2> QED
        BY <2>2, <2>3
<1>7. states2 \in [1 .. m + 1 -> States(t)] /\ sums2 \in [1 .. m + 1 -> Nat]
    BY <1>6
<1>8. ops2 \in Seq(Ops(t)) /\ Len(ops2) = m /\ \A k \in 1 .. m : ops2[k] = ops[k + i - 1]
    <2>1. \A k \in 1 .. m : ops[k + i - 1] \in Ops(t)
        BY <1>1, <1>4, ElementOfSeq
    <2>2. ops2 \in [1 .. m -> Ops(t)]
        BY <2>1
    <2>3. \A k \in 1 .. m : ops2[k] = ops[k + i - 1]
        OBVIOUS
    <2> HIDE DEF ops2
    <2> QED
        BY <1>4, <2>2, <2>3
<1> HIDE DEF ops2, states2, sums2
<1>9. ASSUME NEW k \in 1 .. m
      PROVE  /\ IsApplicable(t, ops2[k], states2[k])
             /\ states2[k + 1] = ReferenceSuccessor(t, ops2[k], states2[k])
             /\ sums2[k + 1] = sums2[k] + costs[ops2[k]]
    <2> PICK j : j = k + i - 1
        OBVIOUS
    <2>1. /\ j \in 1 .. n /\ k \in 1 .. m + 1 /\ k + 1 \in 1 .. m + 1 /\ (k + 1) + i - 1 = j + 1
          /\ j \in 1 .. n + 1 /\ j + 1 \in 1 .. n + 1
        BY <1>1, <1>4
    <2>2. /\ ops2[k] = ops[j] /\ states2[k] = states[j] /\ states2[k + 1] = states[j + 1]
          /\ sums2[k] = sums[j] - sums[i] /\ sums2[k + 1] = sums[j + 1] - sums[i]
        BY <1>6, <1>8, <2>1
    <2>3. sums2[k + 1] = sums2[k] + costs[ops2[k]]
        <3>1. /\ sums[j + 1] = sums[j] + costs[ops[j]]
              /\ sums[j] \in Nat /\ sums[i] \in Nat /\ costs[ops[j]] \in Nat
            BY <1>1, <2>1, ElementOfSeq
        <3> PICK a, b, w : a = sums[j] /\ b = sums[i] /\ w = costs[ops[j]]
            OBVIOUS
        <3>2. (a + w) - b = (a - b) + w
            BY <3>1
        <3> QED
            BY <2>2, <3>1, <3>2
    <2> QED
        BY <1>1, <2>1, <2>2, <2>3
<1>10. states2[1] = states[i] /\ sums2[1] = 0
    <2>1. 1 \in 1 .. m + 1 /\ 1 + i - 1 = i
        BY <1>4
    <2>2. sums[i] - sums[i] = 0
        BY <1>2
    <2> QED
        BY <1>6, <2>1, <2>2
<1>11. m + 1 \in 1 .. m + 1 /\ (m + 1) + i - 1 = n + 1
    BY <1>1, <1>4
<1>12. IsPathOf(t, costs, states[i], ops2, states2, sums2)
    BY <1>4, <1>7, <1>8, <1>9, <1>10 DEF IsPathOf
<1> PICK x : x = <<states[n + 1], sums[n + 1] - sums[i], m>>
    OBVIOUS
<1>13. /\ states2[m + 1] = states[n + 1] /\ sums2[m + 1] = sums[n + 1] - sums[i]
      /\ states2[m + 1] \in States(t) /\ sums2[m + 1] \in Nat
    BY <1>6, <1>11
<1>14. EndsIn(ops2, states2, sums2, x)
    BY <1>8, <1>13 DEF EndsIn
<1>15. x \in States(t) \X Nat \X Nat /\ sums[n + 1] - sums[i] \in Nat
    BY <1>4, <1>13
<1>16. x \in PathEnds(t, costs, states[i])
    BY <1>12, <1>14, <1>15 DEF PathEnds
<1> QED
    BY <1>15, <1>16

(* A path from the next state is, after the step to it, one from the state. *)
AfterStep(t, costs, o, y) == <<y[1], y[2] + costs[o], y[3] + 1>>

(* So its cost is that of the rest of the path and of the step.            *)
LEMMA PrependedPath ==
    ASSUME NEW t, IsTask(t), t.layers = <<>>, NEW costs \in [Ops(t) -> Nat],
           NEW s \in States(t), NEW o \in Ops(t), IsApplicable(t, o, s),
           NEW next, next = ReferenceSuccessor(t, o, s), NEW y \in PathEnds(t, costs, next)
    PROVE  AfterStep(t, costs, o, y) \in PathEnds(t, costs, s)
<1>1. \A x \in PathEnds(t, costs, next) : x \in States(t) \X Nat \X Nat
    BY DEF PathEnds
<1>2. next \in States(t) /\ costs[o] \in Nat
    BY SuccessorIsState
<1> PICK good : good = {n \in Nat : \A x \in PathEnds(t, costs, next) :
                            x[3] = n => AfterStep(t, costs, o, x) \in PathEnds(t, costs, s)}
    OBVIOUS
<1>3. ASSUME NEW x \in PathEnds(t, costs, next), x[3] = 0
      PROVE  AfterStep(t, costs, o, x) \in PathEnds(t, costs, s)
    <2>1. x = <<next, 0, 0>>
        <3>1. ASSUME NEW z \in PathEnds(t, costs, next), NEW p, x = StepOf(t, costs, z, p)
              PROVE  FALSE
            <4>1. z[3] \in Nat /\ x[3] = z[3] + 1
                BY <1>1, <3>1 DEF StepOf
            <4> QED
                BY <1>3, <4>1
        <3> QED
            BY <3>1, ShorterPath
    <2>2. AfterStep(t, costs, o, x) = StepOf(t, costs, <<s, 0, 0>>, o)
        BY <2>1 DEF AfterStep, StepOf
    <2>3. <<s, 0, 0>> \in PathEnds(t, costs, s)
        BY EmptyPath
    <2>4. IsApplicable(t, o, <<s, 0, 0>>[1])
        OBVIOUS
    <2> QED
        BY <2>2, <2>3, <2>4, LongerPath
<1>4. ASSUME NEW n \in Nat, n \in good
      PROVE  n + 1 \in good
    <2> SUFFICES ASSUME NEW x \in PathEnds(t, costs, next), x[3] = n + 1
                 PROVE  AfterStep(t, costs, o, x) \in PathEnds(t, costs, s)
        OBVIOUS
    <2>1. x # <<next, 0, 0>>
        OBVIOUS
    <2>2. PICK z \in PathEnds(t, costs, next), p \in Ops(t) :
                IsApplicable(t, p, z[1]) /\ x = StepOf(t, costs, z, p)
        BY <2>1, ShorterPath
    <2>3. z[2] \in Nat /\ z[3] \in Nat /\ costs[p] \in Nat
        BY <1>1
    <2>4. x[3] = z[3] + 1
        BY <2>2 DEF StepOf
    <2>5. z[3] = n
        BY <2>3, <2>4
    <2>6. AfterStep(t, costs, o, z) \in PathEnds(t, costs, s)
        BY <1>4, <2>5
    <2>7. IsApplicable(t, p, AfterStep(t, costs, o, z)[1])
        BY <2>2 DEF AfterStep
    <2>8. StepOf(t, costs, AfterStep(t, costs, o, z), p) = AfterStep(t, costs, o, x)
        <3>1. (z[2] + costs[o]) + costs[p] = (z[2] + costs[p]) + costs[o]
            BY <1>2, <2>3
        <3> QED
            BY <2>2, <3>1 DEF AfterStep, StepOf
    <2> QED
        BY <2>6, <2>7, <2>8, LongerPath
<1>5. 0 \in good
    BY <1>3
<1>6. \A n \in Nat : n \in good
    <2> SUFFICES ASSUME NEW n \in Nat
                 PROVE  n \in good
        OBVIOUS
    <2>1. ASSUME NEW k \in 1 .. n, k - 1 \in good
          PROVE  k \in good
        <3>1. k - 1 \in Nat /\ (k - 1) + 1 = k
            OBVIOUS
        <3> QED
            BY <1>4, <2>1, <3>1
    <2>2. n \in 0 .. n
        OBVIOUS
    <2> QED
        BY <1>5, <2>1, <2>2, UpTo
<1>7. y[3] \in Nat
    BY <1>1
<1> QED
    BY <1>6, <1>7

(* Every path but the empty one begins with a step.                        *)
LEMMA FirstStep ==
    ASSUME NEW t, IsTask(t), t.layers = <<>>, NEW costs \in [Ops(t) -> Nat],
           NEW s \in States(t), NEW y \in PathEnds(t, costs, s)
    PROVE  \/ y = <<s, 0, 0>>
           \/ \E o \in Ops(t) :
                /\ IsApplicable(t, o, s)
                /\ \E z \in PathEnds(t, costs, ReferenceSuccessor(t, o, s)) :
                        y = AfterStep(t, costs, o, z)
<1>1. PICK ops, states, sums :
            IsPathOf(t, costs, s, ops, states, sums) /\ EndsIn(ops, states, sums, y)
    BY DEF PathEnds
<1> PICK n : n = Len(ops)
    OBVIOUS
<1>2. /\ ops \in Seq(Ops(t)) /\ n \in Nat
      /\ states[1] = s /\ sums[1] = 0 /\ sums \in [1 .. n + 1 -> Nat]
      /\ \A i \in 1 .. n : /\ IsApplicable(t, ops[i], states[i])
                           /\ states[i + 1] = ReferenceSuccessor(t, ops[i], states[i])
                           /\ sums[i + 1] = sums[i] + costs[ops[i]]
      /\ y = <<states[n + 1], sums[n + 1], n>>
    BY <1>1 DEF IsPathOf, EndsIn
<1>3. CASE n = 0
    BY <1>2, <1>3
<1>4. CASE n # 0
    <2> PICK o : o = ops[1]
        OBVIOUS
    <2>1. 1 \in 1 .. n /\ 2 \in 1 .. n + 1 /\ 1 + 1 = 2 /\ n + 1 \in 1 .. n + 1 /\ n + 1 - 2 = n - 1
        BY <1>2, <1>4
    <2>2. o \in Ops(t) /\ costs[o] \in Nat
        BY <1>2, <2>1, ElementOfSeq
    <2>3. /\ IsApplicable(t, o, s) /\ states[2] = ReferenceSuccessor(t, o, s)
          /\ sums[2] = costs[o]
        <3>1. sums[1 + 1] = sums[1] + costs[ops[1]]
            BY <1>2, <2>1
        <3> QED
            BY <1>2, <2>1, <2>2, <3>1
    <2> PICK z : z = <<states[n + 1], sums[n + 1] - sums[2], n + 1 - 2>>
        OBVIOUS
    <2>4. z \in PathEnds(t, costs, states[2])
        BY <1>1, <2>1, SuffixPath
    <2>5. y = AfterStep(t, costs, o, z)
        <3>1. sums[n + 1] \in Nat
            BY <1>2, <2>1
        <3>2. (sums[n + 1] - costs[o]) + costs[o] = sums[n + 1] /\ (n - 1) + 1 = n
            BY <1>2, <2>2, <3>1
        <3> QED
            BY <1>2, <2>1, <2>3, <3>2 DEF AfterStep
    <2> QED
        BY <2>2, <2>3, <2>4, <2>5
<1> QED
    BY <1>3, <1>4
===============================================================================
