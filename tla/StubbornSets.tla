------------------------------ MODULE StubbornSets ------------------------------
(***************************************************************************)
(* The pruning methods stubborn_sets_simple and atom_centric_stubborn_sets: *)
(* which of the applicable operators are kept in a state.  The fixpoint    *)
(* computations take operators and facts from the end of their queues;     *)
(* what they mark does not depend on that order for the simple variant,    *)
(* which is therefore written as a fixpoint of sets, while the selection   *)
(* strategies and the sibling shortcut of the atom-centric one look at     *)
(* what is marked so far, so that its queues are kept.  An operator has at *)
(* most one effect on a variable here: of several, the merging loop of     *)
(* contain_conflicting_fact compares the k-th with the k-th only.          *)
(***************************************************************************)
EXTENDS FDRTask

Preconditions(t, o) == t.operators[o].pre

(* compute_sorted_operators: the effects whatever their conditions are. *)
EffectFacts(t, o) == {<<e.var, e.val>> : e \in t.operators[o].effects}

EffectConditions(t, o) == UNION {e.cond : e \in t.operators[o].effects}

HasConditionalEffects(t) == \E o \in Ops(t) : EffectConditions(t, o) # {}

Achievers(t, f) == {o \in Ops(t) : f \in EffectFacts(t, o)}

Consumers(t, f) == {o \in Ops(t) : f \in Preconditions(t, o)}

ContainConflictingFact(facts1, facts2) ==
    \E f1 \in facts1, f2 \in facts2 : f1[1] = f2[1] /\ f1[2] # f2[2]

CanDisable(t, o1, o2) == ContainConflictingFact(EffectFacts(t, o1), Preconditions(t, o2))

CanConflict(t, o1, o2) == ContainConflictingFact(EffectFacts(t, o1), EffectFacts(t, o2))

Unsatisfied(facts, s) == {f \in facts : s[f[1]] # f[2]}

(* find_unsatisfied_condition: the first in the order of the facts. *)
FirstFact(facts) == CHOOSE f \in facts : \A g \in facts : f = g \/ FactLess(f, g)
-------------------------------------------------------------------------------
(* Mutation of Interfere: that the first operator disables the second does *)
(* not count.                                                              *)
InterfereBackwards(t, o1, o2) ==
    o1 # o2 /\ (CanConflict(t, o1, o2) \/ CanDisable(t, o2, o1))

Interfere(t, o1, o2) ==
    /\ o1 # o2
    /\ CanDisable(t, o1, o2) \/ CanConflict(t, o1, o2) \/ CanDisable(t, o2, o1)

(* handle_stubborn_operator: what a stubborn operator makes stubborn. *)
MadeStubbornBy(t, s, o) ==
    LET missing == Unsatisfied(Preconditions(t, o), s)
    IN  IF missing # {} THEN Achievers(t, FirstFact(missing))
        ELSE {p \in Ops(t) : Interfere(t, o, p)}
             \cup UNION {Achievers(t, f) : f \in Unsatisfied(EffectConditions(t, o), s)}

(* StubbornSetsSimple in a state that is not a goal state. *)
SimpleStubbornSet(t, s) ==
    LET grow[n \in 0 .. Len(t.operators)] ==
            IF n = 0 THEN Achievers(t, FirstFact(Unsatisfied(t.goal, s)))
            ELSE grow[n - 1] \cup UNION {MadeStubbornBy(t, s, o) : o \in grow[n - 1]}
    IN  grow[Len(t.operators)]
-------------------------------------------------------------------------------
(* StubbornSetsAtomCentric works on a record w: the stubborn operators,    *)
(* the facts whose producers and consumers are marked, the two queues, and *)
(* per variable the shortcut's marks: NONE, ALL, or the only value that is *)
(* not marked.                                                             *)
NONE == -1
ALL == -2

EnqueueProducers(w, f) ==
    IF f \in w.markedProducers THEN w
    ELSE [w EXCEPT !.markedProducers = @ \cup {f}, !.producerQueue = Append(@, f)]

EnqueueConsumers(w, f) ==
    IF f \in w.markedConsumers THEN w
    ELSE [w EXCEPT !.markedConsumers = @ \cup {f}, !.consumerQueue = Append(@, f)]

Siblings(t, f) ==
    SortedFacts(t, {<<f[1], d>> : d \in 0 .. t.domains[f[1]] - 1} \ {f})

EnqueueSiblingProducers(t, shortcut, w, f) ==
    LET mark == w.producerMarks[f[1]]
        all == FoldLeft(EnqueueProducers, w, Siblings(t, f))
    IN  IF ~shortcut THEN all
        ELSE IF mark = NONE THEN [all EXCEPT !.producerMarks[f[1]] = f[2]]
        ELSE IF mark \in {ALL, f[2]} THEN w
        ELSE [EnqueueProducers(w, <<f[1], mark>>) EXCEPT !.producerMarks[f[1]] = ALL]

EnqueueSiblingConsumers(t, shortcut, w, f) ==
    LET mark == w.consumerMarks[f[1]]
        all == FoldLeft(EnqueueConsumers, w, Siblings(t, f))
    IN  IF ~shortcut THEN all
        ELSE IF mark = NONE THEN [all EXCEPT !.consumerMarks[f[1]] = f[2]]
        ELSE IF mark \in {ALL, f[2]} THEN w
        ELSE [EnqueueConsumers(w, <<f[1], mark>>) EXCEPT !.consumerMarks[f[1]] = ALL]

(* select_fact; the facts are unsatisfied in the state. *)
SelectFact(t, strategy, w, facts) ==
    LET skipped == facts \cap w.markedProducers
        Count(f) == IF strategy = "static_small" THEN Cardinality(Achievers(t, f))
                    ELSE Cardinality(Achievers(t, f) \ w.stubborn)
        fewest == {f \in facts : \A g \in facts : Count(f) <= Count(g)}
    IN  CASE strategy = "fast_downward" -> FirstFact(facts)
          [] strategy = "quick_skip" -> FirstFact(IF skipped # {} THEN skipped ELSE facts)
          [] OTHER -> FirstFact(fewest)

EnqueueInterferers(t, shortcut, w, o) ==
    LET producers == FoldLeft(LAMBDA acc, f : EnqueueSiblingProducers(t, shortcut, acc, f),
                              w, SortedFacts(t, Preconditions(t, o)))
    IN  FoldLeft(LAMBDA acc, f :
                    EnqueueSiblingConsumers(t, shortcut,
                        EnqueueSiblingProducers(t, shortcut, acc, f), f),
                 producers, SortedFacts(t, EffectFacts(t, o)))

(* handle_stubborn_operator. *)
HandleStubborn(t, s, strategy, shortcut, w, o) ==
    LET missing == Unsatisfied(Preconditions(t, o), s)
        marked == [w EXCEPT !.stubborn = @ \cup {o}]
    IN  IF o \in w.stubborn THEN w
        ELSE IF missing = {} THEN EnqueueInterferers(t, shortcut, marked, o)
        ELSE EnqueueProducers(marked, SelectFact(t, strategy, marked, missing))

HandleAll(t, s, strategy, shortcut, w, ops) ==
    FoldLeft(LAMBDA acc, o : HandleStubborn(t, s, strategy, shortcut, acc, o),
             w, SelectSeq([o \in Ops(t) |-> o], LAMBDA o : o \in ops))

(* initialize_stubborn_set; producers go first.  Every fact is taken from  *)
(* each queue at most once.                                                *)
AtomCentricStubbornSet(t, s, strategy, shortcut) ==
    LET empty == [stubborn |-> {}, markedProducers |-> {}, markedConsumers |-> {},
                  producerQueue |-> <<>>, consumerQueue |-> <<>>,
                  producerMarks |-> [v \in Vars(t) |-> NONE],
                  consumerMarks |-> [v \in Vars(t) |-> NONE]]
        rounds[n \in 0 .. 2 * Cardinality(Facts(t))] ==
            IF n = 0
            THEN EnqueueProducers(empty,
                    SelectFact(t, strategy, empty, Unsatisfied(t.goal, s)))
            ELSE LET w == rounds[n - 1] IN
                IF w.producerQueue # <<>>
                THEN HandleAll(t, s, strategy, shortcut,
                        [w EXCEPT !.producerQueue = Front(@)],
                        Achievers(t, Last(w.producerQueue)))
                ELSE IF w.consumerQueue # <<>>
                THEN HandleAll(t, s, strategy, shortcut,
                        [w EXCEPT !.consumerQueue = Front(@)],
                        Consumers(t, Last(w.consumerQueue)))
                ELSE w
    IN  rounds[2 * Cardinality(Facts(t))].stubborn
-------------------------------------------------------------------------------
(* StubbornSets::prune: the applicable operators that are stubborn. *)
Prune(op_ids, stubborn) == SelectSeq(op_ids, LAMBDA o : o \in stubborn)
===============================================================================
