-------------------------------- MODULE FDRTask --------------------------------
(***************************************************************************)
(* A planning task in finite-domain representation, as the search reads it *)
(* through abstract_task.h: variables with domains 0 .. n - 1, operators   *)
(* with preconditions, conditional effects and a cost, a goal, and axioms  *)
(* that set derived variables.  A task t is a record                       *)
(*   domains     sequence of domain sizes; a variable is its index         *)
(*   operators   sequence of [pre, effects, cost]; an operator is its index *)
(*   axioms      sequence of [cond, var, val], effects on derived variables *)
(*   layers      derived variable |-> its axiom layer                      *)
(*   init, goal  a state, and a set of facts                               *)
(* A fact is a pair <<variable, value>>, an effect a record [var, val,     *)
(* cond], a state a sequence of values.  A derived variable has the        *)
(* default value 0.                                                        *)
(***************************************************************************)
EXTENDS Integers, Sequences, FiniteSets, SequencesExt

Vars(t) == DOMAIN t.domains

Ops(t) == DOMAIN t.operators

States(t) ==
    LET values == UNION {0 .. t.domains[v] - 1 : v \in Vars(t)}
    IN  {s \in [Vars(t) -> values] : \A v \in Vars(t) : s[v] < t.domains[v]}

Facts(t) == UNION {{v} \X (0 .. t.domains[v] - 1) : v \in Vars(t)}

(* What every task that is read satisfies. *)
IsTask(t) ==
    /\ DOMAIN t = {"domains", "operators", "axioms", "layers", "init", "goal"}
    /\ t.domains \in Seq(Nat \ {0})
    /\ t.operators \in Seq([pre : SUBSET Facts(t),
                            effects : SUBSET {e \in [var : Vars(t),
                                                     val : UNION {0 .. t.domains[v] - 1 : v \in Vars(t)},
                                                     cond : SUBSET Facts(t)] :
                                                e.val < t.domains[e.var]},
                            cost : Nat])
    /\ t.goal \subseteq Facts(t)
    /\ t.init \in States(t)

(* FactPair::operator<, the order in which facts are sorted. *)
FactLess(f1, f2) == 
    \/ f1[1] < f2[1]
    \/ f1[1] = f2[1] /\ f1[2] < f2[2]

FactOrder(t) ==
    FlattenSeq([v \in Vars(t) |-> [i \in 1 .. t.domains[v] |-> <<v, i - 1>>]])

SortedFacts(t, facts) == SelectSeq(FactOrder(t), LAMBDA f : f \in facts)

Holds(facts, s) == \A f \in facts : s[f[1]] = f[2]

IsApplicable(t, o, s) == Holds(t.operators[o].pre, s)

IsGoalState(t, s) == Holds(t.goal, s)

FiringEffects(t, o, s) == {e \in t.operators[o].effects : Holds(e.cond, s)}

(* What the firing effects of o make of s, before the axioms. *)
ApplyEffects(t, o, s) ==
    [v \in Vars(t) |->
        LET hits == {e \in FiringEffects(t, o, s) : e.var = v}
        IN  IF hits = {} THEN s[v] ELSE (CHOOSE e \in hits : TRUE).val]
-------------------------------------------------------------------------------
(* AxiomEvaluator.  The rules are the axioms; a literal waits in a queue,  *)
(* taken from its end, and counts down the conditions of its rules.        *)
Derived(t) == DOMAIN t.layers

LastLayer(t) == IF Derived(t) = {} THEN -1
                ELSE CHOOSE l \in {t.layers[v] : v \in Derived(t)} :
                        \A v \in Derived(t) : t.layers[v] <= l

(* The rule fires: the effect literal is queued unless it already holds. *)
FireRule(r, w) ==
    IF w.state[r.var] = r.val THEN w
    ELSE [w EXCEPT !.state[r.var] = r.val, !.queue = Append(@, <<r.var, r.val>>)]

(* One literal counts down every rule it is a condition of. *)
CountDown(t, literal, w) ==
    FoldLeft(LAMBDA acc, i :
                IF literal \notin t.axioms[i].cond THEN acc
                ELSE IF acc.unsatisfied[i] = 1
                THEN FireRule(t.axioms[i], [acc EXCEPT !.unsatisfied[i] = 0])
                ELSE [acc EXCEPT !.unsatisfied[i] = @ - 1],
             w, [i \in DOMAIN t.axioms |-> i])

(* Apply Horn rules: literals are taken from the end of the queue.  The      *)
(* loop runs at most once per literal.                                     *)
HornRules(t, w) ==
    LET rounds[n \in 0 .. Cardinality(Facts(t))] ==
            IF n = 0 THEN w
            ELSE LET u == rounds[n - 1]
                 IN  IF u.queue = <<>> THEN u
                     ELSE CountDown(t, Last(u.queue), [u EXCEPT !.queue = Front(@)])
    IN  rounds[Cardinality(Facts(t))]

(* Negation by failure: the variables of a layer that kept the default.   *)
NegationByFailure(t, layer, w) ==
    IF layer = LastLayer(t) THEN w
    ELSE [w EXCEPT !.queue =
            SortedFacts(t, {<<v, 0>> : v \in {x \in Derived(t) :
                               t.layers[x] = layer /\ w.state[x] = 0}})]

(* AxiomEvaluator::evaluate. *)
Evaluate(t, s) ==
    LET start == [v \in Vars(t) |-> IF v \in Derived(t) THEN 0 ELSE s[v]]
        literals == SortedFacts(t, {<<v, s[v]>> : v \in Vars(t) \ Derived(t)})
        reset == [state |-> start, queue |-> literals,
                  unsatisfied |-> [i \in DOMAIN t.axioms |->
                                      Cardinality(t.axioms[i].cond)]]
        trivial == FoldLeft(LAMBDA acc, r : IF r.cond = {} THEN FireRule(r, acc) ELSE acc,
                            reset, t.axioms)
        layer[l \in -1 .. LastLayer(t)] ==
            IF l = -1 THEN trivial
            ELSE NegationByFailure(t, l, HornRules(t, layer[l - 1]))
    IN  IF Derived(t) = {} THEN s ELSE layer[LastLayer(t)].state

(* StateRegistry::get_successor_state. *)
Successor(t, o, s) == Evaluate(t, ApplyEffects(t, o, s))
===============================================================================
