----------------------------- MODULE SymmetryGroup -----------------------------
(***************************************************************************)
(* Group and Permutation: a permutation is a function on the facts of the  *)
(* task that maps the facts of a variable to the facts of a variable; the  *)
(* group is given by a sequence of generators.                             *)
(***************************************************************************)
EXTENDS FDRTask

(* StateRegistry::permute_state and get_new_var_val_by_old_var_val. *)
PermuteState(t, p, s) ==
    LET image == {p[<<v, s[v]>>] : v \in Vars(t)}
    IN  [v \in Vars(t) |-> (CHOOSE f \in image : f[1] = v)[2]]

(* Permutation::replace_if_less: whether the permuted state is smaller in  *)
(* the affected variable with the largest number that changes.             *)
IsLess(t, p, s) ==
    LET permuted == PermuteState(t, p, s)
        changed == {v \in Vars(t) : permuted[v] # s[v]}
    IN  \E v \in changed : /\ \A w \in changed : w <= v
                           /\ permuted[v] < s[v]

(* compute_permutation_trace_to_canonical_representative: the generators   *)
(* are tried in turn until none of them makes the state smaller.           *)
TraceToCanonical(t, group, s) ==
    LET climb[st \in States(t), i \in Nat, changed \in BOOLEAN] ==
            IF i > Len(group)
            THEN IF changed THEN climb[st, 1, FALSE] ELSE <<>>
            ELSE IF IsLess(t, group[i], st)
            THEN <<i>> \o climb[PermuteState(t, group[i], st), i + 1, TRUE]
            ELSE climb[st, i + 1, changed]
    IN  climb[s, 1, FALSE]

(* get_canonical_representative. *)
Canonical(t, group, s) ==
    FoldLeft(LAMBDA st, i : PermuteState(t, group[i], st), s, TraceToCanonical(t, group, s))

IdentityPermutation(t) == [f \in Facts(t) |-> f]

(* compose_permutations: first p1, then p2. *)
Compose(p1, p2) == [f \in DOMAIN p1 |-> p2[p1[f]]]

InversePermutation(p) == [f \in DOMAIN p |-> CHOOSE g \in DOMAIN p : p[g] = f]

PermutationFromTrace(t, group, trace) ==
    FoldLeft(LAMBDA p, i : Compose(p, group[i]), IdentityPermutation(t), trace)

(* create_permutation_from_state_to_state. *)
FromStateToState(t, group, from, to) ==
    Compose(PermutationFromTrace(t, group, TraceToCanonical(t, group, from)),
            InversePermutation(PermutationFromTrace(t, group, TraceToCanonical(t, group, to))))
-------------------------------------------------------------------------------
(* What bliss is trusted with: a generator maps the task to itself.  It    *)
(* permutes the facts, variable by variable, keeps the goal, and maps the  *)
(* operators to operators of the same cost.                                *)
MapsFacts(p, facts) == {p[f] : f \in facts}

MapsEffects(p, effects) ==
    {[var |-> p[<<e.var, e.val>>][1], val |-> p[<<e.var, e.val>>][2],
      cond |-> MapsFacts(p, e.cond)] : e \in effects}

IsAutomorphism(t, p) ==
    /\ p \in [Facts(t) -> Facts(t)]
    /\ MapsFacts(p, Facts(t)) = Facts(t)
    /\ \A f, g \in Facts(t) : (f[1] = g[1]) <=> (p[f][1] = p[g][1])
    /\ MapsFacts(p, t.goal) = t.goal
    /\ \A o \in Ops(t) : \E q \in Ops(t) :
            /\ t.operators[q].pre = MapsFacts(p, t.operators[o].pre)
            /\ t.operators[q].effects = MapsEffects(p, t.operators[o].effects)
            /\ t.operators[q].cost = t.operators[o].cost
===============================================================================
