--------------------------- MODULE SuccessorGenerator ---------------------------
(***************************************************************************)
(* SuccessorGeneratorFactory and the generators it builds.  The operators  *)
(* are sorted by their sorted preconditions; a contiguous range of them    *)
(* is grouped by the variable tested at the current depth and, below that, *)
(* by its value.  A fork visits all groups by variable, a switch only the  *)
(* group for the value the variable has in the state.  The tree is not     *)
(* materialised: GenerateApplicableOps walks the ranges it would consist   *)
(* of.                                                                     *)
(***************************************************************************)
EXTENDS FDRTask

(* vector<FactPair>::operator<. *)
PreconditionLess(p, q) ==
    \E k \in 0 .. Len(p) :
        /\ k <= Len(q)
        /\ SubSeq(p, 1, k) = SubSeq(q, 1, k)
        /\ k < Len(q)
        /\ k = Len(p) \/ FactLess(p[k + 1], q[k + 1])

SortedPrecondition(t, o) == SortedFacts(t, t.operators[o].pre)

(* stable_sort: ties are broken by the operator's number. *)
OperatorInfos(t) ==
    SortSeq([o \in Ops(t) |-> o], LAMBDA o1, o2 :
        LET p == SortedPrecondition(t, o1)
            q == SortedPrecondition(t, o2)
        IN  PreconditionLess(p, q) \/ (p = q /\ o1 < o2))

(* The maximal contiguous parts of a range in which the key is the same. *)
Groups(range, Key(_)) ==
    FoldLeft(LAMBDA groups, o :
                IF groups # <<>> /\ Key(Last(Last(groups))) = Key(o)
                THEN [groups EXCEPT ![Len(groups)] = Append(@, o)]
                ELSE Append(groups, <<o>>), <<>>, range)

(* Mutation of GenerateApplicableOps: the switch descends into the first value group. *)
GenerateFirstValue(t, s) ==
    LET pre == [o \in Ops(t) |-> SortedPrecondition(t, o)]
    IN  SelectSeq(OperatorInfos(t), LAMBDA o : \A i \in DOMAIN pre[o] :
                                        i = 1 \/ s[pre[o][i][1]] = pre[o][i][2])

(* generate_applicable_ops of the generator for all operators. *)
GenerateApplicableOps(t, s) ==
    LET pre == [o \in Ops(t) |-> SortedPrecondition(t, o)]
        Var(o, depth) == IF depth = Len(pre[o]) THEN -1 ELSE pre[o][depth + 1][1]
        Value(o, depth) == pre[o][depth + 1][2]
        walk[depth \in 0 .. Len(t.domains), range \in Seq(Ops(t))] ==
            LET Visit(group) ==
                    IF Var(group[1], depth) = -1 THEN group
                    ELSE FoldLeft(LAMBDA ops, child :
                            IF Value(child[1], depth) = s[Var(child[1], depth)]
                            THEN ops \o walk[depth + 1, child] ELSE ops,
                            <<>>, Groups(group, LAMBDA o : Value(o, depth)))
            IN  FoldLeft(LAMBDA ops, group : ops \o Visit(group),
                         <<>>, Groups(range, LAMBDA o : Var(o, depth)))
    IN  walk[0, OperatorInfos(t)]
===============================================================================
