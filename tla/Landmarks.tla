------------------------------- MODULE Landmarks -------------------------------
(***************************************************************************)
(* The fact landmarks and their order (landmarks/landmark_factory_h_m.cc   *)
(* with m = 1, as cegar/utils_landmarks.cc asks for them).  A table has    *)
(* for every fact                                                          *)
(*   level        when it was first reached; -1 if it was not               *)
(*   landmarks    the facts that come before it on every way found so far   *)
(*   necessary    those needed by all operators that first achieve it       *)
(***************************************************************************)
EXTENDS TaskSemantics

EffectsOf(t, o) == {<<e.var, e.val>> : e \in t.operators[o].effects}

(* Effects, and the preconditions the operator leaves as they are. *)
PostconditionsOf(t, o) ==
    EffectsOf(t, o) \cup {f \in t.operators[o].pre : \A g \in EffectsOf(t, o) : g[1] # f[1]}

(* propagate_pm_fact: the operators that need the fact are applied at the  *)
(* next level if nothing they need is missing.                             *)
PropagateFact(t, f, isNew, w) ==
    LET users == {o \in Ops(t) : f \in t.operators[o].pre}
        unsatisfied == [o \in Ops(t) |-> IF isNew /\ o \in users THEN w.unsatisfied[o] - 1
                                         ELSE w.unsatisfied[o]]
    IN  [w EXCEPT !.unsatisfied = unsatisfied,
                  !.next = @ \cup {o \in users : unsatisfied[o] = 0}]

(* Mutation of AchieveAgain: that fewer facts come before f is not passed on. *)
AchieveAgainQuietly(t, f, before, needed, w) ==
    LET entry == w.table[f]
        necessary == IF f \in before THEN entry.necessary ELSE entry.necessary \cap needed
    IN  [w EXCEPT !.table[f].landmarks = @ \cap before, !.table[f].necessary = necessary]

(* A fact that is already its own landmark is achieved again, which does   *)
(* not count for what is necessary to achieve it first.                    *)
AchieveAgain(t, f, before, needed, w) ==
    LET entry == w.table[f]
        landmarks == entry.landmarks \cap before
        necessary == IF f \in before THEN entry.necessary ELSE entry.necessary \cap needed
        updated == [w EXCEPT !.table[f].landmarks = landmarks,
                             !.table[f].necessary = necessary]
    IN  IF landmarks = entry.landmarks THEN updated ELSE PropagateFact(t, f, FALSE, updated)

AchieveFirst(t, f, before, needed, w) ==
    PropagateFact(t, f, TRUE,
        [w EXCEPT !.table[f] = [level |-> w.level, landmarks |-> before,
                                necessary |-> needed]])

ApplyPmOp(t, o, w) ==
    LET needed == t.operators[o].pre
        before == needed \cup UNION {w.table[f].landmarks : f \in needed}
    IN  FoldLeft(LAMBDA acc, f :
                    IF acc.table[f].level # -1 THEN AchieveAgain(t, f, before, needed, acc)
                    ELSE AchieveFirst(t, f, before, needed, acc),
                 w, SortedFacts(t, PostconditionsOf(t, o)))

RECURSIVE Levels(_, _)
Levels(t, w) ==
    IF w.next = {} THEN w.table
    ELSE Levels(t, FoldLeft(LAMBDA acc, o : ApplyPmOp(t, o, acc),
                            [w EXCEPT !.next = {}, !.level = @ + 1],
                            SelectSeq([o \in Ops(t) |-> o], LAMBDA o : o \in w.next)))

(* compute_h_m_landmarks *)
LandmarkTable(t) ==
    LET unreached == [level |-> -1, landmarks |-> {}, necessary |-> {}]
        reached == FoldLeft(LAMBDA acc, v :
                               PropagateFact(t, <<v, t.init[v]>>, TRUE,
                                   [acc EXCEPT !.table[<<v, t.init[v]>>].level = 0]),
                            [table |-> [f \in Facts(t) |-> unreached], level |-> 0, next |-> {},
                             unsatisfied |-> [o \in Ops(t) |-> Cardinality(t.operators[o].pre)]],
                            [v \in Vars(t) |-> v])
    IN  Levels(t, [reached EXCEPT !.next = @ \cup {o \in Ops(t) : reached.unsatisfied[o] = 0}])

(* generate_landmarks: the landmarks of the goal, and the edges that are   *)
(* left when the ones implied by others are taken out.                     *)
FactLandmarks(t, table) == t.goal \cup UNION {table[f].landmarks : f \in t.goal}

Reduce1(table, f) ==
    LET implied == UNION {table[g].landmarks : g \in table[f].landmarks}
    IN  [table EXCEPT ![f].landmarks = (@ \ implied) \ table[f].necessary]

LandmarkParents(t, table) ==
    LET reduced == FoldLeft(Reduce1, table, SortedFacts(t, FactLandmarks(t, table)))
    IN  [f \in FactLandmarks(t, table) |-> reduced[f].landmarks \cup reduced[f].necessary]

RECURSIVE Ancestors(_, _)
Ancestors(parents, facts) ==
    LET more == UNION {parents[f] : f \in facts}
    IN  IF more \subseteq facts THEN facts ELSE Ancestors(parents, facts \cup more)

(* cegar/utils_landmarks.cc: get_prev_landmarks *)
PrevLandmarks(parents, f) == Ancestors(parents, parents[f])
-------------------------------------------------------------------------------
(* The facts that can be reached without ever having f, deletes ignored.   *)
ReachableWithout(t, f) ==
    FoldLeft(LAMBDA facts, round :
                facts \cup UNION {EffectsOf(t, o) \ {f} :
                    o \in {p \in Ops(t) : t.operators[p].pre \subseteq facts}},
             {<<v, t.init[v]>> : v \in Vars(t)} \ {f},
             [i \in 1 .. Cardinality(Facts(t)) |-> i])

(* f has to hold before g can be achieved. *)
HasToComeBefore(t, f, g) ==
    LET reachable == ReachableWithout(t, f)
    IN  /\ ~Holds({g}, t.init)
        /\ \A o \in Ops(t) : g \in EffectsOf(t, o) => ~(t.operators[o].pre \subseteq reachable)
===============================================================================
