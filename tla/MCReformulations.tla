---------------------------- MODULE MCReformulations ----------------------------
(* A task with two generators: one exchanges east and west, which go         *)
(* around a cycle, the other look and wait, which apply in the initial state *)
(* only and do not change it.  The plans read are one or two plans of the    *)
(* task, with up to four operators, repetitions included.                    *)
EXTENDS Reformulations

CONSTANTS east, west, look, wait

MCOp == {east, west, look, wait}
MCState == 0 .. 2
MCGoal == {1, 2}

MCSucc == [p \in (MCState \X {east, west}) \cup ({0} \X {look, wait}) |->
              CASE p[2] = east -> (p[1] + 1) % 3
                [] p[2] = west -> (p[1] + 2) % 3
                [] OTHER -> 0]

MCGenerators ==
    <<[o \in MCOp |-> CASE o = east -> west [] o = west -> east [] OTHER -> o],
      [o \in MCOp |-> CASE o = look -> wait [] o = wait -> look [] OTHER -> o]>>

After(ops) ==
    FoldLeft(LAMBDA st, o : IF <<st, o>> \in DOMAIN MCSucc THEN MCSucc[<<st, o>>] ELSE -1,
             0, ops)

Plans == {p \in UNION {[1 .. n -> {east, west, look}] : n \in 1 .. 4} : After(p) \in MCGoal}

(* No task is made when enough plans were found by symmetries. *)
Asked ==
    {<<k, <<p>>>> : p \in Plans, k \in {-1, 3}}
    \cup {<<k, <<p, q>>>> : p \in {x \in Plans : Len(x) <= 2},
                            q \in {x \in Plans : Len(x) <= 3}, k \in {-1, 4}}

MCInputs ==
    {Reformulation(r[1], r[2]) :
        r \in {x \in Asked : /\ IsTaskCreated("MULTISET", x[1], x[2])
                             /\ IsTaskCreated("SET", x[1], x[2])}}

MCInputPlans == {i.forbidding_plan : i \in MCInputs}
MCInputMultisets == {i.forbidding_multisets : i \in MCInputs}
MCInputSets == {i.forbidding_sets : i \in MCInputs}
===============================================================================
