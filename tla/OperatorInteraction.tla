-------------------------- MODULE OperatorInteraction --------------------------
(***************************************************************************)
(* plans/operator_interaction.cc: which operators of a task without axioms *)
(* and conditional effects, as its constructor asserts, keep each other    *)
(* from being applied in either order with the same result.                *)
(***************************************************************************)
EXTENDS FDRTask

ContainConflictingFact(facts1, facts2) ==
    \E f1 \in facts1, f2 \in facts2 : f1[1] = f2[1] /\ f1[2] # f2[2]

(* compute_sorted_operators *)
Effects(t, op_no) == {<<e.var, e.val>> : e \in t.operators[op_no].effects}

CanDisable(t, op1_no, op2_no) ==
    ContainConflictingFact(Effects(t, op1_no), t.operators[op2_no].pre)

CanConflict(t, op1_no, op2_no) ==
    ContainConflictingFact(Effects(t, op1_no), Effects(t, op2_no))

(* interfere *)
InterferingPair(t, op1_no, op2_no) ==
    \/ CanDisable(t, op1_no, op2_no)
    \/ CanConflict(t, op1_no, op2_no)
    \/ CanDisable(t, op2_no, op1_no)
================================================================================
