---------------------------- MODULE FinishingTask ----------------------------
(***************************************************************************)
(* What a reformulation promises that checks a plan only after its last    *)
(* operator: its runs are those of the parent task until it finishes, it   *)
(* finishes only in a goal state of the parent and only when the history   *)
(* of the run is not forbidden, and nothing is applied after that.         *)
(***************************************************************************)
EXTENDS ParentTask

CONSTANTS
    Givens,             \* what can be forbidden
    EmptyHistory(_),    \* the history of the empty sequence
    Extend(_, _, _),    \* Extend(given, h, o): history h after one more operator
    Forbidden(_, _)     \* Forbidden(given, h): h is that of a forbidden plan

VARIABLES
    given,      \* what this reformulation forbids
    s,          \* the state of the parent task
    hist,       \* the history of the operators applied so far
    finished    \* whether the reformulated task's goal holds

vars == <<given, s, hist, finished>>

Init ==
    /\ given \in Givens
    /\ s = InitialState
    /\ hist = EmptyHistory(given)
    /\ finished = FALSE

Apply(o) ==
    /\ ~finished
    /\ IsApplicable(o, s)
    /\ s' = Successor(o, s)
    /\ hist' = Extend(given, hist, o)
    /\ UNCHANGED <<given, finished>>

Finish ==
    /\ ~finished
    /\ IsGoalState(s)
    /\ ~Forbidden(given, hist)
    /\ finished' = TRUE
    /\ UNCHANGED <<given, s, hist>>

Next == Finish \/ \E o \in Op : Apply(o)

Spec == Init /\ [][Next]_vars
===============================================================================
