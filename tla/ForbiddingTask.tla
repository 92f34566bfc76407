---------------------------- MODULE ForbiddingTask ----------------------------
(***************************************************************************)
(* What every reformulation of a planning task promises: its operator      *)
(* sequences are those of the parent task, all of them, and it accepts one *)
(* exactly when the parent's goal holds and the sequence is not forbidden. *)
(* What is remembered of the sequence (its history) and which histories    *)
(* are forbidden are parameters.                                           *)
(***************************************************************************)
EXTENDS ParentTask

CONSTANTS
    Givens,             \* what can be forbidden
    EmptyHistory(_),    \* the history of the empty sequence
    Extend(_, _, _),    \* Extend(given, h, o): history h after one more operator
    Forbidden(_, _)     \* Forbidden(given, h): h is that of a forbidden plan

VARIABLES
    given,      \* what this reformulation forbids
    s,          \* the state of the parent task
    hist,       \* the history of the operators applied so far
    accepted    \* whether the reformulated task's goal holds

vars == <<given, s, hist, accepted>>

Init ==
    /\ given \in Givens
    /\ s = InitialState
    /\ hist = EmptyHistory(given)
    /\ accepted = (IsGoalState(InitialState) /\ ~Forbidden(given, hist))

Apply(o) ==
    LET next == Extend(given, hist, o)
    IN  /\ IsApplicable(o, s)
        /\ s' = Successor(o, s)
        /\ hist' = next
        /\ accepted' = (IsGoalState(Successor(o, s)) /\ ~Forbidden(given, next))
        /\ UNCHANGED given

Next == \E o \in Op : Apply(o)

Spec == Init /\ [][Next]_vars
===============================================================================
