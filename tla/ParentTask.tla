------------------------------ MODULE ParentTask ------------------------------
(***************************************************************************)
(* The planning task a reformulation delegates to (tasks/delegating_task,  *)
(* task_utils/task_properties.h): its variables, preconditions and effects *)
(* are abstracted to a deterministic transition function on states.  A     *)
(* reformulated task adds variables, preconditions, effects and goals to   *)
(* it and never changes what it does.                                      *)
(***************************************************************************)
CONSTANTS
    State,          \* the states of the parent task
    Op,             \* its operators
    InitialState,   \* get_initial_state_values
    GoalStates,     \* the states in which every goal fact holds
    Succ            \* <<s, o>> |-> successor, defined where o is applicable in s

ASSUME ParentAssumption ==
    /\ InitialState \in State
    /\ GoalStates \subseteq State
    /\ DOMAIN Succ \subseteq State \X Op
    /\ \A p \in DOMAIN Succ : Succ[p] \in State

(* task_properties::is_applicable: all preconditions of o hold in st. *)
IsApplicable(o, st) == <<st, o>> \in DOMAIN Succ

(* StateRegistry::get_successor_state: the effects of o that fire in st. *)
Successor(o, st) == Succ[<<st, o>>]

(* task_properties::is_goal_state. *)
IsGoalState(st) == st \in GoalStates
===============================================================================
