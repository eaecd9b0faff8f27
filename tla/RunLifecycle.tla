---------------------------- MODULE RunLifecycle ----------------------------
(***************************************************************************)
(* What becomes of one Run, seen from its record: the abstract             *)
(* specification of everybody who writes it.  A handler takes a Run that   *)
(* is where the handler belongs along a transition that Build declares;    *)
(* only the circuit breaker parks it, and only the CLI takes it elsewhere. *)
(***************************************************************************)
EXTENDS StatusGraph

CONSTANTS
    CanRevive,   \* whether anyone runs `syntropy resume` against the store
    Overlapping  \* whether a handler can be overtaken by the CLI while it runs

VARIABLES
    status,  \* "none" once the Run is deleted
    paused   \* parked by the circuit breaker

vars == <<status, paused>>

Init == status = "Initiated" /\ paused = FALSE

\* A step runs only while its Run is not parked; a callback's statuses never are.
HandlerReturns ==
    /\ status \in Steps \cup Callbacks /\ ~paused
    /\ status' \in Goes[status]
    /\ UNCHANGED paused

AutoPause ==
    /\ status \in Steps /\ ~paused
    /\ paused' = TRUE
    /\ UNCHANGED status

\* The library an hour later, or `syntropy resume`.
Unpark ==
    /\ paused
    /\ paused' = FALSE
    /\ UNCHANGED status

\* `syntropy abandon`, wherever the Run is.
Cancel ==
    /\ status \in Steps \cup Callbacks
    /\ status' = "Cancelled" /\ paused' = FALSE

Revive ==
    /\ CanRevive
    /\ status \in {"Cancelled", "Failed", "Paused"}
    /\ status' = "Discovering"
    /\ UNCHANGED paused

Delete ==
    /\ status \in Ended
    /\ status' = "none"
    /\ UNCHANGED paused

\* The circuit breaker stores its pause over a Run that was cancelled meanwhile.
PauseOvertaken ==
    /\ Overlapping
    /\ status = "Cancelled"
    /\ status' \in Steps /\ paused' = TRUE

\* directAbandon stores its result over a Run that ended meanwhile.
AbandonOvertaken ==
    /\ Overlapping
    /\ status \in Ended
    /\ status' = "Cancelled"
    /\ UNCHANGED paused

Next ==
    \/ HandlerReturns \/ AutoPause \/ Unpark
    \/ Cancel \/ Revive \/ Delete
    \/ PauseOvertaken \/ AbandonOvertaken

Spec == Init /\ [][Next]_vars
=============================================================================
