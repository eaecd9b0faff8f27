---------------------------- MODULE StatusGraph ----------------------------
(***************************************************************************)
(* The statuses of a Run, and the transitions Build declares between them. *)
(* A handler that returns any other status gets an error from the library, *)
(* every time it is run again.                                             *)
(***************************************************************************)

Steps     == {"Initiated", "Discovering", "Working"}
Callbacks == {"AwaitingMerge", "Paused", "AwaitingAbandonConfirm"}
Ended     == {"Completed", "Failed", "Cancelled"}
Statuses  == Steps \cup Callbacks \cup Ended

\* AddStep, AddCallback and AddTimeout: where a status may go.
Goes == [s \in Steps \cup Callbacks |->
    CASE s = "Initiated"     -> {"Discovering", "Failed"}
      [] s = "Discovering"   -> {"Working", "Completed", "Paused", "Failed"}
      [] s = "Working"       -> {"AwaitingMerge", "Discovering", "Failed"}
      [] s = "AwaitingMerge" -> Callbacks \cup {"Discovering", "Failed", "Cancelled"}
      [] s = "Paused"        -> Callbacks \cup {"Discovering", "Failed", "Cancelled"}
      [] OTHER               -> {"AwaitingAbandonConfirm", "AwaitingMerge", "Cancelled"}]
=============================================================================
