----------------------------- MODULE MCEventLog -----------------------------
(* EventLog with a receiver of each of two topics, one of them from the latest row. *)
EXTENDS EventLog

CONSTANTS discovering, working,   \* topics
          x, y,                   \* Runs
          discover, late          \* receivers

MCTopicOf == [r \in {discover, late} |-> IF r = discover THEN discovering ELSE working]
=============================================================================
