---------------------------- MODULE TopicQueues ----------------------------
(***************************************************************************)
(* What internal/eventstream promises the workflow library, without its    *)
(* log, cursors, mutex and condition variable: every receiver has a set of *)
(* events it is owed, it is handed the oldest one, and an event it has     *)
(* acknowledged never comes back, whatever is deleted from the log and     *)
(* however often the daemon restarts.                                      *)
(***************************************************************************)
EXTENDS Naturals

CONSTANTS
    Topics, Runs,
    Receivers,     \* names of receivers; each has a name of its own
    TopicOf,       \* the topic a receiver listens to, a function on Receivers
    FromLatest     \* the receivers created with StreamFromLatest

Events == [id : Nat \ {0}, topic : Topics, run : Runs]

VARIABLES
    published,  \* the events that were not deleted
    lastId,     \* identifiers are given out in order, and never again
    known,      \* the receivers that were ever created
    owed,       \* the events a receiver has yet to acknowledge
    holding     \* the event a receiver is working on, 0 for none

qvars == <<published, lastId, known, owed, holding>>

QueuesInit ==
    /\ published = {} /\ lastId = 0
    /\ known = {}
    /\ owed = [r \in Receivers |-> {}]
    /\ holding = [r \in Receivers |-> 0]

\* The identifiers of the events of E on topic t.
OnTopic(E, t) == {e.id : e \in {f \in E : f.topic = t}}

\* A new receiver is owed all there is on its topic, or nothing of it.
Join(r) ==
    /\ r \notin known
    /\ known' = known \cup {r}
    /\ owed' = [owed EXCEPT ![r] = IF r \in FromLatest THEN {} ELSE OnTopic(published, TopicOf[r])]
    /\ UNCHANGED <<published, lastId, holding>>

Publish(t, run) ==
    /\ lastId' = lastId + 1
    /\ published' = published \cup {[id |-> lastId + 1, topic |-> t, run |-> run]}
    /\ owed' = [r \in Receivers |->
                  IF r \in known /\ TopicOf[r] = t THEN owed[r] \cup {lastId + 1} ELSE owed[r]]
    /\ UNCHANGED <<known, holding>>

Deliver(r) ==
    /\ holding[r] = 0
    /\ \E i \in owed[r] :
         /\ \A j \in owed[r] : i <= j
         /\ holding' = [holding EXCEPT ![r] = i]
    /\ UNCHANGED <<published, lastId, known, owed>>

Acknowledge(r) ==
    /\ holding[r] # 0
    /\ owed' = [owed EXCEPT ![r] = @ \ {holding[r]}]
    /\ holding' = [holding EXCEPT ![r] = 0]
    /\ UNCHANGED <<published, lastId, known>>

\* A receiver gives its event back; it stays owed.
Drop(r) ==
    /\ holding[r] # 0
    /\ holding' = [holding EXCEPT ![r] = 0]
    /\ UNCHANGED <<published, lastId, known, owed>>

\* All of a Run's events are deleted, acknowledged or not.
Forget(run) ==
    /\ published' = {e \in published : e.run # run}
    /\ owed' = [r \in Receivers |-> owed[r] \ {e.id : e \in published \ published'}]
    /\ UNCHANGED <<lastId, known, holding>>

QueuesRestart ==
    /\ holding' = [r \in Receivers |-> 0]
    /\ UNCHANGED <<published, lastId, known, owed>>

QueuesNext ==
    \/ \E r \in Receivers : Join(r) \/ Deliver(r) \/ Acknowledge(r) \/ Drop(r)
    \/ \E t \in Topics, run \in Runs : Publish(t, run)
    \/ \E run \in Runs : Forget(run)
    \/ QueuesRestart

QueuesSpec == QueuesInit /\ [][QueuesNext]_qvars

-----------------------------------------------------------------------------
(* Properties. *)

\* A receiver is handed its events in order: what it works on is the oldest it is owed.
HandedInOrder ==
    \A r \in Receivers : holding[r] # 0 => \A i \in owed[r] : holding[r] <= i

\* What a receiver has acknowledged never comes back: only new events become owed.
AcknowledgedForGood ==
    [][\A r \in known : \A i \in owed'[r] \ owed[r] : i > lastId]_qvars

\* Nothing is lost: a receiver stops being owed an event when it has acknowledged it, or
\* when the event was deleted with its Run.
OnlyHandledIsSettled ==
    [][\A r \in Receivers : \A i \in owed[r] \ owed'[r] :
          holding[r] = i \/ \A e \in published' : e.id # i]_qvars
=============================================================================
