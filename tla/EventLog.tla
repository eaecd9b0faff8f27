------------------------------ MODULE EventLog ------------------------------
(***************************************************************************)
(* internal/eventstream: the workflow library's event streamer over the    *)
(* sqlite tables event_log and event_cursors (internal/store), shared by   *)
(* every step consumer of the daemon.  One log holds the rows of every     *)
(* topic; a receiver has a persisted cursor in it, skips the rows of other *)
(* topics without acknowledging them, and waits on a condition variable    *)
(* when it finds none of its own.                                          *)
(*                                                                         *)
(* Send, Recv's search and an acknowledgement each hold the Streamer's     *)
(* mutex and are one step; the retention sweeper deletes rows without it.  *)
(***************************************************************************)
EXTENDS Naturals, FiniteSets

CONSTANTS
    Topics, Runs,
    Receivers,     \* receiver names
    TopicOf,       \* the topic a receiver was created for
    FromLatest,    \* receivers created with StreamFromLatest
    MaxEvents      \* bound: events sent

ASSUME LogAssumption ==
    /\ TopicOf \in [Receivers -> Topics]
    /\ FromLatest \subseteq Receivers
    /\ MaxEvents \in Nat

Rows == [id : Nat \ {0}, topic : Topics, run : Runs]

VARIABLES
    rows,     \* event_log
    lastId,   \* its AUTOINCREMENT sequence: identifiers are not used again
    named,    \* the names with a row in event_cursors
    cursor,   \* their cursors
    open,     \* the receivers of the running daemon
    holding,  \* the row Recv returned and nobody acknowledged yet, 0 for none
    parked    \* the receivers in cond.Wait

tables == <<rows, lastId, named, cursor>>
vars   == <<tables, open, holding, parked>>

\* The tables and the receivers have their types, and no cursor or held row is
\* ahead of the log (ensureCursor, nextEvent, advanceCursor).
TypeOK ==
    /\ rows \subseteq Rows /\ lastId \in Nat
    /\ \A e \in rows : e.id <= lastId
    /\ named \subseteq Receivers /\ open \subseteq named /\ parked \subseteq open
    /\ cursor \in [Receivers -> Nat] /\ holding \in [Receivers -> Nat]
    /\ \A r \in Receivers : cursor[r] <= lastId /\ holding[r] <= lastId

Init ==
    /\ rows = {} /\ lastId = 0
    /\ named = {} /\ cursor = [r \in Receivers |-> 0]
    /\ open = {} /\ parked = {}
    /\ holding = [r \in Receivers |-> 0]

-----------------------------------------------------------------------------
(* Opening a receiver. *)

\* SELECT COALESCE(MAX(id), 0) FROM event_log.
IsMaxId(n) ==
    \/ rows = {} /\ n = 0
    \/ /\ \E e \in rows : n = e.id
       /\ \A e \in rows : e.id <= n

\* The first receiver of a name gets a cursor; later ones find it.
EnsureCursor(r) ==
    \/ /\ r \notin named
       /\ named' = named \cup {r}
       /\ \E start \in 0..lastId :
            /\ IF r \in FromLatest THEN IsMaxId(start) ELSE start = 0
            /\ cursor' = [cursor EXCEPT ![r] = start]
    \/ /\ r \in named
       /\ UNCHANGED <<named, cursor>>

NewReceiver(r) ==
    /\ r \notin open
    /\ EnsureCursor(r)
    /\ open' = open \cup {r}
    /\ UNCHANGED <<rows, lastId, holding, parked>>

-----------------------------------------------------------------------------
(* Send. *)

\* Mutated form of Send: no broadcast.
SendSilently(t, run) ==
    /\ lastId < MaxEvents
    /\ lastId' = lastId + 1
    /\ rows' = rows \cup {[id |-> lastId + 1, topic |-> t, run |-> run]}
    /\ UNCHANGED <<named, cursor, open, holding, parked>>

Send(t, run) ==
    /\ lastId < MaxEvents                                              \* bound
    /\ lastId' = lastId + 1
    /\ rows' = rows \cup {[id |-> lastId + 1, topic |-> t, run |-> run]}
    /\ parked' = {}                                                    \* cond.Broadcast
    /\ UNCHANGED <<named, cursor, open, holding>>

-----------------------------------------------------------------------------
(* Recv. *)

\* The rows past r's cursor, and those of them on its topic.
Candidates(r) == {e \in rows : e.id > cursor[r]}
Matches(r)    == {e \in Candidates(r) : e.topic = TopicOf[r]}

\* The first match in id order.
IsNext(e, r) == e \in Matches(r) /\ \A f \in Matches(r) : e.id <= f.id

\* Mutated form of Skipped: rows behind the match are skipped too.
SkippedAll(r) == {e \in Candidates(r) : e.topic # TopicOf[r]}

\* The rows of other topics in front of the first match.
Skipped(r) == {e \in Candidates(r) : \A f \in Matches(r) : e.id < f.id}

\* The persisted cursor moves past them.
SkipTo(r) ==
    \E n \in 0..lastId :
        /\ IF Skipped(r) = {} THEN n = cursor[r]
           ELSE /\ \E e \in Skipped(r) : n = e.id
                /\ \A e \in Skipped(r) : e.id <= n
        /\ cursor' = [cursor EXCEPT ![r] = n]

Recv(r) ==
    /\ r \in open \ parked
    /\ holding[r] = 0
    /\ SkipTo(r)
    /\ \/ /\ Matches(r) = {}
          /\ parked' = parked \cup {r}
          /\ UNCHANGED holding
       \/ /\ \E e \in rows : IsNext(e, r) /\ holding' = [holding EXCEPT ![r] = e.id]
          /\ UNCHANGED parked
    /\ UNCHANGED <<rows, lastId, named, open>>

-----------------------------------------------------------------------------
(* What becomes of an event, the retention sweeper, and the daemon. *)

\* Mutated form of AdvanceCursor: no row is updated, as with the comparison the wrong
\* way round.
AdvanceNoCursor(r) == UNCHANGED cursor

AdvanceCursor(r) ==
    cursor' = [cursor EXCEPT ![r] = IF @ < holding[r] THEN holding[r] ELSE @]

Ack(r) ==
    /\ holding[r] # 0
    /\ AdvanceCursor(r)
    /\ holding' = [holding EXCEPT ![r] = 0]
    /\ parked' = {}                                                    \* cond.Broadcast
    /\ UNCHANGED <<rows, lastId, named, open>>

\* The step failed: its consumer comes back to Recv without an Ack.
StepFails(r) ==
    /\ holding[r] # 0
    /\ holding' = [holding EXCEPT ![r] = 0]
    /\ UNCHANGED <<tables, open, parked>>

\* The event_log part of DeleteRun; event_cursors is left alone.
DeleteRun(run) ==
    /\ rows' = {e \in rows : e.run # run}
    /\ UNCHANGED <<lastId, named, cursor, open, holding, parked>>

Restart ==
    /\ open' = {} /\ parked' = {}
    /\ holding' = [r \in Receivers |-> 0]
    /\ UNCHANGED tables

Next ==
    \/ \E r \in Receivers : NewReceiver(r) \/ Recv(r) \/ Ack(r) \/ StepFails(r)
    \/ \E t \in Topics, run \in Runs : Send(t, run)
    \/ \E run \in Runs : DeleteRun(run)
    \/ Restart

\* The daemon opens its receivers, each goroutine keeps calling Recv, and a step
\* that is tried again and again works in the end, restarts notwithstanding.
Fairness ==
    \A r \in Receivers :
        /\ WF_vars(NewReceiver(r))
        /\ SF_vars(Recv(r))
        /\ SF_vars(Ack(r))

Spec == Init /\ [][Next]_vars /\ Fairness

-----------------------------------------------------------------------------
(* Properties. *)

\* What a receiver has yet to acknowledge: the rows of its topic past its
\* cursor, once it has one.
Owed == [r \in Receivers |-> IF r \in named THEN {e.id : e \in Matches(r)} ELSE {}]

Queues == INSTANCE TopicQueues WITH published <- rows, known <- named, owed <- Owed

\* The log implements the queues: nothing is lost to a skipped row, a deletion
\* or a restart, nothing acknowledged comes back, and events come in order
\* (nextEvent, advanceCursor, ensureCursor; ADR-0049).
ImplementsQueues == Queues!QueuesSpec

\* No receiver sleeps while there is an event for it: whoever adds one wakes it
\* (Send's Broadcast under the mutex Recv searches under).
NoLostWakeup == \A r \in parked : Matches(r) = {}

\* Every event is acknowledged in the end, or deleted with its Run: once no more
\* of them are sent, the queues drain.
QueuesDrain == []<>(\A r \in Receivers : Owed[r] = {})
=============================================================================
