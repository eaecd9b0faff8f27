------------------------------ MODULE RunStore ------------------------------
(***************************************************************************)
(* The records of the Runs and everybody who writes them: the consumers of *)
(* the steps, callbacks, the daemon's reconciler and retention sweeper,    *)
(* and the CLI, which writes to the same sqlite file from a process of its *)
(* own.  Store updates the record and adds its event to the outbox in one  *)
(* transaction, and compares nothing; the relay moves events to the log.   *)
(*                                                                         *)
(* A record is its version, its status and whether it is auto-paused; an   *)
(* event is the version and the step status it announces.  Events are bags:*)
(* EventLog shows their order, and any order is allowed here.  What a step *)
(* or a callback decides is free, within the transitions Build declares.   *)
(***************************************************************************)
EXTENDS Naturals, StatusGraph

CONSTANTS
    Runs,
    Callers,         \* goroutines that dispatch callbacks: the poller's, /control's
    PauseAfterErrs,  \* stepPauseAfterErrCount
    MaxVersion,      \* bound: writes to one record
    MaxMeddling      \* bound: restarts, commands of the CLI and tries of the sweepers

ASSUME StoreAssumption ==
    /\ PauseAfterErrs \in Nat \ {0}
    /\ MaxVersion \in Nat \ {0} /\ MaxMeddling \in Nat

Versions == 1..MaxVersion
NoRecord == [version |-> 0, status |-> "none", paused |-> FALSE]
Records  == [version : Versions, status : Statuses, paused : BOOLEAN]
Events   == [run : Runs, version : Versions, status : Steps]
Reads    == [run : Runs, version : Versions, status : Statuses]

VARIABLES
    rec,         \* records
    outbox,      \* outbox: how often each event is in it
    log,         \* event_log past the cursors: how often each event is in it
    relaying,    \* the event the relay has sent and not yet deleted
    held,        \* per step consumer, the event it received
    done,        \* the consumers that have dealt with it, and will acknowledge it
    errs,        \* errors in a row of the step a consumer is running
    calls,       \* per caller, the record its callback has read
    abandoning,  \* the record `syntropy abandon` has read
    picked,      \* the record the reconciler looked up and is sending an event for
    listed,      \* what ListTerminalRuns returned
    up,          \* the daemon is running
    meddling     \* how many restarts, commands and sweeps there were

tables    == <<rec, outbox, log>>
consumers == <<held, done, errs>>
sweepers  == <<picked, listed>>
vars      == <<tables, relaying, consumers, calls, abandoning, sweepers, up, meddling>>

EventOf(r, x)  == [run |-> r, version |-> x.version, status |-> x.status]
RecordOf(e)    == [version |-> e.version, status |-> e.status, paused |-> FALSE]
ReadOf(r)      == EventOf(r, rec[r])
Stored(r)      == rec[r] # NoRecord
Writable(r)    == Stored(r) /\ rec[r].version < MaxVersion               \* bound

\* The event whose step consumer s is running.
Running(s) == IF s \in done THEN {} ELSE held[s]

TypeOK ==
    /\ rec \in [Runs -> Records \cup {NoRecord}]
    /\ outbox \in [Events -> Nat] /\ log \in [Events -> Nat]
    /\ relaying \subseteq Events
    /\ held \in [Steps -> SUBSET Events]
    /\ \A s \in Steps : \A e, f \in held[s] : e = f /\ e.status = s
    /\ done \subseteq Steps /\ errs \in [Steps -> Nat]
    /\ calls \in [Callers -> SUBSET Reads] /\ abandoning \subseteq Reads
    /\ \A c \in Callers : \A x \in calls[c] : x.status \in Callbacks
    /\ picked \subseteq Events /\ listed \subseteq Runs
    /\ up \in BOOLEAN /\ meddling \in Nat

\* Every Run has just been triggered.
Init ==
    /\ rec = [r \in Runs |-> [version |-> 1, status |-> "Initiated", paused |-> FALSE]]
    /\ outbox = [e \in Events |-> IF e.version = 1 /\ e.status = "Initiated" THEN 1 ELSE 0]
    /\ log = [e \in Events |-> 0]
    /\ relaying = {}
    /\ held = [s \in Steps |-> {}] /\ done = {} /\ errs = [s \in Steps |-> 0]
    /\ calls = [c \in Callers |-> {}] /\ abandoning = {}
    /\ picked = {} /\ listed = {}
    /\ up = TRUE /\ meddling = 0

\* A restart, a command of the CLI or a try of a sweeper.
Meddle == meddling < MaxMeddling /\ meddling' = meddling + 1             \* bound

-----------------------------------------------------------------------------
(* Store, and the relay. *)

\* Mutated form of Store: the outbox is written for a change of status only.
StoreQuietly(r, x) ==
    /\ rec' = [rec EXCEPT ![r] = x]
    /\ outbox' = IF x.status \in Steps /\ x.status # rec[r].status
                 THEN [outbox EXCEPT ![EventOf(r, x)] = @ + 1] ELSE outbox

\* The record, and its event: statuses without a step have no consumer here.
Store(r, x) ==
    /\ rec' = [rec EXCEPT ![r] = x]
    /\ outbox' = IF x.status \in Steps
                 THEN [outbox EXCEPT ![EventOf(r, x)] = @ + 1] ELSE outbox

RelaySend(e) ==
    /\ up /\ relaying = {} /\ outbox[e] > 0
    /\ log' = [log EXCEPT ![e] = @ + 1]
    /\ relaying' = {e}
    /\ UNCHANGED <<rec, outbox, consumers, calls, abandoning, sweepers, up, meddling>>

DeleteOutboxEvent(e) ==
    /\ up /\ e \in relaying
    /\ outbox' = [outbox EXCEPT ![e] = @ - 1]
    /\ relaying' = {}
    /\ UNCHANGED <<rec, log, consumers, calls, abandoning, sweepers, up, meddling>>

-----------------------------------------------------------------------------
(* A step's consumer. *)

\* The event is of the record as it is: the step is run.
Receive(s, e) ==
    /\ up /\ held[s] = {} /\ e.status = s /\ log[e] > 0
    /\ e.version < MaxVersion                                            \* bound
    /\ rec[e.run] = RecordOf(e)
    /\ log' = [log EXCEPT ![e] = @ - 1]
    /\ held' = [held EXCEPT ![s] = {e}]
    /\ UNCHANGED <<rec, outbox, relaying, done, errs, calls, abandoning, sweepers, up, meddling>>

\* The record is gone, elsewhere, paused or newer: the event is skipped.  An event
\* that is newer than its record is an error, and comes again.
Skip(s, e) ==
    /\ up /\ held[s] = {} /\ e.status = s /\ log[e] > 0
    /\ \/ ~Stored(e.run)
       \/ rec[e.run].status # s
       \/ rec[e.run].paused
       \/ rec[e.run].version > e.version
    /\ log' = [log EXCEPT ![e] = @ - 1]
    /\ held' = [held EXCEPT ![s] = {e}]
    /\ done' = done \cup {s}
    /\ UNCHANGED <<rec, outbox, relaying, errs, calls, abandoning, sweepers, up, meddling>>

\* The step's result is stored if the record still has its status; a record that is
\* gone is an error, after which the event is skipped.
StepReturns(s, next) ==
    \E e \in held[s] :
        /\ up /\ s \notin done
        /\ IF rec[e.run].status = s
           THEN Store(e.run, [version |-> e.version + 1, status |-> next, paused |-> FALSE])
           ELSE UNCHANGED <<rec, outbox>>
        /\ done' = done \cup {s}
        /\ errs' = [errs EXCEPT ![s] = 0]
        /\ UNCHANGED <<log, relaying, held, calls, abandoning, sweepers, up, meddling>>

\* Mutated form of StepFails: the count starts over instead of parking the Run.
StepFailsAgain(s) ==
    \E e \in held[s] :
        /\ up /\ s \notin done
        /\ errs' = [errs EXCEPT ![s] = (@ + 1) % PauseAfterErrs]
        /\ UNCHANGED <<tables, relaying, held, done, calls, abandoning, sweepers, up, meddling>>

\* A step that fails is run again, until PauseAfterErrCount parks the Run; the pause
\* is stored over whatever is there.
StepFails(s) ==
    \E e \in held[s] :
        /\ up /\ s \notin done
        /\ IF errs[s] + 1 < PauseAfterErrs
           THEN /\ errs' = [errs EXCEPT ![s] = @ + 1]
                /\ UNCHANGED <<rec, outbox, done>>
           ELSE /\ errs' = [errs EXCEPT ![s] = 0]
                /\ Store(e.run, [version |-> e.version + 1, status |-> s, paused |-> TRUE])
                /\ done' = done \cup {s}
        /\ UNCHANGED <<log, relaying, held, calls, abandoning, sweepers, up, meddling>>

Acknowledge(s) ==
    /\ up /\ s \in done
    /\ held' = [held EXCEPT ![s] = {}]
    /\ done' = done \ {s}
    /\ UNCHANGED <<tables, relaying, errs, calls, abandoning, sweepers, up, meddling>>

\* pausedRecordsRetry, an hour later.
AutoRetry(r) ==
    /\ up /\ Writable(r) /\ rec[r].paused
    /\ Store(r, [version |-> rec[r].version + 1, status |-> rec[r].status, paused |-> FALSE])
    /\ UNCHANGED <<log, relaying, consumers, calls, abandoning, sweepers, up, meddling>>

-----------------------------------------------------------------------------
(* Callbacks. *)

\* The dispatcher looks the record up, and the library reads it for the handler.
CallbackReads(c, r) ==
    /\ up /\ calls[c] = {} /\ Writable(r) /\ rec[r].status \in Callbacks
    /\ calls' = [calls EXCEPT ![c] = {ReadOf(r)}]
    /\ UNCHANGED <<tables, relaying, consumers, abandoning, sweepers, up, meddling>>

\* Mutated form of CallbackReturns: the result is stored wherever the Run is by then.
CallbackOverwrites(c, next) ==
    \E x \in calls[c] :
        /\ up
        /\ next \in Goes[x.status]
        /\ Store(x.run, [version |-> x.version + 1, status |-> next, paused |-> FALSE])
        /\ calls' = [calls EXCEPT ![c] = {}]
        /\ UNCHANGED <<log, relaying, consumers, abandoning, sweepers, up, meddling>>

\* Its result is stored if the status is still the same, whatever the version.
CallbackReturns(c, next) ==
    \E x \in calls[c] :
        /\ up
        /\ next \in Goes[x.status]
        /\ IF rec[x.run].status = x.status
           THEN Store(x.run, [version |-> x.version + 1, status |-> next, paused |-> FALSE])
           ELSE UNCHANGED <<rec, outbox>>
        /\ calls' = [calls EXCEPT ![c] = {}]
        /\ UNCHANGED <<log, relaying, consumers, abandoning, sweepers, up, meddling>>

-----------------------------------------------------------------------------
(* The CLI, from its own process. *)

\* Mutated form of Unattended: the daemon is not asked.
AlwaysUnattended(r) == TRUE

\* cmdAbandon and cmdResume go to the store if the daemon cannot be reached, if the
\* Run is auto-paused, or if the callback /control asked for failed.
Unattended(r) == ~up \/ rec[r].paused \/ rec[r].status \in Callbacks

\* directAbandon reads the record, and closes MRs and removes worktrees before it
\* stores its result.
AbandonReads(r) ==
    /\ Meddle
    /\ abandoning = {} /\ Writable(r)
    /\ Unattended(r)
    /\ rec[r].status \notin Ended
    /\ abandoning' = {ReadOf(r)}
    /\ UNCHANGED <<tables, relaying, consumers, calls, sweepers, up>>

AbandonStores ==
    \E x \in abandoning :
        /\ Store(x.run, [version |-> x.version + 1, status |-> "Cancelled", paused |-> FALSE])
        /\ abandoning' = {}
        /\ UNCHANGED <<log, relaying, consumers, calls, sweepers, up, meddling>>

\* directResume has nothing to do between its Lookup and its Store: one action.
DirectResume(r) ==
    /\ Meddle
    /\ Writable(r)
    /\ Unattended(r)
    /\ \E s \in Statuses :
         /\ IF rec[r].paused THEN s = rec[r].status
            ELSE rec[r].status \in {"Cancelled", "Failed", "Paused"} /\ s = "Discovering"
         /\ Store(r, [version |-> rec[r].version + 1, status |-> s, paused |-> FALSE])
    /\ UNCHANGED <<log, relaying, consumers, calls, abandoning, sweepers, up>>

-----------------------------------------------------------------------------
(* The reconciler, and the retention sweeper. *)

\* Scan lists Runs that look stuck (IsStuck: Discovering or Working), and sweepOnce looks
\* each of them up again: by then the Run may be anywhere but in Initiated.  An event of
\* a status without a step would reach nobody.
LookupStuck(r) ==
    /\ Meddle
    /\ up /\ picked = {} /\ rec[r].status \in {"Discovering", "Working"}
    /\ picked' = {ReadOf(r)}
    /\ UNCHANGED <<tables, relaying, consumers, calls, abandoning, listed, up>>

\* An event of the record that was looked up, straight to the log.
Retrigger ==
    \E e \in picked :
        /\ up
        /\ log' = [log EXCEPT ![e] = @ + 1]
        /\ picked' = {}
        /\ UNCHANGED <<rec, outbox, relaying, consumers, calls, abandoning, listed, up, meddling>>

\* What is old enough is nobody's business any more: RetentionPeriod is days.
Settled(r) ==
    /\ rec[r].status \in Ended
    /\ \A s \in Steps : \A e \in Running(s) : e.run # r
    /\ \A x \in abandoning : x.run # r

ListTerminalRuns ==
    /\ Meddle
    /\ up /\ listed = {}
    /\ \E old \in SUBSET {r \in Runs : Settled(r)} : old # {} /\ listed' = old
    /\ UNCHANGED <<tables, relaying, consumers, calls, abandoning, picked, up>>

DeleteRun(r) ==
    /\ rec' = [rec EXCEPT ![r] = NoRecord]
    /\ outbox' = [e \in Events |-> IF e.run = r THEN 0 ELSE outbox[e]]
    /\ log' = [e \in Events |-> IF e.run = r THEN 0 ELSE log[e]]
    /\ relaying' = {e \in relaying : e.run # r}

\* One Run after the other; a deletion that fails is left to the next tick.
SweepRun(r) ==
    /\ up /\ r \in listed
    /\ listed' = listed \ {r}
    /\ DeleteRun(r) \/ UNCHANGED <<tables, relaying>>
    /\ UNCHANGED <<consumers, calls, abandoning, picked, up, meddling>>

-----------------------------------------------------------------------------
(* The daemon. *)

\* Only the tables are left: an event that was received and not acknowledged is past
\* the cursor again, unless its row went with its Run.
Crash ==
    /\ Meddle
    /\ up /\ up' = FALSE
    /\ log' = [e \in Events |->
                 IF e \in held[e.status] /\ Stored(e.run) THEN log[e] + 1 ELSE log[e]]
    /\ relaying' = {}
    /\ held' = [s \in Steps |-> {}] /\ done' = {} /\ errs' = [s \in Steps |-> 0]
    /\ calls' = [c \in Callers |-> {}]
    /\ picked' = {} /\ listed' = {}
    /\ UNCHANGED <<rec, outbox, abandoning>>

Start ==
    /\ ~up /\ up' = TRUE
    /\ UNCHANGED <<tables, relaying, consumers, calls, abandoning, sweepers, meddling>>

Relay == \E e \in Events : RelaySend(e) \/ DeleteOutboxEvent(e)

Consume(s) ==
    \/ \E e \in Events : Receive(s, e) \/ Skip(s, e)
    \/ \E next \in Goes[s] : StepReturns(s, next)
    \/ StepFails(s)
    \/ Acknowledge(s)

Next ==
    \/ Relay
    \/ \E s \in Steps : Consume(s)
    \/ \E r \in Runs : AutoRetry(r)
    \/ \E c \in Callers, r \in Runs : CallbackReads(c, r)
    \/ \E c \in Callers, next \in Statuses : CallbackReturns(c, next)
    \/ \E r \in Runs : AbandonReads(r) \/ DirectResume(r)
    \/ AbandonStores
    \/ Retrigger \/ ListTerminalRuns
    \/ \E r \in Runs : LookupStuck(r) \/ SweepRun(r)
    \/ Crash \/ Start

\* The daemon is started again, its relay and its consumers keep running, and a step
\* returns or fails.
Fairness == WF_vars(Start) /\ WF_vars(Relay) /\ \A s \in Steps : WF_vars(Consume(s))

Spec == Init /\ [][Next]_vars /\ Fairness

-----------------------------------------------------------------------------
(* Properties. *)

\* A Run whose step is due: its record is in a step status and not paused.
Due(r) == rec[r].status \in Steps /\ ~rec[r].paused

\* An event is waited for while a copy of it is left; a step that is being run counts.
Waiting(e) == outbox[e] + log[e] > 0 \/ e \in Running(e.status)

\* A Run whose step is due has the event for it on its way, whoever stored the record,
\* whatever the relay, the reconciler and restarts do to the events: it is never left
\* to the reconciler to find (sqlite.go:246, the transactional outbox).
EventOnItsWay == \A r \in Runs : Due(r) => Waiting(EventOf(r, rec[r]))

\* While a step is run, its record stays the one it read, unless the Run is cancelled
\* or deleted: no event that comes twice, retriggered or stale, no callback and no
\* revival makes a second step work on it ("a no-op rather than a double-process",
\* reconciler.go:98).
StepOwnsRecord ==
    \A s \in Steps : \A e \in Running(s) :
        rec[e.run] = RecordOf(e) \/ rec[e.run].status \in {"Cancelled", "none"}

\* The retention sweeper deletes no Run that was taken up again after it was listed
\* (retention.go:91; "no further processing will ever touch these Runs again",
\* sqlite.go:456): who revives an ended Run has found the daemon gone.
OnlyEndedAreSwept ==
    [][\A r \in Runs : Stored(r) /\ rec'[r] = NoRecord => rec[r].status \in Ended]_vars

\* The life of each Run, as its record shows it.
Life(r) ==
    INSTANCE RunLifecycle WITH status <- rec[r].status, paused <- rec[r].paused,
                               CanRevive <- TRUE, Overlapping <- TRUE

\* However consumers, callbacks, sweepers, restarts and the CLI overlap, every write
\* takes its Run along a transition that Build declares (workflow.go:81), parks it, or is
\* one of the CLI's: a result that comes late takes no Run out of a pause it was not
\* read in or past its end, only ended Runs are deleted, and they do not come back.
ImplementsLifecycle ==
    /\ \A r \in Runs : Life(r)!Init
    /\ [][\A r \in Runs : [Life(r)!Next]_(Life(r)!vars)]_vars

\* No event is newer than its record.
NoneAhead ==
    \A e \in Events : Waiting(e) => ~Stored(e.run) \/ e.version <= rec[e.run].version

\* No Run is due for ever: its steps are run until they wait, end or are parked, over
\* restarts and failures; provided no stale write leaves an event newer than its record
\* (stepPauseAfterErrCount, workflow.go:62-69).
StepsEnd ==
    []NoneAhead =>
        \A r \in Runs : []<>(~Due(r) \/ rec[r].version = MaxVersion)
=============================================================================
