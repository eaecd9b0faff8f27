-------------------------- MODULE RunStore_proofs --------------------------
(***************************************************************************)
(* Proofs about RunStore, for any number of Runs, callers, errors, writes, *)
(* restarts and commands: a step that is due has its event, a step that is *)
(* run keeps its record, every record goes through its lifecycle, and only *)
(* overtaken writes leave an event newer than its record.                  *)
(***************************************************************************)
EXTENDS RunStore, TLAPS

\* What is read, to be written back, leaves room for its successor.
Bounded ==
    /\ \A s \in Steps : \A e \in Running(s) : e.version < MaxVersion
    /\ \A c \in Callers : \A x \in calls[c] : x.version < MaxVersion
    /\ \A x \in abandoning : x.version < MaxVersion

\* What the relay has sent is in the outbox until it deletes it.
RelayedIsThere == \A e \in relaying : outbox[e] > 0

TypeInv == TypeOK /\ Bounded /\ RelayedIsThere

\* A restart forgets whatever was in memory.
DownIsIdle ==
    ~up => /\ \A s \in Steps : held[s] = {}
           /\ relaying = {} /\ listed = {}

\* Only a step is auto-paused.
PausedInStep == \A r \in Runs : rec[r].paused => rec[r].status \in Steps

\* Two consumers never run steps of the same Run.
OneStepPerRun ==
    \A s, t \in Steps : \A e \in Running(s), f \in Running(t) : e.run = f.run => s = t

\* The Runs that were listed are left alone.
ListedAreOver ==
    \A r \in listed :
        /\ rec[r].status \in Ended \cup {"none"}
        /\ \A s \in Steps : \A e \in Running(s) : e.run # r
        /\ \A x \in abandoning : x.run # r

OwnerInv == DownIsIdle /\ PausedInStep /\ OneStepPerRun /\ StepOwnsRecord /\ ListedAreOver

\* A copy of the event of a due step is left when the relay has deleted its own.
Covered(e) ==
    \/ e \in Running(e.status)
    \/ log[e] > 0
    \/ outbox[e] > IF e \in relaying THEN 1 ELSE 0

\* What a consumer has dealt with is still in its hands.
DoneIsHeld == \A s \in done : held[s] # {}

DueIsCovered == \A r \in Runs : Due(r) => Covered(EventOf(r, rec[r]))

EventInv == DoneIsHeld /\ DueIsCovered

StoreInv == TypeInv /\ OwnerInv /\ EventInv

-----------------------------------------------------------------------------
(* Store. *)

\* Store replaces the record and adds its event, if its status has a step.
LEMMA StoreEffect ==
    ASSUME TypeOK, NEW r \in Runs, NEW x \in Records, Store(r, x)
    PROVE  /\ rec' = [rec EXCEPT ![r] = x]
           /\ rec' \in [Runs -> Records \cup {NoRecord}]
           /\ outbox' \in [Events -> Nat]
           /\ \A e \in Events : outbox'[e] >= outbox[e]
           /\ x.status \in Steps =>
                /\ EventOf(r, x) \in Events
                /\ outbox'[EventOf(r, x)] = outbox[EventOf(r, x)] + 1
<1>1. /\ rec' = [rec EXCEPT ![r] = x]
      /\ outbox' = IF x.status \in Steps
                   THEN [outbox EXCEPT ![EventOf(r, x)] = @ + 1] ELSE outbox
  BY DEF Store
<1>2. x.status \in Steps => EventOf(r, x) \in Events
  BY DEF EventOf, Events, Records
<1>3. rec' \in [Runs -> Records \cup {NoRecord}]
  BY <1>1 DEF TypeOK
<1>4. outbox' \in [Events -> Nat] /\ \A e \in Events : outbox'[e] >= outbox[e]
  BY <1>1, <1>2 DEF TypeOK
<1> QED BY <1>1, <1>2, <1>3, <1>4 DEF TypeOK

\* Statuses and where they may go.
LEMMA StatusFacts ==
    /\ Steps \subseteq Statuses /\ Callbacks \subseteq Statuses /\ Ended \subseteq Statuses
    /\ Steps \cap Callbacks = {} /\ Steps \cap Ended = {} /\ Callbacks \cap Ended = {}
    /\ "none" \notin Statuses
    /\ "Cancelled" \in Ended /\ "Discovering" \in Steps
    /\ \A s \in Steps \cup Callbacks : Goes[s] \subseteq Statuses
BY DEF Steps, Callbacks, Ended, Statuses, Goes

\* The next record of a Run is a record.
LEMMA NextRecord ==
    ASSUME NEW v \in Versions, v < MaxVersion, NEW s \in Statuses, NEW p \in BOOLEAN
    PROVE  [version |-> v + 1, status |-> s, paused |-> p] \in Records
BY StoreAssumption DEF Versions, Records

-----------------------------------------------------------------------------
(* Types. *)

\* The store right after the Runs were triggered.
LEMMA InitType == Init => TypeInv
BY StoreAssumption, StatusFacts
   DEF Init, TypeInv, TypeOK, Bounded, RelayedIsThere, Records, Events, Reads, Versions, Running, Steps

\* Every step keeps the types.
LEMMA NextType == TypeInv /\ [Next]_vars => TypeInv'
<1> SUFFICES ASSUME TypeInv, [Next]_vars PROVE TypeInv'
  OBVIOUS
<1> USE DEF TypeInv
<1>a. /\ rec \in [Runs -> Records \cup {NoRecord}]
      /\ outbox \in [Events -> Nat] /\ log \in [Events -> Nat]
      /\ held \in [Steps -> SUBSET Events] /\ errs \in [Steps -> Nat]
      /\ \A s \in Steps : \A e \in held[s] : e.status = s
  BY DEF TypeOK
<1>b. \A e \in Events : e.run \in Runs /\ e.version \in Versions /\ e.status \in Steps
  BY DEF Events
<1>c. \A x \in Reads : x.run \in Runs /\ x.version \in Versions /\ x.status \in Statuses
  BY DEF Reads
<1>d. \A r \in Runs : Stored(r) =>
        /\ rec[r] \in Records /\ rec[r].version \in Versions
        /\ rec[r].status \in Statuses /\ rec[r].paused \in BOOLEAN
        /\ ReadOf(r) \in Reads
        /\ rec[r].status \in Steps => ReadOf(r) \in Events
  BY <1>a DEF Stored, ReadOf, EventOf, Records, Reads, Events
<1>1. ASSUME NEW e \in Events, RelaySend(e) PROVE TypeInv'
  BY <1>1, <1>a DEF RelaySend, TypeOK, Bounded, RelayedIsThere, Running, consumers, sweepers, tables
<1>2. ASSUME NEW e \in Events, DeleteOutboxEvent(e) PROVE TypeInv'
  BY <1>2, <1>a DEF DeleteOutboxEvent, TypeOK, Bounded, RelayedIsThere, Running, consumers, sweepers, tables
<1>3. ASSUME NEW s \in Steps, NEW e \in Events, Receive(s, e) PROVE TypeInv'
  BY <1>3, <1>a, <1>b DEF Receive, TypeOK, Bounded, RelayedIsThere, Running, consumers, sweepers, tables
<1>4. ASSUME NEW s \in Steps, NEW e \in Events, Skip(s, e) PROVE TypeInv'
  BY <1>4, <1>a, <1>b DEF Skip, TypeOK, Bounded, RelayedIsThere, Running, consumers, sweepers, tables
<1>5. ASSUME NEW s \in Steps, NEW next \in Goes[s], StepReturns(s, next) PROVE TypeInv'
  <2>1. PICK e \in held[s] : StepReturns(s, next)!(e)
    BY <1>5 DEF StepReturns
  <2> DEFINE x == [version |-> e.version + 1, status |-> next, paused |-> FALSE]
  <2>2. e \in Events /\ e.run \in Runs /\ e.version \in Versions /\ e.version < MaxVersion
    BY <2>1, <1>a, <1>b DEF Bounded, Running
  <2>3. x \in Records
    BY <2>2, StatusFacts, NextRecord
  <2>4. CASE rec[e.run].status = s
    <3>1. Store(e.run, x)
      BY <2>1, <2>4
    <3> HIDE DEF x
    <3>2. /\ rec' \in [Runs -> Records \cup {NoRecord}]
          /\ outbox' \in [Events -> Nat] /\ \A f \in Events : outbox'[f] >= outbox[f]
      BY <2>2, <2>3, <3>1, StoreEffect
    <3> QED BY <2>1, <3>2, <1>a DEF TypeOK, Bounded, RelayedIsThere, Running, consumers, sweepers, tables
  <2>5. CASE rec[e.run].status # s
    BY <2>1, <2>5, <1>a DEF TypeOK, Bounded, RelayedIsThere, Running, consumers, sweepers, tables
  <2> QED BY <2>4, <2>5
<1>6. ASSUME NEW s \in Steps, StepFails(s) PROVE TypeInv'
  <2>1. PICK e \in held[s] : StepFails(s)!(e)
    BY <1>6 DEF StepFails
  <2> DEFINE x == [version |-> e.version + 1, status |-> s, paused |-> TRUE]
  <2>2. e \in Events /\ e.run \in Runs /\ e.version \in Versions /\ e.version < MaxVersion
    BY <2>1, <1>a, <1>b DEF Bounded, Running
  <2>3. x \in Records
    BY <2>2, StatusFacts, NextRecord
  <2>4. CASE errs[s] + 1 < PauseAfterErrs
    BY <2>1, <2>4, <1>a DEF TypeOK, Bounded, RelayedIsThere, Running, consumers, sweepers, tables
  <2>5. CASE ~(errs[s] + 1 < PauseAfterErrs)
    <3>1. Store(e.run, x)
      BY <2>1, <2>5
    <3> HIDE DEF x
    <3>2. /\ rec' \in [Runs -> Records \cup {NoRecord}]
          /\ outbox' \in [Events -> Nat] /\ \A f \in Events : outbox'[f] >= outbox[f]
      BY <2>2, <2>3, <3>1, StoreEffect
    <3> QED BY <2>1, <2>5, <3>2, <1>a DEF TypeOK, Bounded, RelayedIsThere, Running, consumers, sweepers, tables
  <2> QED BY <2>4, <2>5
<1>7. ASSUME NEW s \in Steps, Acknowledge(s) PROVE TypeInv'
  BY <1>7, <1>a DEF Acknowledge, TypeOK, Bounded, RelayedIsThere, Running, consumers, sweepers, tables
<1>8. ASSUME NEW r \in Runs, AutoRetry(r) PROVE TypeInv'
  <2> DEFINE x == [version |-> rec[r].version + 1, status |-> rec[r].status, paused |-> FALSE]
  <2>1. x \in Records /\ Store(r, x)
    BY <1>8, <1>d, NextRecord DEF AutoRetry, Writable
  <2> HIDE DEF x
  <2>2. /\ rec' \in [Runs -> Records \cup {NoRecord}]
        /\ outbox' \in [Events -> Nat] /\ \A f \in Events : outbox'[f] >= outbox[f]
    BY <2>1, StoreEffect
  <2> QED BY <1>8, <2>2, <1>a DEF AutoRetry, TypeOK, Bounded, RelayedIsThere, Running, consumers, sweepers, tables
<1>9. ASSUME NEW c \in Callers, NEW r \in Runs, CallbackReads(c, r) PROVE TypeInv'
  BY <1>9, <1>a, <1>d DEF CallbackReads, Writable, ReadOf, EventOf, TypeOK, Bounded, RelayedIsThere, Running, consumers, sweepers, tables
<1>10. ASSUME NEW c \in Callers, NEW next \in Statuses, CallbackReturns(c, next) PROVE TypeInv'
  <2>1. PICK y \in calls[c] : CallbackReturns(c, next)!(y)
    BY <1>10 DEF CallbackReturns
  <2> DEFINE x == [version |-> y.version + 1, status |-> next, paused |-> FALSE]
  <2>2. y \in Reads /\ y.version < MaxVersion
    BY DEF TypeOK, Bounded
  <2>3. x \in Records
    BY <2>2, <1>c, NextRecord
  <2>4. CASE rec[y.run].status = y.status
    <3>1. Store(y.run, x)
      BY <2>1, <2>4
    <3> HIDE DEF x
    <3>2. /\ rec' \in [Runs -> Records \cup {NoRecord}]
          /\ outbox' \in [Events -> Nat] /\ \A f \in Events : outbox'[f] >= outbox[f]
      BY <2>2, <2>3, <3>1, <1>c, StoreEffect
    <3> QED BY <2>1, <3>2, <1>a DEF TypeOK, Bounded, RelayedIsThere, Running, consumers, sweepers, tables
  <2>5. CASE rec[y.run].status # y.status
    BY <2>1, <2>5, <1>a DEF TypeOK, Bounded, RelayedIsThere, Running, consumers, sweepers, tables
  <2> QED BY <2>4, <2>5
<1>11. ASSUME NEW r \in Runs, AbandonReads(r) PROVE TypeInv'
  BY <1>11, <1>a, <1>d DEF AbandonReads, Meddle, Writable, ReadOf, EventOf, TypeOK, Bounded, RelayedIsThere, Running, consumers, sweepers, tables
<1>12. ASSUME AbandonStores PROVE TypeInv'
  <2>1. PICK y \in abandoning : AbandonStores!(y)
    BY <1>12 DEF AbandonStores
  <2> DEFINE x == [version |-> y.version + 1, status |-> "Cancelled", paused |-> FALSE]
  <2>2. y \in Reads /\ y.version < MaxVersion
    BY DEF TypeOK, Bounded
  <2>3. x \in Records /\ Store(y.run, x)
    BY <2>1, <2>2, <1>c, StatusFacts, NextRecord
  <2> HIDE DEF x
  <2>4. /\ rec' \in [Runs -> Records \cup {NoRecord}]
        /\ outbox' \in [Events -> Nat] /\ \A f \in Events : outbox'[f] >= outbox[f]
    BY <2>2, <2>3, <1>c, StoreEffect
  <2> QED BY <2>1, <2>4, <1>a DEF TypeOK, Bounded, RelayedIsThere, Running, consumers, sweepers, tables
<1>13. ASSUME NEW r \in Runs, DirectResume(r) PROVE TypeInv'
  <2>1. PICK s \in Statuses :
          Store(r, [version |-> rec[r].version + 1, status |-> s, paused |-> FALSE])
    BY <1>13 DEF DirectResume
  <2> DEFINE x == [version |-> rec[r].version + 1, status |-> s, paused |-> FALSE]
  <2>2. x \in Records /\ Store(r, x)
    BY <2>1, <1>13, <1>d, NextRecord DEF DirectResume, Writable
  <2> HIDE DEF x
  <2>3. /\ rec' \in [Runs -> Records \cup {NoRecord}]
        /\ outbox' \in [Events -> Nat] /\ \A f \in Events : outbox'[f] >= outbox[f]
    BY <2>2, StoreEffect
  <2> QED BY <1>13, <2>3, <1>a DEF DirectResume, Meddle, TypeOK, Bounded, RelayedIsThere, Running, consumers, sweepers, tables
<1>14. ASSUME NEW r \in Runs, LookupStuck(r) PROVE TypeInv'
  <2>1. Stored(r) /\ rec[r].status \in Steps
    BY <1>14, StatusFacts DEF LookupStuck, Stored, NoRecord, Steps
  <2> QED BY <1>14, <2>1, <1>a, <1>d DEF LookupStuck, Meddle, TypeOK, Bounded, RelayedIsThere, Running, consumers, sweepers, tables
<1>15. ASSUME Retrigger PROVE TypeInv'
  BY <1>15, <1>a DEF Retrigger, TypeOK, Bounded, RelayedIsThere, Running, consumers, sweepers, tables
<1>16. ASSUME ListTerminalRuns PROVE TypeInv'
  BY <1>16, <1>a DEF ListTerminalRuns, Meddle, TypeOK, Bounded, RelayedIsThere, Running, consumers, sweepers, tables
<1>17. ASSUME NEW r \in Runs, SweepRun(r) PROVE TypeInv'
  BY <1>17, <1>a DEF SweepRun, DeleteRun, TypeOK, Bounded, RelayedIsThere, Running, consumers, sweepers, tables
<1>18. ASSUME Crash PROVE TypeInv'
  <2>1. log' \in [Events -> Nat]
    BY <1>18, <1>a, <1>b DEF Crash
  <2>2. \A s \in Steps : Running(s)' = {}
    BY <1>18 DEF Crash, Running
  <2>3. /\ held' \in [Steps -> SUBSET Events] /\ errs' \in [Steps -> Nat]
        /\ \A s \in Steps : held'[s] = {}
        /\ calls' \in [Callers -> SUBSET Reads] /\ \A c \in Callers : calls'[c] = {}
    BY <1>18 DEF Crash
  <2>4. /\ UNCHANGED <<rec, outbox, abandoning>> /\ relaying' = {} /\ done' = {}
        /\ picked' = {} /\ listed' = {} /\ up' = FALSE /\ meddling' \in Nat
    BY <1>18 DEF Crash, Meddle, TypeOK
  <2>5. TypeOK'
    BY <2>1, <2>3, <2>4 DEF TypeOK
  <2> QED BY <2>2, <2>3, <2>4, <2>5 DEF Bounded, RelayedIsThere
<1>19. ASSUME Start PROVE TypeInv'
  BY <1>19, <1>a DEF Start, TypeOK, Bounded, RelayedIsThere, Running, consumers, sweepers, tables
<1>20. CASE UNCHANGED vars
  BY <1>20, <1>a DEF vars, TypeOK, Bounded, RelayedIsThere, Running, consumers, sweepers, tables
<1> QED
  BY <1>1, <1>2, <1>3, <1>4, <1>5, <1>6, <1>7, <1>8, <1>9, <1>10, <1>11, <1>12, <1>13,
     <1>14, <1>15, <1>16, <1>17, <1>18, <1>19, <1>20 DEF Next, Relay, Consume

-----------------------------------------------------------------------------
(* Who owns a record. *)

\* Nobody has read or listed anything yet.
LEMMA InitOwner == Init => OwnerInv
BY DEF Init, OwnerInv, DownIsIdle, PausedInStep, OneStepPerRun, StepOwnsRecord, ListedAreOver, Running

\* A Run whose status has a callback, or whose step is auto-paused, is on no consumer
\* and on no list.
LEMMA NotOwned ==
    ASSUME TypeInv, OwnerInv, NEW r \in Runs, Stored(r), rec[r].status \in Callbacks \/ rec[r].paused
    PROVE  /\ r \notin listed
           /\ \A s \in Steps : \A e \in Running(s) : e.run # r
<1>1. r \notin listed
  BY StatusFacts DEF OwnerInv, ListedAreOver, PausedInStep, Steps, Callbacks, Ended
<1>2. ASSUME NEW s \in Steps, NEW e \in Running(s), e.run = r PROVE FALSE
  <2>1. rec[r] = RecordOf(e) \/ rec[r].status \in {"Cancelled", "none"}
    BY <1>2 DEF OwnerInv, StepOwnsRecord
  <2>2. e.status \in Steps
    BY <1>2 DEF TypeInv, TypeOK, Running
  <2> QED BY <2>1, <2>2 DEF RecordOf, OwnerInv, PausedInStep, Steps, Callbacks
<1> QED BY <1>1, <1>2

\* Writing a record nobody owns any more disturbs nobody.
LEMMA StoreUnowned ==
    ASSUME TypeInv, OwnerInv, NEW r \in Runs, NEW x \in Records, Store(r, x),
           r \notin listed, x.paused => x.status \in Steps,
           \A s \in Steps : Running(s)' \subseteq Running(s) /\ \A e \in Running(s)' : e.run # r,
           UNCHANGED <<held, listed, up, relaying>>,
           abandoning' \subseteq abandoning
    PROVE  OwnerInv'
<1>1. rec' = [rec EXCEPT ![r] = x] /\ rec \in [Runs -> Records \cup {NoRecord}]
  BY StoreEffect DEF TypeInv, TypeOK
<1>2. \A q \in Runs : q # r => rec'[q] = rec[q]
  BY <1>1
<1>3. rec'[r] = x
  BY <1>1
<1>5. \A s \in Steps : \A e \in Running(s) : e.run \in Runs
  BY DEF TypeInv, TypeOK, Running, Events
<1>6. DownIsIdle' /\ OneStepPerRun'
  BY DEF OwnerInv, DownIsIdle, OneStepPerRun
<1>7. PausedInStep'
  BY <1>2, <1>3 DEF OwnerInv, PausedInStep
<1>8. StepOwnsRecord'
  BY <1>2, <1>5 DEF OwnerInv, StepOwnsRecord
<1>9. ListedAreOver'
  BY <1>2 DEF OwnerInv, ListedAreOver, TypeInv, TypeOK
<1> QED BY <1>6, <1>7, <1>8, <1>9 DEF OwnerInv

\* Every step keeps the owners.
LEMMA NextOwner == TypeInv /\ OwnerInv /\ [Next]_vars => OwnerInv'
<1> SUFFICES ASSUME TypeInv, OwnerInv, [Next]_vars PROVE OwnerInv'
  OBVIOUS
<1> USE DEF OwnerInv
<1>a. /\ rec \in [Runs -> Records \cup {NoRecord}]
      /\ held \in [Steps -> SUBSET Events] /\ done \subseteq Steps
      /\ \A s \in Steps : \A e, f \in held[s] : e = f /\ e.status = s
      /\ \A c \in Callers : calls[c] \subseteq Reads /\ \A x \in calls[c] : x.status \in Callbacks
      /\ abandoning \subseteq Reads
  BY DEF TypeInv, TypeOK
<1>b. \A e \in Events : e.run \in Runs /\ e.version \in Versions /\ e.status \in Steps
  BY DEF Events
<1>c. \A x \in Reads : x.run \in Runs /\ x.version \in Versions /\ x.status \in Statuses
  BY DEF Reads
<1>d. \A r \in Runs : Stored(r) =>
        /\ rec[r] \in Records /\ rec[r].version \in Versions
        /\ rec[r].status \in Statuses /\ rec[r].paused \in BOOLEAN
  BY <1>a DEF Stored, Records
<1>1. ASSUME NEW e \in Events, RelaySend(e) PROVE OwnerInv'
  BY <1>1, <1>a DEF RelaySend, DownIsIdle, PausedInStep, OneStepPerRun, StepOwnsRecord, ListedAreOver, Running, consumers, sweepers, tables
<1>2. ASSUME NEW e \in Events, DeleteOutboxEvent(e) PROVE OwnerInv'
  BY <1>2, <1>a DEF DeleteOutboxEvent, DownIsIdle, PausedInStep, OneStepPerRun, StepOwnsRecord, ListedAreOver, Running, consumers, sweepers, tables
<1>3. ASSUME NEW s \in Steps, NEW e \in Events, Receive(s, e) PROVE OwnerInv'
  <2>1. /\ up /\ held[s] = {} /\ e.status = s /\ rec[e.run] = RecordOf(e)
        /\ held' = [held EXCEPT ![s] = {e}]
        /\ UNCHANGED <<rec, relaying, done, abandoning, listed, up>>
    BY <1>3 DEF Receive, sweepers
  <2>2. /\ \A t \in Steps : t # s => Running(t)' = Running(t)
        /\ \A f \in Running(s)' : f = e
    BY <2>1, <1>a DEF Running
  <2>3. rec[e.run].status = s /\ s \notin Ended /\ s # "Cancelled" /\ s # "none"
    BY <2>1, StatusFacts DEF RecordOf, Steps, Ended
  <2>4. \A t \in Steps : \A f \in Running(t) : t # s => f.run # e.run
    <3> SUFFICES ASSUME NEW t \in Steps, t # s, NEW f \in Running(t), f.run = e.run PROVE FALSE
      OBVIOUS
    <3>1. f.status = t
      BY <1>a DEF Running
    <3>2. rec[f.run] = RecordOf(f) \/ rec[f.run].status \in {"Cancelled", "none"}
      BY DEF StepOwnsRecord
    <3> QED BY <3>1, <3>2, <2>3 DEF RecordOf
  <2>5. DownIsIdle' /\ PausedInStep'
    BY <2>1 DEF DownIsIdle, PausedInStep
  <2>6. OneStepPerRun'
    BY <2>2, <2>4 DEF OneStepPerRun
  <2>7. StepOwnsRecord'
    BY <2>1, <2>2 DEF StepOwnsRecord, RecordOf
  <2>8. e.run \notin listed
    BY <2>3, <1>3, StatusFacts DEF ListedAreOver, Ended, Steps
  <2>9. ListedAreOver'
    BY <2>1, <2>2, <2>8 DEF ListedAreOver
  <2> QED BY <2>5, <2>6, <2>7, <2>9
<1>4. ASSUME NEW s \in Steps, NEW e \in Events, Skip(s, e) PROVE OwnerInv'
  <2>1. /\ up /\ held[s] = {}
        /\ held' = [held EXCEPT ![s] = {e}] /\ done' = done \cup {s}
        /\ UNCHANGED <<rec, relaying, abandoning, listed, up>>
    BY <1>4 DEF Skip, sweepers
  <2>2. \A t \in Steps : Running(t)' \subseteq Running(t)
    BY <2>1, <1>a DEF Running
  <2> QED BY <2>1, <2>2 DEF DownIsIdle, PausedInStep, OneStepPerRun, StepOwnsRecord, ListedAreOver
<1>5. ASSUME NEW s \in Steps, NEW next \in Goes[s], StepReturns(s, next) PROVE OwnerInv'
  <2>1. PICK e \in held[s] : StepReturns(s, next)!(e)
    BY <1>5 DEF StepReturns
  <2> DEFINE x == [version |-> e.version + 1, status |-> next, paused |-> FALSE]
  <2>2. /\ e \in Running(s) /\ e \in Events /\ e.version < MaxVersion
        /\ UNCHANGED <<held, listed, up, relaying, abandoning>>
    BY <2>1, <1>a DEF Running, TypeInv, Bounded, sweepers
  <2>3. CASE rec[e.run].status = s
    <3>1. x \in Records /\ Store(e.run, x)
      BY <2>1, <2>2, <2>3, <1>b, StatusFacts, NextRecord
    <3>2. x.paused => x.status \in Steps
      OBVIOUS
    <3>3. Running(s)' = {} /\ \A t \in Steps : t # s => Running(t)' = Running(t)
      BY <2>1, <2>3, <1>a DEF Running
    <3>4. \A t \in Steps : Running(t)' \subseteq Running(t) /\ \A f \in Running(t)' : f.run # e.run
      BY <2>2, <3>3 DEF OneStepPerRun
    <3>5. e.run \notin listed
      BY <2>2 DEF ListedAreOver
    <3> HIDE DEF x
    <3> QED BY <2>2, <3>1, <3>2, <3>4, <3>5, <1>b, StoreUnowned
  <2>4. CASE ~(rec[e.run].status = s)
    <3>1. \A t \in Steps : Running(t)' \subseteq Running(t)
      BY <2>1, <2>4, <1>a DEF Running
    <3> QED BY <2>1, <2>2, <2>4, <3>1
            DEF DownIsIdle, PausedInStep, OneStepPerRun, StepOwnsRecord, ListedAreOver
  <2> QED BY <2>3, <2>4
<1>6. ASSUME NEW s \in Steps, StepFails(s) PROVE OwnerInv'
  <2>1. PICK e \in held[s] : StepFails(s)!(e)
    BY <1>6 DEF StepFails
  <2> DEFINE x == [version |-> e.version + 1, status |-> s, paused |-> TRUE]
  <2>2. /\ e \in Running(s) /\ e \in Events /\ e.version < MaxVersion
        /\ UNCHANGED <<held, listed, up, relaying, abandoning>>
    BY <2>1, <1>a DEF Running, TypeInv, Bounded, sweepers
  <2>3. CASE ~(errs[s] + 1 < PauseAfterErrs)
    <3>1. x \in Records /\ Store(e.run, x)
      BY <2>1, <2>2, <2>3, <1>b, StatusFacts, NextRecord
    <3>2. x.paused => x.status \in Steps
      OBVIOUS
    <3>3. Running(s)' = {} /\ \A t \in Steps : t # s => Running(t)' = Running(t)
      BY <2>1, <2>3, <1>a DEF Running
    <3>4. \A t \in Steps : Running(t)' \subseteq Running(t) /\ \A f \in Running(t)' : f.run # e.run
      BY <2>2, <3>3 DEF OneStepPerRun
    <3>5. e.run \notin listed
      BY <2>2 DEF ListedAreOver
    <3> HIDE DEF x
    <3> QED BY <2>2, <3>1, <3>2, <3>4, <3>5, <1>b, StoreUnowned
  <2>4. CASE ~(~(errs[s] + 1 < PauseAfterErrs))
    <3>1. \A t \in Steps : Running(t)' \subseteq Running(t)
      BY <2>1, <2>4, <1>a DEF Running
    <3> QED BY <2>1, <2>2, <2>4, <3>1
            DEF DownIsIdle, PausedInStep, OneStepPerRun, StepOwnsRecord, ListedAreOver
  <2> QED BY <2>3, <2>4
<1>7. ASSUME NEW s \in Steps, Acknowledge(s) PROVE OwnerInv'
  <2>1. \A t \in Steps : held'[t] \subseteq held[t] /\ Running(t)' \subseteq Running(t)
    BY <1>7, <1>a DEF Acknowledge, Running
  <2>2. up /\ up' = up /\ UNCHANGED <<rec, listed, abandoning>>
    BY <1>7 DEF Acknowledge, sweepers, tables
  <2> QED BY <2>1, <2>2 DEF DownIsIdle, PausedInStep, OneStepPerRun, StepOwnsRecord, ListedAreOver
<1>8. ASSUME NEW r \in Runs, AutoRetry(r) PROVE OwnerInv'
  <2> DEFINE x == [version |-> rec[r].version + 1, status |-> rec[r].status, paused |-> FALSE]
  <2>1. x \in Records /\ Store(r, x) /\ ~x.paused
    BY <1>8, <1>d, NextRecord DEF AutoRetry, Writable
  <2>2. r \notin listed /\ \A s \in Steps : \A e \in Running(s) : e.run # r
    BY <1>8, NotOwned DEF AutoRetry, Writable
  <2>3. UNCHANGED <<held, done, listed, up, relaying, abandoning>>
    BY <1>8 DEF AutoRetry, consumers, sweepers
  <2>4. \A s \in Steps : Running(s)' = Running(s)
    BY <2>3 DEF Running
  <2> HIDE DEF x
  <2> QED BY <2>1, <2>2, <2>3, <2>4, StoreUnowned
<1>9. ASSUME NEW c \in Callers, NEW r \in Runs, CallbackReads(c, r) PROVE OwnerInv'
  BY <1>9, <1>a DEF CallbackReads, DownIsIdle, PausedInStep, OneStepPerRun, StepOwnsRecord,
     ListedAreOver, Running, consumers, sweepers, tables
<1>10. ASSUME NEW c \in Callers, NEW next \in Statuses, CallbackReturns(c, next) PROVE OwnerInv'
  <2>1. PICK y \in calls[c] : CallbackReturns(c, next)!(y)
    BY <1>10 DEF CallbackReturns
  <2> DEFINE x == [version |-> y.version + 1, status |-> next, paused |-> FALSE]
  <2>2. y \in Reads /\ y.run \in Runs /\ y.version < MaxVersion /\ y.status \in Callbacks
    BY <1>a, <1>c DEF TypeInv, Bounded
  <2>3. UNCHANGED <<held, done, listed, up, relaying, abandoning>>
    BY <2>1 DEF consumers, sweepers
  <2>4. \A s \in Steps : Running(s)' = Running(s)
    BY <2>3 DEF Running
  <2>5. CASE rec[y.run].status = y.status
    <3>1. x \in Records /\ Store(y.run, x) /\ ~x.paused
      BY <2>1, <2>2, <2>5, <1>c, NextRecord
    <3>2. Stored(y.run)
      BY <2>2, <2>5, StatusFacts DEF Stored, NoRecord
    <3>3. y.run \notin listed /\ \A s \in Steps : \A e \in Running(s) : e.run # y.run
      BY <2>2, <2>5, <3>2, NotOwned
    <3> HIDE DEF x
    <3> QED BY <2>2, <2>3, <2>4, <3>1, <3>3, StoreUnowned
  <2>6. CASE rec[y.run].status # y.status
    BY <2>1, <2>3, <2>4, <2>6
       DEF DownIsIdle, PausedInStep, OneStepPerRun, StepOwnsRecord, ListedAreOver
  <2> QED BY <2>5, <2>6
<1>11. ASSUME NEW r \in Runs, AbandonReads(r) PROVE OwnerInv'
  <2>1. /\ abandoning' = {ReadOf(r)} /\ rec[r].status \notin Ended /\ Stored(r)
        /\ UNCHANGED <<rec, held, done, listed, up, relaying>>
    BY <1>11 DEF AbandonReads, Writable, consumers, sweepers, tables
  <2>2. r \notin listed
    BY <2>1, <1>d, StatusFacts DEF ListedAreOver
  <2>3. ListedAreOver'
    BY <2>1, <2>2 DEF ListedAreOver, Running, ReadOf, EventOf
  <2> QED BY <2>1, <2>3 DEF DownIsIdle, PausedInStep, OneStepPerRun, StepOwnsRecord, Running
<1>12. ASSUME AbandonStores PROVE OwnerInv'
  <2>1. PICK y \in abandoning : AbandonStores!(y)
    BY <1>12 DEF AbandonStores
  <2> DEFINE x == [version |-> y.version + 1, status |-> "Cancelled", paused |-> FALSE]
  <2>2. y \in Reads /\ y.run \in Runs /\ y.version < MaxVersion
    BY <1>a, <1>c DEF TypeInv, Bounded
  <2>3. x \in Records /\ Store(y.run, x)
    BY <2>1, <2>2, <1>c, StatusFacts, NextRecord
  <2>4. rec' = [rec EXCEPT ![y.run] = x]
    BY <2>2, <2>3, StoreEffect DEF TypeInv
  <2>5. UNCHANGED <<held, done, listed, up, relaying>> /\ abandoning' = {}
    BY <2>1 DEF consumers, sweepers
  <2>6. rec'[y.run].status = "Cancelled" /\ rec'[y.run].paused = FALSE
    BY <2>2, <2>4, <1>a
  <2>7. \A q \in Runs : q # y.run => rec'[q] = rec[q]
    BY <2>4, <1>a
  <2>8. \A s \in Steps : Running(s)' = Running(s) /\ Running(s) \subseteq Events
    BY <2>5, <1>a DEF Running
  <2>9. StepOwnsRecord'
    BY <2>6, <2>7, <2>8, <1>b DEF StepOwnsRecord
  <2>10. ListedAreOver'
    BY <2>5, <2>6, <2>7, <2>8, StatusFacts DEF ListedAreOver, TypeInv, TypeOK
  <2> QED BY <2>5, <2>6, <2>7, <2>8, <2>9, <2>10 DEF DownIsIdle, PausedInStep, OneStepPerRun
<1>13. ASSUME NEW r \in Runs, DirectResume(r) PROVE OwnerInv'
  <2>1. PICK s \in Statuses :
          Store(r, [version |-> rec[r].version + 1, status |-> s, paused |-> FALSE])
    BY <1>13 DEF DirectResume
  <2> DEFINE x == [version |-> rec[r].version + 1, status |-> s, paused |-> FALSE]
  <2>2. x \in Records /\ Store(r, x) /\ ~x.paused
    BY <2>1, <1>13, <1>d, NextRecord DEF DirectResume, Writable
  <2>3. UNCHANGED <<held, done, listed, up, relaying, abandoning>>
    BY <1>13 DEF DirectResume, consumers, sweepers
  <2>4. \A t \in Steps : Running(t)' = Running(t)
    BY <2>3 DEF Running
  <2>5. r \notin listed /\ \A t \in Steps : \A e \in Running(t) : e.run # r
    <3>1. CASE ~up
      BY <3>1 DEF DownIsIdle, Running
    <3>2. CASE up
      BY <1>13, <3>2, NotOwned DEF DirectResume, Writable, Unattended
    <3> QED BY <3>1, <3>2 DEF TypeInv, TypeOK
  <2> HIDE DEF x
  <2> QED BY <2>2, <2>3, <2>4, <2>5, StoreUnowned
<1>14. ASSUME NEW r \in Runs, LookupStuck(r) PROVE OwnerInv'
  BY <1>14, <1>a DEF LookupStuck, DownIsIdle, PausedInStep, OneStepPerRun, StepOwnsRecord, ListedAreOver, Running, consumers, sweepers, tables
<1>15. ASSUME Retrigger PROVE OwnerInv'
  BY <1>15, <1>a DEF Retrigger, DownIsIdle, PausedInStep, OneStepPerRun, StepOwnsRecord, ListedAreOver, Running, consumers, sweepers, tables
<1>16. ASSUME ListTerminalRuns PROVE OwnerInv'
  <2>1. /\ up /\ \A r \in listed' : r \in Runs /\ Settled(r)
        /\ UNCHANGED <<rec, held, done, up, relaying, abandoning>>
    BY <1>16 DEF ListTerminalRuns, consumers, tables
  <2>2. ListedAreOver'
    BY <2>1 DEF ListedAreOver, Settled, Running
  <2> QED BY <2>1, <2>2 DEF DownIsIdle, PausedInStep, OneStepPerRun, StepOwnsRecord, Running
<1>17. ASSUME NEW r \in Runs, SweepRun(r) PROVE OwnerInv'
  <2>1. /\ up /\ r \in listed /\ listed' = listed \ {r}
        /\ rec' = [rec EXCEPT ![r] = NoRecord] \/ UNCHANGED rec
        /\ UNCHANGED <<held, done, up, abandoning>>
    BY <1>17 DEF SweepRun, DeleteRun, consumers, tables
  <2>2. \A q \in Runs : rec'[q] = rec[q] \/ (q = r /\ rec'[q] = NoRecord)
    <3>1. CASE rec' = [rec EXCEPT ![r] = NoRecord]
      BY <3>1, <1>a
    <3>2. CASE UNCHANGED rec
      BY <3>2
    <3> QED BY <2>1, <3>1, <3>2
  <2>3. \A s \in Steps : Running(s)' = Running(s) /\ Running(s) \subseteq Events
    BY <2>1, <1>a DEF Running
  <2>4. DownIsIdle' /\ OneStepPerRun'
    BY <2>1, <2>3 DEF DownIsIdle, OneStepPerRun
  <2>5. PausedInStep'
    BY <2>2 DEF PausedInStep, NoRecord
  <2>6. StepOwnsRecord'
    BY <2>2, <2>3, <1>b DEF StepOwnsRecord, NoRecord
  <2>7. ListedAreOver'
    BY <2>1, <2>2, <2>3 DEF ListedAreOver, TypeInv, TypeOK
  <2> QED BY <2>4, <2>5, <2>6, <2>7
<1>18. ASSUME Crash PROVE OwnerInv'
  <2>1. /\ \A s \in Steps : held'[s] = {} /\ Running(s)' = {}
        /\ relaying' = {} /\ listed' = {} /\ UNCHANGED rec
    BY <1>18 DEF Crash, Running
  <2> QED BY <2>1 DEF DownIsIdle, PausedInStep, OneStepPerRun, StepOwnsRecord, ListedAreOver
<1>19. ASSUME Start PROVE OwnerInv'
  BY <1>19, <1>a DEF Start, DownIsIdle, PausedInStep, OneStepPerRun, StepOwnsRecord, ListedAreOver, Running, consumers, sweepers, tables
<1>20. CASE UNCHANGED vars
  BY <1>20, <1>a DEF vars, DownIsIdle, PausedInStep, OneStepPerRun, StepOwnsRecord, ListedAreOver, Running, consumers, sweepers, tables
<1> QED
  BY <1>1, <1>2, <1>3, <1>4, <1>5, <1>6, <1>7, <1>8, <1>9, <1>10, <1>11, <1>12, <1>13,
     <1>14, <1>15, <1>16, <1>17, <1>18, <1>19, <1>20 DEF Next, Relay, Consume

-----------------------------------------------------------------------------
(* The event of a step that is due. *)

\* Every Run was triggered with its first event.
LEMMA InitEvent == Init => EventInv
<1> SUFFICES ASSUME Init PROVE EventInv
  OBVIOUS
<1>1. DoneIsHeld
  BY DEF Init, DoneIsHeld
<1>2. ASSUME NEW r \in Runs PROVE Covered(EventOf(r, rec[r]))
  <2>1. EventOf(r, rec[r]) = [run |-> r, version |-> 1, status |-> "Initiated"]
    BY DEF Init, EventOf
  <2>2. EventOf(r, rec[r]) \in Events
    BY <2>1, StoreAssumption DEF Events, Versions, Steps
  <2>3. outbox[EventOf(r, rec[r])] = 1 /\ relaying = {}
    BY <2>1, <2>2 DEF Init
  <2> QED BY <2>3 DEF Covered
<1> QED BY <1>1, <1>2 DEF EventInv, DueIsCovered

\* What a step that is due waits for is an event, and its record is the event's.
LEMMA DueEvent ==
    ASSUME TypeInv, NEW r \in Runs, Due(r)
    PROVE  /\ EventOf(r, rec[r]) \in Events /\ EventOf(r, rec[r]).run = r
           /\ EventOf(r, rec[r]).status = rec[r].status
           /\ rec[r] = RecordOf(EventOf(r, rec[r]))
           /\ Stored(r)
<1>1. rec[r] # NoRecord
  BY StatusFacts DEF Due, NoRecord
<1>2. rec[r] \in Records
  BY <1>1 DEF TypeInv, TypeOK
<1> QED BY <1>1, <1>2 DEF Due, Records, Events, EventOf, RecordOf, Stored

\* Records that stay as they are keep their events, if those are not lost.
LEMMA EventsKept ==
    ASSUME TypeInv, DueIsCovered, UNCHANGED rec,
           \A e \in Events : rec[e.run] = RecordOf(e) /\ Covered(e) => Covered(e)'
    PROVE  DueIsCovered'
<1> SUFFICES ASSUME NEW r \in Runs, Due(r)' PROVE Covered(EventOf(r, rec[r]))'
  BY DEF DueIsCovered
<1>1. Due(r) /\ EventOf(r, rec[r])' = EventOf(r, rec[r])
  BY DEF Due, EventOf
<1>2. PICK e \in Events : e = EventOf(r, rec[r])
  BY <1>1, DueEvent
<1>3. rec[e.run] = RecordOf(e) /\ Covered(e)
  BY <1>1, <1>2, DueEvent DEF DueIsCovered
<1>4. Covered(e)'
  BY <1>3
<1> QED BY <1>1, <1>2, <1>4

\* Store brings the event of the record it writes, and takes nobody else's.
LEMMA StoreCovered ==
    ASSUME TypeInv, DueIsCovered, NEW r \in Runs, NEW x \in Records, Store(r, x),
           UNCHANGED <<log, relaying>>,
           \A s \in Steps : \A e \in Running(s) : e.run # r => e \in Running(s)'
    PROVE  DueIsCovered'
<1> SUFFICES ASSUME NEW q \in Runs, Due(q)' PROVE Covered(EventOf(q, rec[q]))'
  BY DEF DueIsCovered
<1>0. TypeOK
  BY DEF TypeInv
<1>1. /\ rec' = [rec EXCEPT ![r] = x] /\ rec \in [Runs -> Records \cup {NoRecord}]
      /\ outbox \in [Events -> Nat] /\ outbox' \in [Events -> Nat]
      /\ \A e \in Events : outbox'[e] >= outbox[e]
      /\ x.status \in Steps =>
           /\ EventOf(r, x) \in Events
           /\ outbox'[EventOf(r, x)] = outbox[EventOf(r, x)] + 1
  BY <1>0, StoreEffect DEF TypeOK
<1>2. CASE q = r
  <2>1. rec'[q] = x /\ x.status \in Steps
    BY <1>1, <1>2 DEF Due
  <2> DEFINE e == EventOf(r, x)
  <2>2. e \in Events /\ outbox'[e] = outbox[e] + 1 /\ outbox[e] \in Nat
    BY <2>1, <1>1
  <2>3. e \in relaying => outbox[e] > 0
    BY DEF TypeInv, RelayedIsThere
  <2>4. EventOf(q, rec[q])' = e
    BY <2>1, <1>2 DEF EventOf
  <2> HIDE DEF e
  <2>5. outbox'[e] > IF e \in relaying' THEN 1 ELSE 0
    BY <2>2, <2>3
  <2> QED BY <2>4, <2>5 DEF Covered
<1>3. CASE q # r
  <2>1. rec'[q] = rec[q]
    BY <1>1, <1>3
  <2>2. Due(q) /\ EventOf(q, rec[q])' = EventOf(q, rec[q])
    BY <2>1 DEF Due, EventOf
  <2> DEFINE e == EventOf(q, rec[q])
  <2>3. Covered(e)
    BY <2>2 DEF DueIsCovered
  <2>4. e \in Events /\ e.run = q /\ e.status \in Steps /\ e' = e
    BY <2>2, DueEvent DEF Due
  <2>5. outbox'[e] >= outbox[e] /\ outbox[e] \in Nat /\ outbox'[e] \in Nat
    BY <2>4, <1>1
  <2>6. e \in Running(e.status) => e \in Running(e.status)'
    BY <2>4, <1>3
  <2> HIDE DEF e
  <2>7. Covered(e)'
    BY <2>3, <2>4, <2>5, <2>6 DEF Covered, Running
  <2> QED BY <2>7, <2>4 DEF e
<1> QED BY <1>2, <1>3

\* What a consumer has dealt with stays in its hands until it acknowledges it.
LEMMA NextDone == TypeInv /\ DoneIsHeld /\ [Next]_vars => DoneIsHeld'
<1> SUFFICES ASSUME TypeInv, DoneIsHeld, [Next]_vars PROVE DoneIsHeld'
  OBVIOUS
<1>a. held \in [Steps -> SUBSET Events] /\ done \subseteq Steps
  BY DEF TypeInv, TypeOK
<1>1. ASSUME NEW s \in Steps, Consume(s) PROVE DoneIsHeld'
  <2>1. ASSUME NEW e \in Events, Receive(s, e) \/ Skip(s, e) PROVE DoneIsHeld'
    BY <2>1, <1>a DEF Receive, Skip, DoneIsHeld
  <2>2. ASSUME NEW next \in Goes[s], StepReturns(s, next) PROVE DoneIsHeld'
    BY <2>2, <1>a DEF StepReturns, DoneIsHeld
  <2>3. ASSUME StepFails(s) PROVE DoneIsHeld'
    BY <2>3, <1>a DEF StepFails, DoneIsHeld
  <2>4. ASSUME Acknowledge(s) PROVE DoneIsHeld'
    BY <2>4, <1>a DEF Acknowledge, DoneIsHeld
  <2> QED BY <1>1, <2>1, <2>2, <2>3, <2>4 DEF Consume
<1>2. CASE Crash
  BY <1>2 DEF Crash, DoneIsHeld
<1>3. CASE UNCHANGED consumers
  BY <1>3 DEF consumers, DoneIsHeld
<1>4. [Next]_vars => (\E s \in Steps : Consume(s)) \/ Crash \/ UNCHANGED consumers
  BY DEF Next, Relay, RelaySend, DeleteOutboxEvent, AutoRetry, CallbackReads, CallbackReturns, AbandonReads,
     AbandonStores, DirectResume, LookupStuck, Retrigger, ListTerminalRuns, SweepRun, Start, vars
<1> QED BY <1>1, <1>2, <1>3, <1>4

\* Every step leaves a due step its event.
LEMMA NextEvent == TypeInv /\ EventInv /\ [Next]_vars => EventInv'
<1> SUFFICES ASSUME TypeInv, EventInv, [Next]_vars PROVE DueIsCovered'
  BY NextDone DEF EventInv
<1>a. /\ rec \in [Runs -> Records \cup {NoRecord}]
      /\ outbox \in [Events -> Nat] /\ log \in [Events -> Nat]
      /\ held \in [Steps -> SUBSET Events] /\ done \subseteq Steps
      /\ \A s \in Steps : \A e, f \in held[s] : e = f /\ e.status = s
      /\ \A c \in Callers : calls[c] \subseteq Reads
      /\ abandoning \subseteq Reads /\ picked \subseteq Events /\ relaying \subseteq Events
  BY DEF TypeInv, TypeOK
<1>b. \A e \in Events : e.run \in Runs /\ e.version \in Versions /\ e.status \in Steps
  BY DEF Events
<1>c. \A x \in Reads : x.run \in Runs /\ x.version \in Versions /\ x.status \in Statuses
  BY DEF Reads
<1>d. \A r \in Runs : Stored(r) =>
        /\ rec[r] \in Records /\ rec[r].version \in Versions
        /\ rec[r].status \in Statuses /\ rec[r].paused \in BOOLEAN
  BY <1>a DEF Stored, Records
<1>e. DueIsCovered /\ DoneIsHeld
  BY DEF EventInv
<1>k. ASSUME UNCHANGED <<rec, outbox, relaying, held, done>>,
             \A e \in Events : log'[e] >= log[e] /\ log'[e] \in Nat
      PROVE  DueIsCovered'
  <2>1. \A s : Running(s)' = Running(s)
    BY <1>k DEF Running
  <2>2. \A e \in Events : Covered(e) => Covered(e)'
    BY <1>k, <2>1, <1>a DEF Covered
  <2> QED BY <1>k, <2>2, <1>e, EventsKept
<1>1. ASSUME NEW f \in Events, RelaySend(f) PROVE DueIsCovered'
  <2>1. /\ relaying = {} /\ relaying' = {f} /\ log' = [log EXCEPT ![f] = @ + 1]
        /\ UNCHANGED <<rec, outbox, held, done>>
    BY <1>1 DEF RelaySend, consumers
  <2>2. \A e \in Events : Covered(e) => Covered(e)'
    BY <2>1, <1>a DEF Covered, Running
  <2> QED BY <2>1, <2>2, <1>e, EventsKept
<1>2. ASSUME NEW f \in Events, DeleteOutboxEvent(f) PROVE DueIsCovered'
  <2>1. /\ f \in relaying /\ relaying' = {} /\ outbox' = [outbox EXCEPT ![f] = @ - 1]
        /\ UNCHANGED <<rec, log, held, done>>
    BY <1>2 DEF DeleteOutboxEvent, consumers
  <2>2. \A e \in Events : Covered(e) => Covered(e)'
    BY <2>1, <1>a DEF Covered, Running
  <2> QED BY <2>1, <2>2, <1>e, EventsKept
<1>3. ASSUME NEW s \in Steps, NEW f \in Events, Receive(s, f) PROVE DueIsCovered'
  <2>1. /\ held[s] = {} /\ f.status = s /\ held' = [held EXCEPT ![s] = {f}]
        /\ log' = [log EXCEPT ![f] = @ - 1]
        /\ UNCHANGED <<rec, outbox, relaying, done>>
    BY <1>3 DEF Receive
  <2>2. s \notin done
    BY <2>1, <1>e DEF DoneIsHeld
  <2>3. f \in Running(f.status)'
    BY <2>1, <2>2, <1>a DEF Running
  <2>4. ASSUME NEW e \in Events, Covered(e), e # f PROVE Covered(e)'
    <3>1. log'[e] = log[e]
      BY <2>1, <2>4, <1>a
    <3>2. e \in Running(e.status) => e \in Running(e.status)'
      BY <2>1, <1>a, <1>b DEF Running
    <3> QED BY <2>1, <2>4, <3>1, <3>2 DEF Covered
  <2>5. \A e \in Events : Covered(e) => Covered(e)'
    BY <2>3, <2>4 DEF Covered
  <2> QED BY <2>1, <2>5, <1>e, EventsKept
<1>4. ASSUME NEW s \in Steps, NEW f \in Events, Skip(s, f) PROVE DueIsCovered'
  <2>1. /\ held[s] = {} /\ f.status = s /\ held' = [held EXCEPT ![s] = {f}]
        /\ log' = [log EXCEPT ![f] = @ - 1] /\ done' = done \cup {s}
        /\ UNCHANGED <<rec, outbox, relaying>>
    BY <1>4 DEF Skip
  <2>2. rec[f.run] # RecordOf(f)
    BY <1>4, <2>1, <1>b DEF Skip, Stored, RecordOf, NoRecord, Versions
  <2>3. ASSUME NEW e \in Events, rec[e.run] = RecordOf(e), Covered(e) PROVE Covered(e)'
    <3>1. log'[e] = log[e]
      BY <2>1, <2>2, <2>3, <1>a
    <3>2. e \in Running(e.status) => e \in Running(e.status)'
      BY <2>1, <1>a, <1>b DEF Running
    <3> QED BY <2>1, <2>3, <3>1, <3>2 DEF Covered
  <2> QED BY <2>1, <2>3, <1>e, EventsKept
<1>5. ASSUME NEW s \in Steps, NEW next \in Goes[s], StepReturns(s, next) PROVE DueIsCovered'
  <2>1. PICK f \in held[s] : StepReturns(s, next)!(f)
    BY <1>5 DEF StepReturns
  <2> DEFINE x == [version |-> f.version + 1, status |-> next, paused |-> FALSE]
  <2>2. /\ f \in Running(s) /\ f \in Events /\ f.version < MaxVersion
        /\ UNCHANGED <<log, held, relaying>> /\ done' = done \cup {s}
    BY <2>1, <1>a DEF Running, TypeInv, Bounded
  <2>3. \A t \in Steps : \A e \in Running(t) : e # f => e \in Running(t)'
    BY <2>2, <1>a DEF Running
  <2>4. CASE rec[f.run].status = s
    <3>1. x \in Records /\ Store(f.run, x)
      BY <2>1, <2>2, <2>4, <1>b, StatusFacts, NextRecord
    <3>2. \A t \in Steps : \A e \in Running(t) : e.run # f.run => e \in Running(t)'
      BY <2>3
    <3> HIDE DEF x
    <3> QED BY <2>2, <3>1, <3>2, <1>b, <1>e, StoreCovered
  <2>5. CASE rec[f.run].status # s
    <3>1. UNCHANGED <<rec, outbox>> /\ rec[f.run] # RecordOf(f)
      BY <2>1, <2>5, <1>a DEF RecordOf
    <3>2. ASSUME NEW e \in Events, rec[e.run] = RecordOf(e), Covered(e) PROVE Covered(e)'
      <4>1. e # f
        BY <3>1, <3>2
      <4>2. e \in Running(e.status) => e \in Running(e.status)'
        BY <4>1, <2>3, <1>b
      <4> QED BY <2>2, <3>1, <3>2, <4>2 DEF Covered
    <3> QED BY <3>1, <3>2, <1>e, EventsKept
  <2> QED BY <2>4, <2>5
<1>6. ASSUME NEW s \in Steps, StepFails(s) PROVE DueIsCovered'
  <2>1. PICK f \in held[s] : StepFails(s)!(f)
    BY <1>6 DEF StepFails
  <2> DEFINE x == [version |-> f.version + 1, status |-> s, paused |-> TRUE]
  <2>2. /\ f \in Running(s) /\ f \in Events /\ f.version < MaxVersion
        /\ UNCHANGED <<log, held, relaying>>
    BY <2>1, <1>a DEF Running, TypeInv, Bounded
  <2>3. CASE ~(errs[s] + 1 < PauseAfterErrs)
    <3>1. x \in Records /\ Store(f.run, x) /\ done' = done \cup {s}
      BY <2>1, <2>2, <2>3, <1>b, StatusFacts, NextRecord
    <3>2. \A t \in Steps : \A e \in Running(t) : e.run # f.run => e \in Running(t)'
      BY <2>2, <3>1, <1>a DEF Running
    <3> HIDE DEF x
    <3> QED BY <2>2, <3>1, <3>2, <1>b, <1>e, StoreCovered
  <2>4. CASE errs[s] + 1 < PauseAfterErrs
    <3>1. UNCHANGED <<rec, outbox, log, relaying, held, done>>
      BY <2>1, <2>4
    <3> QED BY <3>1, <1>k, <1>a
  <2> QED BY <2>3, <2>4
<1>7. ASSUME NEW s \in Steps, Acknowledge(s) PROVE DueIsCovered'
  <2>1. /\ s \in done /\ held' = [held EXCEPT ![s] = {}] /\ done' = done \ {s}
        /\ UNCHANGED <<rec, outbox, log, relaying>>
    BY <1>7 DEF Acknowledge, tables
  <2>2. \A t \in Steps : Running(t)' = Running(t)
    BY <2>1, <1>a DEF Running
  <2>3. \A e \in Events : Covered(e) => Covered(e)'
    BY <2>1, <2>2, <1>b DEF Covered
  <2> QED BY <2>1, <2>3, <1>e, EventsKept
<1>8. ASSUME NEW r \in Runs, AutoRetry(r) PROVE DueIsCovered'
  <2> DEFINE x == [version |-> rec[r].version + 1, status |-> rec[r].status, paused |-> FALSE]
  <2>1. x \in Records /\ Store(r, x)
    BY <1>8, <1>d, NextRecord DEF AutoRetry, Writable
  <2>2. UNCHANGED <<log, relaying>> /\ \A s \in Steps : Running(s)' = Running(s)
    BY <1>8 DEF AutoRetry, consumers, Running
  <2> HIDE DEF x
  <2> QED BY <2>1, <2>2, <1>e, StoreCovered
<1>9. ASSUME NEW c \in Callers, NEW r \in Runs, CallbackReads(c, r) PROVE DueIsCovered'
  BY <1>9, <1>k, <1>a DEF CallbackReads, consumers, tables
<1>10. ASSUME NEW c \in Callers, NEW next \in Statuses, CallbackReturns(c, next) PROVE DueIsCovered'
  <2>1. PICK y \in calls[c] : CallbackReturns(c, next)!(y)
    BY <1>10 DEF CallbackReturns
  <2> DEFINE x == [version |-> y.version + 1, status |-> next, paused |-> FALSE]
  <2>2. y \in Reads /\ y.run \in Runs /\ y.version < MaxVersion
    BY <1>a, <1>c DEF TypeInv, Bounded
  <2>3. UNCHANGED <<held, done, log, relaying>>
    BY <2>1 DEF consumers
  <2>4. CASE rec[y.run].status = y.status
    <3>1. x \in Records /\ Store(y.run, x)
      BY <2>1, <2>2, <2>4, <1>c, NextRecord
    <3>2. \A s \in Steps : Running(s)' = Running(s)
      BY <2>3 DEF Running
    <3> HIDE DEF x
    <3> QED BY <2>2, <2>3, <3>1, <3>2, <1>e, StoreCovered
  <2>5. CASE rec[y.run].status # y.status
    <3>1. UNCHANGED <<rec, outbox>>
      BY <2>1, <2>5
    <3> QED BY <3>1, <2>3, <1>k, <1>a
  <2> QED BY <2>4, <2>5
<1>11. ASSUME NEW r \in Runs, AbandonReads(r) PROVE DueIsCovered'
  BY <1>11, <1>k, <1>a DEF AbandonReads, consumers, tables
<1>12. ASSUME AbandonStores PROVE DueIsCovered'
  <2>1. PICK y \in abandoning : AbandonStores!(y)
    BY <1>12 DEF AbandonStores
  <2> DEFINE x == [version |-> y.version + 1, status |-> "Cancelled", paused |-> FALSE]
  <2>2. y \in Reads /\ y.run \in Runs /\ y.version < MaxVersion
    BY <1>a, <1>c DEF TypeInv, Bounded
  <2>3. x \in Records /\ Store(y.run, x)
    BY <2>1, <2>2, <1>c, StatusFacts, NextRecord
  <2>4. UNCHANGED <<log, relaying>> /\ \A s \in Steps : Running(s)' = Running(s)
    BY <2>1 DEF consumers, Running
  <2> HIDE DEF x
  <2> QED BY <2>2, <2>3, <2>4, <1>e, StoreCovered
<1>13. ASSUME NEW r \in Runs, DirectResume(r) PROVE DueIsCovered'
  <2>1. PICK s \in Statuses :
          Store(r, [version |-> rec[r].version + 1, status |-> s, paused |-> FALSE])
    BY <1>13 DEF DirectResume
  <2> DEFINE x == [version |-> rec[r].version + 1, status |-> s, paused |-> FALSE]
  <2>2. x \in Records /\ Store(r, x)
    BY <2>1, <1>13, <1>d, NextRecord DEF DirectResume, Writable
  <2>3. UNCHANGED <<log, relaying>> /\ \A t \in Steps : Running(t)' = Running(t)
    BY <1>13 DEF DirectResume, consumers, Running
  <2> HIDE DEF x
  <2> QED BY <2>2, <2>3, <1>e, StoreCovered
<1>14. ASSUME NEW r \in Runs, LookupStuck(r) PROVE DueIsCovered'
  BY <1>14, <1>k, <1>a DEF LookupStuck, consumers, tables
<1>15. ASSUME Retrigger PROVE DueIsCovered'
  <2>1. PICK f \in picked : Retrigger!(f)
    BY <1>15 DEF Retrigger
  <2>2. \A e \in Events : log'[e] >= log[e] /\ log'[e] \in Nat
    BY <2>1, <1>a
  <2>3. UNCHANGED <<rec, outbox, relaying, held, done>>
    BY <2>1 DEF consumers
  <2> QED BY <2>2, <2>3, <1>k
<1>16. ASSUME ListTerminalRuns PROVE DueIsCovered'
  BY <1>16, <1>k, <1>a DEF ListTerminalRuns, consumers, tables
<1>17. ASSUME NEW r \in Runs, SweepRun(r) PROVE DueIsCovered'
  <2>1. CASE DeleteRun(r)
    <3> SUFFICES ASSUME NEW q \in Runs, Due(q)' PROVE Covered(EventOf(q, rec[q]))'
      BY DEF DueIsCovered
    <3>1. /\ rec' = [rec EXCEPT ![r] = NoRecord]
          /\ outbox' = [e \in Events |-> IF e.run = r THEN 0 ELSE outbox[e]]
          /\ log' = [e \in Events |-> IF e.run = r THEN 0 ELSE log[e]]
          /\ relaying' = {e \in relaying : e.run # r}
          /\ UNCHANGED <<held, done>>
      BY <1>17, <2>1 DEF SweepRun, DeleteRun, consumers
    <3>2. q # r
      BY <3>1, <1>a, StatusFacts DEF Due, NoRecord
    <3>3. rec'[q] = rec[q]
      BY <3>1, <3>2, <1>a
    <3>4. Due(q) /\ EventOf(q, rec[q])' = EventOf(q, rec[q])
      BY <3>3 DEF Due, EventOf
    <3> DEFINE e == EventOf(q, rec[q])
    <3>5. Covered(e)
      BY <3>4, <1>e DEF DueIsCovered
    <3>6. e \in Events /\ e.run # r /\ e' = e
      BY <3>2, <3>4, DueEvent
    <3> HIDE DEF e
    <3>7. Covered(e)'
      BY <3>1, <3>5, <3>6 DEF Covered, Running
    <3> QED BY <3>6, <3>7 DEF e
  <2>2. CASE UNCHANGED <<tables, relaying>>
    <3>1. UNCHANGED <<rec, outbox, log, relaying, held, done>>
      BY <1>17, <2>2 DEF SweepRun, consumers, tables
    <3> QED BY <3>1, <1>k, <1>a
  <2> QED BY <1>17, <2>1, <2>2 DEF SweepRun
<1>18. ASSUME Crash PROVE DueIsCovered'
  <2>1. /\ log' = [e \in Events |->
                     IF e \in held[e.status] /\ Stored(e.run) THEN log[e] + 1 ELSE log[e]]
        /\ relaying' = {} /\ UNCHANGED <<rec, outbox>>
    BY <1>18 DEF Crash
  <2>2. ASSUME NEW e \in Events, rec[e.run] = RecordOf(e), Covered(e) PROVE Covered(e)'
    <3>1. Stored(e.run)
      BY <2>2, <1>b DEF Stored, RecordOf, NoRecord, Versions
    <3>2. CASE e \in Running(e.status)
      <4>1. e \in held[e.status]
        BY <3>2 DEF Running
      <4>2. log'[e] > 0
        BY <4>1, <3>1, <2>1, <1>a
      <4> QED BY <4>2 DEF Covered
    <3>3. CASE log[e] > 0
      <4>1. log'[e] > 0
        BY <3>3, <2>1, <1>a
      <4> QED BY <4>1 DEF Covered
    <3>4. CASE outbox[e] > IF e \in relaying THEN 1 ELSE 0
      <4>1. outbox'[e] > 0 /\ e \notin relaying'
        BY <3>4, <2>1, <1>a
      <4> QED BY <4>1 DEF Covered
    <3> QED BY <2>2, <3>2, <3>3, <3>4 DEF Covered
  <2> QED BY <2>1, <2>2, <1>e, EventsKept
<1>19. ASSUME Start PROVE DueIsCovered'
  BY <1>19, <1>k, <1>a DEF Start, consumers, tables
<1>20. CASE UNCHANGED vars
  BY <1>20, <1>k, <1>a DEF vars, consumers, tables
<1> QED
  BY <1>1, <1>2, <1>3, <1>4, <1>5, <1>6, <1>7, <1>8, <1>9, <1>10, <1>11, <1>12, <1>13,
     <1>14, <1>15, <1>16, <1>17, <1>18, <1>19, <1>20 DEF Next, Relay, Consume

-----------------------------------------------------------------------------
(* The properties. *)

\* The records, the outbox, the log and the consumers keep their types, whatever is
\* stored, relayed, retried, swept or restarted.
THEOREM TypeCorrect == Spec => []TypeOK
<1>1. TypeInv => TypeOK
  BY DEF TypeInv
<1> QED BY InitType, NextType, <1>1, PTL DEF Spec

\* StoreInv holds in every state of the specification.
LEMMA Invariant == Spec => []StoreInv
<1>1. Init => StoreInv
  BY InitType, InitOwner, InitEvent DEF StoreInv
<1>2. StoreInv /\ [Next]_vars => StoreInv'
  BY NextType, NextOwner, NextEvent DEF StoreInv
<1> QED BY <1>1, <1>2, PTL DEF Spec

\* No interleaving of the relay, the consumers, callbacks, the CLI, the sweepers and
\* restarts loses the last copy of the event a due step waits for.
THEOREM DueStepHasItsEvent == Spec => []EventOnItsWay
<1>1. StoreInv => EventOnItsWay
  <2> SUFFICES ASSUME StoreInv, NEW r \in Runs, Due(r) PROVE Waiting(EventOf(r, rec[r]))
    BY DEF EventOnItsWay
  <2>1. Covered(EventOf(r, rec[r])) /\ EventOf(r, rec[r]) \in Events
    BY DueEvent DEF StoreInv, EventInv, DueIsCovered
  <2>2. outbox[EventOf(r, rec[r])] \in Nat /\ log[EventOf(r, rec[r])] \in Nat
    BY <2>1 DEF StoreInv, TypeInv, TypeOK
  <2> QED BY <2>1, <2>2 DEF Covered, Waiting
<1> QED BY <1>1, Invariant, PTL

\* While a step is run no other writer takes its record to another step: it stays what
\* the step read, or the Run was cancelled or deleted.
THEOREM StepKeepsItsRecord == Spec => []StepOwnsRecord
<1>1. StoreInv => StepOwnsRecord
  BY DEF StoreInv, OwnerInv
<1> QED BY <1>1, Invariant, PTL

\* Only the retention sweeper deletes a record.
LEMMA SweepDeletes ==
    ASSUME StoreInv, [Next]_vars, NEW r \in Runs, Stored(r), rec'[r] = NoRecord
    PROVE  SweepRun(r)
<1>a. TypeOK /\ rec \in [Runs -> Records \cup {NoRecord}]
  BY DEF StoreInv, TypeInv, TypeOK
<1>1. CASE \E q \in Runs : SweepRun(q)
  <2>1. PICK q \in Runs : SweepRun(q)
    BY <1>1
  <2>2. q = r
    BY <2>1, <1>a DEF SweepRun, DeleteRun, Stored, tables
  <2> QED BY <2>1, <2>2
<1>2. CASE ~\E q \in Runs : SweepRun(q)
  <2>a. /\ \A s \in Steps : \A e \in held[s] : e.version \in Nat
        /\ \A c \in Callers : \A x \in calls[c] : x.version \in Nat
        /\ \A x \in abandoning : x.version \in Nat
        /\ \A q \in Runs : Stored(q) => rec[q].version \in Nat
    BY <1>a DEF TypeOK, Events, Reads, Records, Versions, Stored
  <2>b. \A q, s, p : \A v \in Nat :
          Store(q, [version |-> v + 1, status |-> s, paused |-> p]) => rec'[r] # NoRecord
    BY <1>a DEF Store, Stored, NoRecord
  <2>1. ASSUME NEW s \in Steps, NEW next \in Goes[s], StepReturns(s, next) PROVE FALSE
    BY <2>1, <2>a, <2>b DEF StepReturns, Stored
  <2>2. ASSUME NEW s \in Steps, StepFails(s) PROVE FALSE
    BY <2>2, <2>a, <2>b DEF StepFails, Stored
  <2>3. ASSUME NEW q \in Runs, AutoRetry(q) PROVE FALSE
    BY <2>3, <2>a, <2>b DEF AutoRetry, Writable
  <2>4. ASSUME NEW c \in Callers, NEW next \in Statuses, CallbackReturns(c, next) PROVE FALSE
    BY <2>4, <2>a, <2>b DEF CallbackReturns, Stored
  <2>5. ASSUME AbandonStores PROVE FALSE
    BY <2>5, <2>a, <2>b DEF AbandonStores
  <2>6. ASSUME NEW q \in Runs, DirectResume(q) PROVE FALSE
    BY <2>6, <2>a, <2>b DEF DirectResume, Writable
  <2>7. rec' # rec
    BY DEF Stored
  <2> QED BY <1>2, <2>1, <2>2, <2>3, <2>4, <2>5, <2>6, <2>7
          DEF Next, Relay, Consume, RelaySend, DeleteOutboxEvent, Receive, Skip, Acknowledge,
              CallbackReads, AbandonReads, LookupStuck, Retrigger, ListTerminalRuns, Crash, Start,
              tables, vars
<1> QED BY <1>1, <1>2

\* The retention sweeper deletes ended Runs only, whatever was revived since it listed
\* them.
THEOREM SweptRunsHaveEnded == Spec => OnlyEndedAreSwept
<1>1. StoreInv /\ [Next]_vars
        => [\A r \in Runs : Stored(r) /\ rec'[r] = NoRecord => rec[r].status \in Ended]_vars
  <2> SUFFICES ASSUME StoreInv, [Next]_vars, NEW r \in Runs, Stored(r), rec'[r] = NoRecord
               PROVE  rec[r].status \in Ended
    OBVIOUS
  <2>1. r \in listed /\ rec \in [Runs -> Records \cup {NoRecord}]
    BY SweepDeletes DEF SweepRun, StoreInv, TypeInv, TypeOK
  <2>2. rec[r].status \in Ended \cup {"none"} /\ rec[r] \in Records
    BY <2>1 DEF StoreInv, OwnerInv, ListedAreOver, Stored
  <2> QED BY <2>2, StatusFacts DEF Records
<1> QED BY <1>1, Invariant, PTL DEF Spec, OnlyEndedAreSwept

-----------------------------------------------------------------------------
(* The life of each Run.                                                     *)

\* A Run whose step is being run, or that is being abandoned, is not deleted meanwhile.
ReadIsStored ==
    /\ \A s \in Steps : \A e \in Running(s) : Stored(e.run)
    /\ \A x \in abandoning : Stored(x.run)

\* A step starts to run only when its event is received.
LEMMA NewRunning ==
    ASSUME [Next]_vars, TypeOK, NEW s \in Steps, NEW e \in Running(s)', e \notin Running(s)
    PROVE  Receive(s, e)
<1>a. held \in [Steps -> SUBSET Events] /\ done \subseteq Steps
  BY DEF TypeOK
<1>1. held' # held \/ done' # done
  BY DEF Running
<1>2. ASSUME NEW t \in Steps, NEW f \in Events, Receive(t, f) PROVE Receive(s, e)
  <2>1. held' = [held EXCEPT ![t] = {f}] /\ UNCHANGED done
    BY <1>2 DEF Receive
  <2>2. t = s /\ f = e
    BY <1>a, <2>1 DEF Running
  <2> QED BY <1>2, <2>2
<1>3. ASSUME NEW t \in Steps, NEW f \in Events, Skip(t, f) PROVE FALSE
  BY <1>a, <1>3 DEF Skip, Running
<1>4. ASSUME NEW t \in Steps,
             (\E next \in Goes[t] : StepReturns(t, next)) \/ StepFails(t) \/ Acknowledge(t)
      PROVE  FALSE
  BY <1>a, <1>4 DEF StepReturns, StepFails, Acknowledge, Running
<1>5. ASSUME Crash PROVE FALSE
  BY <1>a, <1>5 DEF Crash, Running
<1>6. CASE UNCHANGED <<held, done>>
  BY <1>1, <1>6
<1> QED
  BY <1>1, <1>2, <1>3, <1>4, <1>5
  DEF Next, Relay, Consume, RelaySend, DeleteOutboxEvent, AutoRetry, CallbackReads, CallbackReturns,
      AbandonReads, AbandonStores, DirectResume, LookupStuck, Retrigger, ListTerminalRuns, SweepRun,
      Start, consumers, vars

\* `syntropy abandon` reads a record that is there.
LEMMA NewAbandoning ==
    ASSUME [Next]_vars, NEW x \in abandoning', x \notin abandoning
    PROVE  \E r \in Runs : Stored(r) /\ x.run = r /\ UNCHANGED rec
<1>1. ASSUME NEW r \in Runs, AbandonReads(r) PROVE Stored(r) /\ x.run = r /\ UNCHANGED rec
  BY <1>1 DEF AbandonReads, Writable, ReadOf, EventOf, tables
<1>2. ASSUME AbandonStores PROVE FALSE
  BY <1>2 DEF AbandonStores
<1>3. abandoning' # abandoning
  OBVIOUS
<1> QED
  BY <1>1, <1>2, <1>3
  DEF Next, Relay, Consume, RelaySend, DeleteOutboxEvent, Receive, Skip, Acknowledge,
      StepReturns, StepFails, AutoRetry, CallbackReads, CallbackReturns, DirectResume, LookupStuck,
      Retrigger, ListTerminalRuns, SweepRun, Crash, Start, vars

\* Every step keeps the records that are being worked on.
LEMMA NextRead == StoreInv /\ ReadIsStored /\ [Next]_vars => ReadIsStored'
<1> SUFFICES ASSUME StoreInv, ReadIsStored, [Next]_vars PROVE ReadIsStored'
  OBVIOUS
<1>a. TypeOK /\ OwnerInv /\ TypeOK'
  BY NextType DEF StoreInv, TypeInv
<1>1. ASSUME NEW s \in Steps, NEW e \in Running(s)' PROVE Stored(e.run)'
  <2>1. e.run \in Runs
    BY <1>a DEF TypeOK, Running, Events
  <2>2. CASE e \in Running(s)
    <3>1. ~SweepRun(e.run) /\ Stored(e.run)
      BY <1>a, <2>2 DEF SweepRun, OwnerInv, ListedAreOver, ReadIsStored
    <3> QED BY <2>1, <3>1, SweepDeletes DEF Stored
  <2>3. CASE e \notin Running(s)
    <3>1. Receive(s, e)
      BY <1>a, <2>3, NewRunning
    <3>2. rec'[e.run] = RecordOf(e) /\ e.version \in Versions
      BY <1>a, <3>1 DEF Receive, TypeOK, Running, Events
    <3> QED BY <3>2 DEF Stored, RecordOf, NoRecord, Versions
  <2> QED BY <2>2, <2>3
<1>2. ASSUME NEW x \in abandoning' PROVE Stored(x.run)'
  <2>1. CASE x \in abandoning
    <3>1. x.run \in Runs
      BY <1>a, <2>1 DEF TypeOK, Reads
    <3>2. ~SweepRun(x.run) /\ Stored(x.run)
      BY <1>a, <2>1 DEF SweepRun, OwnerInv, ListedAreOver, ReadIsStored
    <3> QED BY <3>1, <3>2, SweepDeletes DEF Stored
  <2>2. CASE x \notin abandoning
    BY <2>2, NewAbandoning DEF Stored
  <2> QED BY <2>1, <2>2
<1> QED BY <1>1, <1>2 DEF ReadIsStored

\* What a writer may make of a Run: its new status, and whether it is parked.
MayWrite(was, s, p) ==
    \/ was.status \in Steps \cup Callbacks /\ ~was.paused /\ s \in Goes[was.status] /\ p = FALSE
    \/ was.status \in Steps /\ ~was.paused /\ s = was.status /\ p = TRUE
    \/ s = was.status /\ p = FALSE
    \/ was.status \in Steps \cup Callbacks /\ s = "Cancelled" /\ p = FALSE
    \/ /\ was.status \in {"Cancelled", "Failed", "Paused"} /\ ~was.paused
       /\ s = "Discovering" /\ p = FALSE
    \/ was.status = "Cancelled" /\ s \in Steps /\ p = TRUE
    \/ was.status \in Ended /\ ~was.paused /\ s = "Cancelled" /\ p = FALSE

\* Such a write is a step of the Run's life.
LEMMA LifeOf ==
    ASSUME TypeOK, NEW r \in Runs, Stored(r), NEW s, NEW p,
           rec'[r].status = s, rec'[r].paused = p, MayWrite(rec[r], s, p)
    PROVE  [Life(r)!Next]_(Life(r)!vars)
<1>1. rec[r].paused \in BOOLEAN /\ rec[r].status \in Statuses
  BY DEF TypeOK, Stored, Records
<1> QED
  BY <1>1
  DEF MayWrite, Life!Next, Life!vars, Life!HandlerReturns, Life!AutoPause, Life!Unpark, Life!Cancel,
      Life!Revive, Life!PauseOvertaken, Life!AbandonOvertaken, Life!Steps, Life!Callbacks,
      Life!Ended, Life!Goes, Steps, Callbacks, Ended, Goes

\* Every step that writes a record is a step of its Run's life.
LEMMA LifeStep ==
    ASSUME StoreInv, ReadIsStored, [Next]_vars, NEW r \in Runs, rec'[r] # rec[r]
    PROVE  [Life(r)!Next]_(Life(r)!vars)
<1>a. /\ TypeOK /\ OwnerInv /\ rec \in [Runs -> Records \cup {NoRecord}]
      /\ \A q \in Runs : Stored(q) => rec[q].paused \in BOOLEAN
      /\ \A q \in Runs : rec[q].paused => rec[q].status \in Steps
  BY DEF StoreInv, TypeInv, TypeOK, OwnerInv, PausedInStep, Stored, Records
<1>b. \A q, x : Store(q, x) => q = r /\ rec'[r] = x
  BY <1>a DEF Store
<1>1. ASSUME NEW s \in Steps, NEW e \in Running(s)
      PROVE  /\ Stored(e.run) /\ e.status = s
             /\ \/ rec[e.run].status = s /\ ~rec[e.run].paused
                \/ rec[e.run].status = "Cancelled"
  <2>1. Stored(e.run) /\ e.status = s /\ e.run \in Runs
    BY <1>a DEF ReadIsStored, TypeOK, Running, Events
  <2>2. rec[e.run] = RecordOf(e) \/ rec[e.run].status \in {"Cancelled", "none"}
    BY <1>a DEF OwnerInv, StepOwnsRecord
  <2>3. rec[e.run].status # "none"
    BY <1>a, <2>1, StatusFacts DEF Stored, Records
  <2> QED BY <2>1, <2>2, <2>3 DEF RecordOf
<1>2. ASSUME NEW s \in Steps, NEW next \in Goes[s], StepReturns(s, next)
      PROVE  [Life(r)!Next]_(Life(r)!vars)
  <2>1. PICK e \in held[s] : StepReturns(s, next)!(e)
    BY <1>2 DEF StepReturns
  <2>2. e \in Running(s) /\ rec[e.run].status = s /\ s # "Cancelled"
    BY <2>1 DEF Running, Steps
  <2>3. e.run = r /\ rec'[r] = [version |-> e.version + 1, status |-> next, paused |-> FALSE]
    BY <1>b, <2>1, <2>2
  <2>4. Stored(r) /\ MayWrite(rec[r], next, FALSE)
    BY <1>1, <2>2, <2>3 DEF MayWrite
  <2>5. rec'[r].status = next /\ rec'[r].paused = FALSE
    BY <2>3
  <2> QED BY <1>a, <2>4, <2>5, LifeOf
<1>3. ASSUME NEW s \in Steps, StepFails(s)
      PROVE  [Life(r)!Next]_(Life(r)!vars)
  <2>1. PICK e \in held[s] : StepFails(s)!(e)
    BY <1>3 DEF StepFails
  <2>2. e \in Running(s)
    BY <2>1 DEF Running
  <2>3. e.run = r /\ rec'[r] = [version |-> e.version + 1, status |-> s, paused |-> TRUE]
    BY <1>b, <2>1
  <2>4. Stored(r) /\ MayWrite(rec[r], s, TRUE)
    BY <1>1, <2>2, <2>3 DEF MayWrite
  <2>5. rec'[r].status = s /\ rec'[r].paused = TRUE
    BY <2>3
  <2> QED BY <1>a, <2>4, <2>5, LifeOf
<1>4. ASSUME NEW q \in Runs, AutoRetry(q)
      PROVE  [Life(r)!Next]_(Life(r)!vars)
  <2>1. /\ q = r /\ Stored(r)
        /\ rec'[r] = [version |-> rec[r].version + 1, status |-> rec[r].status, paused |-> FALSE]
    BY <1>4, <1>b DEF AutoRetry, Writable
  <2>2. rec'[r].status = rec[r].status /\ rec'[r].paused = FALSE
    BY <2>1
  <2>3. MayWrite(rec[r], rec[r].status, FALSE)
    BY DEF MayWrite
  <2> QED BY <1>a, <2>1, <2>2, <2>3, LifeOf
<1>5. ASSUME NEW c \in Callers, NEW next \in Statuses, CallbackReturns(c, next)
      PROVE  [Life(r)!Next]_(Life(r)!vars)
  <2>1. PICK x \in calls[c] : CallbackReturns(c, next)!(x)
    BY <1>5 DEF CallbackReturns
  <2>2. /\ x.run = r /\ rec[r].status = x.status
        /\ rec'[r] = [version |-> x.version + 1, status |-> next, paused |-> FALSE]
    BY <1>b, <2>1
  <2>3. x.status \in Callbacks /\ next \in Goes[x.status]
    BY <1>a, <2>1 DEF TypeOK
  <2>4. Stored(r) /\ ~rec[r].paused
    BY <1>a, <2>2, <2>3, StatusFacts DEF Stored, NoRecord
  <2>5. MayWrite(rec[r], next, FALSE)
    BY <2>2, <2>3, <2>4 DEF MayWrite
  <2>6. rec'[r].status = next /\ rec'[r].paused = FALSE
    BY <2>2
  <2> QED BY <1>a, <2>4, <2>5, <2>6, LifeOf
<1>6. ASSUME AbandonStores
      PROVE  [Life(r)!Next]_(Life(r)!vars)
  <2>1. PICK x \in abandoning : AbandonStores!(x)
    BY <1>6 DEF AbandonStores
  <2>2. /\ x.run = r /\ Stored(r)
        /\ rec'[r] = [version |-> x.version + 1, status |-> "Cancelled", paused |-> FALSE]
    BY <1>b, <2>1 DEF ReadIsStored
  <2>3. rec[r].status \in Steps \cup Callbacks \cup Ended
    BY <1>a, <2>2 DEF Stored, Records, Statuses
  <2>4. rec[r].status \in Ended => ~rec[r].paused
    BY <1>a, StatusFacts
  <2>5. MayWrite(rec[r], "Cancelled", FALSE)
    BY <2>3, <2>4 DEF MayWrite
  <2>6. rec'[r].status = "Cancelled" /\ rec'[r].paused = FALSE
    BY <2>2
  <2> QED BY <1>a, <2>2, <2>5, <2>6, LifeOf
<1>7. ASSUME NEW q \in Runs, DirectResume(q)
      PROVE  [Life(r)!Next]_(Life(r)!vars)
  <2>1. PICK s \in Statuses :
          /\ IF rec[q].paused THEN s = rec[q].status
             ELSE rec[q].status \in {"Cancelled", "Failed", "Paused"} /\ s = "Discovering"
          /\ Store(q, [version |-> rec[q].version + 1, status |-> s, paused |-> FALSE])
    BY <1>7 DEF DirectResume
  <2>2. /\ q = r /\ Stored(r)
        /\ rec'[r] = [version |-> rec[r].version + 1, status |-> s, paused |-> FALSE]
    <3>1. Stored(q)
      BY <1>7 DEF DirectResume, Writable
    <3> QED BY <1>b, <2>1, <3>1
  <2>3. MayWrite(rec[r], s, FALSE)
    BY <2>1, <2>2 DEF MayWrite
  <2>4. rec'[r].status = s /\ rec'[r].paused = FALSE
    BY <2>2
  <2> QED BY <1>a, <2>2, <2>3, <2>4, LifeOf
<1>8. ASSUME NEW q \in Runs, SweepRun(q)
      PROVE  [Life(r)!Next]_(Life(r)!vars)
  <2>1. q = r /\ r \in listed /\ rec'[r] = NoRecord
    BY <1>8, <1>a DEF SweepRun, DeleteRun, tables
  <2>2. rec[r].status \in Ended \cup {"none"} /\ rec[r] \in Records
    BY <1>a, <2>1 DEF OwnerInv, ListedAreOver
  <2>3. rec[r].status \in Ended /\ rec[r].paused = FALSE
    BY <1>a, <2>2, StatusFacts DEF Records
  <2>4. rec'[r].status = "none" /\ rec'[r].paused = FALSE
    BY <2>1 DEF NoRecord
  <2> QED BY <2>3, <2>4 DEF Life!Next, Life!Delete, Life!Ended, Ended
<1>9. rec' # rec
  OBVIOUS
<1> QED
  BY <1>2, <1>3, <1>4, <1>5, <1>6, <1>7, <1>8, <1>9
  DEF Next, Relay, Consume, RelaySend, DeleteOutboxEvent, Receive, Skip, Acknowledge,
      CallbackReads, AbandonReads, LookupStuck, Retrigger, ListTerminalRuns, Crash, Start,
      tables, vars

\* A step that is run and a record that is being abandoned are there, in every state.
LEMMA ReadInvariant == Spec => []ReadIsStored
<1>1. Init => ReadIsStored
  BY DEF Init, ReadIsStored, Running
<1> QED BY <1>1, NextRead, Invariant, PTL DEF Spec

\* Whatever overlaps, the record of each Run goes through its lifecycle: along the
\* transitions of Build, into the circuit breaker and out of it, and where the CLI and
\* the sweeper take it; for any number of Runs, callers, writes and restarts.
THEOREM RunsLiveTheirLives == Spec => ImplementsLifecycle
<1>1. Init => \A r \in Runs : Life(r)!Init
  BY DEF Init, Life!Init
<1>2. StoreInv /\ ReadIsStored /\ [Next]_vars
        => [\A r \in Runs : [Life(r)!Next]_(Life(r)!vars)]_vars
  <2> SUFFICES ASSUME StoreInv, ReadIsStored, [Next]_vars, NEW r \in Runs
               PROVE  [Life(r)!Next]_(Life(r)!vars)
    OBVIOUS
  <2>1. CASE rec'[r] = rec[r]
    BY <2>1 DEF Life!vars
  <2>2. CASE rec'[r] # rec[r]
    BY <2>2, LifeStep
  <2> QED BY <2>1, <2>2
<1> QED BY <1>1, <1>2, Invariant, ReadInvariant, PTL DEF Spec, ImplementsLifecycle

-----------------------------------------------------------------------------
(* No event ahead of its record.                                             *)

\* The CLI or a callback stores its result over a record that was written since it was
\* read, and the version of the Run goes down.
Overtaken ==
    \/ AbandonStores /\ \E x \in abandoning : x.version < rec[x.run].version
    \/ \E c \in Callers, next \in Statuses :
         /\ CallbackReturns(c, next)
         /\ \E x \in calls[c] : rec[x.run].status = x.status /\ x.version < rec[x.run].version

\* An event is somewhere: in the tables, at a consumer or at the reconciler.
Around(e) == outbox[e] > 0 \/ log[e] > 0 \/ e \in picked \/ \E s \in Steps : e \in held[s]

AroundNotAhead ==
    \A e \in Events : Around(e) /\ Stored(e.run) => e.version <= rec[e.run].version

\* A step whose Run was cancelled meanwhile is one version behind at most.
CancelledOnce ==
    \A s \in Steps : \A e \in Running(s) :
        rec[e.run].status = "Cancelled" => rec[e.run].version <= e.version + 1

\* `syntropy abandon` has read a Run that had not ended.
AbandonedHadNotEnded ==
    \A x \in abandoning :
        /\ x.status \notin Ended
        /\ x.version <= rec[x.run].version
        /\ x.version = rec[x.run].version => x.status = rec[x.run].status

AheadInv == AroundNotAhead /\ CancelledOnce /\ AbandonedHadNotEnded

\* What the steps of this section start from.
Bases == StoreInv /\ ReadIsStored /\ AheadInv

\* A step of a consumer that is running was not overtaken, or its Run was cancelled.
LEMMA RunningRecord ==
    ASSUME StoreInv, ReadIsStored, NEW s \in Steps, NEW e \in Running(s)
    PROVE  /\ e \in Events /\ e.run \in Runs /\ e.status = s /\ e.version \in Nat
           /\ Stored(e.run) /\ rec[e.run].version \in Nat
           /\ rec[e.run] = RecordOf(e) \/ rec[e.run].status = "Cancelled"
<1>1. e \in Events /\ e.run \in Runs /\ e.status = s /\ e.version \in Nat
  BY DEF StoreInv, TypeInv, TypeOK, Running, Events, Versions
<1>2. Stored(e.run)
  BY DEF ReadIsStored
<1>3. rec[e.run].version \in Nat /\ rec[e.run].status # "none"
  BY <1>1, <1>2, StatusFacts DEF StoreInv, TypeInv, TypeOK, Stored, Records, Versions
<1> QED BY <1>1, <1>2, <1>3 DEF StoreInv, OwnerInv, StepOwnsRecord

\* A result of a step is stored only over the very record that the step has read.
ReturnsAreAtomic ==
    \A s \in Steps : \A e \in Running(s) :
        /\ \E next \in Goes[s] : StepReturns(s, next)
        /\ rec'[e.run] # rec[e.run]
        => rec[e.run] = RecordOf(e)

\* A step is as good as atomic, though nobody locks its record and Store compares nothing:
\* when its result is stored, the record is the one it started from (this is what lets
\* RefactorSweep and PolledSweep take a whole step for one action).
THEOREM StepsAreAtomic == Spec => [][ReturnsAreAtomic]_vars
<1>1. StoreInv /\ ReadIsStored => ReturnsAreAtomic
  <2> SUFFICES ASSUME StoreInv, ReadIsStored, NEW s \in Steps, NEW e \in Running(s),
                      NEW next \in Goes[s], StepReturns(s, next), rec'[e.run] # rec[e.run]
               PROVE  rec[e.run] = RecordOf(e)
    BY DEF ReturnsAreAtomic
  <2>1. PICK f \in held[s] : StepReturns(s, next)!(f)
    BY DEF StepReturns
  <2>2. f = e
    BY DEF StoreInv, TypeInv, TypeOK, Running
  <2>3. rec[e.run].status = s /\ s # "Cancelled"
    BY <2>1, <2>2 DEF Steps
  <2> QED BY <2>3, RunningRecord
<1> QED BY <1>1, Invariant, ReadInvariant, PTL

\* Unless a write is overtaken, versions do not go down: they stay only where the
\* circuit breaker parks a Run that was cancelled.
LEMMA VersionsGrow ==
    ASSUME Bases, [Next]_vars, [~Overtaken]_vars, NEW r \in Runs, rec'[r] # rec[r], Stored(r)'
    PROVE  /\ Stored(r)
           /\ \/ rec'[r].version > rec[r].version
              \/ rec'[r].version = rec[r].version /\ rec[r].status = "Cancelled"
<1>a. /\ TypeOK /\ rec \in [Runs -> Records \cup {NoRecord}]
      /\ \A q \in Runs : Stored(q) => rec[q].version \in Nat
      /\ \A q \in Runs : ~Stored(q) => rec[q].status = "none"
  BY DEF Bases, StoreInv, TypeInv, TypeOK, Stored, Records, Versions, NoRecord
<1>b. \A q, x : Store(q, x) => q = r /\ rec'[r] = x
  BY <1>a DEF Store
<1>c. vars' # vars
  BY DEF vars, tables
<1>d. ~Overtaken
  BY <1>c
<1>1. ASSUME NEW s \in Steps, NEW next \in Goes[s], StepReturns(s, next)
      PROVE  Stored(r) /\ rec'[r].version > rec[r].version
  <2>1. PICK e \in held[s] : StepReturns(s, next)!(e)
    BY <1>1 DEF StepReturns
  <2>2. e \in Running(s) /\ rec[e.run].status = s /\ s # "Cancelled"
    BY <2>1 DEF Running, Steps
  <2>3. e.run = r /\ rec'[r].version = e.version + 1
    BY <1>b, <2>1, <2>2
  <2>4. Stored(r) /\ rec[r] = RecordOf(e) /\ e.version \in Nat
    BY <2>2, <2>3, RunningRecord DEF Bases
  <2> QED BY <2>3, <2>4 DEF RecordOf
<1>2. ASSUME NEW s \in Steps, StepFails(s)
      PROVE  /\ Stored(r)
             /\ \/ rec'[r].version > rec[r].version
                \/ rec'[r].version = rec[r].version /\ rec[r].status = "Cancelled"
  <2>1. PICK e \in held[s] : StepFails(s)!(e)
    BY <1>2 DEF StepFails
  <2>2. e \in Running(s)
    BY <2>1 DEF Running
  <2>3. e.run = r /\ rec'[r].version = e.version + 1
    BY <1>b, <2>1
  <2>4. /\ Stored(r) /\ e.version \in Nat /\ rec[r].version \in Nat
        /\ rec[r] = RecordOf(e) \/ rec[r].status = "Cancelled"
    BY <2>2, <2>3, RunningRecord DEF Bases
  <2>5. CASE rec[r] = RecordOf(e)
    BY <2>3, <2>4, <2>5 DEF RecordOf
  <2>6. CASE rec[r].status = "Cancelled"
    <3>1. rec[r].version <= e.version + 1
      BY <2>2, <2>3, <2>6 DEF Bases, AheadInv, CancelledOnce
    <3> QED BY <2>3, <2>4, <2>6, <3>1
  <2> QED BY <2>4, <2>5, <2>6
<1>3. ASSUME NEW q \in Runs, AutoRetry(q)
      PROVE  Stored(r) /\ rec'[r].version > rec[r].version
  <2>1. q = r /\ Stored(r) /\ rec'[r].version = rec[r].version + 1
    BY <1>3, <1>b DEF AutoRetry, Writable
  <2> QED BY <1>a, <2>1
<1>4. ASSUME NEW c \in Callers, NEW next \in Statuses, CallbackReturns(c, next)
      PROVE  Stored(r) /\ rec'[r].version > rec[r].version
  <2>1. PICK x \in calls[c] : CallbackReturns(c, next)!(x)
    BY <1>4 DEF CallbackReturns
  <2>2. x.run = r /\ rec[r].status = x.status /\ rec'[r].version = x.version + 1
    BY <1>b, <2>1
  <2>3. x.status \in Callbacks /\ x.version \in Nat
    BY <1>a DEF TypeOK, Reads, Versions
  <2>4. Stored(r) /\ rec[r].version \in Nat
    BY <1>a, <2>2, <2>3 DEF Callbacks
  <2>5. ~(x.version < rec[r].version)
    BY <1>d, <1>4, <2>2 DEF Overtaken
  <2> QED BY <2>2, <2>3, <2>4, <2>5
<1>5. ASSUME AbandonStores
      PROVE  Stored(r) /\ rec'[r].version > rec[r].version
  <2>1. PICK x \in abandoning : AbandonStores!(x)
    BY <1>5 DEF AbandonStores
  <2>2. x.run = r /\ Stored(r) /\ rec'[r].version = x.version + 1
    BY <1>b, <2>1 DEF Bases, ReadIsStored
  <2>3. x.version \in Nat /\ rec[r].version \in Nat
    BY <1>a, <2>2 DEF TypeOK, Reads, Versions
  <2>4. ~(x.version < rec[r].version)
    BY <1>d, <1>5, <2>2 DEF Overtaken
  <2> QED BY <2>2, <2>3, <2>4
<1>6. ASSUME NEW q \in Runs, DirectResume(q)
      PROVE  Stored(r) /\ rec'[r].version > rec[r].version
  <2>1. q = r /\ Stored(r) /\ rec'[r].version = rec[r].version + 1
    <3>1. Stored(q)
      BY <1>6 DEF DirectResume, Writable
    <3> QED BY <1>6, <1>b, <3>1 DEF DirectResume
  <2> QED BY <1>a, <2>1
<1>7. ASSUME NEW q \in Runs, SweepRun(q) PROVE FALSE
  BY <1>7, <1>a DEF SweepRun, DeleteRun, tables, Stored
<1>8. rec' # rec
  OBVIOUS
<1> QED
  BY <1>1, <1>2, <1>3, <1>4, <1>5, <1>6, <1>7, <1>8
  DEF Next, Relay, Consume, RelaySend, DeleteOutboxEvent, Receive, Skip, Acknowledge,
      CallbackReads, AbandonReads, LookupStuck, Retrigger, ListTerminalRuns, Crash, Start,
      tables, vars

\* A write adds the event of the new record, and no other.
LEMMA StoreAdds ==
    ASSUME TypeOK, NEW r \in Runs, NEW x \in Records, Store(r, x), NEW e \in Events, outbox'[e] > 0
    PROVE  outbox[e] > 0 \/ (e.run = r /\ e.version = rec'[r].version)
<1>1. rec'[r] = x
  BY StoreEffect DEF TypeOK
<1>2. CASE x.status \in Steps /\ e = EventOf(r, x)
  BY <1>1, <1>2 DEF EventOf
<1>3. CASE ~(x.status \in Steps /\ e = EventOf(r, x))
  BY <1>3 DEF Store, TypeOK
<1> QED BY <1>2, <1>3

\* An event that was not around is of the record as it is now.
LEMMA EventsAreOfRecords ==
    ASSUME Bases, [Next]_vars, NEW e \in Events, Around(e)', ~Around(e)
    PROVE  e.version = rec'[e.run].version
<1>t. TypeInv /\ TypeOK
  BY DEF Bases, StoreInv, TypeInv
<1>n. outbox[e] \in Nat /\ log[e] \in Nat
  BY <1>t DEF TypeOK
<1>a. /\ rec \in [Runs -> Records \cup {NoRecord}]
      /\ outbox \in [Events -> Nat] /\ log \in [Events -> Nat]
      /\ held \in [Steps -> SUBSET Events]
      /\ outbox[e] = 0 /\ log[e] = 0 /\ e \notin picked
      /\ \A s \in Steps : e \notin held[s]
      /\ e.status \in Steps
  BY <1>t, <1>n DEF TypeOK, Around, Events
<1>h. \A s \in Steps : \A f \in held[s] : s \notin done =>
        f.run \in Runs /\ f.version \in Versions /\ f.version < MaxVersion
  BY <1>t, <1>a DEF TypeInv, Bounded, Running, Events
<1>c. /\ \A c \in Callers : \A y \in calls[c] :
           y.run \in Runs /\ y.version \in Versions /\ y.version < MaxVersion
      /\ \A y \in abandoning : y.run \in Runs /\ y.version \in Versions /\ y.version < MaxVersion
  BY <1>t DEF TypeInv, TypeOK, Bounded, Reads
<1>b. \A q, x : q \in Runs /\ x \in Records /\ Store(q, x) /\ outbox'[e] > 0
                => e.version = rec'[e.run].version
  BY <1>t, <1>a, StoreAdds
<1>1. ASSUME NEW f \in Events, RelaySend(f) PROVE FALSE
  BY <1>1, <1>a DEF RelaySend, Around, consumers, sweepers
<1>2. ASSUME NEW f \in Events, DeleteOutboxEvent(f) PROVE FALSE
  BY <1>2, <1>t, <1>a DEF DeleteOutboxEvent, Around, consumers, sweepers, TypeInv, RelayedIsThere
<1>3. ASSUME NEW s \in Steps, NEW f \in Events, Receive(s, f) \/ Skip(s, f) PROVE FALSE
  BY <1>3, <1>a DEF Receive, Skip, Around, sweepers
<1>4. ASSUME NEW s \in Steps, NEW next \in Goes[s], StepReturns(s, next)
      PROVE  e.version = rec'[e.run].version
  <2>1. PICK f \in held[s] : StepReturns(s, next)!(f)
    BY <1>4 DEF StepReturns
  <2> DEFINE x == [version |-> f.version + 1, status |-> next, paused |-> FALSE]
  <2>2. outbox'[e] > 0 /\ rec[f.run].status = s
    BY <2>1, <1>a DEF Around, sweepers
  <2>3. f.run \in Runs /\ x \in Records
    BY <2>1, <1>h, StatusFacts, NextRecord
  <2>4. Store(f.run, x)
    BY <2>1, <2>2
  <2> QED BY <1>b, <2>2, <2>3, <2>4
<1>5. ASSUME NEW s \in Steps, StepFails(s)
      PROVE  e.version = rec'[e.run].version
  <2>1. PICK f \in held[s] : StepFails(s)!(f)
    BY <1>5 DEF StepFails
  <2> DEFINE x == [version |-> f.version + 1, status |-> s, paused |-> TRUE]
  <2>2. outbox'[e] > 0 /\ ~(errs[s] + 1 < PauseAfterErrs)
    BY <2>1, <1>a DEF Around, sweepers
  <2>3. f.run \in Runs /\ x \in Records
    BY <2>1, <1>h, StatusFacts, NextRecord
  <2>4. Store(f.run, x)
    BY <2>1, <2>2
  <2> QED BY <1>b, <2>2, <2>3, <2>4
<1>6. ASSUME NEW s \in Steps, Acknowledge(s) PROVE FALSE
  BY <1>6, <1>a DEF Acknowledge, Around, tables, sweepers
<1>7. ASSUME NEW r \in Runs, AutoRetry(r)
      PROVE  e.version = rec'[e.run].version
  <2> DEFINE x == [version |-> rec[r].version + 1, status |-> rec[r].status, paused |-> FALSE]
  <2>1. outbox'[e] > 0
    BY <1>7, <1>a DEF AutoRetry, Around, consumers, sweepers
  <2>2. x \in Records /\ Store(r, x)
    BY <1>7, <1>a, NextRecord DEF AutoRetry, Writable, Stored, Records
  <2> QED BY <1>b, <2>1, <2>2
<1>8. ASSUME NEW c \in Callers, NEW next \in Statuses, CallbackReturns(c, next)
      PROVE  e.version = rec'[e.run].version
  <2>1. PICK y \in calls[c] : CallbackReturns(c, next)!(y)
    BY <1>8 DEF CallbackReturns
  <2> DEFINE x == [version |-> y.version + 1, status |-> next, paused |-> FALSE]
  <2>2. outbox'[e] > 0 /\ rec[y.run].status = y.status
    BY <2>1, <1>a DEF Around, consumers, sweepers
  <2>3. y.run \in Runs /\ x \in Records
    BY <1>c, NextRecord
  <2>4. Store(y.run, x)
    BY <2>1, <2>2
  <2> QED BY <1>b, <2>2, <2>3, <2>4
<1>9. ASSUME AbandonStores PROVE e.version = rec'[e.run].version
  <2>1. PICK y \in abandoning : AbandonStores!(y)
    BY <1>9 DEF AbandonStores
  <2> DEFINE x == [version |-> y.version + 1, status |-> "Cancelled", paused |-> FALSE]
  <2>2. outbox'[e] > 0
    BY <2>1, <1>a DEF Around, consumers, sweepers
  <2>3. y.run \in Runs /\ x \in Records
    BY <1>c, StatusFacts, NextRecord
  <2>4. Store(y.run, x)
    BY <2>1
  <2> QED BY <1>b, <2>2, <2>3, <2>4
<1>10. ASSUME NEW r \in Runs, DirectResume(r)
      PROVE  e.version = rec'[e.run].version
  <2>1. PICK s \in Statuses :
          Store(r, [version |-> rec[r].version + 1, status |-> s, paused |-> FALSE])
    BY <1>10 DEF DirectResume
  <2> DEFINE x == [version |-> rec[r].version + 1, status |-> s, paused |-> FALSE]
  <2>2. outbox'[e] > 0
    BY <1>10, <1>a DEF DirectResume, Around, consumers, sweepers
  <2>3. x \in Records
    BY <1>10, <1>a, NextRecord DEF DirectResume, Writable, Stored, Records
  <2>4. Store(r, x)
    BY <2>1
  <2> QED BY <1>b, <2>2, <2>3, <2>4
<1>11. ASSUME NEW r \in Runs, LookupStuck(r)
      PROVE  e.version = rec'[e.run].version
  <2>1. e = ReadOf(r) /\ UNCHANGED rec
    BY <1>11, <1>a DEF LookupStuck, Around, tables, consumers
  <2> QED BY <2>1 DEF ReadOf, EventOf
<1>12. ASSUME Retrigger PROVE FALSE
  BY <1>12, <1>a DEF Retrigger, Around, consumers
<1>13. ASSUME NEW r \in Runs, SweepRun(r) PROVE FALSE
  BY <1>13, <1>a DEF SweepRun, DeleteRun, Around, tables, consumers
<1>14. ASSUME Crash PROVE FALSE
  BY <1>14, <1>a DEF Crash, Around
<1>15. CASE UNCHANGED <<outbox, log, picked, held>>
  BY <1>15 DEF Around
<1> QED
  BY <1>1, <1>2, <1>3, <1>4, <1>5, <1>6, <1>7, <1>8, <1>9, <1>10, <1>11, <1>12, <1>13, <1>14, <1>15
  DEF Next, Relay, Consume, CallbackReads, AbandonReads, ListTerminalRuns, Start,
      tables, consumers, sweepers, vars

\* While a step is run, nobody writes its record but `syntropy abandon`.
LEMMA OnlyAbandoned ==
    ASSUME StoreInv, ReadIsStored, [Next]_vars,
           NEW s \in Steps, NEW e \in Running(s), e \in Running(s)', rec'[e.run] # rec[e.run]
    PROVE  \E x \in abandoning :
              x.run = e.run /\ AbandonStores /\ rec'[e.run].version = x.version + 1
<1>a. /\ TypeOK /\ OwnerInv /\ rec \in [Runs -> Records \cup {NoRecord}]
      /\ \A q \in Runs : ~Stored(q) => rec[q].status = "none"
      /\ \A f \in held[s] : f = e
  BY DEF StoreInv, TypeInv, TypeOK, Stored, NoRecord, Running
<1>b. \A q, x : Store(q, x) => q = e.run /\ rec'[e.run] = x
  BY <1>a DEF Store
<1>c. /\ e.run \in Runs /\ e.status = s /\ Stored(e.run)
      /\ rec[e.run] = RecordOf(e) \/ rec[e.run].status = "Cancelled"
  BY RunningRecord
<1>d. s \notin done /\ s \notin done' /\ up
  BY <1>a DEF Running, OwnerInv, DownIsIdle
<1>1. ASSUME NEW t \in Steps, NEW next \in Goes[t], StepReturns(t, next) PROVE FALSE
  <2>1. PICK f \in held[t] : StepReturns(t, next)!(f)
    BY <1>1 DEF StepReturns
  <2>2. f \in Running(t) /\ f.run = e.run
    BY <1>b, <2>1 DEF Running
  <2>3. t = s
    BY <1>a, <2>2 DEF OwnerInv, OneStepPerRun
  <2> QED BY <1>d, <2>1, <2>3
<1>2. ASSUME NEW t \in Steps, StepFails(t) PROVE FALSE
  <2>1. PICK f \in held[t] : StepFails(t)!(f)
    BY <1>2 DEF StepFails
  <2>2. f \in Running(t) /\ f.run = e.run /\ done' = done \cup {t}
    BY <1>b, <2>1 DEF Running
  <2>3. t = s
    BY <1>a, <2>2 DEF OwnerInv, OneStepPerRun
  <2> QED BY <1>d, <2>2, <2>3
<1>3. ASSUME NEW q \in Runs, AutoRetry(q) PROVE FALSE
  BY <1>3, <1>a, <1>b, <1>c DEF AutoRetry, RecordOf, OwnerInv, PausedInStep, Steps
<1>4. ASSUME NEW c \in Callers, NEW next \in Statuses, CallbackReturns(c, next) PROVE FALSE
  <2>1. PICK x \in calls[c] : CallbackReturns(c, next)!(x)
    BY <1>4 DEF CallbackReturns
  <2>2. x.run = e.run /\ rec[e.run].status = x.status /\ x.status \in Callbacks
    BY <1>a, <1>b, <2>1 DEF TypeOK
  <2> QED BY <1>c, <2>2 DEF RecordOf, Steps, Callbacks
<1>5. ASSUME AbandonStores
      PROVE  \E x \in abandoning :
               x.run = e.run /\ AbandonStores /\ rec'[e.run].version = x.version + 1
  <2>1. PICK x \in abandoning : AbandonStores!(x)
    BY <1>5 DEF AbandonStores
  <2>2. x.run = e.run /\ rec'[e.run].version = x.version + 1
    BY <1>b, <2>1
  <2> QED BY <1>5, <2>2
<1>6. ASSUME NEW q \in Runs, DirectResume(q) PROVE FALSE
  <2>1. q = e.run /\ Unattended(q)
    BY <1>6, <1>b DEF DirectResume
  <2> QED BY <1>a, <1>c, <1>d, <2>1 DEF Unattended, RecordOf, OwnerInv, PausedInStep, Steps, Callbacks
<1>7. ASSUME NEW q \in Runs, SweepRun(q) PROVE FALSE
  <2>1. q = e.run /\ q \in listed
    BY <1>7, <1>a, <1>c DEF SweepRun, DeleteRun, tables
  <2> QED BY <1>a, <2>1 DEF OwnerInv, ListedAreOver
<1>8. rec' # rec
  OBVIOUS
<1> QED
  BY <1>1, <1>2, <1>3, <1>4, <1>5, <1>6, <1>7, <1>8
  DEF Next, Relay, Consume, RelaySend, DeleteOutboxEvent, Receive, Skip, Acknowledge,
      CallbackReads, AbandonReads, LookupStuck, Retrigger, ListTerminalRuns, Crash, Start,
      tables, vars

\* `syntropy abandon` reads the record as it is, unless the Run has ended.
LEMMA AbandonedIsRead ==
    ASSUME [Next]_vars, NEW x \in abandoning', x \notin abandoning
    PROVE  /\ x.version = rec[x.run].version /\ x.status = rec[x.run].status
           /\ x.status \notin Ended /\ UNCHANGED rec
<1>1. ASSUME NEW r \in Runs, AbandonReads(r)
      PROVE  /\ x.version = rec[x.run].version /\ x.status = rec[x.run].status
             /\ x.status \notin Ended /\ UNCHANGED rec
  BY <1>1 DEF AbandonReads, ReadOf, EventOf, tables
<1>2. ASSUME AbandonStores PROVE FALSE
  BY <1>2 DEF AbandonStores
<1>3. abandoning' # abandoning
  OBVIOUS
<1> QED
  BY <1>1, <1>2, <1>3
  DEF Next, Relay, Consume, RelaySend, DeleteOutboxEvent, Receive, Skip, Acknowledge,
      StepReturns, StepFails, AutoRetry, CallbackReads, CallbackReturns, DirectResume, LookupStuck,
      Retrigger, ListTerminalRuns, SweepRun, Crash, Start, vars

\* No event is ahead of its record, nor was one overtaken, when the Runs are triggered.
LEMMA InitAhead == Init => AheadInv
BY DEF Init, AheadInv, AroundNotAhead, CancelledOnce, AbandonedHadNotEnded, Around, Running, Events, Steps

\* Every step that overtakes nobody keeps it that way.
LEMMA NextAhead == Bases /\ [Next]_vars /\ [~Overtaken]_vars => AheadInv'
<1> SUFFICES ASSUME Bases, [Next]_vars, [~Overtaken]_vars PROVE AheadInv'
  OBVIOUS
<1>a. StoreInv /\ ReadIsStored /\ AheadInv /\ StoreInv' /\ ReadIsStored' /\ TypeOK /\ TypeOK'
  BY NextType, NextOwner, NextEvent, NextRead DEF Bases, StoreInv, TypeInv
<1>b. \A r \in Runs : (Stored(r) => rec[r].version \in Nat)
  BY <1>a DEF TypeOK, Stored, Records, Versions
<1>b2. \A r \in Runs : (Stored(r)' => rec'[r].version \in Nat)
  BY <1>a DEF TypeOK, Stored, Records, Versions
<1>1. \A r \in Runs : Stored(r)' => Stored(r) /\ rec'[r].version >= rec[r].version
  <2> SUFFICES ASSUME NEW r \in Runs, Stored(r)'
               PROVE  Stored(r) /\ rec'[r].version >= rec[r].version
    OBVIOUS
  <2>1. CASE rec'[r] = rec[r]
    BY <1>b, <2>1 DEF Stored
  <2>2. CASE rec'[r] # rec[r]
    BY <1>b, <1>b2, <2>2, VersionsGrow
  <2> QED BY <2>1, <2>2
<1>2. AroundNotAhead'
  <2> SUFFICES ASSUME NEW e \in Events, Around(e)', Stored(e.run)'
               PROVE  e.version <= rec'[e.run].version
    BY DEF AroundNotAhead
  <2>1. e.run \in Runs /\ e.version \in Nat
    BY DEF Events, Versions
  <2>2. CASE Around(e)
    BY <1>a, <1>b, <1>b2, <1>1, <2>1, <2>2 DEF AheadInv, AroundNotAhead
  <2>3. CASE ~Around(e)
    BY <1>b2, <2>1, <2>3, EventsAreOfRecords
  <2> QED BY <2>2, <2>3
<1>3. CancelledOnce'
  <2> SUFFICES ASSUME NEW s \in Steps, NEW e \in Running(s)', rec'[e.run].status = "Cancelled"
               PROVE  rec'[e.run].version <= e.version + 1
    BY DEF CancelledOnce
  <2>1. CASE e \notin Running(s)
    <3>1. Receive(s, e)
      BY <1>a, <2>1, NewRunning
    <3>2. rec'[e.run] = RecordOf(e) /\ e.status = s
      BY <3>1 DEF Receive
    <3> QED BY <3>2 DEF RecordOf, Steps
  <2>2. CASE e \in Running(s) /\ rec'[e.run] = rec[e.run]
    BY <1>a, <2>2 DEF AheadInv, CancelledOnce
  <2>3. CASE e \in Running(s) /\ rec'[e.run] # rec[e.run]
    <3>1. PICK x \in abandoning :
            x.run = e.run /\ AbandonStores /\ rec'[e.run].version = x.version + 1
      BY <1>a, <2>3, OnlyAbandoned
    <3>2. /\ e.run \in Runs /\ e.version \in Nat
          /\ rec[e.run] = RecordOf(e) \/ rec[e.run].status = "Cancelled"
          /\ Stored(e.run)
      BY <1>a, <2>3, RunningRecord
    <3>3. x.version \in Nat /\ rec[e.run].version \in Nat
      BY <1>a, <1>b, <3>2 DEF TypeOK, Reads, Versions
    <3>4. /\ x.status \notin Ended /\ x.version <= rec[e.run].version
          /\ x.version = rec[e.run].version => x.status = rec[e.run].status
      BY <1>a, <3>1 DEF AheadInv, AbandonedHadNotEnded
    <3>5. ~(x.version < rec[e.run].version)
      <4>1. vars' # vars
        BY <2>3 DEF vars, tables
      <4> QED BY <3>1, <4>1 DEF Overtaken
    <3>6. x.version = rec[e.run].version
      BY <3>3, <3>4, <3>5
    <3>7. rec[e.run] = RecordOf(e)
      BY <3>2, <3>4, <3>6 DEF Ended
    <3> QED BY <3>1, <3>2, <3>6, <3>7 DEF RecordOf
  <2> QED BY <2>1, <2>2, <2>3
<1>4. AbandonedHadNotEnded'
  <2> SUFFICES ASSUME NEW x \in abandoning'
               PROVE  /\ x.status \notin Ended
                      /\ x.version <= rec'[x.run].version
                      /\ x.version = rec'[x.run].version => x.status = rec'[x.run].status
    BY DEF AbandonedHadNotEnded
  <2>1. x.run \in Runs /\ x.version \in Nat /\ Stored(x.run)'
    BY <1>a DEF TypeOK, Reads, Versions, ReadIsStored
  <2>2. CASE x \notin abandoning
    BY <1>b2, <2>1, <2>2, AbandonedIsRead
  <2>3. CASE x \in abandoning
    <3>1. /\ x.status \notin Ended /\ x.version <= rec[x.run].version
          /\ x.version = rec[x.run].version => x.status = rec[x.run].status
          /\ rec[x.run].version \in Nat /\ rec'[x.run].version \in Nat
      BY <1>a, <1>b, <1>b2, <2>1, <2>3 DEF AheadInv, AbandonedHadNotEnded, ReadIsStored
    <3>2. CASE rec'[x.run] = rec[x.run]
      BY <3>1, <3>2
    <3>3. CASE rec'[x.run] # rec[x.run]
      <4>1. \/ rec'[x.run].version > rec[x.run].version
            \/ rec'[x.run].version = rec[x.run].version /\ rec[x.run].status = "Cancelled"
        BY <2>1, <3>3, VersionsGrow
      <4> QED BY <2>1, <3>1, <4>1 DEF Ended
    <3> QED BY <3>2, <3>3
  <2> QED BY <2>2, <2>3
<1> QED BY <1>2, <1>3, <1>4 DEF AheadInv

\* No event is newer than its record as long as no result of `syntropy abandon` or of a
\* callback is stored over a record that was written since it was read: what StepsEnd
\* supposes fails for no other reason.  Steps that are parked over a cancelled Run,
\* restarts, the reconciler and the relay do no harm.
THEOREM OnlyStaleWritesRunAhead == Spec /\ [][~Overtaken]_vars => []NoneAhead
<1>1. StoreInv /\ ReadIsStored /\ AheadInv /\ [Next]_vars /\ [~Overtaken]_vars => AheadInv'
  BY NextAhead DEF Bases
<1>2. StoreInv /\ AheadInv => NoneAhead
  <2> SUFFICES ASSUME StoreInv, AheadInv, NEW e \in Events, Waiting(e), Stored(e.run)
               PROVE  e.version <= rec[e.run].version
    BY DEF NoneAhead
  <2>1. outbox[e] \in Nat /\ log[e] \in Nat /\ e.status \in Steps
    BY DEF StoreInv, TypeInv, TypeOK, Events
  <2>2. Around(e)
    BY <2>1 DEF Waiting, Around, Running
  <2> QED BY <2>2 DEF AheadInv, AroundNotAhead
<1> QED BY <1>1, <1>2, InitAhead, Invariant, ReadInvariant, PTL DEF Spec

\* What a callback has read is not ahead of its record.
CallsNotAhead ==
    \A c \in Callers : \A x \in calls[c] : Stored(x.run) => x.version <= rec[x.run].version

\* A callback reads the record as it is.
LEMMA CallIsRead ==
    ASSUME [Next]_vars, TypeOK, NEW c \in Callers, NEW x \in calls'[c], x \notin calls[c]
    PROVE  x.version = rec[x.run].version /\ UNCHANGED rec
<1>1. ASSUME NEW d \in Callers, NEW r \in Runs, CallbackReads(d, r)
      PROVE  x.version = rec[x.run].version /\ UNCHANGED rec
  BY <1>1 DEF TypeOK, CallbackReads, ReadOf, EventOf, tables
<1>2. ASSUME NEW d \in Callers, NEW next \in Statuses, CallbackReturns(d, next) PROVE FALSE
  BY <1>2 DEF TypeOK, CallbackReturns
<1>3. ASSUME Crash PROVE FALSE
  BY <1>3 DEF Crash
<1>4. calls' # calls
  OBVIOUS
<1> QED
  BY <1>1, <1>2, <1>3, <1>4
  DEF Next, Relay, Consume, RelaySend, DeleteOutboxEvent, Receive, Skip, Acknowledge,
      StepReturns, StepFails, AutoRetry, AbandonReads, AbandonStores, DirectResume, LookupStuck,
      Retrigger, ListTerminalRuns, SweepRun, Start, vars

LEMMA NextCalls == Bases /\ CallsNotAhead /\ [Next]_vars /\ [~Overtaken]_vars => CallsNotAhead'
<1> SUFFICES ASSUME Bases, CallsNotAhead, [Next]_vars, [~Overtaken]_vars,
                    NEW c \in Callers, NEW x \in calls'[c], Stored(x.run)'
             PROVE  x.version <= rec'[x.run].version
  BY DEF CallsNotAhead
<1>1. TypeOK /\ TypeOK'
  BY NextType DEF Bases, StoreInv, TypeInv
<1>2. x.run \in Runs /\ x.version \in Nat /\ rec'[x.run].version \in Nat
  BY <1>1 DEF TypeOK, Reads, Versions, Stored, Records
<1>3. CASE x \notin calls[c]
  BY <1>1, <1>2, <1>3, CallIsRead
<1>4. CASE x \in calls[c] /\ rec'[x.run] = rec[x.run]
  BY <1>4 DEF CallsNotAhead, Stored
<1>5. CASE x \in calls[c] /\ rec'[x.run] # rec[x.run]
  <2>1. Stored(x.run) /\ rec'[x.run].version >= rec[x.run].version /\ rec[x.run].version \in Nat
    <3>1. Stored(x.run) /\ rec[x.run].version \in Nat
      BY <1>1, <1>2, <1>5, VersionsGrow DEF TypeOK, Stored, Records, Versions
    <3> QED BY <1>2, <1>5, <3>1, VersionsGrow
  <2> QED BY <1>2, <1>5, <2>1 DEF CallsNotAhead
<1> QED BY <1>3, <1>4, <1>5

\* What was read is the record as it is.
IsCurrent(x) == rec[x.run].version = x.version /\ rec[x.run].status = x.status

\* A callback and `syntropy abandon` store over the record they have read.
WritesAreAtomic ==
    /\ \A c \in Callers, next \in Statuses : \A x \in calls[c] :
         CallbackReturns(c, next) /\ rec[x.run].status = x.status => IsCurrent(x)
    /\ \A x \in abandoning : AbandonStores => IsCurrent(x)

\* Comparing versions would be enough: as long as nothing is stored over a record with a
\* higher version than the one that was read, callbacks and `syntropy abandon` are as good as
\* atomic too, and no version is given out to two records that they could take for each
\* other (Store compares nothing, sqlite.go:246).
THEOREM VersionsWouldDo == Spec /\ [][~Overtaken]_vars => [][WritesAreAtomic]_vars
<1>1. Init => CallsNotAhead
  BY DEF Init, CallsNotAhead
<1>2. StoreInv /\ ReadIsStored /\ AheadInv /\ CallsNotAhead /\ [Next]_vars /\ [~Overtaken]_vars
        => AheadInv' /\ CallsNotAhead'
  BY NextAhead, NextCalls DEF Bases
<1>3. StoreInv /\ ReadIsStored /\ AheadInv /\ CallsNotAhead /\ [~Overtaken]_vars
        => [WritesAreAtomic]_vars
  <2> SUFFICES ASSUME StoreInv, ReadIsStored, AheadInv, CallsNotAhead, ~Overtaken
               PROVE  WritesAreAtomic
    OBVIOUS
  <2>a. TypeOK /\ \A q \in Runs : Stored(q) => rec[q].version \in Nat
    BY DEF StoreInv, TypeInv, TypeOK, Stored, Records, Versions
  <2>1. ASSUME NEW c \in Callers, NEW next \in Statuses, NEW x \in calls[c],
               CallbackReturns(c, next), rec[x.run].status = x.status
        PROVE  IsCurrent(x)
    <3>1. x.run \in Runs /\ x.version \in Nat /\ x.status \in Callbacks
      BY <2>a DEF TypeOK, Reads, Versions
    <3>2. Stored(x.run) /\ x.version <= rec[x.run].version
      BY <2>1, <3>1 DEF CallsNotAhead, Stored, NoRecord, Callbacks
    <3>3. ~(x.version < rec[x.run].version)
      BY <2>1 DEF Overtaken
    <3> QED BY <2>1, <2>a, <3>1, <3>2, <3>3 DEF IsCurrent
  <2>2. ASSUME NEW x \in abandoning, AbandonStores PROVE IsCurrent(x)
    <3>1. x.run \in Runs /\ x.version \in Nat /\ Stored(x.run)
      BY <2>a DEF TypeOK, Reads, Versions, ReadIsStored
    <3>2. ~(x.version < rec[x.run].version)
      BY <2>2 DEF Overtaken
    <3>3. /\ x.version <= rec[x.run].version
          /\ x.version = rec[x.run].version => x.status = rec[x.run].status
      BY DEF AheadInv, AbandonedHadNotEnded
    <3> QED BY <2>a, <3>1, <3>2, <3>3 DEF IsCurrent
  <2> QED BY <2>1, <2>2 DEF WritesAreAtomic
<1> QED
  BY <1>1, <1>2, <1>3, InitAhead, Invariant, ReadInvariant, PTL DEF Spec
=============================================================================
