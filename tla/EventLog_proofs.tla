-------------------------- MODULE EventLog_proofs --------------------------
(***************************************************************************)
(* Proofs about EventLog, for any set of topics, Runs and receivers: it    *)
(* implements TopicQueues, and no wakeup is lost.                          *)
(***************************************************************************)
EXTENDS EventLog, TLAPS

\* Identifiers are not used twice.
UniqueIds == \A e, f \in rows : e.id = f.id => e = f

\* What a receiver holds is not behind anything it is still owed.
HoldsFirst ==
    \A r \in Receivers :
        holding[r] # 0 => r \in open /\ \A e \in Matches(r) : holding[r] <= e.id

LogInv == TypeOK /\ UniqueIds /\ NoLostWakeup /\ HoldsFirst

\* Recv's cursor update skips no row of the receiver's topic.
LEMMA SkipKeepsMatches ==
    ASSUME TypeOK, NEW r \in Receivers, SkipTo(r), rows' = rows
    PROVE  /\ cursor' \in [Receivers -> Nat]
           /\ \A q \in Receivers : cursor'[q] <= lastId /\ Matches(q)' = Matches(q)
<1>1. PICK n \in 0..lastId :
        /\ IF Skipped(r) = {} THEN n = cursor[r]
           ELSE /\ \E e \in Skipped(r) : n = e.id
                /\ \A e \in Skipped(r) : e.id <= n
        /\ cursor' = [cursor EXCEPT ![r] = n]
  BY DEF SkipTo
<1>2. /\ cursor' \in [Receivers -> Nat]
      /\ \A q \in Receivers : cursor'[q] <= lastId
  BY <1>1 DEF TypeOK
<1>3. ASSUME NEW q \in Receivers, q # r PROVE Matches(q)' = Matches(q)
  BY <1>1, <1>3 DEF Matches, Candidates, TypeOK
<1>4. Matches(r)' = Matches(r)
  <2>1. cursor'[r] = n /\ cursor[r] <= n
    BY <1>1 DEF TypeOK, Skipped, Candidates, Rows
  <2>2. \A e \in Matches(r) : e.id > n
    BY <1>1 DEF TypeOK, Skipped, Matches, Candidates, Rows
  <2>3. \A e \in rows : e.id > n => e.id > cursor[r]
    BY <2>1 DEF TypeOK, Rows
  <2> QED BY <2>1, <2>2, <2>3 DEF Matches, Candidates, TypeOK
<1> QED BY <1>2, <1>3, <1>4

\* An Ack takes the receiver's cursor to the row it held, and no further.
LEMMA AckMatches ==
    ASSUME TypeOK, NEW r \in Receivers, AdvanceCursor(r), rows' = rows
    PROVE  /\ cursor' \in [Receivers -> Nat]
           /\ \A q \in Receivers : cursor'[q] <= lastId
           /\ \A q \in Receivers \ {r} : Matches(q)' = Matches(q)
           /\ Matches(r)' = {e \in Matches(r) : e.id > holding[r]}
<1>1. cursor' = [cursor EXCEPT ![r] = IF cursor[r] < holding[r] THEN holding[r] ELSE cursor[r]]
  BY DEF AdvanceCursor
<1>2. cursor' \in [Receivers -> Nat] /\ \A q \in Receivers : cursor'[q] <= lastId
  BY <1>1 DEF TypeOK
<1>3. \A q \in Receivers \ {r} : Matches(q)' = Matches(q)
  BY <1>1 DEF TypeOK, Matches, Candidates
<1>4. Matches(r)' = {e \in Matches(r) : e.id > holding[r]}
  BY <1>1 DEF TypeOK, Matches, Candidates, Rows
<1> QED BY <1>2, <1>3, <1>4

-----------------------------------------------------------------------------
(* The invariant. *)

\* The streamer of an empty store satisfies the invariant.
LEMMA InitLog == Init => LogInv
BY LogAssumption DEF Init, LogInv, HoldsFirst, TypeOK, UniqueIds, NoLostWakeup, Matches, Candidates

\* Opening a receiver keeps it.
LEMMA NewReceiverLog == ASSUME LogInv, NEW r \in Receivers, NewReceiver(r) PROVE LogInv'
<1> USE DEF LogInv
<1>0. /\ r \notin parked /\ holding[r] = 0
      /\ UNCHANGED <<rows, lastId, holding, parked>> /\ open' = open \cup {r}
  BY DEF NewReceiver, TypeOK, HoldsFirst
<1>1. CASE r \in named /\ UNCHANGED <<named, cursor>>
  BY <1>0, <1>1 DEF TypeOK, UniqueIds, NoLostWakeup, HoldsFirst, Matches, Candidates
<1>2. CASE r \notin named /\ named' = named \cup {r}
  <2>1. PICK start \in 0..lastId : cursor' = [cursor EXCEPT ![r] = start]
    BY <1>2 DEF NewReceiver, EnsureCursor
  <2>2. TypeOK'
    BY <1>0, <1>2, <2>1 DEF TypeOK
  <2>3. \A q \in Receivers \ {r} : Matches(q)' = Matches(q)
    BY <1>0, <2>1 DEF Matches, Candidates, TypeOK
  <2>4. UniqueIds' /\ NoLostWakeup' /\ HoldsFirst'
    BY <1>0, <2>3 DEF UniqueIds, NoLostWakeup, HoldsFirst, TypeOK
  <2> QED BY <2>2, <2>4
<1> QED BY <1>1, <1>2 DEF NewReceiver, EnsureCursor

\* A row that is sent gets an identifier of its own, and wakes everybody.
LEMMA SendLog ==
    ASSUME LogInv, NEW t \in Topics, NEW run \in Runs, Send(t, run)
    PROVE  LogInv'
<1> USE DEF LogInv
<1> DEFINE new == [id |-> lastId + 1, topic |-> t, run |-> run]
<1>1. /\ rows' = rows \cup {new} /\ lastId' = lastId + 1 /\ parked' = {}
      /\ UNCHANGED <<named, cursor, open, holding>>
  BY DEF Send
<1>2. new \in Rows /\ new.id = lastId + 1
  BY DEF TypeOK, Rows
<1> HIDE DEF new
<1>3. TypeOK'
  BY <1>1, <1>2 DEF TypeOK, Rows
<1>4. UniqueIds'
  BY <1>1, <1>2 DEF TypeOK, UniqueIds, Rows
<1>5. NoLostWakeup'
  BY <1>1 DEF NoLostWakeup
<1>6. HoldsFirst'
  BY <1>1, <1>2 DEF HoldsFirst, TypeOK, Matches, Candidates, Rows
<1> QED BY <1>3, <1>4, <1>5, <1>6

\* Recv hands out the first row, and parks only a receiver that has none.
LEMMA RecvLog == ASSUME LogInv, NEW r \in Receivers, Recv(r) PROVE LogInv'
<1> USE DEF LogInv
<1>1. /\ r \in open \ parked /\ holding[r] = 0
      /\ SkipTo(r) /\ UNCHANGED <<rows, lastId, named, open>>
  BY DEF Recv
<1>2. /\ cursor' \in [Receivers -> Nat]
      /\ \A q \in Receivers : cursor'[q] <= lastId /\ Matches(q)' = Matches(q)
  BY <1>1, SkipKeepsMatches
<1>3. UniqueIds'
  BY <1>1 DEF UniqueIds
<1>4. CASE Matches(r) = {} /\ parked' = parked \cup {r} /\ UNCHANGED holding
  <2>1. TypeOK'
    BY <1>1, <1>2, <1>4 DEF TypeOK
  <2>2. NoLostWakeup' /\ HoldsFirst'
    BY <1>1, <1>2, <1>4 DEF NoLostWakeup, HoldsFirst, TypeOK
  <2> QED BY <1>3, <2>1, <2>2
<1>5. ASSUME NEW e \in rows, IsNext(e, r), holding' = [holding EXCEPT ![r] = e.id], UNCHANGED parked
      PROVE  LogInv'
  <2>1. e.id \in Nat \ {0} /\ e.id <= lastId
    BY DEF TypeOK, Rows
  <2>2. TypeOK'
    BY <1>1, <1>2, <1>5, <2>1 DEF TypeOK
  <2>3. NoLostWakeup'
    BY <1>1, <1>2, <1>5 DEF NoLostWakeup, TypeOK
  <2>4. HoldsFirst'
    BY <1>1, <1>2, <1>5 DEF HoldsFirst, IsNext, TypeOK
  <2> QED BY <1>3, <2>2, <2>3, <2>4
<1> QED BY <1>4, <1>5 DEF Recv

\* An Ack frees its receiver, and wakes everybody.
LEMMA AckLog == ASSUME LogInv, NEW r \in Receivers, Ack(r) PROVE LogInv'
<1> USE DEF LogInv
<1>1. /\ AdvanceCursor(r) /\ holding' = [holding EXCEPT ![r] = 0] /\ parked' = {}
      /\ UNCHANGED <<rows, lastId, named, open>>
  BY DEF Ack
<1>2. /\ cursor' \in [Receivers -> Nat]
      /\ \A q \in Receivers : cursor'[q] <= lastId
      /\ \A q \in Receivers \ {r} : Matches(q)' = Matches(q)
  BY <1>1, AckMatches
<1>3. TypeOK'
  <2>1. holding' \in [Receivers -> Nat] /\ \A q \in Receivers : holding'[q] <= lastId
    BY <1>1 DEF TypeOK
  <2> QED BY <1>1, <1>2, <2>1 DEF TypeOK
<1>4. UniqueIds' /\ NoLostWakeup'
  BY <1>1 DEF UniqueIds, NoLostWakeup
<1>5. HoldsFirst'
  BY <1>1, <1>2 DEF HoldsFirst, TypeOK
<1> QED BY <1>3, <1>4, <1>5

\* Deleting rows, giving an event back and a restart owe nobody anything new.
LEMMA OthersLog ==
    ASSUME LogInv,
           \/ \E r \in Receivers : StepFails(r)
           \/ \E run \in Runs : DeleteRun(run)
           \/ Restart
    PROVE  LogInv'
<1> USE DEF LogInv
<1>1. ASSUME NEW r \in Receivers, StepFails(r) PROVE LogInv'
  BY <1>1 DEF StepFails, tables, TypeOK, UniqueIds, NoLostWakeup, HoldsFirst, Matches, Candidates
<1>2. ASSUME NEW run \in Runs, DeleteRun(run) PROVE LogInv'
  <2>1. rows' \subseteq rows /\ UNCHANGED <<lastId, named, cursor, open, holding, parked>>
    BY <1>2 DEF DeleteRun
  <2>2. \A r \in Receivers : Matches(r)' \subseteq Matches(r)
    BY <2>1 DEF Matches, Candidates
  <2>3. TypeOK' /\ UniqueIds'
    BY <2>1 DEF TypeOK, UniqueIds
  <2>4. NoLostWakeup' /\ HoldsFirst'
    BY <2>1, <2>2 DEF NoLostWakeup, HoldsFirst, TypeOK
  <2> QED BY <2>3, <2>4
<1>3. CASE Restart
  BY <1>3 DEF Restart, tables, TypeOK, UniqueIds, NoLostWakeup, HoldsFirst
<1> QED BY <1>1, <1>2, <1>3

\* The invariant holds in every state.
LEMMA LogInvariant == Spec => []LogInv
<1>1. LogInv /\ [Next]_vars => LogInv'
  <2> SUFFICES ASSUME LogInv, [Next]_vars PROVE LogInv'
    OBVIOUS
  <2>1. CASE UNCHANGED vars
    BY <2>1 DEF vars, tables, LogInv, TypeOK, UniqueIds, NoLostWakeup, HoldsFirst, Matches, Candidates
  <2> QED BY <2>1, NewReceiverLog, SendLog, RecvLog, AckLog, OthersLog DEF Next
<1> QED BY <1>1, InitLog, PTL DEF Spec

\* The tables keep their types, and no cursor gets ahead of the log.
THEOREM LogTypeCorrect == Spec => []TypeOK
BY LogInvariant, PTL DEF LogInv

\* No consumer sleeps on an event that is there for it, however many consumers
\* share the condition variable, and whatever the retention sweeper deletes.
THEOREM WakeupsAreKept == Spec => []NoLostWakeup
BY LogInvariant, PTL DEF LogInv

-----------------------------------------------------------------------------
(* The refinement. *)

\* Owed, receiver by receiver.
LEMMA OwedOf ==
    ASSUME NEW r \in Receivers
    PROVE  Owed[r] = IF r \in named THEN {e.id : e \in Matches(r)} ELSE {}
BY DEF Owed

\* A step that changes what nobody is owed.
LEMMA OwedSame ==
    ASSUME named' = named, \A r \in Receivers : Matches(r)' = Matches(r)
    PROVE  Owed' = Owed
BY DEF Owed

\* Opening a receiver is a Join, or nothing.
LEMMA NewReceiverStep ==
    ASSUME LogInv, NEW r \in Receivers, NewReceiver(r)
    PROVE  Queues!Join(r) \/ UNCHANGED Queues!qvars
<1> USE DEF LogInv
<1>0. UNCHANGED <<rows, lastId, holding>>
  BY DEF NewReceiver
<1>1. CASE r \in named /\ UNCHANGED <<named, cursor>>
  BY <1>0, <1>1, OwedSame DEF Queues!qvars, Matches, Candidates
<1>2. CASE r \notin named /\ named' = named \cup {r}
  <2>1. PICK start \in 0..lastId :
          /\ IF r \in FromLatest THEN IsMaxId(start) ELSE start = 0
          /\ cursor' = [cursor EXCEPT ![r] = start]
    BY <1>2 DEF NewReceiver, EnsureCursor
  <2>2. Matches(r)' = {e \in rows : e.id > start /\ e.topic = TopicOf[r]}
    BY <1>0, <2>1 DEF Matches, Candidates, TypeOK
  <2>3. Owed'[r] = IF r \in FromLatest THEN {} ELSE Queues!OnTopic(rows, TopicOf[r])
    <3>1. Owed'[r] = {e.id : e \in Matches(r)'}
      BY <1>2 DEF Owed
    <3>2. CASE r \in FromLatest
      <4>1. \A e \in rows : ~(e.id > start)
        BY <2>1, <3>2 DEF IsMaxId, TypeOK, Rows
      <4> QED BY <2>2, <3>1, <3>2, <4>1
    <3>3. CASE r \notin FromLatest
      <4>1. \A e \in rows : e.id > start
        BY <2>1, <3>3 DEF TypeOK, Rows
      <4>2. Matches(r)' = {e \in rows : e.topic = TopicOf[r]}
        BY <2>2, <4>1
      <4> QED BY <3>1, <3>3, <4>2 DEF Queues!OnTopic
    <3> QED BY <3>2, <3>3
  <2>4. \A q \in Receivers \ {r} : Owed'[q] = Owed[q]
    <3>1. \A q \in Receivers \ {r} : Matches(q)' = Matches(q)
      BY <1>0, <2>1 DEF Matches, Candidates, TypeOK
    <3> QED BY <1>2, <3>1 DEF Owed
  <2>5. Owed' = [Owed EXCEPT ![r] = IF r \in FromLatest THEN {}
                                    ELSE Queues!OnTopic(rows, TopicOf[r])]
    BY <2>3, <2>4 DEF Owed
  <2> QED BY <1>0, <1>2, <2>5 DEF Queues!Join
<1> QED BY <1>1, <1>2 DEF NewReceiver, EnsureCursor

\* A Send is a Publish: the new row is past every cursor.
LEMMA SendStep ==
    ASSUME LogInv, NEW t \in Topics, NEW run \in Runs, Send(t, run)
    PROVE  Queues!Publish(t, run)
<1> USE DEF LogInv
<1> DEFINE new == [id |-> lastId + 1, topic |-> t, run |-> run]
<1>1. /\ rows' = rows \cup {new} /\ lastId' = lastId + 1
      /\ UNCHANGED <<named, cursor, holding>>
  BY DEF Send
<1>2. new.id = lastId + 1 /\ new.topic = t
  OBVIOUS
<1>3. ASSUME NEW r \in Receivers
      PROVE  Owed'[r] = IF r \in named /\ TopicOf[r] = t THEN Owed[r] \cup {lastId + 1} ELSE Owed[r]
  <2>0. new.id > cursor[r]
    BY <1>2 DEF TypeOK
  <2> HIDE DEF new
  <2>1. Matches(r)' = IF TopicOf[r] = t THEN Matches(r) \cup {new} ELSE Matches(r)
    BY <1>1, <1>2, <2>0 DEF Matches, Candidates
  <2>2. Owed'[r] = IF r \in named THEN {e.id : e \in Matches(r)'} ELSE {}
    BY <1>1 DEF Owed
  <2> QED BY <1>2, <2>1, <2>2, OwedOf
<1>4. Owed' = [r \in Receivers |->
                 IF r \in named /\ TopicOf[r] = t THEN Owed[r] \cup {lastId + 1} ELSE Owed[r]]
  BY <1>3 DEF Owed
<1> QED BY <1>1, <1>4 DEF Queues!Publish

\* Recv delivers what is owed first, or changes nothing a receiver could tell.
LEMMA RecvStep ==
    ASSUME LogInv, NEW r \in Receivers, Recv(r)
    PROVE  Queues!Deliver(r) \/ UNCHANGED Queues!qvars
<1> USE DEF LogInv
<1>1. /\ r \in open \ parked /\ holding[r] = 0
      /\ SkipTo(r) /\ UNCHANGED <<rows, lastId, named, open>>
  BY DEF Recv
<1>2. Owed' = Owed
  BY <1>1, SkipKeepsMatches, OwedSame
<1>3. CASE UNCHANGED holding
  BY <1>1, <1>2, <1>3 DEF Queues!qvars
<1>4. ASSUME NEW e \in rows, IsNext(e, r), holding' = [holding EXCEPT ![r] = e.id]
      PROVE  Queues!Deliver(r)
  <2>1. Owed[r] = {f.id : f \in Matches(r)}
    BY <1>1, OwedOf DEF TypeOK
  <2>2. e.id \in Owed[r] /\ \A j \in Owed[r] : e.id <= j
    BY <1>4, <2>1 DEF IsNext
  <2> QED BY <1>1, <1>2, <1>4, <2>2 DEF Queues!Deliver
<1> QED BY <1>3, <1>4 DEF Recv

\* An Ack acknowledges exactly what was held.
LEMMA AckStep == ASSUME LogInv, NEW r \in Receivers, Ack(r) PROVE Queues!Acknowledge(r)
<1> USE DEF LogInv
<1>1. /\ holding[r] # 0 /\ AdvanceCursor(r) /\ holding' = [holding EXCEPT ![r] = 0]
      /\ UNCHANGED <<rows, lastId, named, open>>
  BY DEF Ack
<1>2. /\ \A q \in Receivers \ {r} : Matches(q)' = Matches(q)
      /\ Matches(r)' = {e \in Matches(r) : e.id > holding[r]}
  BY <1>1, AckMatches
<1>3. r \in named /\ \A e \in Matches(r) : e.id \in Nat /\ holding[r] <= e.id
  BY <1>1 DEF HoldsFirst, TypeOK, Matches, Candidates, Rows
<1>4. Owed'[r] = Owed[r] \ {holding[r]}
  <2>1. \A e \in Matches(r) : e.id > holding[r] <=> e.id # holding[r]
    BY <1>3 DEF TypeOK
  <2>2. Matches(r)' = {e \in Matches(r) : e.id # holding[r]}
    BY <1>2, <2>1
  <2>3. Owed'[r] = {e.id : e \in Matches(r)'}
    BY <1>1, <1>3 DEF Owed
  <2> QED BY <1>3, <2>2, <2>3, OwedOf
<1>5. \A q \in Receivers \ {r} : Owed'[q] = Owed[q]
  BY <1>1, <1>2 DEF Owed
<1>6. Owed' = [Owed EXCEPT ![r] = @ \ {holding[r]}]
  BY <1>4, <1>5 DEF Owed
<1> QED BY <1>1, <1>6 DEF Queues!Acknowledge

\* Deleting a Run's rows forgets them, and no others: identifiers are unique.
LEMMA DeleteStep ==
    ASSUME LogInv, NEW run \in Runs, DeleteRun(run)
    PROVE  Queues!Forget(run)
<1> USE DEF LogInv
<1>1. /\ rows' = {e \in rows : e.run # run}
      /\ UNCHANGED <<lastId, named, cursor, holding>>
  BY DEF DeleteRun
<1>2. ASSUME NEW r \in Receivers
      PROVE  Owed'[r] = Owed[r] \ {e.id : e \in rows \ rows'}
  <2>1. Matches(r)' = {e \in Matches(r) : e \in rows'}
    BY <1>1 DEF Matches, Candidates
  <2>2. \A e \in Matches(r) : e \in rows' <=> e.id \notin {f.id : f \in rows \ rows'}
    BY <1>1 DEF UniqueIds, Matches, Candidates
  <2>3. Owed'[r] = IF r \in named THEN {e.id : e \in Matches(r)'} ELSE {}
    BY <1>1 DEF Owed
  <2> QED BY <2>1, <2>2, <2>3, OwedOf
<1>3. Owed' = [r \in Receivers |-> Owed[r] \ {e.id : e \in rows \ rows'}]
  BY <1>2 DEF Owed
<1> QED BY <1>1, <1>3 DEF Queues!Forget

\* Every step of the log is a step of the queues, or none.
LEMMA LogStep == LogInv /\ [Next]_vars => [Queues!QueuesNext]_(Queues!qvars)
<1> SUFFICES ASSUME LogInv, [Next]_vars
             PROVE  Queues!QueuesNext \/ UNCHANGED Queues!qvars
  OBVIOUS
<1>1. ASSUME UNCHANGED tables PROVE Owed' = Owed
  BY <1>1, OwedSame DEF tables, Matches, Candidates
<1>2. CASE UNCHANGED vars
  BY <1>1, <1>2 DEF vars, tables, Queues!qvars
<1>3. ASSUME NEW r \in Receivers, StepFails(r) PROVE Queues!Drop(r)
  BY <1>1, <1>3 DEF StepFails, tables, Queues!Drop
<1>4. CASE Restart
  BY <1>1, <1>4 DEF Restart, tables, Queues!QueuesRestart, Queues!QueuesNext
<1> QED
  BY <1>2, <1>3, <1>4, NewReceiverStep, SendStep, RecvStep, AckStep, DeleteStep
  DEF Next, Queues!QueuesNext

\* The log with its cursors, deletions and restarts implements a queue of unacknowledged
\* events per receiver, for any topics, receivers and Runs (internal/eventstream).
THEOREM LogImplementsQueues == Spec => ImplementsQueues
<1>1. Init => Queues!QueuesInit
  BY DEF Init, Queues!QueuesInit, Owed
<1> QED BY <1>1, LogStep, LogInvariant, PTL DEF Spec, ImplementsQueues, Queues!QueuesSpec

-----------------------------------------------------------------------------
(* What the queues promise, carried over to the log. *)

\* Identifiers are in order and not used twice, and nobody is owed or handed anything
\* before he joins.
QueuesInv ==
    /\ lastId \in Nat
    /\ \A e \in rows : e.id \in 1..lastId
    /\ \A e, f \in rows : e.id = f.id => e = f
    /\ Owed \in [Receivers -> SUBSET (1..lastId)] /\ holding \in [Receivers -> 0..lastId]
    /\ named \subseteq Receivers
    /\ \A r \in Receivers \ named : Owed[r] = {} /\ holding[r] = 0
    /\ Queues!HandedInOrder

\* What a step may do to the events a receiver is owed.
NothingComesBack == \A r \in named : \A i \in Owed'[r] \ Owed[r] : i > lastId
NothingIsLost ==
    \A r \in Receivers : \A i \in Owed[r] \ Owed'[r] :
        holding[r] = i \/ \A e \in rows' : e.id # i

\* A step of the queues keeps the order, brings nothing back and loses nothing.
LEMMA QueuesStep ==
    ASSUME QueuesInv, [Queues!QueuesNext]_(Queues!qvars)
    PROVE  QueuesInv' /\ NothingComesBack /\ NothingIsLost
<1> USE DEF QueuesInv, Queues!HandedInOrder, NothingComesBack, NothingIsLost
<1>1. ASSUME NEW r \in Receivers, Queues!Join(r)
      PROVE  QueuesInv' /\ NothingComesBack /\ NothingIsLost
  <2>1. /\ r \notin named /\ named' = named \cup {r} /\ UNCHANGED <<rows, lastId, holding>>
        /\ Owed' = [Owed EXCEPT ![r] = IF r \in FromLatest THEN {}
                                       ELSE Queues!OnTopic(rows, TopicOf[r])]
    BY <1>1 DEF Queues!Join
  <2>2. Queues!OnTopic(rows, TopicOf[r]) \subseteq 1..lastId
    BY DEF Queues!OnTopic
  <2> QED BY <2>1, <2>2
<1>2. ASSUME NEW r \in Receivers, Queues!Deliver(r)
      PROVE  QueuesInv' /\ NothingComesBack /\ NothingIsLost
  BY <1>2 DEF Queues!Deliver
<1>3. ASSUME NEW r \in Receivers, Queues!Acknowledge(r)
      PROVE  QueuesInv' /\ NothingComesBack /\ NothingIsLost
  BY <1>3 DEF Queues!Acknowledge
<1>4. ASSUME NEW r \in Receivers, Queues!Drop(r)
      PROVE  QueuesInv' /\ NothingComesBack /\ NothingIsLost
  BY <1>4 DEF Queues!Drop
<1>5. ASSUME NEW t \in Topics, NEW run \in Runs, Queues!Publish(t, run)
      PROVE  QueuesInv' /\ NothingComesBack /\ NothingIsLost
  BY <1>5 DEF Queues!Publish
<1>6. ASSUME NEW run \in Runs, Queues!Forget(run)
      PROVE  QueuesInv' /\ NothingComesBack /\ NothingIsLost
  <2>1. /\ rows' = {e \in rows : e.run # run} /\ UNCHANGED <<lastId, named, holding>>
        /\ Owed' = [r \in Receivers |-> Owed[r] \ {e.id : e \in rows \ rows'}]
    BY <1>6 DEF Queues!Forget
  <2>2. \A e \in rows \ rows' : \A f \in rows' : f.id # e.id
    BY <2>1
  <2> QED BY <2>1, <2>2
<1>7. CASE Queues!QueuesRestart
  BY <1>7 DEF Queues!QueuesRestart
<1>8. CASE UNCHANGED Queues!qvars
  BY <1>8 DEF Queues!qvars
<1> QED
  BY <1>1, <1>2, <1>3, <1>4, <1>5, <1>6, <1>7, <1>8 DEF Queues!QueuesNext

\* The log keeps what the queues promise: whatever rows are skipped or deleted and however
\* often the daemon restarts, a receiver gets its events in order, an event it has
\* acknowledged never comes back, and it loses none but those of deleted Runs.
THEOREM LogKeepsPromises ==
    Spec => []Queues!HandedInOrder /\ Queues!AcknowledgedForGood /\ Queues!OnlyHandledIsSettled
<1>1. Queues!QueuesInit => QueuesInv
  BY DEF Queues!QueuesInit, QueuesInv, Queues!HandedInOrder
<1>2. QueuesInv /\ [Queues!QueuesNext]_(Queues!qvars)
        => QueuesInv' /\ [NothingComesBack]_(Queues!qvars) /\ [NothingIsLost]_(Queues!qvars)
  BY QueuesStep
<1>3. QueuesInv => Queues!HandedInOrder
  BY DEF QueuesInv
<1>4. Queues!QueuesSpec =>
        []Queues!HandedInOrder /\ [][NothingComesBack]_(Queues!qvars) /\ [][NothingIsLost]_(Queues!qvars)
  BY <1>1, <1>2, <1>3, PTL DEF Queues!QueuesSpec
<1> QED
  BY <1>4, LogImplementsQueues, PTL
  DEF ImplementsQueues, Queues!AcknowledgedForGood, Queues!OnlyHandledIsSettled,
      NothingComesBack, NothingIsLost
=============================================================================
