------------------------ MODULE Conversation_proofs -------------------------
(* The safety properties of Conversation, for any number of streams, notes, *)
(* comments and faults, any page size and any size of the ring.             *)
EXTENDS Conversation, TLAPS

(***************************************************************************)
(* What the callback under way does to its copy of the record.             *)
(***************************************************************************)

\* Nothing in a callback moves the cursors it has read and advanced.
SameCursors(x, y) == x.legacy = y.legacy /\ x.cursor = y.cursor

\* Whether the slot of x is full agrees with what the runner is owed.
PromptAgrees(x, o) == x.prompt <=> o = "yes"

\* The copy becomes y, and no comment is made; or y with the comment's hash on
\* its ring.
Keeps(c, y) == copy' = [copy EXCEPT ![c] = y] /\ UNCHANGED <<notes, replies>>
Tells(c, y) ==
    /\ copy' = [copy EXCEPT ![c] = [y EXCEPT !.hashes = Remember(@)]]
    /\ replies' = replies + 1
    /\ \/ \E s \in Streams :
            notes' = [notes EXCEPT ![s] = Append(@, [verb |-> "none", hash |-> replies + 1])]
       \/ UNCHANGED notes

\* Any part of a callback, commands and turns alike.
Works(c) ==
    /\ phase[c] = "handling"
    /\ \E ph \in {"handling", "storing"} : phase' = [phase EXCEPT ![c] = ph]
    /\ \E y \in Records :
         /\ SameCursors(y, copy[c]) /\ y.hashes = copy[c].hashes
         /\ Keeps(c, y) \/ Tells(c, y)
         /\ PromptAgrees(copy[c], owed) => PromptAgrees(y, owed')
    /\ owed' \in {"no", "yes", "dropped"}
    /\ UNCHANGED <<rec, pollVars, task, from, meddling, taken, skipped, torn>>

\* The changes a handler makes to a record.
LEMMA StatusChange ==
    ASSUME NEW x \in Records, NEW st \in {"AwaitingMerge", "Paused"},
           NEW y, y = [x EXCEPT !.status = st]
    PROVE  y \in Records /\ SameCursors(y, x) /\ y.hashes = x.hashes /\ y.prompt = x.prompt
BY DEF Records, SameCursors

LEMMA PromptChange ==
    ASSUME NEW x \in Records, NEW b \in BOOLEAN, NEW y, y = [x EXCEPT !.prompt = b]
    PROVE  y \in Records /\ SameCursors(y, x) /\ y.hashes = x.hashes /\ y.prompt = b
BY DEF Records, SameCursors

LEMMA BothChange ==
    ASSUME NEW x \in Records, NEW st \in {"AwaitingMerge", "Paused"}, NEW b \in BOOLEAN,
           NEW y, y = [x EXCEPT !.status = st, !.prompt = b]
    PROVE  y \in Records /\ SameCursors(y, x) /\ y.hashes = x.hashes /\ y.prompt = b
BY DEF Records, SameCursors

LEMMA HashesChange ==
    ASSUME NEW x \in Records, NEW h \in Seq(Nat), NEW y, y = [x EXCEPT !.hashes = h]
    PROVE  y \in Records /\ SameCursors(y, x) /\ y.hashes = h /\ y.prompt = x.prompt
BY DEF Records, SameCursors

LEMMA LandsInStreams ==
    ASSUME TypeOK, NEW c \in Callers
    PROVE  Lands(task[c]) \subseteq Streams
BY ConversationAssumption DEF TypeOK, Tasks, Lands

\* Saying something, or not, is one of the two.
LEMMA SayingWorks ==
    ASSUME TypeOK, NEW c \in Callers, NEW y
    PROVE  /\ Say(c, y) => Tells(c, y)
           /\ Silent(c, y) => Keeps(c, y)
           /\ SayIfPossible(c, y) => Keeps(c, y) \/ Tells(c, y)
BY LandsInStreams DEF Say, Silent, SayIfPossible, Keeps, Tells

\* A record handed to the runner: its prompt, the author's text if there is one.
LEMMA InvokedRecord ==
    ASSUME TypeOK, NEW c \in Callers
    PROVE  /\ Invoked(c) \in Records /\ SameCursors(Invoked(c), copy[c])
           /\ Invoked(c).hashes = copy[c].hashes
           /\ task[c].body.verb = "freeform" => Invoked(c).prompt = TRUE
           /\ task[c].body.verb # "freeform" => Invoked(c) = copy[c]
BY PromptChange DEF TypeOK, Invoked, SameCursors

LEMMA HandlersWork ==
    ASSUME TypeOK, NEW c \in Callers, Handle(c) \/ SaysMore(c)
    PROVE  Works(c)
<1>0. copy[c] \in Records /\ owed \in {"no", "yes", "dropped"}
  BY DEF TypeOK
<1>1. CASE Command(c)
  <2> DEFINE v == task[c].body.verb
             x == copy[c]
             y == CASE v = "pause"  -> [x EXCEPT !.status = "Paused"]
                    [] v = "resume" -> [x EXCEPT !.status = "AwaitingMerge"]
                    [] v = "prompt" -> [x EXCEPT !.prompt = TRUE]
                    [] v = "status" -> x
  <2>1. /\ v \in {"pause", "resume", "prompt", "status"} /\ SayIfPossible(c, y)
        /\ owed' = IF v = "prompt" THEN "yes" ELSE owed
        /\ ToStore(c)
    BY <1>1, Zenon DEF Command
  <2>2. y \in Records /\ SameCursors(y, x) /\ y.hashes = x.hashes
    <3>1. CASE v \in {"pause", "resume"}
      BY <1>0, <3>1, StatusChange
    <3>2. CASE v = "prompt"
      <4>1. y = [x EXCEPT !.prompt = TRUE]
        BY <3>2
      <4>2. x \in Records
        BY <1>0
      <4> HIDE DEF v, x, y
      <4> QED
        BY <4>1, <4>2, PromptChange
    <3>3. CASE v = "status"
      BY <1>0, <3>3 DEF SameCursors
    <3> QED
      BY <2>1, <3>1, <3>2, <3>3
  <2>3. PromptAgrees(x, owed) => PromptAgrees(y, owed')
    <3>1. CASE v = "prompt"
      <4>1. y.prompt = TRUE /\ owed' = "yes"
        BY <1>0, <2>1, <3>1, PromptChange
      <4> QED
        BY <4>1 DEF PromptAgrees
    <3>2. CASE v # "prompt"
      <4>1. y.prompt = x.prompt /\ owed' = owed
        BY <1>0, <2>1, <3>2, StatusChange
      <4> QED
        BY <4>1 DEF PromptAgrees
    <3> QED
      BY <3>1, <3>2
  <2>4. Keeps(c, y) \/ Tells(c, y)
    BY <2>1, SayingWorks
  <2> HIDE DEF y
  <2> QED
    BY <1>0, <2>1, <2>2, <2>3, <2>4 DEF Works, ToStore
<1>2. CASE FilterSettles(c)
  <2>1. PICK st \in {"AwaitingMerge", "Paused"} : Silent(c, [copy[c] EXCEPT !.status = st])
    BY <1>2 DEF FilterSettles
  <2> DEFINE y == [copy[c] EXCEPT !.status = st]
  <2>2. y \in Records /\ SameCursors(y, copy[c]) /\ y.hashes = copy[c].hashes
        /\ y.prompt = copy[c].prompt
    BY <1>0, StatusChange
  <2>3. Keeps(c, y) /\ owed' = owed /\ ToStore(c)
    BY <1>2, <2>1, SayingWorks DEF FilterSettles
  <2> HIDE DEF y
  <2> QED
    BY <1>0, <2>2, <2>3 DEF Works, ToStore, PromptAgrees
<1>3. CASE SyncFails(c)
  <2> DEFINE y == [Invoked(c) EXCEPT !.status = "Paused"]
  <2>1. y \in Records /\ SameCursors(y, copy[c]) /\ y.hashes = copy[c].hashes
        /\ y.prompt = Invoked(c).prompt
    <3>1. Invoked(c) \in Records
      BY InvokedRecord
    <3>2. /\ y \in Records /\ SameCursors(y, Invoked(c)) /\ y.hashes = Invoked(c).hashes
          /\ y.prompt = Invoked(c).prompt
      BY <3>1, StatusChange
    <3> HIDE DEF y
    <3> QED
      BY <3>2, InvokedRecord DEF SameCursors
  <2>2. /\ owed' = IF task[c].body.verb = "freeform" THEN "yes" ELSE owed
        /\ SayIfPossible(c, y) /\ ToStore(c)
    BY <1>3 DEF SyncFails
  <2>3. PromptAgrees(copy[c], owed) => PromptAgrees(y, owed')
    BY <2>1, <2>2, InvokedRecord DEF PromptAgrees
  <2>4. Keeps(c, y) \/ Tells(c, y)
    BY <2>2, SayingWorks
  <2> HIDE DEF y
  <2> QED
    BY <1>0, <2>1, <2>2, <2>3, <2>4 DEF Works, ToStore
<1>4. CASE IsolationFails(c)
  <2> DEFINE y == [Invoked(c) EXCEPT !.status = "Paused", !.prompt = FALSE]
  <2>1. y \in Records /\ SameCursors(y, copy[c]) /\ y.hashes = copy[c].hashes /\ y.prompt = FALSE
    <3>1. Invoked(c) \in Records
      BY InvokedRecord
    <3>2. /\ y \in Records /\ SameCursors(y, Invoked(c)) /\ y.hashes = Invoked(c).hashes
          /\ y.prompt = FALSE
      BY <3>1, BothChange
    <3> HIDE DEF y
    <3> QED
      BY <3>2, InvokedRecord DEF SameCursors
  <2>2. /\ owed' = IF Invoked(c).prompt THEN "dropped" ELSE owed
        /\ SayIfPossible(c, y) /\ ToStore(c)
    BY <1>4 DEF IsolationFails
  <2>3. PromptAgrees(copy[c], owed) => PromptAgrees(y, owed')
    BY <2>1, <2>2, InvokedRecord DEF PromptAgrees
  <2>4. Keeps(c, y) \/ Tells(c, y)
    BY <2>2, SayingWorks
  <2> HIDE DEF y
  <2> QED
    BY <1>0, <2>1, <2>2, <2>3, <2>4 DEF Works, ToStore
<1>5. CASE Invoke(c)
  <2>1. PICK st \in {"AwaitingMerge", "Paused"} :
          LET x == [Invoked(c) EXCEPT !.status = st, !.prompt = FALSE]
          IN SayIfPossible(c, x) \/ Silent(c, x)
    BY <1>5 DEF Invoke
  <2> DEFINE y == [Invoked(c) EXCEPT !.status = st, !.prompt = FALSE]
  <2>2. y \in Records /\ SameCursors(y, copy[c]) /\ y.hashes = copy[c].hashes /\ y.prompt = FALSE
    <3>1. Invoked(c) \in Records
      BY InvokedRecord
    <3>2. /\ y \in Records /\ SameCursors(y, Invoked(c)) /\ y.hashes = Invoked(c).hashes
          /\ y.prompt = FALSE
      BY <3>1, BothChange
    <3> HIDE DEF y
    <3> QED
      BY <3>2, InvokedRecord DEF SameCursors
  <2>3. owed' = IF Invoked(c).prompt THEN "no" ELSE owed
    BY <1>5 DEF Invoke
  <2>4. PromptAgrees(copy[c], owed) => PromptAgrees(y, owed')
    BY <2>2, <2>3, InvokedRecord DEF PromptAgrees
  <2>5. (Keeps(c, y) \/ Tells(c, y)) /\ ToStore(c)
    BY <1>5, <2>1, SayingWorks DEF Invoke
  <2> HIDE DEF y
  <2> QED
    BY <1>0, <2>2, <2>3, <2>4, <2>5 DEF Works, ToStore
<1>6. CASE SaysMore(c)
  <2>1. Tells(c, copy[c]) /\ phase[c] = "handling"
    BY <1>6, SayingWorks DEF SaysMore
  <2>2. phase' = [phase EXCEPT ![c] = "handling"]
    BY <1>6, <2>1 DEF SaysMore, TypeOK
  <2>3. UNCHANGED <<rec, pollVars, task, from, meddling, taken, skipped, torn, owed>>
    BY <1>6 DEF SaysMore, history
  <2> QED
    BY <1>0, <2>1, <2>2, <2>3 DEF Works, SameCursors
<1> QED
  BY <1>1, <1>2, <1>3, <1>4, <1>5, <1>6 DEF Handle

(***************************************************************************)
(* Notes, identifiers and the ring.                                        *)
(***************************************************************************)

LEMMA WrittenPairs ==
    ASSUME NEW n
    PROVE  n \in Written <=> \E s \in Streams : \E i \in 1..Len(notes[s]) : n = <<s, i>>
<1>1. ASSUME n \in Written
      PROVE  \E s \in Streams : \E i \in 1..Len(notes[s]) : n = <<s, i>>
  <2>1. PICK s \in Streams : n \in {s} \X (1..Len(notes[s]))
    BY <1>1 DEF Written
  <2> QED
    BY <2>1
<1>2. ASSUME NEW s \in Streams, NEW i \in 1..Len(notes[s]), n = <<s, i>>
      PROVE  n \in Written
  BY <1>2 DEF Written
<1> QED
  BY <1>1, <1>2

\* The MR shows one more note, or what it showed.
Grows == notes' = notes \/ \E s \in Streams, b \in Bodies : notes' = [notes EXCEPT ![s] = Append(@, b)]

LEMMA NotesGrow ==
    ASSUME TypeOK, Grows
    PROVE  /\ notes' \in [Streams -> Seq(Bodies)]
           /\ \A s \in Streams : Len(notes[s]) <= Len(notes'[s])
           /\ \A s \in Streams : \A i \in 1..Len(notes[s]) : notes'[s][i] = notes[s][i]
           /\ Written \subseteq Written'
           /\ \A n \in Written' : n \in Written \/ n[2] = Len(notes[n[1]]) + 1
<1> USE DEF TypeOK
<1>1. CASE notes' = notes
  BY <1>1 DEF Written
<1>2. CASE notes' # notes
  <2>1. PICK r \in Streams, b \in Bodies : notes' = [notes EXCEPT ![r] = Append(@, b)]
    BY <1>2 DEF Grows
  <2>2. \A s \in Streams : notes[s] \in Seq(Bodies) /\ Len(notes[s]) \in Nat
    OBVIOUS
  <2>3. /\ \A s \in Streams : s # r => notes'[s] = notes[s]
        /\ notes'[r] = Append(notes[r], b)
    BY <2>1
  <2>4. /\ notes'[r] \in Seq(Bodies) /\ Len(notes'[r]) = Len(notes[r]) + 1
        /\ \A i \in 1..Len(notes[r]) : notes'[r][i] = notes[r][i]
    BY <2>2, <2>3
  <2>5. /\ notes' \in [Streams -> Seq(Bodies)]
        /\ \A s \in Streams : Len(notes[s]) <= Len(notes'[s])
        /\ \A s \in Streams : \A i \in 1..Len(notes[s]) : notes'[s][i] = notes[s][i]
    BY <2>1, <2>2, <2>3, <2>4
  <2>6. ASSUME NEW n \in Written
        PROVE  n \in Written'
    <3>0. PICK s \in Streams : \E i \in 1..Len(notes[s]) : n = <<s, i>>
      BY WrittenPairs
    <3>1. PICK i \in 1..Len(notes[s]) : n = <<s, i>>
      BY <3>0
    <3>2. i \in 1..Len(notes'[s])
      BY <2>2, <2>3, <2>4
    <3>3. n \in {s} \X (1..Len(notes'[s]))
      BY <3>1, <3>2
    <3> QED
      BY <3>3 DEF Written
  <2>7. ASSUME NEW n \in Written', n \notin Written
        PROVE  n[2] = Len(notes[n[1]]) + 1
    <3>1. PICK s \in Streams : n \in {s} \X (1..Len(notes'[s]))
      BY <2>7 DEF Written
    <3>2. PICK i \in 1..Len(notes'[s]) : n = <<s, i>>
      BY <3>1
    <3>3. i \notin 1..Len(notes[s])
      BY <2>7, <3>2, WrittenPairs
    <3>4. Len(notes[s]) \in Nat /\ Len(notes'[s]) \in {Len(notes[s]), Len(notes[s]) + 1}
      BY <2>2, <2>3, <2>4
    <3>5. i = Len(notes[s]) + 1
      BY <3>3, <3>4
    <3> QED
      BY <3>2, <3>5
  <2> QED
    BY <2>5, <2>6, <2>7
<1> QED
  BY <1>1, <1>2

\* A note has a stream, a place in it, and an identifier that is not 0.
LEMMA NoteFacts ==
    ASSUME TypeOK, NEW n \in Written
    PROVE  /\ n[1] \in Streams /\ n[2] \in 1..Len(notes[n[1]]) /\ n = <<n[1], n[2]>>
           /\ IDOf(n) \in Nat /\ IDOf(n) = FirstID[n[1]] + n[2] /\ IDOf(n) > 0
           /\ BodyOf(n) \in Bodies
<1>0. PICK s \in Streams : \E i \in 1..Len(notes[s]) : n = <<s, i>>
  BY WrittenPairs
<1>1. PICK i \in 1..Len(notes[s]) : n = <<s, i>>
  BY <1>0
<1>2. notes[s] \in Seq(Bodies) /\ Len(notes[s]) \in Nat /\ FirstID[s] \in Nat
  BY ConversationAssumption DEF TypeOK
<1> QED
  BY <1>1, <1>2 DEF IDOf, BodyOf

\* The ring never outgrows its size.
LEMMA RememberType ==
    ASSUME replies \in Nat, NEW h \in Seq(Nat), Len(h) <= RingCap
    PROVE  Remember(h) \in Seq(Nat) /\ Len(Remember(h)) <= RingCap
<1> DEFINE g == Append(h, replies + 1)
<1>1. g \in Seq(Nat) /\ Len(g) = Len(h) + 1 /\ g # <<>> /\ Len(h) \in Nat
  OBVIOUS
<1>2. Tail(g) \in Seq(Nat) /\ Len(Tail(g)) = Len(g) - 1
  BY <1>1
<1>3. Remember(h) = IF Len(g) > RingCap THEN Tail(g) ELSE g
  BY DEF Remember
<1> HIDE DEF g
<1> QED
  BY <1>1, <1>2, <1>3, ConversationAssumption

LEMMA TalkTypes ==
    ASSUME TypeOK, NEW c \in Callers, NEW y \in Records, y.hashes = copy[c].hashes,
           Keeps(c, y) \/ Tells(c, y)
    PROVE  /\ Grows /\ replies' \in Nat
           /\ copy' \in [Callers -> Records]
           /\ Len(copy'[c].hashes) <= RingCap
           /\ \A d \in Callers \ {c} : copy'[d] = copy[d]
<1>1. y.hashes \in Seq(Nat) /\ Len(y.hashes) <= RingCap
  BY DEF TypeOK, Records
<1>2. CASE Keeps(c, y)
  BY <1>1, <1>2 DEF Keeps, Grows, TypeOK
<1>3. CASE Tells(c, y)
  <2> DEFINE z == [y EXCEPT !.hashes = Remember(@)]
  <2>1. Remember(y.hashes) \in Seq(Nat) /\ Len(Remember(y.hashes)) <= RingCap
    BY <1>1, RememberType DEF TypeOK
  <2>2. z = [y EXCEPT !.hashes = Remember(y.hashes)]
    BY DEF Records
  <2>3. z \in Records /\ z.hashes = Remember(y.hashes)
    <3> HIDE DEF z
    <3> QED
      BY <2>1, <2>2, HashesChange
  <2>4. copy' = [copy EXCEPT ![c] = z] /\ replies' \in Nat
    BY <1>3 DEF Tells, TypeOK
  <2>5. Grows
    <3>1. [verb |-> "none", hash |-> replies + 1] \in Bodies
      BY DEF Bodies, TypeOK
    <3> QED
      BY <1>3, <3>1 DEF Tells, Grows
  <2> HIDE DEF z
  <2> QED
    BY <2>1, <2>3, <2>4, <2>5 DEF TypeOK
<1> QED
  BY <1>2, <1>3

(***************************************************************************)
(* Types.                                                                  *)
(***************************************************************************)

\* The watermarks of a note move its stream's cursor and the scalar, nothing else.
LEMMA WatermarkedRecord ==
    ASSUME TypeOK, NEW n \in Written
    PROVE  /\ Watermarked(n) \in Records
           /\ Watermarked(n).legacy = Larger(rec.legacy, IDOf(n))
           /\ Watermarked(n).cursor = [rec.cursor EXCEPT ![n[1]] = Larger(rec.cursor[n[1]], IDOf(n))]
           /\ Watermarked(n).hashes = rec.hashes
           /\ Watermarked(n).status = rec.status /\ Watermarked(n).prompt = rec.prompt
<1>1. n[1] \in Streams /\ IDOf(n) \in Nat
  BY NoteFacts
<1>2. rec \in Records
  BY DEF TypeOK
<1>3. Larger(rec.legacy, IDOf(n)) \in Nat /\ Larger(rec.cursor[n[1]], IDOf(n)) \in Nat
  BY <1>1, <1>2 DEF Records, Larger
<1>4. [rec.cursor EXCEPT ![n[1]] = Larger(rec.cursor[n[1]], IDOf(n))] \in [Streams -> Nat]
  BY <1>1, <1>2, <1>3 DEF Records
<1> QED
  BY <1>1, <1>2, <1>3, <1>4 DEF Watermarked, Records

LEMMA BeginTypes ==
    ASSUME TypeOK, NEW c \in Callers, NEW t \in Tasks, NEW x \in Records,
           Len(x.hashes) <= RingCap, Begin(c, t, x)
    PROVE  /\ phase' \in [Callers -> {"idle", "handling", "storing"}]
           /\ task' \in [Callers -> Tasks] /\ copy' \in [Callers -> Records]
           /\ from' \in [Callers -> {"AwaitingMerge", "Paused"}]
           /\ torn' \in BOOLEAN
           /\ \A d \in Callers : Len(copy'[d].hashes) <= RingCap
<1>1. rec.status \in {"AwaitingMerge", "Paused"}
  BY DEF TypeOK, Records
<1> QED
  BY <1>1 DEF Begin, TypeOK

LEMMA NewTypes == NewRecord \in Records /\ NewCursors \in Cursors /\ NoTask \in Tasks /\ NewRecord.hashes = <<>>
<1>1. [s \in Streams |-> 0] \in [Streams -> Nat] /\ <<>> \in Seq(Nat)
  OBVIOUS
<1>2. NewRecord \in Records
  BY <1>1 DEF NewRecord, Records
<1>3. NewCursors \in Cursors
  BY <1>1 DEF NewCursors, Cursors
<1>4. [verb |-> "none", hash |-> 0] \in Bodies
  BY DEF Bodies
<1> QED
  BY <1>2, <1>3, <1>4, ConversationAssumption DEF NoTask, Tasks, NewRecord

LEMMA IdleTypes ==
    ASSUME TypeOK, NEW c \in Callers, Idle(c)
    PROVE  /\ phase' \in [Callers -> {"idle", "handling", "storing"}]
           /\ task' \in [Callers -> Tasks] /\ copy' \in [Callers -> Records]
           /\ from' \in [Callers -> {"AwaitingMerge", "Paused"}]
           /\ \A d \in Callers : Len(copy'[d].hashes) <= RingCap
<1>1. Len(NewRecord.hashes) <= RingCap
  BY NewTypes, ConversationAssumption
<1> QED
  BY <1>1, NewTypes DEF Idle, TypeOK

\* Init gives the ring its first hash.
LEMMA TypeInit == Init => TypeOK
<1> SUFFICES ASSUME Init PROVE TypeOK
  OBVIOUS
<1>1. /\ rec \in Records /\ rec.hashes = <<1>> /\ Len(rec.hashes) <= RingCap
  <2>1. <<1>> \in Seq(Nat) /\ Len(<<1>>) = 1
    OBVIOUS
  <2>2. rec = [NewRecord EXCEPT !.hashes = <<1>>]
    BY DEF Init
  <2>3. rec \in Records /\ rec.hashes = <<1>>
    BY <2>1, <2>2, NewTypes, HashesChange
  <2> QED
    BY <2>1, <2>3, ConversationAssumption
<1>2. notes \in [Streams -> Seq(Bodies)]
  <2>1. PICK first \in {<<>>, <<[verb |-> "none", hash |-> 1]>>} :
          notes = [s \in Streams |-> IF s = MainStream THEN first ELSE <<>>]
    BY DEF Init
  <2>2. [verb |-> "none", hash |-> 1] \in Bodies
    BY DEF Bodies
  <2>3. <<[verb |-> "none", hash |-> 1]>> \in Seq(Bodies) /\ <<>> \in Seq(Bodies)
    BY <2>2
  <2> QED
    BY <2>1, <2>3
<1>3. Len(NewRecord.hashes) <= RingCap
  BY NewTypes, ConversationAssumption
<1>4. /\ copy \in [Callers -> Records] /\ \A c \in Callers : Len(copy[c].hashes) <= RingCap
      /\ task \in [Callers -> Tasks] /\ since \in Cursors
  BY <1>3, NewTypes DEF Init
<1>5. /\ phase \in [Callers -> {"idle", "handling", "storing"}]
      /\ from \in [Callers -> {"AwaitingMerge", "Paused"}]
  BY DEF Init
<1>6. /\ queue \subseteq Written /\ taken \subseteq Written /\ skipped \subseteq Written
      /\ tick \in {"idle", "begun", "listed"} /\ replies \in Nat /\ meddling \in Nat
      /\ owed \in {"no", "yes", "dropped"}
  BY DEF Init
<1>7. torn \in BOOLEAN
  BY DEF Init
<1> QED
  BY <1>1, <1>2, <1>4, <1>5, <1>6, <1>7 DEF TypeOK

LEMMA TypeStep ==
    ASSUME TypeOK, [Next]_vars
    PROVE  TypeOK'
<1>1. ASSUME NEW s \in Streams, NEW v \in Verbs \cup {"none"}, PersonWrites(s, v)
      PROVE  TypeOK'
  <2>1. [verb |-> v, hash |-> 0] \in Bodies
    BY DEF Bodies
  <2>2. Grows
    BY <1>1, <2>1 DEF PersonWrites, Grows
  <2> QED
    BY <1>1, <2>2, NotesGrow DEF TypeOK, PersonWrites, pollVars, callVars, history
<1>2. CASE BeginTick
  <2>1. since' \in Cursors
    BY <1>2 DEF BeginTick, TypeOK, Records, Cursors
  <2> QED
    BY <1>2, <2>1 DEF BeginTick, TypeOK, callVars, history, Written
<1>3. CASE ListNotesSince
  <2>1. queue' \subseteq Written /\ since' \in Cursors
    BY <1>3, NewTypes DEF ListNotesSince
  <2> QED
    BY <1>3, <2>1 DEF ListNotesSince, TypeOK, callVars, history, Written
<1>4. CASE EndTick
  BY <1>4, NewTypes DEF EndTick, TypeOK, callVars, history, Written
<1>5. CASE DispatchFails
  <2>1. PICK n \in NextNotes : queue' = queue \ {n} /\ skipped' = skipped \cup {n}
    BY <1>5 DEF DispatchFails
  <2>2. n \in Written
    BY DEF NextNotes, TypeOK
  <2>3. queue' \subseteq Written /\ skipped' \subseteq Written /\ meddling' \in Nat
    BY <1>5, <2>1, <2>2 DEF DispatchFails, TypeOK
  <2> QED
    BY <1>5, <2>3 DEF DispatchFails, TypeOK, callVars, Written
<1>6. CASE DispatchNote
  <2>1. PICK n \in NextNotes :
          /\ Begin("poller", [body |-> BodyOf(n), stream |-> n[1]], Watermarked(n))
          /\ queue' = queue \ {n} /\ taken' = taken \cup {n}
          /\ UNCHANGED <<notes, rec, tick, since, replies, meddling, skipped, owed>>
    BY <1>6 DEF DispatchNote
  <2>2. n \in Written
    BY DEF NextNotes, TypeOK
  <2>3. [body |-> BodyOf(n), stream |-> n[1]] \in Tasks
    BY <2>2, NoteFacts DEF Tasks
  <2>4. Len(Watermarked(n).hashes) <= RingCap /\ Watermarked(n) \in Records
    BY <2>2, WatermarkedRecord DEF TypeOK
  <2>5. /\ phase' \in [Callers -> {"idle", "handling", "storing"}]
        /\ task' \in [Callers -> Tasks] /\ copy' \in [Callers -> Records]
        /\ from' \in [Callers -> {"AwaitingMerge", "Paused"}] /\ torn' \in BOOLEAN
        /\ \A d \in Callers : Len(copy'[d].hashes) <= RingCap
    BY <2>1, <2>3, <2>4, BeginTypes DEF Callers
  <2>6. queue' \subseteq Written /\ taken' \subseteq Written
    BY <2>1, <2>2 DEF TypeOK
  <2> QED
    BY <2>1, <2>5, <2>6 DEF TypeOK, Written
<1>7. ASSUME NEW v \in Verbs, Control(v)
      PROVE  TypeOK'
  <2>1. [body |-> [verb |-> v, hash |-> 0], stream |-> MainStream] \in Tasks
    BY ConversationAssumption DEF Tasks, Bodies
  <2>2. rec \in Records /\ Len(rec.hashes) <= RingCap
    BY DEF TypeOK
  <2>3. Begin("control", [body |-> [verb |-> v, hash |-> 0], stream |-> MainStream], rec)
    BY <1>7 DEF Control
  <2>4. /\ phase' \in [Callers -> {"idle", "handling", "storing"}]
        /\ task' \in [Callers -> Tasks] /\ copy' \in [Callers -> Records]
        /\ from' \in [Callers -> {"AwaitingMerge", "Paused"}] /\ torn' \in BOOLEAN
        /\ \A d \in Callers : Len(copy'[d].hashes) <= RingCap
    BY <2>1, <2>2, <2>3, BeginTypes DEF Callers
  <2>5. meddling' \in Nat
    BY <1>7 DEF Control, TypeOK
  <2> QED
    BY <1>7, <2>4, <2>5 DEF Control, TypeOK, pollVars, Written
<1>8. ASSUME NEW c \in Callers, Works(c)
      PROVE  TypeOK'
  <2>1. PICK y \in Records : y.hashes = copy[c].hashes /\ (Keeps(c, y) \/ Tells(c, y))
    BY <1>8 DEF Works
  <2>2. /\ Grows /\ replies' \in Nat /\ copy' \in [Callers -> Records]
        /\ Len(copy'[c].hashes) <= RingCap
        /\ \A d \in Callers \ {c} : copy'[d] = copy[d]
    BY <2>1, TalkTypes
  <2>3. \A d \in Callers : Len(copy'[d].hashes) <= RingCap
    BY <2>2 DEF TypeOK
  <2>4. phase' \in [Callers -> {"idle", "handling", "storing"}]
    BY <1>8 DEF Works, TypeOK
  <2> QED
    BY <1>8, <2>2, <2>3, <2>4, NotesGrow DEF Works, TypeOK, pollVars
<1>9. ASSUME NEW c \in Callers, Store(c)
      PROVE  TypeOK'
  <2>1. rec' \in Records /\ Len(rec'.hashes) <= RingCap
    BY <1>9 DEF Store, TypeOK
  <2> QED
    BY <1>9, <2>1, IdleTypes DEF Store, TypeOK, pollVars, history, Written
<1>10. ASSUME NEW c \in Callers, CallFails(c)
      PROVE  TypeOK'
  <2>1. torn' \in BOOLEAN /\ meddling' \in Nat
    BY <1>10 DEF CallFails, TypeOK
  <2> QED
    BY <1>10, <2>1, IdleTypes DEF CallFails, TypeOK, pollVars, Written
<1>11. CASE Restart
  <2>1. torn' \in BOOLEAN /\ meddling' \in Nat
    BY <1>11 DEF Restart, TypeOK
  <2>2. Len(NewRecord.hashes) <= RingCap
    BY NewTypes, ConversationAssumption
  <2> QED
    BY <1>11, <2>1, <2>2, NewTypes DEF Restart, TypeOK, Written
<1>12. CASE UNCHANGED vars
  BY <1>12 DEF vars, pollVars, callVars, history, TypeOK, Written
<1> QED
  BY <1>1, <1>2, <1>3, <1>4, <1>5, <1>6, <1>7, <1>8, <1>9, <1>10, <1>11, <1>12, HandlersWork DEF Next

\* The variables keep their types and no record outgrows its ring, for any number
\* of notes and comments.
THEOREM TypeCorrect == Spec => []TypeOK
  BY TypeInit, TypeStep, PTL DEF Spec

(***************************************************************************)
(* No note is lost.                                                        *)
(***************************************************************************)

\* Whatever has been read of the cursors, and may be listed from or stored.
Read == {rec, since} \cup {copy[c] : c \in Callers}

\* Notes that a later listing has to find.
Missing == Written \ (taken \cup skipped)

\* No cursor is ahead of its stream, and the scalar has moved with one of them.
CursorsInv ==
    \A x \in Read :
        /\ \A s \in Streams : x.cursor[s] <= FirstID[s] + Len(notes[s])
        /\ (\A s \in Streams : x.cursor[s] = 0) => x.legacy = 0

\* Missing notes are ahead of every cursor of their stream, stored or about to be.
AheadInv == \A x \in Read : \A n \in Missing : IDOf(n) > x.cursor[n[1]]

\* What a listing has left out of a stream comes after what it has not.
QueueInv == \A m \in queue : \A n \in Missing : n[1] = m[1] => n \in queue \/ m[2] < n[2]

LossInv == CursorsInv /\ (~NewestFirst => AheadInv /\ QueueInv)

LEMMA ReadTypes ==
    ASSUME TypeOK, NEW x \in Read
    PROVE  x.cursor \in [Streams -> Nat] /\ x.legacy \in Nat
BY DEF TypeOK, Read, Records, Cursors

LEMMA ReadTypesNext ==
    ASSUME TypeOK', NEW x \in Read'
    PROVE  x.cursor \in [Streams -> Nat]
<1>1. rec' \in Records /\ since' \in Cursors /\ \A c \in Callers : copy'[c] \in Records
  BY DEF TypeOK
<1>2. x = rec' \/ x = since' \/ \E c \in Callers : x = copy'[c]
  BY DEF Read
<1> QED
  BY <1>1, <1>2 DEF Records, Cursors

\* The legacy scalar is a floor of no stream that has been read from.
LEMMA ThresholdIsCursor ==
    ASSUME TypeOK, CursorsInv, NEW x \in Read, NEW s \in Streams
    PROVE  Threshold(x, s) = x.cursor[s]
<1>1. x.cursor \in [Streams -> Nat]
  BY ReadTypes
<1>2. CASE \A t \in Streams : x.cursor[t] = 0
  BY <1>2 DEF CursorsInv, Threshold
<1>3. CASE \E t \in Streams : x.cursor[t] # 0
  BY <1>3 DEF Threshold
<1> QED
  BY <1>2, <1>3

\* The MR loses no note, the daemon forgets none it has taken or skipped.
LEMMA StepGrows ==
    ASSUME TypeOK, [Next]_vars
    PROVE  Grows /\ taken \subseteq taken' /\ skipped \subseteq skipped'
<1>1. ASSUME NEW s \in Streams, NEW v \in Verbs \cup {"none"}, PersonWrites(s, v)
      PROVE  Grows /\ UNCHANGED <<taken, skipped>>
  <2>1. [verb |-> v, hash |-> 0] \in Bodies
    BY DEF Bodies
  <2> QED
    BY <1>1, <2>1 DEF PersonWrites, Grows, history
<1>2. ASSUME NEW c \in Callers, Works(c)
      PROVE  Grows /\ UNCHANGED <<taken, skipped>>
  <2>1. PICK y \in Records : y.hashes = copy[c].hashes /\ (Keeps(c, y) \/ Tells(c, y))
    BY <1>2 DEF Works
  <2> QED
    BY <1>2, <2>1, TalkTypes DEF Works
<1>3. CASE BeginTick \/ ListNotesSince \/ EndTick \/ UNCHANGED vars
  BY <1>3 DEF BeginTick, ListNotesSince, EndTick, vars, history, Grows
<1>4. CASE DispatchNote \/ DispatchFails \/ Restart
  BY <1>4 DEF DispatchNote, DispatchFails, Restart, Grows
<1>5. ASSUME NEW c \in Callers, Store(c) \/ CallFails(c)
      PROVE  Grows /\ UNCHANGED <<taken, skipped>>
  BY <1>5 DEF Store, CallFails, history, Grows
<1>6. ASSUME NEW v \in Verbs, Control(v)
      PROVE  Grows /\ UNCHANGED <<taken, skipped>>
  BY <1>6 DEF Control, Grows
<1> QED
  BY <1>1, <1>2, <1>3, <1>4, <1>5, <1>6, HandlersWork DEF Next

\* Nobody has, and nothing stores, cursors but what the record had, and what the
\* note that is dispatched makes of them.
NoCursors(x) == x.legacy = 0 /\ \A s \in Streams : x.cursor[s] = 0

LEMMA ReadFrom ==
    ASSUME TypeOK, [Next]_vars, NEW x \in Read'
    PROVE  \/ \E y \in Read : SameCursors(x, y)
           \/ NoCursors(x)
           \/ \E n \in NextNotes : n \in taken' /\ SameCursors(x, Watermarked(n))
<1> DEFINE Old == (\E y \in Read : SameCursors(x, y)) \/ NoCursors(x)
<1>0. NoCursors(NewRecord) /\ NoCursors(NewCursors)
  BY DEF NoCursors, NewRecord, NewCursors
<1>1. ASSUME UNCHANGED <<rec, copy>>, since' = since \/ SameCursors(since', rec) \/ since' = NewCursors
      PROVE  Old
  BY <1>0, <1>1 DEF Read, SameCursors
<1>2. ASSUME NEW c \in Callers, Works(c)
      PROVE  Old
  <2>1. PICK y \in Records : /\ SameCursors(y, copy[c]) /\ y.hashes = copy[c].hashes
                             /\ Keeps(c, y) \/ Tells(c, y)
    BY <1>2 DEF Works
  <2>2. \A d \in Callers : d # c => copy'[d] = copy[d]
    BY <2>1, TalkTypes
  <2>3. SameCursors(copy'[c], copy[c])
    <3>1. CASE Keeps(c, y)
      BY <2>1, <3>1 DEF Keeps, TypeOK
    <3>2. CASE Tells(c, y)
      <4>1. copy'[c] = [y EXCEPT !.hashes = Remember(@)]
        BY <3>2 DEF Tells, TypeOK
      <4> QED
        BY <2>1, <4>1 DEF SameCursors, Records
    <3> QED
      BY <2>1, <3>1, <3>2
  <2>4. UNCHANGED <<rec, since>>
    BY <1>2 DEF Works, pollVars
  <2> QED
    BY <2>2, <2>3, <2>4 DEF Read, SameCursors
<1>3. CASE DispatchNote
  <2>1. PICK n \in NextNotes :
          /\ Begin("poller", [body |-> BodyOf(n), stream |-> n[1]], Watermarked(n))
          /\ taken' = taken \cup {n} /\ UNCHANGED <<rec, since>>
    BY <1>3 DEF DispatchNote
  <2>2. copy' = [copy EXCEPT !["poller"] = Watermarked(n)]
    BY <2>1 DEF Begin
  <2>3. n \in taken' /\ SameCursors(Watermarked(n), Watermarked(n))
    BY <2>1 DEF SameCursors
  <2>4. x = Watermarked(n) \/ x \in Read
    BY <2>1, <2>2 DEF Read, Callers, TypeOK
  <2> QED
    BY <2>3, <2>4 DEF SameCursors
<1>4. ASSUME NEW v \in Verbs, Control(v)
      PROVE  Old
  <2>1. copy' = [copy EXCEPT !["control"] = rec] /\ UNCHANGED <<rec, since>>
    BY <1>4 DEF Control, Begin, pollVars
  <2>2. x \in Read
    BY <2>1 DEF Read, Callers, TypeOK
  <2> QED
    BY <2>2 DEF SameCursors
<1>5. ASSUME NEW c \in Callers, Store(c) \/ CallFails(c)
      PROVE  Old
  <2>1. /\ rec' \in {rec, copy[c]} /\ since' = since
        /\ copy' = [copy EXCEPT ![c] = NewRecord]
    BY <1>5 DEF Store, CallFails, Idle, pollVars
  <2>2. x \in Read \/ x = NewRecord
    BY <2>1 DEF Read, TypeOK
  <2> QED
    BY <1>0, <2>2 DEF SameCursors
<1>6. CASE Restart
  <2>1. x = rec \/ x = NewRecord \/ x = NewCursors
    BY <1>6 DEF Restart, Read
  <2> QED
    BY <1>0, <2>1 DEF SameCursors, Read
<1>7. ASSUME NEW s \in Streams, NEW v \in Verbs \cup {"none"}, PersonWrites(s, v)
      PROVE  Old
  BY <1>1, <1>7 DEF PersonWrites, callVars, pollVars
<1>8. CASE BeginTick \/ ListNotesSince \/ EndTick \/ DispatchFails \/ UNCHANGED vars
  BY <1>1, <1>8 DEF BeginTick, ListNotesSince, EndTick, DispatchFails, vars, callVars, pollVars, SameCursors
<1> QED
  BY <1>2, <1>3, <1>4, <1>5, <1>6, <1>7, <1>8, HandlersWork DEF Next

\* The watermarks of the next note pass it, and none of its stream but it.
LEMMA NextWatermarks ==
    ASSUME TypeOK, CursorsInv, NEW n \in NextNotes, NEW x, SameCursors(x, Watermarked(n))
    PROVE  /\ n \in Written /\ n \in queue
           /\ \A s \in Streams : x.cursor[s] <= FirstID[s] + Len(notes[s])
           /\ x.cursor[n[1]] # 0
           /\ \A s \in Streams \ {n[1]} : x.cursor[s] = rec.cursor[s]
           /\ x.cursor[n[1]] = Larger(rec.cursor[n[1]], IDOf(n))
<1>1. n \in queue /\ n \in Written
  BY DEF NextNotes, TypeOK
<1>2. x.cursor = [rec.cursor EXCEPT ![n[1]] = Larger(rec.cursor[n[1]], IDOf(n))]
  BY <1>1, WatermarkedRecord DEF SameCursors
<1>3. rec.cursor \in [Streams -> Nat]
  BY ReadTypes DEF Read
<1>4. /\ n[1] \in Streams /\ n[2] \in 1..Len(notes[n[1]]) /\ Len(notes[n[1]]) \in Nat
      /\ FirstID[n[1]] \in Nat /\ IDOf(n) = FirstID[n[1]] + n[2]
  BY <1>1, NoteFacts, ConversationAssumption DEF TypeOK
<1>5. /\ x.cursor[n[1]] = Larger(rec.cursor[n[1]], IDOf(n))
      /\ \A s \in Streams \ {n[1]} : x.cursor[s] = rec.cursor[s]
  BY <1>2, <1>3, <1>4
<1>6. \A s \in Streams : rec.cursor[s] <= FirstID[s] + Len(notes[s])
  BY DEF CursorsInv, Read
<1>7. x.cursor[n[1]] # 0 /\ x.cursor[n[1]] <= FirstID[n[1]] + Len(notes[n[1]])
  BY <1>3, <1>4, <1>5, <1>6 DEF Larger
<1> QED
  BY <1>1, <1>5, <1>6, <1>7

\* Cursors are not even ahead of what the streams were before the step.
LEMMA CursorsBehind ==
    ASSUME TypeOK, CursorsInv, [Next]_vars, NEW x \in Read'
    PROVE  /\ \A s \in Streams : x.cursor[s] <= FirstID[s] + Len(notes[s])
           /\ (\A s \in Streams : x.cursor[s] = 0) => x.legacy = 0
<1>1. CASE \E y \in Read : SameCursors(x, y)
  BY <1>1 DEF CursorsInv, SameCursors
<1>2. CASE NoCursors(x)
  BY <1>2, ConversationAssumption DEF NoCursors, TypeOK
<1>3. CASE \E n \in NextNotes : n \in taken' /\ SameCursors(x, Watermarked(n))
  <2>1. PICK n \in NextNotes : SameCursors(x, Watermarked(n))
    BY <1>3
  <2>2. n[1] \in Streams /\ x.cursor[n[1]] # 0
    BY <2>1, NextWatermarks, NoteFacts
  <2> QED
    BY <2>1, <2>2, NextWatermarks
<1> QED
  BY <1>1, <1>2, <1>3, ReadFrom

LEMMA CursorsStep ==
    ASSUME TypeOK, CursorsInv, [Next]_vars
    PROVE  CursorsInv'
<1>1. TypeOK'
  BY TypeStep
<1> SUFFICES ASSUME NEW x \in Read'
             PROVE  /\ \A s \in Streams : x.cursor[s] <= FirstID[s] + Len(notes'[s])
                    /\ (\A s \in Streams : x.cursor[s] = 0) => x.legacy = 0
  BY DEF CursorsInv
<1>2. \A s \in Streams : /\ Len(notes[s]) <= Len(notes'[s]) /\ FirstID[s] \in Nat
                          /\ Len(notes[s]) \in Nat /\ Len(notes'[s]) \in Nat
  BY <1>1, StepGrows, NotesGrow, ConversationAssumption DEF TypeOK
<1>3. x.cursor \in [Streams -> Nat]
  BY <1>1, ReadTypesNext
<1> QED
  BY <1>2, <1>3, CursorsBehind

LEMMA AheadStep ==
    ASSUME TypeOK, CursorsInv, AheadInv, QueueInv, [Next]_vars
    PROVE  AheadInv'
<1> SUFFICES ASSUME NEW x \in Read', NEW n \in Missing'
             PROVE  IDOf(n)' > x.cursor[n[1]]
  BY DEF AheadInv
<1>1. TypeOK' /\ n \in Written' /\ n \notin taken' /\ n \notin skipped'
  BY TypeStep DEF Missing
<1>2. /\ n[1] \in Streams /\ n[2] \in Nat \ {0} /\ FirstID[n[1]] \in Nat
      /\ IDOf(n) = FirstID[n[1]] + n[2] /\ Len(notes[n[1]]) \in Nat
  <2>1. (n \in Written => n[1] \in Streams /\ n[2] \in 1..Len(notes[n[1]]))'
    BY <1>1, NoteFacts, PTL
  <2>2. n[1] \in Streams /\ n[2] \in Nat \ {0}
    BY <1>1, <2>1 DEF TypeOK
  <2> QED
    BY <2>2, ConversationAssumption DEF IDOf, TypeOK
<1>3. x.cursor[n[1]] \in Nat
  <2>1. x.cursor \in [Streams -> Nat]
    BY <1>1, ReadTypesNext
  <2> QED
    BY <1>2, <2>1
<1>4. CASE n \notin Written
  <2>1. n[2] = Len(notes[n[1]]) + 1
    BY <1>1, <1>4, StepGrows, NotesGrow
  <2>2. x.cursor[n[1]] <= FirstID[n[1]] + Len(notes[n[1]])
    BY <1>2, CursorsBehind
  <2> QED
    BY <1>2, <1>3, <2>1, <2>2 DEF IDOf
<1>5. CASE n \in Written
  <2>1. n \in Missing
    BY <1>1, <1>5, StepGrows DEF Missing
  <2>2. CASE \E y \in Read : SameCursors(x, y)
    BY <2>1, <2>2 DEF AheadInv, SameCursors, IDOf
  <2>3. CASE NoCursors(x)
    BY <1>2, <2>3 DEF NoCursors, IDOf
  <2>4. ASSUME NEW m \in NextNotes, m \in taken', SameCursors(x, Watermarked(m))
        PROVE  IDOf(n) > x.cursor[n[1]]
    <3>1. m # n /\ m \in Written /\ m \in queue
      BY <1>1, <2>4, NextWatermarks
    <3>2. IDOf(n) > rec.cursor[n[1]] /\ rec.cursor[n[1]] \in Nat
      BY <1>2, <2>1, ReadTypes DEF AheadInv, Read
    <3>3. CASE n[1] # m[1]
      <4>1. x.cursor[n[1]] = rec.cursor[n[1]]
        BY <1>2, <2>4, <3>3, NextWatermarks
      <4> QED
        BY <3>2, <4>1
    <3>4. CASE n[1] = m[1]
      <4>1. IDOf(m) = FirstID[n[1]] + m[2] /\ m[2] \in Nat /\ m = <<m[1], m[2]>> /\ n = <<n[1], n[2]>>
        BY <1>5, <3>1, <3>4, NoteFacts DEF TypeOK
      <4>2. m[2] # n[2]
        BY <3>1, <3>4, <4>1
      <4>3. IDOf(n) > IDOf(m)
        <5>1. CASE n \in queue
          <6>1. IDOf(m) <= IDOf(n)
            BY <5>1 DEF NextNotes
          <6> QED
            BY <1>2, <4>1, <4>2, <6>1
        <5>2. CASE m[2] < n[2]
          BY <1>2, <4>1, <5>2
        <5> QED
          BY <2>1, <3>1, <3>4, <5>1, <5>2 DEF QueueInv
      <4>4. x.cursor[n[1]] = Larger(rec.cursor[n[1]], IDOf(m))
        BY <2>4, <3>4, NextWatermarks
      <4> QED
        BY <3>2, <4>3, <4>4 DEF Larger
    <3> QED
      BY <3>3, <3>4
  <2> QED
    BY <2>2, <2>3, <2>4, ReadFrom DEF IDOf
<1> QED
  BY <1>4, <1>5

LEMMA QueueStep ==
    ASSUME TypeOK, CursorsInv, AheadInv, QueueInv, ~NewestFirst, [Next]_vars
    PROVE  QueueInv'
<1>1. /\ taken \subseteq taken' /\ skipped \subseteq skipped'
      /\ \A n \in Written' : n \in Written \/ n[2] = Len(notes[n[1]]) + 1
  BY StepGrows, NotesGrow
<1>2. ASSUME queue' \subseteq queue, queue \ queue' \subseteq taken' \cup skipped'
      PROVE  QueueInv'
  <2> SUFFICES ASSUME NEW m \in queue', NEW n \in Missing', n[1] = m[1], n \notin queue'
               PROVE  m[2] < n[2]
    BY DEF QueueInv
  <2>1. n \in Written' /\ n \notin taken' /\ n \notin skipped' /\ n \notin queue
    BY <1>2 DEF Missing
  <2>2. m \in queue /\ m[2] \in 1..Len(notes[m[1]]) /\ Len(notes[m[1]]) \in Nat
    BY <1>2, NoteFacts DEF TypeOK
  <2>3. CASE n \in Written
    BY <1>1, <2>1, <2>2, <2>3 DEF QueueInv, Missing
  <2>4. CASE n \notin Written
    BY <1>1, <2>1, <2>2, <2>4
  <2> QED
    BY <2>3, <2>4
<1>3. CASE ListNotesSince
  <2>1. /\ queue' = {n \in Written : OnPage(n) /\ IDOf(n) > Threshold(since, n[1])}
        /\ UNCHANGED <<notes, taken, skipped>>
    BY <1>3 DEF ListNotesSince, history
  <2> SUFFICES ASSUME NEW m \in queue', NEW n \in Missing, n[1] = m[1], n \notin queue'
               PROVE  m[2] < n[2]
    BY <2>1 DEF QueueInv, Missing, Written
  <2>2. n \in Written /\ m \in Written /\ OnPage(m)
    BY <2>1 DEF Missing
  <2>3. IDOf(n) > Threshold(since, n[1])
    <3>1. n[1] \in Streams /\ since \in Read
      BY <2>2, NoteFacts DEF Read
    <3> QED
      BY <3>1, ThresholdIsCursor DEF AheadInv
  <2>4. ~OnPage(n)
    BY <2>1, <2>2, <2>3
  <2>5. m[2] <= PageSize /\ ~(n[2] <= PageSize)
    BY <2>2, <2>4 DEF OnPage
  <2>6. m[2] \in Nat /\ n[2] \in Nat /\ PageSize \in Nat
    BY <2>2, NoteFacts, ConversationAssumption DEF TypeOK
  <2> QED
    BY <2>5, <2>6
<1>4. CASE DispatchNote \/ DispatchFails
  BY <1>2, <1>4 DEF DispatchNote, DispatchFails
<1>5. CASE Restart
  BY <1>5 DEF Restart, QueueInv
<1>6. ASSUME NEW c \in Callers, Works(c) \/ Store(c) \/ CallFails(c)
      PROVE  QueueInv'
  BY <1>2, <1>6 DEF Works, Store, CallFails, pollVars
<1>7. CASE BeginTick \/ EndTick \/ UNCHANGED vars
  BY <1>2, <1>7 DEF BeginTick, EndTick, vars, pollVars
<1>8. ASSUME NEW v \in Verbs, Control(v)
      PROVE  QueueInv'
  BY <1>2, <1>8 DEF Control, pollVars
<1>9. ASSUME NEW s \in Streams, NEW v \in Verbs \cup {"none"}, PersonWrites(s, v)
      PROVE  QueueInv'
  BY <1>2, <1>9 DEF PersonWrites, pollVars
<1> QED
  BY <1>3, <1>4, <1>5, <1>6, <1>7, <1>8, <1>9, HandlersWork DEF Next

LEMMA LossInit == Init => LossInv
<1> SUFFICES ASSUME Init PROVE LossInv
  OBVIOUS
<1>1. TypeOK
  BY TypeInit
<1>2. \A x \in Read : NoCursors(x)
  BY DEF Init, Read, NoCursors, NewRecord, NewCursors
<1>3. CursorsInv
  BY <1>1, <1>2, ConversationAssumption DEF CursorsInv, NoCursors, TypeOK
<1>4. AheadInv
  BY <1>1, <1>2, NoteFacts DEF AheadInv, NoCursors, Missing
<1>5. QueueInv
  BY DEF Init, QueueInv
<1> QED
  BY <1>3, <1>4, <1>5 DEF LossInv

\* No note is lost, for any number of streams with any identifiers, whatever
\* callbacks overlap, fail or are cut short.
THEOREM NotesAreKept == Spec => []NoNoteLost
<1>1. Init => TypeOK /\ LossInv
  BY TypeInit, LossInit
<1>2. TypeOK /\ LossInv /\ [Next]_vars => TypeOK' /\ LossInv'
  BY TypeStep, CursorsStep, AheadStep, QueueStep DEF LossInv
<1>3. TypeOK /\ LossInv => NoNoteLost
  <2> SUFFICES ASSUME TypeOK, LossInv, ~NewestFirst, NEW n \in Written, n \notin taken \cup skipped
               PROVE  IDOf(n) > Threshold(rec, n[1])
    BY DEF NoNoteLost
  <2>1. n[1] \in Streams /\ rec \in Read
    BY NoteFacts DEF Read
  <2> QED
    BY <2>1, ThresholdIsCursor DEF LossInv, AheadInv, Missing
<1> QED
  BY <1>1, <1>2, <1>3, PTL DEF Spec

(***************************************************************************)
(* One callback at a time: what holds as long as none overlaps another or  *)
(* is cut short.                                                           *)
(***************************************************************************)

\* There is one callback at most, and the record has the status it began in.
OneInv ==
    ~torn => /\ \A c, d \in Active : c = d
             /\ \A c \in Active : from[c] = rec.status

\* No callback begins or ends, and none does anything.
Quiet ==
    /\ UNCHANGED <<rec, callVars, replies, taken, torn, owed>>
    /\ \/ notes' = notes
       \/ \E s \in Streams, v \in Verbs \cup {"none"} :
            notes' = [notes EXCEPT ![s] = Append(@, [verb |-> v, hash |-> 0])]

\* The callback of c begins on a record that is the Run's but for its watermarks.
Starts(c) ==
    /\ Active = {}
    /\ \E t \in Tasks, x \in Records :
         /\ Begin(c, t, x)
         /\ x.hashes = rec.hashes /\ x.status = rec.status /\ x.prompt = rec.prompt
         /\ t.body.hash = 0 \/ \E n \in Written : t.body = BodyOf(n)
    /\ UNCHANGED <<notes, rec, replies, owed>>

\* The callback of c ends, and what it has made of the record is the record.
Ends(c) ==
    /\ Active = {c} /\ rec' = copy[c]
    /\ Idle(c)
    /\ UNCHANGED <<notes, replies, taken, owed>>

\* The daemon starts again, where no callback was under way.
Restarts ==
    /\ Active = {} /\ Active' = {}
    /\ task' = [c \in Callers |-> NoTask]
    /\ UNCHANGED <<notes, rec, replies, taken, owed>>

LEMMA WholeStep ==
    ASSUME TypeOK, OneInv, [Next]_vars, ~torn'
    PROVE  /\ ~torn
           /\ \/ Quiet \/ Restarts
              \/ \E c \in Callers : Starts(c) \/ Works(c) \/ Ends(c)
<1>1. ASSUME NEW s \in Streams, NEW v \in Verbs \cup {"none"}, PersonWrites(s, v)
      PROVE  ~torn /\ Quiet
  BY <1>1 DEF PersonWrites, Quiet, history
<1>2. CASE BeginTick \/ ListNotesSince \/ EndTick \/ DispatchFails \/ UNCHANGED vars
  BY <1>2 DEF BeginTick, ListNotesSince, EndTick, DispatchFails, vars, history, Quiet
<1>3. CASE DispatchNote
  <2>1. PICK n \in NextNotes :
          /\ Begin("poller", [body |-> BodyOf(n), stream |-> n[1]], Watermarked(n))
          /\ UNCHANGED <<notes, rec, replies, owed>>
    BY <1>3 DEF DispatchNote
  <2>2. n \in Written
    BY DEF NextNotes, TypeOK
  <2>3. [body |-> BodyOf(n), stream |-> n[1]] \in Tasks
    BY <2>2, NoteFacts DEF Tasks
  <2>4. ~torn /\ Active = {}
    BY <2>1 DEF Begin
  <2>5. Starts("poller")
    BY <2>1, <2>2, <2>3, <2>4, WatermarkedRecord DEF Starts
  <2> QED
    BY <2>4, <2>5 DEF Callers
<1>4. ASSUME NEW v \in Verbs, Control(v)
      PROVE  ~torn /\ Starts("control")
  <2> DEFINE t == [body |-> [verb |-> v, hash |-> 0], stream |-> MainStream]
  <2>1. t \in Tasks /\ t.body.hash = 0
    BY ConversationAssumption DEF Tasks, Bodies
  <2>2. Begin("control", t, rec) /\ UNCHANGED <<notes, rec, replies, owed>>
    BY <1>4 DEF Control
  <2>3. ~torn /\ Active = {}
    BY <2>2 DEF Begin
  <2>4. rec \in Records
    BY DEF TypeOK
  <2> HIDE DEF t
  <2> QED
    BY <2>1, <2>2, <2>3, <2>4 DEF Starts
<1>5. ASSUME NEW c \in Callers, Handle(c) \/ SaysMore(c)
      PROVE  ~torn /\ Works(c)
  <2>1. Works(c)
    BY <1>5, HandlersWork
  <2> QED
    BY <2>1 DEF Works
<1>6. ASSUME NEW c \in Callers, Store(c)
      PROVE  ~torn /\ Ends(c)
  <2>1. ~torn /\ c \in Active
    BY <1>6 DEF Store, history, Active
  <2>2. Active = {c} /\ rec.status = from[c]
    BY <2>1 DEF OneInv
  <2> QED
    BY <1>6, <2>1, <2>2 DEF Store, Ends, history
<1>7. ASSUME NEW c \in Callers, CallFails(c)
      PROVE  FALSE
  BY <1>7 DEF CallFails
<1>8. CASE Restart
  <2>1. ~torn /\ Active = {}
    BY <1>8 DEF Restart
  <2>2. Active' = {}
    BY <1>8 DEF Restart, Active
  <2> QED
    BY <1>8, <2>1, <2>2 DEF Restart, Restarts
<1> DEFINE Goal == /\ ~torn
                   /\ \/ Quiet \/ Restarts
                      \/ \E c \in Callers : Starts(c) \/ Works(c) \/ Ends(c)
<1>9. ASSUME NEW c \in Callers, Handle(c) \/ SaysMore(c) \/ Store(c) \/ CallFails(c)
      PROVE  Goal
  BY <1>5, <1>6, <1>7, <1>9
<1>10. ASSUME NEW v \in Verbs, Control(v)
       PROVE  Goal
  BY <1>4, <1>10 DEF Callers
<1>11. ASSUME NEW s \in Streams, NEW v \in Verbs \cup {"none"}, PersonWrites(s, v)
       PROVE  Goal
  BY <1>1, <1>11
<1>12. CASE DispatchNote \/ Restart
  BY <1>3, <1>8, <1>12
<1> HIDE DEF Goal
<1>13. Goal
  BY <1>2, <1>9, <1>10, <1>11, <1>12 DEF Next, Goal
<1> QED
  BY <1>13 DEF Goal

\* Who is active after each of them.
LEMMA ActiveThen ==
    ASSUME TypeOK, OneInv, ~torn
    PROVE  /\ Quiet => Active' = Active
           /\ \A c \in Callers : /\ Starts(c) => Active' = {c}
                                 /\ Works(c) => Active' = Active /\ Active = {c}
                                 /\ Ends(c) => Active' = {}
<1>1. Quiet => Active' = Active
  BY DEF Quiet, callVars, Active
<1>2. ASSUME NEW c \in Callers, Starts(c)
      PROVE  Active' = {c}
  <2>1. PICK t, x : Begin(c, t, x) /\ Active = {}
    BY <1>2 DEF Starts
  <2> QED
    BY <2>1 DEF Begin, Active, TypeOK
<1>3. ASSUME NEW c \in Callers, Works(c)
      PROVE  Active' = Active /\ Active = {c}
  <2>1. c \in Active
    BY <1>3 DEF Works, Active
  <2>2. Active = {c}
    BY <2>1 DEF OneInv
  <2>3. \A d \in Callers : phase'[d] = "idle" <=> phase[d] = "idle"
    BY <1>3 DEF Works, TypeOK
  <2> QED
    BY <2>2, <2>3 DEF Active
<1>4. ASSUME NEW c \in Callers, Ends(c)
      PROVE  Active' = {}
  BY <1>4 DEF Ends, Idle, Active, TypeOK
<1> QED
  BY <1>1, <1>2, <1>3, <1>4

LEMMA OneStep ==
    ASSUME TypeOK, OneInv, [Next]_vars
    PROVE  OneInv'
<1> SUFFICES ASSUME ~torn'
             PROVE  /\ \A c, d \in Active' : c = d
                    /\ \A c \in Active' : from'[c] = rec'.status
  BY DEF OneInv
<1>0. ~torn
  BY WholeStep
<1>1. CASE Quiet
  BY <1>0, <1>1, ActiveThen DEF Quiet, callVars, OneInv
<1>2. CASE Restarts
  BY <1>2 DEF Restarts
<1>3. ASSUME NEW c \in Callers, Starts(c)
      PROVE  Active' = {c} /\ from'[c] = rec'.status
  <2>1. PICK t, x : Begin(c, t, x) /\ rec' = rec
    BY <1>3 DEF Starts
  <2> QED
    BY <1>0, <1>3, <2>1, ActiveThen DEF Begin, TypeOK
<1>4. ASSUME NEW c \in Callers, Works(c)
      PROVE  Active' = {c} /\ from'[c] = rec'.status
  BY <1>0, <1>4, ActiveThen DEF Works, OneInv
<1>5. ASSUME NEW c \in Callers, Ends(c)
      PROVE  Active' = {}
  BY <1>0, <1>5, ActiveThen
<1> QED
  BY <1>1, <1>2, <1>3, <1>4, <1>5, WholeStep

LEMMA OneInit == Init => OneInv /\ Active = {}
BY DEF Init, OneInv, Active

(***************************************************************************)
(* The author's prompt.                                                    *)
(***************************************************************************)

\* The copy of a callback that has done something is y, or y with a longer ring.
LEMMA CopyThen ==
    ASSUME TypeOK, NEW c \in Callers, NEW y \in Records, Keeps(c, y) \/ Tells(c, y)
    PROVE  /\ copy'[c].prompt = y.prompt /\ copy'[c].cursor = y.cursor
           /\ Keeps(c, y) => copy'[c].hashes = y.hashes
           /\ Tells(c, y) => copy'[c].hashes = Remember(y.hashes)
<1>1. CASE Keeps(c, y) /\ ~Tells(c, y)
  BY <1>1 DEF Keeps, TypeOK
<1>2. CASE Tells(c, y)
  <2>1. copy'[c] = [y EXCEPT !.hashes = Remember(@)]
    BY <1>2 DEF Tells, TypeOK
  <2>2. ~Keeps(c, y)
    BY <1>2 DEF Keeps, Tells, TypeOK
  <2> QED
    BY <2>1, <2>2, <1>2 DEF Records
<1> QED
  BY <1>1, <1>2

LEMMA PromptStep ==
    ASSUME TypeOK, OneInv, PromptReachesRunner, [Next]_vars
    PROVE  PromptReachesRunner'
<1> SUFFICES ASSUME ~torn'
             PROVE  (\A x \in Current : PromptAgrees(x, owed))'
  BY DEF PromptReachesRunner, PromptAgrees
<1>0. ~torn /\ \A x \in Current : PromptAgrees(x, owed)
  BY WholeStep DEF PromptReachesRunner, PromptAgrees
<1>1. CASE Quiet
  <2>1. Current' = Current /\ owed' = owed
    BY <1>0, <1>1, ActiveThen DEF Quiet, callVars, Current
  <2> QED
    BY <1>0, <2>1 DEF PromptAgrees
<1>2. CASE Restarts
  <2>1. Current' = {rec} /\ Current = {rec} /\ owed' = owed
    BY <1>2 DEF Restarts, Current
  <2> QED
    BY <1>0, <2>1 DEF PromptAgrees
<1>3. ASSUME NEW c \in Callers, Starts(c)
      PROVE  (\A x \in Current : PromptAgrees(x, owed))'
  <2>1. PICK t \in Tasks, x \in Records : /\ Begin(c, t, x) /\ x.prompt = rec.prompt
                                             /\ Active = {} /\ owed' = owed
    BY <1>3 DEF Starts
  <2>2. Current = {rec} /\ Current' = {x}
    BY <1>0, <1>3, <2>1, ActiveThen DEF Current, Begin, TypeOK
  <2> QED
    BY <1>0, <2>1, <2>2 DEF PromptAgrees
<1>4. ASSUME NEW c \in Callers, Works(c)
      PROVE  (\A x \in Current : PromptAgrees(x, owed))'
  <2>1. PICK y \in Records : /\ Keeps(c, y) \/ Tells(c, y)
                             /\ PromptAgrees(copy[c], owed) => PromptAgrees(y, owed')
    BY <1>4 DEF Works
  <2>2. Current = {copy[c]} /\ Current' = {copy'[c]}
    BY <1>0, <1>4, ActiveThen DEF Current
  <2>3. copy'[c].prompt = y.prompt
    BY <2>1, CopyThen
  <2> QED
    BY <1>0, <2>1, <2>2, <2>3 DEF PromptAgrees
<1>5. ASSUME NEW c \in Callers, Ends(c)
      PROVE  (\A x \in Current : PromptAgrees(x, owed))'
  <2>1. Current = {copy[c]} /\ Current' = {copy[c]} /\ owed' = owed
    BY <1>0, <1>5, ActiveThen DEF Current, Ends
  <2> QED
    BY <1>0, <2>1 DEF PromptAgrees
<1> QED
  BY <1>1, <1>2, <1>3, <1>4, <1>5, WholeStep

\* A prompt that was acknowledged is in its slot until a runner gets it, whatever
\* the callbacks in between are, as long as no two overlap.
THEOREM PromptsAreKept == Spec => []PromptReachesRunner
<1>1. Init => PromptReachesRunner
  BY OneInit DEF Init, PromptReachesRunner, Current, NewRecord
<1>2. TypeOK /\ OneInv /\ PromptReachesRunner /\ [Next]_vars => OneInv' /\ PromptReachesRunner'
  BY OneStep, PromptStep
<1> QED
  BY <1>1, <1>2, TypeInit, TypeStep, OneInit, PTL DEF Spec

(***************************************************************************)
(* The daemon's own comments.                                              *)
(***************************************************************************)

\* The ring holds the latest comments of k, all of them as long as they fit.
Ring(h, k) ==
    /\ Len(h) = IF k < RingCap THEN k ELSE RingCap
    /\ \A i \in 1..Len(h) : h[i] = k - Len(h) + i

RingInv == torn \/ \A x \in Current : Ring(x.hashes, replies)

\* Nobody has seen a comment of the daemon's that it has not made.
HashInv ==
    /\ \A s \in Streams : \A i \in 1..Len(notes[s]) : notes[s][i].hash <= replies
    /\ \A c \in Callers : task[c].body.hash <= replies

LEMMA RingStep ==
    ASSUME NEW k \in Nat, replies = k, NEW h \in Seq(Nat), Ring(h, k)
    PROVE  Ring(Remember(h), k + 1)
<1> DEFINE g == Append(h, k + 1)
<1>0. RingCap \in Nat /\ RingCap > 0 /\ Len(h) \in Nat /\ k + 1 \in Nat
  BY ConversationAssumption
<1>1. /\ g \in Seq(Nat) /\ Len(g) = Len(h) + 1 /\ g # <<>>
      /\ \A i \in 1..Len(h) : g[i] = h[i]
      /\ g[Len(h) + 1] = k + 1
  <2>1. \A e \in Nat : /\ Append(h, e) \in Seq(Nat) /\ Len(Append(h, e)) = Len(h) + 1
                       /\ Append(h, e) # <<>>
                       /\ \A i \in 1..Len(h) : Append(h, e)[i] = h[i]
                       /\ Append(h, e)[Len(h) + 1] = e
    OBVIOUS
  <2> QED
    BY <1>0, <2>1
<1>2. ASSUME NEW i \in 1..Len(g)
      PROVE  g[i] = (k - Len(h)) + i
  <2>1. CASE i \in 1..Len(h)
    <3>1. g[i] = h[i] /\ h[i] = k - Len(h) + i
      BY <1>1, <2>1 DEF Ring
    <3> QED
      BY <3>1
  <2>2. CASE i \notin 1..Len(h)
    <3>1. i = Len(h) + 1
      BY <1>0, <1>1, <2>2
    <3>2. (k - Len(h)) + (Len(h) + 1) = k + 1
      BY <1>0
    <3> QED
      BY <1>1, <3>1, <3>2
  <2> QED
    BY <2>1, <2>2
<1>3. /\ Len(Tail(g)) = Len(h)
      /\ \A i \in 1..Len(h) : Tail(g)[i] = g[i + 1]
  <2> HIDE DEF g
  <2>1. Len(Tail(g)) = Len(g) - 1 /\ \A i \in 1..(Len(g) - 1) : Tail(g)[i] = g[i + 1]
    BY <1>1
  <2> QED
    BY <1>0, <1>1, <2>1
<1>4. Remember(h) = IF Len(g) > RingCap THEN Tail(g) ELSE g
  BY DEF Remember
<1> HIDE DEF g
<1>5. CASE Len(g) > RingCap
  <2>1. Len(h) = RingCap /\ ~(k < RingCap) /\ ~(k + 1 < RingCap)
    BY <1>0, <1>1, <1>5 DEF Ring
  <2>2. ASSUME NEW i \in 1..Len(h)
        PROVE  Tail(g)[i] = (k + 1) - Len(h) + i
    <3>1. i + 1 \in 1..Len(g)
      BY <1>0, <1>1
    <3>2. Tail(g)[i] = (k - Len(h)) + (i + 1)
      BY <1>2, <1>3, <3>1
    <3>3. (k - Len(h)) + (i + 1) = (k + 1) - Len(h) + i
      BY <1>0
    <3> QED
      BY <3>2, <3>3
  <2>3. Remember(h) = Tail(g) /\ Len(Tail(g)) = RingCap
    BY <1>3, <1>4, <1>5, <2>1
  <2> QED
    BY <1>3, <2>1, <2>2, <2>3 DEF Ring
<1>6. CASE ~(Len(g) > RingCap)
  <2>1. Len(h) = k /\ Len(g) = k + 1 /\ k + 1 <= RingCap
    BY <1>0, <1>1, <1>6 DEF Ring
  <2>2. ASSUME NEW i \in 1..Len(g)
        PROVE  g[i] = (k + 1) - Len(g) + i
    <3>1. (k - Len(h)) + i = (k + 1) - Len(g) + i
      BY <1>0, <2>1
    <3> QED
      BY <1>2, <3>1
  <2>3. Remember(h) = g /\ Len(g) = IF k + 1 < RingCap THEN k + 1 ELSE RingCap
    BY <1>0, <1>4, <1>6, <2>1
  <2> QED
    BY <2>2, <2>3 DEF Ring
<1> QED
  BY <1>5, <1>6

\* A comment whose hash is not on the ring has been pushed off it.
LEMMA OffTheRing ==
    ASSUME NEW k \in Nat, NEW h \in Seq(Nat), Ring(h, k),
           NEW m \in Nat, 0 < m, m <= k, \A i \in DOMAIN h : h[i] # m
    PROVE  k - m >= RingCap
<1>0. RingCap \in Nat /\ Len(h) \in Nat /\ DOMAIN h = 1..Len(h)
  BY ConversationAssumption
<1>1. CASE m <= k - Len(h)
  BY <1>0, <1>1 DEF Ring
<1>2. CASE ~(m <= k - Len(h))
  <2>1. m - (k - Len(h)) \in 1..Len(h)
    BY <1>0, <1>2
  <2>2. h[m - (k - Len(h))] = m
    BY <1>0, <2>1 DEF Ring
  <2> QED
    BY <1>0, <2>1, <2>2
<1> QED
  BY <1>1, <1>2

\* A step of a callback makes no comment, or the next one.
LEMMA WorksSays ==
    ASSUME TypeOK, NEW c \in Callers, Works(c)
    PROVE  /\ \/ replies' = replies /\ copy'[c].hashes = copy[c].hashes /\ notes' = notes
              \/ /\ replies' = replies + 1 /\ copy'[c].hashes = Remember(copy[c].hashes)
                 /\ \/ notes' = notes
                    \/ \E s \in Streams : notes' =
                         [notes EXCEPT ![s] = Append(@, [verb |-> "none", hash |-> replies + 1])]
           /\ task' = task
           /\ phase' = [phase EXCEPT ![c] = phase'[c]]
<1>1. PICK y \in Records : y.hashes = copy[c].hashes /\ (Keeps(c, y) \/ Tells(c, y))
  BY DEF Works
<1>2. task' = task /\ phase' = [phase EXCEPT ![c] = phase'[c]]
  BY DEF Works, TypeOK
<1>3. CASE Keeps(c, y)
  BY <1>1, <1>2, <1>3, CopyThen DEF Keeps
<1>4. CASE Tells(c, y)
  <2>1. copy'[c].hashes = Remember(copy[c].hashes)
    BY <1>1, <1>4, CopyThen
  <2> QED
    BY <1>2, <1>4, <2>1 DEF Tells
<1> QED
  BY <1>1, <1>3, <1>4

LEMMA RingInvStep ==
    ASSUME TypeOK, OneInv, RingInv, [Next]_vars
    PROVE  RingInv'
<1> SUFFICES ASSUME ~torn'
             PROVE  (\A x \in Current : Ring(x.hashes, replies))'
  BY DEF RingInv
<1>0. ~torn /\ \A x \in Current : Ring(x.hashes, replies)
  BY WholeStep DEF RingInv
<1>1. CASE Quiet
  <2>1. Current' = Current /\ replies' = replies
    BY <1>0, <1>1, ActiveThen DEF Quiet, callVars, Current
  <2> QED
    BY <1>0, <2>1 DEF Ring
<1>2. CASE Restarts
  <2>1. Current' = {rec} /\ Current = {rec} /\ replies' = replies
    BY <1>2 DEF Restarts, Current
  <2> QED
    BY <1>0, <2>1 DEF Ring
<1>3. ASSUME NEW c \in Callers, Starts(c)
      PROVE  (\A x \in Current : Ring(x.hashes, replies))'
  <2>1. PICK t \in Tasks, x \in Records : /\ Begin(c, t, x) /\ x.hashes = rec.hashes
                                          /\ Active = {} /\ replies' = replies
    BY <1>3 DEF Starts
  <2>2. Current = {rec} /\ Current' = {x}
    BY <1>0, <1>3, <2>1, ActiveThen DEF Current, Begin, TypeOK
  <2> QED
    BY <1>0, <2>1, <2>2 DEF Ring
<1>4. ASSUME NEW c \in Callers, Works(c)
      PROVE  (\A x \in Current : Ring(x.hashes, replies))'
  <2>1. Current = {copy[c]} /\ Current' = {copy'[c]}
    BY <1>0, <1>4, ActiveThen DEF Current
  <2>2. copy[c].hashes \in Seq(Nat) /\ replies \in Nat /\ Ring(copy[c].hashes, replies)
    BY <1>0, <2>1 DEF TypeOK, Records
  <2>3. Ring(Remember(copy[c].hashes), replies + 1)
    BY <2>2, RingStep
  <2>4. Ring(copy'[c].hashes, replies')
    <3>1. CASE replies' = replies /\ copy'[c].hashes = copy[c].hashes
      BY <2>2, <3>1
    <3>2. CASE replies' = replies + 1 /\ copy'[c].hashes = Remember(copy[c].hashes)
      BY <2>3, <3>2
    <3> QED
      BY <1>4, <3>1, <3>2, WorksSays
  <2> QED
    BY <2>1, <2>4 DEF Ring
<1>5. ASSUME NEW c \in Callers, Ends(c)
      PROVE  (\A x \in Current : Ring(x.hashes, replies))'
  <2>1. Current = {copy[c]} /\ Current' = {copy[c]} /\ replies' = replies
    BY <1>0, <1>5, ActiveThen DEF Current, Ends
  <2> QED
    BY <1>0, <2>1 DEF Ring
<1> QED
  BY <1>1, <1>2, <1>3, <1>4, <1>5, WholeStep

LEMMA HashTypes ==
    ASSUME TypeOK, HashInv, NEW r \in Streams, NEW j \in 1..Len(notes[r])
    PROVE  notes[r][j].hash \in Nat /\ notes[r][j].hash <= replies
<1>1. notes[r][j] \in Bodies
  BY DEF TypeOK
<1> QED
  BY <1>1 DEF HashInv, Bodies

\* The notes of one stream, with one more.
LEMMA NoteAdded ==
    ASSUME TypeOK, HashInv, NEW k \in Nat, replies <= k, NEW s \in Streams,
           NEW b \in Bodies, b.hash <= k, notes' = [notes EXCEPT ![s] = Append(@, b)]
    PROVE  \A r \in Streams : \A i \in 1..Len(notes'[r]) : notes'[r][i].hash <= k
<1> SUFFICES ASSUME NEW r \in Streams, NEW i \in 1..Len(notes'[r])
             PROVE  notes'[r][i].hash <= k
  OBVIOUS
<1>1. /\ notes[r] \in Seq(Bodies) /\ Len(notes[r]) \in Nat /\ replies \in Nat
      /\ \A j \in 1..Len(notes[r]) : notes[r][j].hash \in Nat /\ notes[r][j].hash <= replies
  BY HashTypes DEF TypeOK
<1>2. CASE i \in 1..Len(notes[r])
  <2>1. notes'[r][i] = notes[r][i]
    BY <1>1, <1>2 DEF TypeOK
  <2> QED
    BY <1>1, <1>2, <2>1
<1>3. CASE i \notin 1..Len(notes[r])
  <2>1. notes'[r] = IF r = s THEN Append(notes[r], b) ELSE notes[r]
    BY DEF TypeOK
  <2>2. r = s /\ notes'[r] = Append(notes[r], b)
    BY <1>3, <2>1
  <2>3. i = Len(notes[r]) + 1
    BY <1>1, <1>3, <2>2
  <2>4. notes'[r][i] = b
    BY <1>1, <2>2, <2>3
  <2> QED
    BY <2>4
<1> QED
  BY <1>2, <1>3

LEMMA HashStep ==
    ASSUME TypeOK, HashInv, [Next]_vars
    PROVE  HashInv'
<1>0. replies \in Nat /\ NoTask.body.hash = 0
  BY DEF TypeOK, NoTask
<1>1. ASSUME NEW s \in Streams, NEW v \in Verbs \cup {"none"}, PersonWrites(s, v)
      PROVE  HashInv'
  <2>1. [verb |-> v, hash |-> 0] \in Bodies
    BY DEF Bodies
  <2>2. /\ notes' = [notes EXCEPT ![s] = Append(@, [verb |-> v, hash |-> 0])]
        /\ UNCHANGED <<task, replies>>
    BY <1>1 DEF PersonWrites, callVars
  <2>3. \A r \in Streams : \A i \in 1..Len(notes'[r]) : notes'[r][i].hash <= replies
    <3> DEFINE b == [verb |-> v, hash |-> 0]
    <3>1. b \in Bodies /\ b.hash = 0 /\ 0 <= replies /\ replies <= replies
      BY <1>0, <2>1
    <3>2. notes' = [notes EXCEPT ![s] = Append(@, b)]
      BY <2>2
    <3> HIDE DEF b
    <3> QED
      BY <1>0, <3>1, <3>2, NoteAdded
  <2> QED
    BY <2>2, <2>3 DEF HashInv
<1>2. CASE BeginTick \/ ListNotesSince \/ EndTick \/ DispatchFails \/ UNCHANGED vars
  BY <1>2 DEF BeginTick, ListNotesSince, EndTick, DispatchFails, vars, callVars, HashInv
<1>3. CASE DispatchNote
  <2>1. PICK n \in NextNotes :
          /\ Begin("poller", [body |-> BodyOf(n), stream |-> n[1]], Watermarked(n))
          /\ UNCHANGED <<notes, replies>>
    BY <1>3 DEF DispatchNote
  <2>2. n \in Written
    BY DEF NextNotes, TypeOK
  <2>3. n[1] \in Streams /\ n[2] \in 1..Len(notes[n[1]])
    BY <2>2, NoteFacts
  <2>4. BodyOf(n).hash <= replies
    BY <2>3 DEF BodyOf, HashInv
  <2>5. \A c \in Callers : task'[c].body.hash <= replies
    BY <2>1, <2>4 DEF Begin, HashInv, TypeOK
  <2> QED
    BY <2>1, <2>5 DEF HashInv
<1>4. ASSUME NEW v \in Verbs, Control(v)
      PROVE  HashInv'
  <2>1. \A c \in Callers : task'[c].body.hash <= replies
    BY <1>0, <1>4 DEF Control, Begin, HashInv, TypeOK
  <2> QED
    BY <1>4, <2>1 DEF Control, HashInv
<1>5. ASSUME NEW c \in Callers, Works(c)
      PROVE  HashInv'
  <2>1. task' = task /\ replies' \in {replies, replies + 1}
    BY <1>5, WorksSays
  <2>2. \A d \in Callers : task[d].body.hash \in Nat
    BY DEF TypeOK, Tasks, Bodies
  <2>3. \A d \in Callers : task'[d].body.hash <= replies'
    BY <1>0, <2>1, <2>2 DEF HashInv
  <2>4. \A r \in Streams : \A i \in 1..Len(notes'[r]) : notes'[r][i].hash <= replies'
    <3>1. CASE notes' = notes
      <4>1. \A r \in Streams : \A i \in 1..Len(notes[r]) :
              notes[r][i].hash \in Nat /\ notes[r][i].hash <= replies
        BY HashTypes
      <4> QED
        BY <1>0, <2>1, <3>1, <4>1
    <3>2. ASSUME NEW s \in Streams, replies' = replies + 1,
                 notes' = [notes EXCEPT ![s] = Append(@, [verb |-> "none", hash |-> replies + 1])]
          PROVE  \A r \in Streams : \A i \in 1..Len(notes'[r]) : notes'[r][i].hash <= replies'
      <4> DEFINE b == [verb |-> "none", hash |-> replies + 1]
      <4>1. /\ b \in Bodies /\ b.hash = replies + 1
            /\ replies + 1 \in Nat /\ replies <= replies + 1 /\ b.hash <= replies + 1
        BY <1>0 DEF Bodies
      <4>2. notes' = [notes EXCEPT ![s] = Append(@, b)]
        BY <3>2
      <4> HIDE DEF b
      <4>3. \A r \in Streams : \A i \in 1..Len(notes'[r]) : notes'[r][i].hash <= replies + 1
        BY <4>1, <4>2, NoteAdded
      <4> QED
        BY <3>2, <4>3
    <3> QED
      BY <1>5, <3>1, <3>2, WorksSays
  <2> QED
    BY <2>3, <2>4 DEF HashInv
<1>6. ASSUME NEW c \in Callers, Store(c) \/ CallFails(c)
      PROVE  HashInv'
  <2>1. task' = [task EXCEPT ![c] = NoTask] /\ UNCHANGED <<notes, replies>>
    BY <1>6 DEF Store, CallFails, Idle
  <2>2. \A d \in Callers : task'[d].body.hash <= replies
    BY <1>0, <2>1 DEF HashInv, TypeOK
  <2> QED
    BY <2>1, <2>2 DEF HashInv
<1>7. CASE Restart
  BY <1>0, <1>7 DEF Restart, HashInv
<1>8. ASSUME NEW c \in Callers, Handle(c) \/ SaysMore(c) \/ Store(c) \/ CallFails(c)
      PROVE  HashInv'
  BY <1>5, <1>6, <1>8, HandlersWork
<1> QED
  BY <1>1, <1>2, <1>3, <1>4, <1>7, <1>8 DEF Next

LEMMA BotStep ==
    ASSUME TypeOK, OneInv, RingInv, HashInv, BotIsNotAnswered, [Next]_vars
    PROVE  BotIsNotAnswered'
<1> SUFFICES ASSUME ~torn', NEW d \in Callers, phase'[d] = "handling", task'[d].body.hash > 0
             PROVE  replies' - task'[d].body.hash >= RingCap
  BY DEF BotIsNotAnswered
<1>0. /\ ~torn /\ replies \in Nat /\ RingCap \in Nat /\ task[d].body.hash \in Nat
  BY WholeStep, ConversationAssumption DEF TypeOK, Tasks, Bodies
<1>1. phase[d] = "handling" /\ task[d].body.hash > 0 => replies - task[d].body.hash >= RingCap
  BY <1>0 DEF BotIsNotAnswered
<1>2. CASE Quiet
  BY <1>1, <1>2 DEF Quiet, callVars
<1>3. CASE Restarts
  BY <1>3 DEF Restarts, Active
<1>4. ASSUME NEW c \in Callers, Starts(c)
      PROVE  replies' - task'[d].body.hash >= RingCap
  <2>1. PICK t \in Tasks, x \in Records :
          /\ Begin(c, t, x) /\ Active = {} /\ replies' = replies
          /\ x.hashes = rec.hashes /\ x.status = rec.status
          /\ t.body.hash = 0 \/ \E n \in Written : t.body = BodyOf(n)
    BY <1>4 DEF Starts
  <2>2. d = c
    BY <1>0, <1>4, ActiveThen DEF Active
  <2>3. Answers(x, t.body) /\ task'[d] = t
    BY <2>1, <2>2 DEF Begin, TypeOK
  <2>4. \A i \in DOMAIN rec.hashes : rec.hashes[i] # t.body.hash
    BY <2>1, <2>3 DEF Answers, IsOwnEcho
  <2>5. PICK n \in Written : t.body = BodyOf(n)
    BY <2>1, <2>3
  <2>6. n[1] \in Streams /\ n[2] \in 1..Len(notes[n[1]]) /\ t.body \in Bodies
    BY <2>5, NoteFacts
  <2>7. t.body.hash <= replies /\ t.body.hash > 0 /\ t.body.hash \in Nat
    BY <2>3, <2>5, <2>6 DEF HashInv, BodyOf, Bodies
  <2>8. Ring(rec.hashes, replies) /\ rec.hashes \in Seq(Nat)
    BY <1>0, <2>1 DEF RingInv, Current, TypeOK, Records
  <2>9. replies - t.body.hash >= RingCap
    BY <1>0, <2>4, <2>7, <2>8, OffTheRing
  <2> QED
    BY <2>1, <2>3, <2>9
<1>5. ASSUME NEW c \in Callers, Works(c)
      PROVE  replies' - task'[d].body.hash >= RingCap
  <2>1. task' = task /\ replies' \in {replies, replies + 1}
    BY <1>5, WorksSays
  <2>2. phase[d] = "handling"
    BY <1>5 DEF Works, TypeOK
  <2> QED
    BY <1>0, <1>1, <2>1, <2>2
<1>6. ASSUME NEW c \in Callers, Ends(c)
      PROVE  FALSE
  <2>1. Active' = {}
    BY <1>0, <1>6, ActiveThen
  <2> QED
    BY <2>1 DEF Active
<1> QED
  BY <1>2, <1>3, <1>4, <1>5, <1>6, WholeStep

\* The daemon does not answer itself: what it has said and not forgotten it knows
\* for its own, for a ring of any size.
THEOREM OwnCommentsAreKnown == Spec => []BotIsNotAnswered
<1>1. Init => RingInv /\ HashInv /\ BotIsNotAnswered
  <2> SUFFICES ASSUME Init PROVE RingInv /\ HashInv /\ BotIsNotAnswered
    OBVIOUS
  <2>1. Current = {rec} /\ rec.hashes = <<1>> /\ replies = 1
    BY OneInit, NewTypes, <<1>> \in Seq(Nat), HashesChange DEF Init, Current
  <2>2. Ring(<<1>>, 1)
    <3>1. Len(<<1>>) = 1 /\ \A i \in 1..1 : <<1>>[i] = i
      OBVIOUS
    <3> QED
      BY <3>1, ConversationAssumption DEF Ring
  <2>3. RingInv
    BY <2>1, <2>2 DEF RingInv
  <2>4. \A s \in Streams : \A i \in 1..Len(notes[s]) : notes[s][i].hash <= 1
    <3>1. PICK first \in {<<>>, <<[verb |-> "none", hash |-> 1]>>} :
            notes = [s \in Streams |-> IF s = MainStream THEN first ELSE <<>>]
      BY DEF Init
    <3>2. \A i \in 1..Len(first) : first[i].hash <= 1
      OBVIOUS
    <3>3. \A i \in 1..Len(<<>>) : FALSE
      OBVIOUS
    <3> QED
      BY <3>1, <3>2, <3>3
  <2>5. HashInv
    BY <2>1, <2>4 DEF HashInv, Init, NoTask
  <2>6. BotIsNotAnswered
    BY DEF Init, BotIsNotAnswered
  <2> QED
    BY <2>3, <2>5, <2>6
<1>2. TypeOK /\ OneInv /\ RingInv /\ HashInv /\ BotIsNotAnswered /\ [Next]_vars
        => TypeOK' /\ OneInv' /\ RingInv' /\ HashInv' /\ BotIsNotAnswered'
  BY TypeStep, OneStep, RingInvStep, HashStep, BotStep
<1> QED
  BY <1>1, <1>2, TypeInit, OneInit, PTL DEF Spec

(***************************************************************************)
(* No note is handled twice.                                               *)
(***************************************************************************)

\* Every note that has been taken is behind the cursors of x.
Covers(x) == \A n \in taken : IDOf(n) <= x.cursor[n[1]]

\* Notes are dispatched, and handled for the poller, by a tick that has listed them.
TickInv == queue # {} \/ phase["poller"] # "idle" => tick = "listed"

\* The taken notes are behind whatever the next listing starts from, or will once
\* the poller's callback is stored.
CoverInv ==
    ~torn => /\ queue \cap taken = {}
             /\ tick = "begun" => Covers(since)
             /\ phase["poller"] = "idle" => Covers(rec)
             /\ \A c \in Active : Covers(copy[c])

LEMMA TickStep ==
    ASSUME TypeOK, TickInv, [Next]_vars
    PROVE  TickInv'
<1>1. ASSUME NEW c \in Callers, Works(c)
      PROVE  TickInv'
  BY <1>1 DEF Works, TickInv, TypeOK, pollVars
<1>2. ASSUME NEW c \in Callers, Store(c) \/ CallFails(c)
      PROVE  TickInv'
  BY <1>2 DEF Store, CallFails, Idle, TickInv, TypeOK, pollVars, Callers
<1>3. ASSUME NEW c \in Callers, Handle(c) \/ SaysMore(c) \/ Store(c) \/ CallFails(c)
      PROVE  TickInv'
  BY <1>1, <1>2, <1>3, HandlersWork
<1>4. CASE DispatchNote
  <2>1. tick' = tick /\ tick = "listed"
    BY <1>4 DEF DispatchNote, NextNotes, TickInv
  <2> QED
    BY <2>1 DEF TickInv
<1>5. CASE DispatchFails
  BY <1>5 DEF DispatchFails, TickInv, callVars
<1>6. ASSUME NEW v \in Verbs, Control(v)
      PROVE  TickInv'
  BY <1>6 DEF Control, Begin, TickInv, pollVars, TypeOK, Callers
<1>7. CASE BeginTick \/ ListNotesSince \/ EndTick \/ UNCHANGED vars
  BY <1>7 DEF BeginTick, ListNotesSince, EndTick, vars, callVars, pollVars, TickInv
<1>8. CASE Restart
  BY <1>8 DEF Restart, TickInv, Callers
<1>9. ASSUME NEW s \in Streams, NEW v \in Verbs \cup {"none"}, PersonWrites(s, v)
      PROVE  TickInv'
  BY <1>9 DEF PersonWrites, TickInv, pollVars, callVars
<1> QED
  BY <1>3, <1>4, <1>5, <1>6, <1>7, <1>8, <1>9 DEF Next

\* A note that is listed has not been taken.
LEMMA ListedIsNew ==
    ASSUME TypeOK, CursorsInv, Covers(since), NEW n \in Written,
           IDOf(n) > Threshold(since, n[1])
    PROVE  n \notin taken
<1>1. n[1] \in Streams /\ since \in Read /\ IDOf(n) \in Nat
  BY NoteFacts DEF Read
<1>2. Threshold(since, n[1]) = since.cursor[n[1]] /\ since.cursor[n[1]] \in Nat
  BY <1>1, ThresholdIsCursor, ReadTypes
<1> QED
  BY <1>1, <1>2 DEF Covers

LEMMA CoverStep ==
    ASSUME TypeOK, CursorsInv, OneInv, TickInv, CoverInv, [Next]_vars
    PROVE  CoverInv'
<1> SUFFICES ASSUME ~torn'
             PROVE  /\ queue' \cap taken' = {}
                    /\ tick' = "begun" => Covers(since)'
                    /\ phase'["poller"] = "idle" => Covers(rec)'
                    /\ \A c \in Active' : Covers(copy[c])'
  BY DEF CoverInv, Covers
<1> DEFINE Goal == /\ queue' \cap taken' = {}
                   /\ tick' = "begun" => Covers(since)'
                   /\ phase'["poller"] = "idle" => Covers(rec)'
                   /\ \A c \in Active' : Covers(copy[c])'
<1>0. /\ ~torn /\ queue \cap taken = {}
      /\ tick = "begun" => Covers(since)
      /\ phase["poller"] = "idle" => Covers(rec)
      /\ \A c \in Active : Covers(copy[c])
  BY WholeStep DEF CoverInv
<1>1. ASSUME NEW s \in Streams, NEW v \in Verbs \cup {"none"}, PersonWrites(s, v)
      PROVE  Goal
  BY <1>0, <1>1 DEF PersonWrites, pollVars, callVars, history, Covers, Active, IDOf
<1>2. CASE BeginTick
  <2>1. phase["poller"] = "idle"
    BY <1>2 DEF BeginTick, TickInv
  <2>2. /\ since'.cursor = rec.cursor
        /\ UNCHANGED <<rec, queue, taken, phase, copy>>
    BY <1>2 DEF BeginTick, callVars, history
  <2> QED
    BY <1>0, <2>1, <2>2 DEF Covers, Active, IDOf
<1>3. CASE ListNotesSince
  <2>1. /\ tick = "begun" /\ tick' = "listed"
        /\ queue' = {n \in Written : OnPage(n) /\ IDOf(n) > Threshold(since, n[1])}
        /\ UNCHANGED <<rec, taken, phase, copy>>
    BY <1>3 DEF ListNotesSince, callVars, history
  <2>2. queue' \cap taken = {}
    BY <1>0, <2>1, ListedIsNew
  <2> QED
    BY <1>0, <2>1, <2>2 DEF Covers, Active, IDOf
<1>4. CASE EndTick \/ UNCHANGED vars
  BY <1>0, <1>4 DEF EndTick, vars, pollVars, callVars, history, Covers, Active, IDOf
<1>5. CASE DispatchFails
  BY <1>0, <1>5 DEF DispatchFails, callVars, Covers, Active, IDOf
<1>6. CASE DispatchNote
  <2>1. PICK n \in NextNotes :
          /\ Begin("poller", [body |-> BodyOf(n), stream |-> n[1]], Watermarked(n))
          /\ queue' = queue \ {n} /\ taken' = taken \cup {n}
          /\ UNCHANGED <<rec, tick>>
    BY <1>6 DEF DispatchNote
  <2>2. n \in queue /\ n \in Written
    BY DEF NextNotes, TypeOK
  <2>3. tick' = "listed"
    BY <2>1, <2>2 DEF TickInv
  <2>4. phase'["poller"] # "idle" /\ copy'["poller"] = Watermarked(n) /\ phase["poller"] = "idle"
    BY <2>1 DEF Begin, TypeOK, Callers
  <2>5. Active' \subseteq {"poller"}
    BY <2>1 DEF Begin, Active, TypeOK, Callers
  <2>6. /\ rec.cursor \in [Streams -> Nat]
        /\ Watermarked(n).cursor = [rec.cursor EXCEPT ![n[1]] = Larger(rec.cursor[n[1]], IDOf(n))]
        /\ n[1] \in Streams /\ IDOf(n) \in Nat
    BY <2>2, WatermarkedRecord, NoteFacts DEF TypeOK, Records
  <2>7. ASSUME NEW m \in taken'
        PROVE  IDOf(m) <= Watermarked(n).cursor[m[1]]
    <3>1. CASE m = n
      BY <2>6, <3>1 DEF Larger
    <3>2. CASE m # n
      <4>1. m \in taken /\ m \in Written
        BY <2>1, <3>2 DEF TypeOK
      <4>2. m[1] \in Streams /\ IDOf(m) \in Nat /\ IDOf(m) <= rec.cursor[m[1]]
        BY <1>0, <2>4, <4>1, NoteFacts DEF Covers
      <4> QED
        BY <2>6, <4>2 DEF Larger
    <3> QED
      BY <3>1, <3>2
  <2>8. queue' \cap taken' = {}
    BY <1>0, <2>1
  <2>9. \A c \in Active' : Covers(copy[c])'
    BY <2>4, <2>5, <2>7 DEF Covers, IDOf
  <2> QED
    BY <2>3, <2>4, <2>8, <2>9
<1>7. ASSUME NEW v \in Verbs, Control(v)
      PROVE  Goal
  <2>1. /\ Active = {} /\ copy' = [copy EXCEPT !["control"] = rec]
        /\ UNCHANGED <<rec, pollVars, taken>>
        /\ phase' = [phase EXCEPT !["control"] = phase'["control"]]
    BY <1>7 DEF Control, Begin, TypeOK, Callers
  <2>2. Active' \subseteq {"control"} /\ phase["poller"] = "idle" /\ copy'["control"] = rec
    BY <2>1 DEF Active, TypeOK, Callers
  <2> QED
    BY <1>0, <2>1, <2>2 DEF Covers, IDOf, pollVars
<1>8. ASSUME NEW c \in Callers, Works(c)
      PROVE  Goal
  <2>1. PICK y \in Records : SameCursors(y, copy[c]) /\ (Keeps(c, y) \/ Tells(c, y))
    BY <1>8 DEF Works
  <2>2. copy'[c].cursor = copy[c].cursor
    BY <2>1, CopyThen DEF SameCursors
  <2>3. Active = {c} /\ Active' = {c}
    BY <1>0, <1>8, ActiveThen
  <2>4. UNCHANGED <<rec, pollVars, taken>>
    BY <1>8 DEF Works
  <2>5. phase["poller"] = "idle" <=> phase'["poller"] = "idle"
    BY <1>8 DEF Works, TypeOK, Callers
  <2> QED
    BY <1>0, <2>2, <2>3, <2>4, <2>5 DEF Covers, IDOf, pollVars
<1>9. ASSUME NEW c \in Callers, Store(c)
      PROVE  Goal
  <2>1. ~torn /\ c \in Active
    BY <1>0, <1>9 DEF Store, Active
  <2>2. Active = {c} /\ rec' = copy[c] /\ UNCHANGED <<pollVars, taken>>
    BY <1>9, <2>1 DEF OneInv, Store, history
  <2>3. Active' = {}
    BY <1>9, <2>2 DEF Store, Idle, Active, TypeOK
  <2> QED
    BY <1>0, <2>2, <2>3 DEF Covers, IDOf, pollVars
<1>10. ASSUME NEW c \in Callers, CallFails(c)
       PROVE  Goal
  BY <1>10 DEF CallFails
<1>11. ASSUME NEW c \in Callers, Handle(c) \/ SaysMore(c) \/ Store(c) \/ CallFails(c)
       PROVE  Goal
  BY <1>8, <1>9, <1>10, <1>11, HandlersWork
<1>12. CASE Restart
  <2>1. /\ Active = {} /\ Active' = {} /\ tick' = "idle" /\ queue' = {}
        /\ UNCHANGED <<rec, taken>>
    BY <1>12 DEF Restart, Active
  <2>2. phase["poller"] = "idle"
    BY <2>1 DEF Active, Callers
  <2> QED
    BY <1>0, <2>1, <2>2 DEF Covers, IDOf
<1> HIDE DEF Goal
<1>13. CASE \/ BeginTick \/ ListNotesSince \/ EndTick \/ UNCHANGED vars
            \/ DispatchFails \/ DispatchNote \/ Restart
  BY <1>2, <1>3, <1>4, <1>5, <1>6, <1>12, <1>13
<1>14. Goal
  <2>1. CASE \E s \in Streams, v \in Verbs \cup {"none"} : PersonWrites(s, v)
    BY <1>1, <2>1
  <2>2. CASE \E v \in Verbs : Control(v)
    BY <1>7, <2>2
  <2>3. CASE \E c \in Callers : Handle(c) \/ SaysMore(c) \/ Store(c) \/ CallFails(c)
    BY <1>11, <2>3
  <2> QED
    BY <1>13, <2>1, <2>2, <2>3 DEF Next, Goal
<1> QED
  BY <1>14 DEF Goal

\* A note that has reached resume is not dispatched again, in any number of ticks,
\* as long as no callback overlaps another or is cut short.
THEOREM NotesAreHandledOnce == Spec => HandledOnce
<1>1. Init => CursorsInv /\ TickInv /\ CoverInv
  <2>1. Init => TickInv /\ CoverInv
    BY OneInit DEF Init, TickInv, CoverInv, Covers, Callers
  <2> QED
    BY <2>1, LossInit DEF LossInv
<1>2. TypeOK /\ CursorsInv /\ OneInv /\ TickInv /\ CoverInv /\ [Next]_vars
        => TypeOK' /\ CursorsInv' /\ OneInv' /\ TickInv' /\ CoverInv'
  BY TypeStep, CursorsStep, OneStep, TickStep, CoverStep
<1>3. ASSUME TypeOK, OneInv, CoverInv, [Next]_vars
      PROVE  [DispatchNote /\ ~torn' => \E n \in queue : n \notin taken /\ n \in taken']_vars
  <2>1. ASSUME DispatchNote, ~torn'
        PROVE  \E n \in queue : n \notin taken /\ n \in taken'
    <3>1. PICK n \in NextNotes : taken' = taken \cup {n}
      BY <2>1 DEF DispatchNote
    <3>2. n \in queue /\ queue \cap taken = {}
      BY <1>3, <2>1, WholeStep DEF NextNotes, CoverInv
    <3> QED
      BY <3>1, <3>2
  <2> QED
    BY <2>1
<1> QED
  BY <1>1, <1>2, <1>3, TypeInit, OneInit, PTL DEF Spec, HandledOnce

=============================================================================
