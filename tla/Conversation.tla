---------------------------- MODULE Conversation ----------------------------
(***************************************************************************)
(* The conversation on the MR of a Run in poll mode.  People write notes   *)
(* in one of several streams, whose ids are sequences of their own; the    *)
(* poller lists what is past the record's cursors and dispatches it, lowest*)
(* id first; a callback answers under the author's own account, and the    *)
(* next tick must know its answers for echoes.  `syntropy` commands reach  *)
(* the same callback through the daemon's /control endpoint, beside it.    *)
(*                                                                         *)
(* A callback works on a copy of the record and stores it at its end,      *)
(* comparing nothing but the status.  The body of a note is what resume    *)
(* makes of it: a comment ("none"), one of the author's verbs, or the      *)
(* daemon's own k-th comment, whose hash is k.                             *)
(***************************************************************************)
EXTENDS Naturals, Sequences, FiniteSets

CONSTANTS
    Streams,        \* the provider's note streams
    MainStream,     \* the one PostComment writes to
    FirstID,        \* per stream, the id its first note comes after
    Inline,         \* streams whose notes carry a DiscussionID
    ThreadsAnswer,  \* ReplyToDiscussion takes that DiscussionID
    NewestFirst,    \* a page holds the newest notes (GitLab), not the oldest (GitHub)
    PageSize,       \* notes per stream that one listing returns
    RingCap,        \* recentOutgoingHashCap
    Verbs,          \* the author's verbs that are looked at
    PostsFail,      \* the provider may refuse a comment
    MaxNotes,       \* bound: notes people write
    MaxReplies,     \* bound: comments of the daemon
    MaxMeddling     \* bound: /control calls, restarts, failed dispatches and callbacks

ASSUME ConversationAssumption ==
    /\ MainStream \in Streams /\ Inline \subseteq Streams
    /\ FirstID \in [Streams -> Nat]
    /\ {ThreadsAnswer, NewestFirst, PostsFail} \subseteq BOOLEAN
    /\ PageSize \in Nat /\ RingCap \in Nat \ {0}
    /\ Verbs \subseteq {"pause", "resume", "prompt", "status", "freeform"}
    /\ {MaxNotes, MaxReplies, MaxMeddling} \subseteq Nat

Callers == {"poller", "control"}
Bodies  == [verb : Verbs \cup {"none"}, hash : Nat]
Records == [status : {"AwaitingMerge", "Paused"}, legacy : Nat,
            cursor : [Streams -> Nat],  \* LastSeenNoteIDsByStream, 0 for no entry
            hashes : Seq(Nat), prompt : BOOLEAN]
Cursors == [legacy : Nat, cursor : [Streams -> Nat]]
NewCursors == [legacy |-> 0, cursor |-> [s \in Streams |-> 0]]
NewRecord == [status |-> "AwaitingMerge", legacy |-> 0, cursor |-> [s \in Streams |-> 0],
              hashes |-> <<>>, prompt |-> FALSE]

\* A task is a body and the stream it came from, MainStream for /control.
Tasks  == [body : Bodies, stream : Streams]
NoTask == [body |-> [verb |-> "none", hash |-> 0], stream |-> MainStream]

VARIABLES
    notes,    \* per stream, what the MR shows
    rec,      \* the Run's record
    tick,     \* pollRun: "idle", "begun" with a snapshot, "listed"
    since,    \* its snapshot of the record's cursors
    queue,    \* the notes it has listed and not dispatched
    phase,    \* per caller: "idle", "handling" or "storing" its callback
    task,     \* what that callback was called with
    copy,     \* the record it works on
    from,     \* the status it was called in
    replies,  \* comments the daemon has made so far
    meddling,
    \* History, read by no action:
    taken,    \* notes that reached resume
    skipped,  \* notes whose dispatch failed
    torn,     \* callbacks have overlapped, or one was cut short
    owed      \* the latest prompt: "no" such, "yes" it is owed to the runner, "dropped"

pollVars == <<tick, since, queue>>
callVars == <<phase, task, copy, from>>
history  == <<taken, skipped, torn, owed>>
vars     == <<notes, rec, pollVars, callVars, replies, meddling, history>>

Written   == UNION {{s} \X (1..Len(notes[s])) : s \in Streams}
BodyOf(n) == notes[n[1]][n[2]]
IDOf(n)   == FirstID[n[1]] + n[2]
Active    == {c \in Callers : phase[c] # "idle"}

\* The variables have their types, and no record outgrows its ring of hashes.
TypeOK ==
    /\ notes \in [Streams -> Seq(Bodies)]
    /\ rec \in Records /\ since \in Cursors
    /\ tick \in {"idle", "begun", "listed"}
    /\ queue \subseteq Written
    /\ phase \in [Callers -> {"idle", "handling", "storing"}]
    /\ task \in [Callers -> Tasks] /\ copy \in [Callers -> Records]
    /\ \A x \in {rec} \cup {copy[c] : c \in Callers} : Len(x.hashes) <= RingCap
    /\ from \in [Callers -> {"AwaitingMerge", "Paused"}]
    /\ replies \in Nat /\ meddling \in Nat
    /\ taken \subseteq Written /\ skipped \subseteq Written
    /\ torn \in BOOLEAN /\ owed \in {"no", "yes", "dropped"}

\* The MR has just been opened, and the daemon has said so, or has tried to.
Init ==
    /\ \E first \in {<<>>, <<[verb |-> "none", hash |-> 1]>>} :
         /\ first = <<>> => PostsFail
         /\ notes = [s \in Streams |-> IF s = MainStream THEN first ELSE <<>>]
    /\ rec = [NewRecord EXCEPT !.hashes = <<1>>] /\ since = NewCursors
    /\ tick = "idle" /\ queue = {}
    /\ phase = [c \in Callers |-> "idle"]
    /\ task = [c \in Callers |-> NoTask]
    /\ copy = [c \in Callers |-> NewRecord]
    /\ from = [c \in Callers |-> "AwaitingMerge"]
    /\ replies = 1 /\ meddling = 0
    /\ taken = {} /\ skipped = {} /\ torn = FALSE /\ owed = "no"

-----------------------------------------------------------------------------
(* People. *)

PersonWrites(s, v) ==
    /\ Cardinality({n \in Written : BodyOf(n).hash = 0}) < MaxNotes         \* bound
    /\ notes' = [notes EXCEPT ![s] = Append(@, [verb |-> v, hash |-> 0])]
    /\ UNCHANGED <<rec, pollVars, callVars, replies, meddling, history>>

-----------------------------------------------------------------------------
(* A tick of the poller: snapshot, listing, one dispatch after the other. *)

\* Mutated form of BeginTick: a paused Run is not polled.
BeginTickUnlessPaused ==
    /\ tick = "idle" /\ rec.status # "Paused"
    /\ tick' = "begun" /\ since' = [legacy |-> rec.legacy, cursor |-> rec.cursor]
    /\ UNCHANGED <<notes, rec, queue, callVars, replies, meddling, history>>

\* decodeActiveRun copies the cursors of every active Run before the first is polled.
BeginTick ==
    /\ tick = "idle"
    /\ tick' = "begun" /\ since' = [legacy |-> rec.legacy, cursor |-> rec.cursor]
    /\ UNCHANGED <<notes, rec, queue, callVars, replies, meddling, history>>

\* Mutated form of Threshold: the legacy scalar is the floor of every stream
\* without an entry.
LegacyThreshold(x, s) == IF x.cursor[s] # 0 THEN x.cursor[s] ELSE x.legacy

\* Where a stream is listed from: its own cursor, or the legacy scalar as long
\* as no stream has one.
Threshold(x, s) ==
    IF x.cursor[s] # 0 \/ \E t \in Streams : x.cursor[t] # 0 THEN x.cursor[s] ELSE x.legacy

\* The notes of a stream that one listing returns.
OnPage(n) ==
    IF NewestFirst THEN n[2] + PageSize > Len(notes[n[1]]) ELSE n[2] <= PageSize

ListNotesSince ==
    /\ tick = "begun"
    /\ tick' = "listed"
    /\ queue' = {n \in Written : OnPage(n) /\ IDOf(n) > Threshold(since, n[1])}
    /\ since' = NewCursors
    /\ UNCHANGED <<notes, rec, callVars, replies, meddling, history>>

\* An error of GetMRState or ListNotesSince, or the last note dispatched.
EndTick ==
    /\ \/ tick = "begun"
       \/ tick = "listed" /\ queue = {} /\ phase["poller"] = "idle"
    /\ tick' = "idle" /\ since' = NewCursors
    /\ UNCHANGED <<notes, rec, queue, callVars, replies, meddling, history>>

\* Mutated form of NextNotes: the streams one after the other, as listed.
NextNotesAsListed == queue

\* The notes are sorted by id; two streams may use the same one.
NextNotes == {n \in queue : \A m \in queue : IDOf(n) <= IDOf(m)}

\* Lookup of the record fails, or its status changed before the callback read
\* it.  The poller logs that and goes on with the next note.
DispatchFails ==
    /\ phase["poller"] = "idle" /\ meddling < MaxMeddling
    /\ \E n \in NextNotes :
         /\ queue' = queue \ {n}
         /\ skipped' = skipped \cup {n}
    /\ meddling' = meddling + 1
    /\ UNCHANGED <<notes, rec, tick, since, callVars, replies, taken, torn, owed>>

-----------------------------------------------------------------------------
(* The callback (resume). *)

Larger(i, j) == IF i > j THEN i ELSE j

\* Both watermarks of the note's MR, advanced before anything else is looked at.
Watermarked(n) ==
    [rec EXCEPT !.legacy = Larger(@, IDOf(n)), !.cursor[n[1]] = Larger(@, IDOf(n))]

\* isOwnEcho
IsOwnEcho(x, body) == \E i \in DOMAIN x.hashes : x.hashes[i] = body.hash

\* A paused Run answers commands only; an echo has no effect in any status.
Answers(x, body) ==
    /\ ~IsOwnEcho(x, body)
    /\ body.verb # "none" \/ x.status # "Paused"

\* The callback reads the record; what it will store is x so far.
Begin(c, t, x) ==
    /\ phase[c] = "idle"
    /\ phase' = [phase EXCEPT ![c] = IF Answers(x, t.body) THEN "handling" ELSE "storing"]
    /\ task'  = [task EXCEPT ![c] = t]
    /\ copy'  = [copy EXCEPT ![c] = x]
    /\ from'  = [from EXCEPT ![c] = rec.status]
    /\ torn'  = (torn \/ Active # {})

\* Mutated form of DispatchNote: an echo is dropped before the watermarks move.
DispatchNoteEchoFirst ==
    \E n \in NextNotes :
        /\ Begin("poller", [body |-> BodyOf(n), stream |-> n[1]],
                 IF IsOwnEcho(rec, BodyOf(n)) THEN rec ELSE Watermarked(n))
        /\ queue' = queue \ {n}
        /\ taken' = taken \cup {n}
        /\ UNCHANGED <<notes, rec, tick, since, replies, meddling, skipped, owed>>

DispatchNote ==
    \E n \in NextNotes :
        /\ Begin("poller", [body |-> BodyOf(n), stream |-> n[1]], Watermarked(n))
        /\ queue' = queue \ {n}
        /\ taken' = taken \cup {n}
        /\ UNCHANGED <<notes, rec, tick, since, replies, meddling, skipped, owed>>

\* /control's note has no id and no stream, and moves no watermark.
Control(v) ==
    /\ meddling < MaxMeddling                                             \* bound
    /\ meddling' = meddling + 1
    /\ Begin("control", [body |-> [verb |-> v, hash |-> 0], stream |-> MainStream], rec)
    /\ UNCHANGED <<notes, rec, pollVars, replies, taken, skipped, owed>>

\* Mutated form of Remember: the ring is full one comment early.
RememberOneLess(hashes) ==
    LET h == Append(hashes, replies + 1)
    IN IF Len(h) >= RingCap THEN Tail(h) ELSE h

\* The ring with the next comment's hash on it.
Remember(hashes) ==
    LET h == Append(hashes, replies + 1)
    IN IF Len(h) > RingCap THEN Tail(h) ELSE h

\* Where the answer to a task appears: in its thread, if it came from one and
\* the provider knows the thread by that identifier, or at the top level.
Lands(t) == IF t.stream \in Inline
            THEN IF ThreadsAnswer THEN {t.stream} ELSE {}
            ELSE {MainStream}

\* postBotReply: the hash goes on the copy, then the comment goes out; whether
\* it arrives is not looked at.
Say(c, x) ==
    /\ copy' = [copy EXCEPT ![c] = [x EXCEPT !.hashes = Remember(@)]]
    /\ replies' = replies + 1
    /\ \/ \E s \in Lands(task[c]) :
            notes' = [notes EXCEPT ![s] = Append(@, [verb |-> "none", hash |-> replies + 1])]
       \/ (PostsFail \/ Lands(task[c]) = {}) /\ UNCHANGED notes

\* Nothing is said, or the bound on comments is reached.
Silent(c, x) == copy' = [copy EXCEPT ![c] = x] /\ UNCHANGED <<notes, replies>>

SayIfPossible(c, x) == IF replies < MaxReplies THEN Say(c, x) ELSE Silent(c, x)

ToStore(c) ==
    /\ phase[c] = "handling"
    /\ phase' = [phase EXCEPT ![c] = "storing"]
    /\ UNCHANGED <<rec, pollVars, task, from, meddling, taken, skipped, torn>>

\* cmdPause, cmdResume, cmdPrompt and cmdStatus: each answers.
Command(c) ==
    LET v == task[c].body.verb
        x == copy[c]
    IN /\ v \in {"pause", "resume", "prompt", "status"}
       /\ SayIfPossible(c, CASE v = "pause"  -> [x EXCEPT !.status = "Paused"]
                             [] v = "resume" -> [x EXCEPT !.status = "AwaitingMerge"]
                             [] v = "prompt" -> [x EXCEPT !.prompt = TRUE]
                             [] v = "status" -> x)
       /\ owed' = IF v = "prompt" THEN "yes" ELSE owed
       /\ ToStore(c)

\* The filter takes the comment for chatter, or pauses the Run without a word.
FilterSettles(c) ==
    /\ task[c].body.verb = "none"
    /\ \E st \in {"AwaitingMerge", "Paused"} : Silent(c, [copy[c] EXCEPT !.status = st])
    /\ UNCHANGED owed
    /\ ToStore(c)

\* cmdFreeform puts its text in the prompt's only slot, then calls invokeForEvent.
Invoked(c) ==
    IF task[c].body.verb = "freeform" THEN [copy[c] EXCEPT !.prompt = TRUE] ELSE copy[c]

\* SyncWithBase fails: the Run is parked before the prompt is read.
SyncFails(c) ==
    /\ task[c].body.verb \in {"none", "freeform"}
    /\ SayIfPossible(c, [Invoked(c) EXCEPT !.status = "Paused"])
    /\ owed' = IF task[c].body.verb = "freeform" THEN "yes" ELSE owed
    /\ ToStore(c)

\* The prompt is read and cleared before the check that stops the call.
IsolationFails(c) ==
    /\ task[c].body.verb \in {"none", "freeform"}
    /\ SayIfPossible(c, [Invoked(c) EXCEPT !.status = "Paused", !.prompt = FALSE])
    /\ owed' = IF Invoked(c).prompt THEN "dropped" ELSE owed
    /\ ToStore(c)

\* Mutated form of Invoke: the prompt is left in its slot.
InvokeKeepingPrompt(c) ==
    /\ task[c].body.verb \in {"none", "freeform"}
    /\ \E st \in {"AwaitingMerge", "Paused"} :
         LET x == [Invoked(c) EXCEPT !.status = st]
         IN \/ SayIfPossible(c, x)
            \/ st = "AwaitingMerge" /\ Silent(c, x)
    /\ owed' = IF Invoked(c).prompt THEN "no" ELSE owed
    /\ ToStore(c)

\* The runner is called and gets the prompt; every pause is announced.
Invoke(c) ==
    /\ task[c].body.verb \in {"none", "freeform"}
    /\ \E st \in {"AwaitingMerge", "Paused"} :
         LET x == [Invoked(c) EXCEPT !.status = st, !.prompt = FALSE]
         IN \/ SayIfPossible(c, x)
            \/ st = "AwaitingMerge" /\ Silent(c, x)
    /\ owed' = IF Invoked(c).prompt THEN "no" ELSE owed
    /\ ToStore(c)

\* A turn may say something on the side: a full phrase list, a thread that
\* could not be resolved.
SaysMore(c) ==
    /\ phase[c] = "handling" /\ task[c].body.verb \in {"none", "freeform"}
    /\ replies < MaxReplies                                                \* bound
    /\ Say(c, copy[c])
    /\ UNCHANGED <<rec, pollVars, phase, task, from, meddling, history>>

Idle(c) ==
    /\ phase' = [phase EXCEPT ![c] = "idle"]
    /\ task' = [task EXCEPT ![c] = NoTask]
    /\ copy' = [copy EXCEPT ![c] = NewRecord]
    /\ from' = [from EXCEPT ![c] = "AwaitingMerge"]

\* The library stores the copy if the record's status is still the one the
\* callback was called in, and drops it otherwise.
Store(c) ==
    /\ phase[c] = "storing"
    /\ rec' = IF rec.status = from[c] THEN copy[c] ELSE rec
    /\ Idle(c)
    /\ UNCHANGED <<notes, pollVars, replies, meddling, history>>

\* resume or Store returns an error: nothing is stored.
CallFails(c) ==
    /\ phase[c] # "idle" /\ meddling < MaxMeddling                             \* bound
    /\ meddling' = meddling + 1
    /\ torn' = TRUE
    /\ Idle(c)
    /\ UNCHANGED <<notes, rec, pollVars, replies, taken, skipped, owed>>

\* The daemon stops, with whatever it was doing, and is started again.
Restart ==
    /\ meddling < MaxMeddling                                                  \* bound
    /\ meddling' = meddling + 1
    /\ torn' = (torn \/ Active # {})
    /\ tick' = "idle" /\ queue' = {} /\ since' = NewCursors
    /\ phase' = [c \in Callers |-> "idle"]
    /\ task' = [c \in Callers |-> NoTask]
    /\ copy' = [c \in Callers |-> NewRecord]
    /\ from' = [c \in Callers |-> "AwaitingMerge"]
    /\ UNCHANGED <<notes, rec, replies, taken, skipped, owed>>

-----------------------------------------------------------------------------
Handle(c) == Command(c) \/ FilterSettles(c) \/ SyncFails(c) \/ IsolationFails(c) \/ Invoke(c)

Next ==
    \/ \E s \in Streams, v \in Verbs \cup {"none"} : PersonWrites(s, v)
    \/ BeginTick \/ ListNotesSince \/ EndTick
    \/ DispatchNote \/ DispatchFails
    \/ \E v \in Verbs : Control(v)
    \/ \E c \in Callers : Handle(c) \/ SaysMore(c) \/ Store(c) \/ CallFails(c)
    \/ Restart

\* The ticker ticks, a listing that fails works some day, a callback comes to
\* its end.  People and /control owe nothing.
Fairness ==
    /\ WF_vars(BeginTick) /\ WF_vars(EndTick) /\ SF_vars(ListNotesSince)
    /\ WF_vars(DispatchNote)
    /\ \A c \in Callers : WF_vars(Handle(c)) /\ WF_vars(Store(c))

Spec == Init /\ [][Next]_vars /\ Fairness

-----------------------------------------------------------------------------
(* Properties. *)

\* No note is lost: one that has not reached resume is past the cursor its
\* stream is listed from, so that a later tick lists it, whatever callbacks
\* overlap, fail or are cut short (ListNotesSince's threshold, the order of
\* its result, resume's watermarks).  Two exceptions: a note whose own dispatch
\* failed, which the next note's watermark passes; and GitLab's page, which
\* drops the oldest of too many new notes.
NoNoteLost ==
    NewestFirst \/ \A n \in Written :
        n \in taken \cup skipped \/ IDOf(n) > Threshold(rec, n[1])

\* A note that has reached resume does not reach it again, as long as no
\* callback overlaps another or is cut short (resume's watermarks move before
\* the echo check, and are stored with the record).
HandledOnce ==
    [][DispatchNote /\ ~torn' => \E n \in queue : n \notin taken /\ n \in taken']_vars

\* Nor does the daemon answer itself: a comment of its own is known for an echo
\* (postBotReply, isOwnEcho), unless the ring has been filled since it was made.
BotIsNotAnswered ==
    \A c \in Callers : phase[c] = "handling" /\ task[c].body.hash > 0
        => torn \/ replies - task[c].body.hash >= RingCap

\* The record as the callback under way, if there is one, has changed it.
Current == IF Active = {} THEN {rec} ELSE {copy[c] : c \in Active}

\* A prompt that was acknowledged waits in its slot until a runner is called
\* with it, and is used once (cmdPrompt, cmdFreeform, invokeForEvent); the
\* isolation check alone takes one without a call.
PromptReachesRunner == torn \/ \A x \in Current : x.prompt <=> owed = "yes"

\* People stop writing (MaxNotes), and every note on a page has reached resume
\* in the end, unless its own dispatch failed.
EveryNoteArrives ==
    <>[](\A n \in Written : ~NewestFirst /\ n[2] <= PageSize => n \in taken \cup skipped)
=============================================================================
