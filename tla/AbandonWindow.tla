---------------------------- MODULE AbandonWindow ----------------------------
(***************************************************************************)
(* `/syntropy abandon` takes two taps.  The first opens a window of twelve *)
(* hours, a second one in it cancels the Run and closes its MRs, anything  *)
(* else closes the window.  The window's end is a row of the `timeouts`    *)
(* table, which nobody removes when the window closes before its time: the *)
(* library inserts a row for every event that finds the Run in the window, *)
(* and looks at rows that are due, whatever became of their window.        *)
(*                                                                         *)
(* A note of the MR is a tap, other activity, or an echo: a comment of the *)
(* daemon whose hash is in the record.  A comment is other activity until  *)
(* the callback that made it has stored that hash, and for ever if it does *)
(* not.  How the poller finds notes is Conversation's; here any unread one *)
(* may come next.  AwaitingMerge stands for Paused too, where a tap does   *)
(* the same.                                                               *)
(***************************************************************************)
EXTENDS Naturals, Sequences

CONSTANTS
    Window,     \* the twelve hours, in ticks of the clock
    MaxNotes,   \* bound: notes people write, and /control calls
    MaxFaults   \* bound: restarts, callbacks that fail, events delivered twice

ASSUME WindowAssumption ==
    Window \in Nat \ {0} /\ MaxNotes \in Nat /\ MaxFaults \in Nat

Callers  == {"poller", "control", "timer"}
Inputs   == {"tap", "other"}
Notes    == Inputs \cup {"echo"}
Statuses == {"AwaitingMerge", "AwaitingAbandonConfirm", "Cancelled"}

VARIABLES
    unread,     \* kinds of notes past the record's watermarks
    status,     \* of the Run's record
    phase,      \* per caller: "idle", "storing"; the timer also "removing" its row
    from,       \* the status a callback was called in
    to,         \* the one it will store
    task,       \* the note the poller has dispatched
    announced,  \* the event of the record's last write waits for the inserter
    rows,       \* timeouts of the Run: the time each has left, oldest first
    written, faults,
    \* History, read by no action:
    asked,      \* per kind, what people have written or told /control
    age,        \* of the window that is open, up to Window
    clean,      \* it was opened with no row left, and none being looked at
    torn        \* callbacks have overlapped, or one was cut short

callVars == <<phase, from, to, task>>
bounds   == <<written, faults>>
history  == <<asked, age, clean, torn>>
vars     == <<unread, status, callVars, announced, rows, bounds, history>>

InWindow(s) == s = "AwaitingAbandonConfirm"
Active == {c \in Callers : phase[c] # "idle"}

\* The variables have their types; rows are in the order in which they fall due,
\* and only a Run in the window waits for one.
TypeOK ==
    /\ unread \subseteq Notes /\ status \in Statuses
    /\ phase \in [Callers -> {"idle", "storing", "removing"}]
    /\ from \in [Callers -> Statuses] /\ to \in [Callers -> Statuses]
    /\ task \in Notes
    /\ announced \in BOOLEAN /\ (announced => InWindow(status))
    /\ rows \in Seq(0..Window)
    /\ \A i, j \in DOMAIN rows : i < j => rows[i] <= rows[j]
    /\ written \in Nat /\ faults \in Nat /\ asked \in [Inputs -> Nat]
    /\ age \in 0..Window /\ clean \in BOOLEAN /\ torn \in BOOLEAN

Init ==
    /\ unread = {} /\ status = "AwaitingMerge"
    /\ phase = [c \in Callers |-> "idle"]
    /\ from = [c \in Callers |-> "AwaitingMerge"]
    /\ to = [c \in Callers |-> "AwaitingMerge"]
    /\ task = "echo"
    /\ announced = FALSE /\ rows = <<>> /\ written = 0 /\ faults = 0
    /\ asked = [i \in Inputs |-> 0] /\ age = 0 /\ clean = FALSE /\ torn = FALSE

-----------------------------------------------------------------------------
(* The callback. *)

\* Mutated form of Goes: the window is looked at before the echo.
GoesWindowFirst(note) ==
    CASE InWindow(status) -> IF note = "tap" THEN "Cancelled" ELSE "AwaitingMerge"
      [] ~InWindow(status) -> IF note = "tap" THEN "AwaitingAbandonConfirm" ELSE status

\* Where resume sends the Run: an echo has no effect in any status, then come
\* cmdAbandon's two taps and dropAbandonConfirm; other activity outside the
\* window goes to the turn of Conversation, which does not concern it.
Goes(note) ==
    CASE note = "echo" -> status
      [] note = "tap" -> IF InWindow(status) THEN "Cancelled" ELSE "AwaitingAbandonConfirm"
      [] note = "other" -> IF InWindow(status) THEN "AwaitingMerge" ELSE status

\* Caller c reads the record and does all that leads to status s, but for the
\* store.  Whatever changes the status comments on the MR.
Reads(c, s) ==
    /\ phase[c] = "idle"
    /\ phase' = [phase EXCEPT ![c] = "storing"]
    /\ from' = [from EXCEPT ![c] = status]
    /\ to' = [to EXCEPT ![c] = s]
    /\ torn' = (torn \/ Active # {})
    /\ UNCHANGED <<unread, status, announced, rows, faults, age, clean>>

Commented(c) == phase[c] = "storing" /\ to[c] # from[c]

\* An unread note, or a comment of somebody who has not stored its hash yet.
DispatchNote ==
    /\ status # "Cancelled"
    /\ \E note \in unread \cup {n \in {"other"} : \E c \in Callers : Commented(c)} :
         /\ Reads("poller", Goes(note))
         /\ task' = note
    /\ UNCHANGED <<written, asked>>

\* One more note, or call of /control, by a person.
Counted(input) ==
    /\ written < MaxNotes                                                 \* bound
    /\ written' = written + 1
    /\ asked' = [asked EXCEPT ![input] = @ + 1]

Control(input) ==
    /\ status # "Cancelled"
    /\ Counted(input)
    /\ Reads("control", Goes(input))
    /\ UNCHANGED task

PersonWrites(input) ==
    /\ Counted(input)
    /\ unread' = unread \cup {input}
    /\ UNCHANGED <<status, callVars, announced, rows, faults, age, clean, torn>>

\* The callbacks of cs have nothing more to do, or will not come to do it.
Idle(cs, after) ==
    /\ phase' = [c \in Callers |-> IF c \in cs THEN after ELSE phase[c]]
    /\ from'  = [c \in Callers |-> IF c \in cs THEN "AwaitingMerge" ELSE from[c]]
    /\ to'    = [c \in Callers |-> IF c \in cs THEN "AwaitingMerge" ELSE to[c]]
    /\ task'  = IF "poller" \in cs THEN "echo" ELSE task

\* The comments that will never be known for echoes.
Strangers(cs) == {n \in {"other"} : \E c \in cs : Commented(c)}

\* Mutated form of StillUnread: the watermark is not part of the record.
UnreadAfterwards(c) == unread

\* The watermark of the poller's note is stored with the record.
StillUnread(c) == IF c = "poller" THEN unread \ {task} ELSE unread

\* Stored if the status is still the one the callback was called in.  The
\* write announces itself to the inserter, and outdates what was announced.
Store(c) ==
    LET opens == ~InWindow(status) /\ InWindow(to[c])
        shuts == ~InWindow(to[c])
    IN /\ phase[c] = "storing"
       /\ IF status = from[c]
          THEN /\ status' = to[c]
               /\ unread' = StillUnread(c) \cup {n \in {"echo"} : Commented(c)}
               /\ announced' = InWindow(to[c])
               /\ age' = IF opens \/ shuts THEN 0 ELSE age
               /\ clean' = IF opens THEN rows = <<>> /\ phase["timer"] = "idle"
                           ELSE clean /\ ~shuts
          ELSE /\ unread' = unread \cup Strangers({c})
               /\ UNCHANGED <<status, announced, age, clean>>
       /\ Idle({c}, IF c = "timer" THEN "removing" ELSE "idle")
       /\ UNCHANGED <<rows, bounds, asked, torn>>

-----------------------------------------------------------------------------
(* The rows. *)

Tick ==
    /\ \/ InWindow(status) /\ age < Window
       \/ \E i \in DOMAIN rows : rows[i] > 0
    /\ rows' = [i \in DOMAIN rows |-> IF rows[i] > 0 THEN rows[i] - 1 ELSE 0]
    /\ age' = IF InWindow(status) /\ age < Window THEN age + 1 ELSE age
    /\ UNCHANGED <<unread, status, callVars, announced, bounds, asked, clean, torn>>

\* Create, with the expiry the timer function asks for.
WithRow == Append(rows, Window)

\* The inserter makes a row and acknowledges its event; an event that is not
\* acknowledged comes again.
Insert ==
    /\ announced
    /\ rows' = WithRow
    /\ \/ announced' = FALSE /\ UNCHANGED faults
       \/ faults < MaxFaults /\ faults' = faults + 1 /\ UNCHANGED announced       \* bound
    /\ UNCHANGED <<unread, status, callVars, written, history>>

\* Mutated form of IsDue: any row that has not been used.
IsDueAnyTime == rows # <<>>

\* ListValid, whose first row is the oldest.
IsDue == rows # <<>> /\ Head(rows) = 0

\* A row is due: outside the window it is only removed, inside it ends the
\* window, with a comment.
TimerReads ==
    /\ IsDue
    /\ \/ InWindow(status) /\ Reads("timer", "AwaitingMerge")
       \/ /\ ~InWindow(status) /\ phase["timer"] = "idle"
          /\ phase' = [phase EXCEPT !["timer"] = "removing"]
          /\ UNCHANGED <<unread, status, from, to, announced, rows, faults, age, clean, torn>>
    /\ UNCHANGED <<task, written, asked>>

\* Mutated form of WithoutRow: by Run, not by row.
WithoutRowsOfRun == <<>>

\* Complete and Cancel: either way the row is never listed again.
WithoutRow == Tail(rows)

RemoveRow ==
    /\ phase["timer"] = "removing"
    /\ rows' = WithoutRow
    /\ phase' = [phase EXCEPT !["timer"] = "idle"]
    /\ UNCHANGED <<unread, status, from, to, task, announced, bounds, history>>

-----------------------------------------------------------------------------
\* A callback or the timer fails, or the daemon stops and is started again.  The
\* tables stay.
Fail(cs) ==
    /\ cs # {} /\ faults < MaxFaults                                      \* bound
    /\ faults' = faults + 1
    /\ torn' = TRUE
    /\ Idle(cs, "idle")
    /\ unread' = unread \cup Strangers(cs)
    /\ UNCHANGED <<status, announced, rows, written, asked, age, clean>>

Next ==
    \/ \E i \in Inputs : PersonWrites(i) \/ Control(i)
    \/ DispatchNote
    \/ \E c \in Callers : Store(c)
    \/ \E c \in Active : Fail({c})
    \/ Fail(Active)
    \/ Tick \/ Insert \/ TimerReads \/ RemoveRow

\* The clock runs, so do the library's inserter and its poll of the timeouts,
\* and a callback ends.
Fairness ==
    /\ WF_vars(Tick) /\ WF_vars(Insert) /\ WF_vars(TimerReads) /\ WF_vars(RemoveRow)
    /\ \A c \in Callers : WF_vars(Store(c))

Spec == Init /\ [][Next]_vars /\ Fairness

-----------------------------------------------------------------------------
(* Properties. *)

Closes(c) == Store(c) /\ InWindow(status) /\ ~InWindow(status')

\* One tap never cancels a Run, however often callbacks overlap, fail or are
\* repeated (resume's watermark, stored with the status; cmdAbandon).
OneTapNeverCancels == status = "Cancelled" => asked["tap"] >= 2

\* If people do nothing but tap, no callback takes the Run out of the window but
\* to cancel it: the daemon's own question for the second tap does not, unless
\* callbacks overlap or are cut short (resume looks for echoes first).
QuestionKeepsWindow ==
    [][Closes("poller") /\ asked["other"] = 0 => torn \/ status' = "Cancelled"]_vars

\* The clock does not close a window before its time, if the window was opened
\* when no row of an earlier one was left (Create's expiry, ListValid).
CleanWindowIsWhole == [][Closes("timer") /\ clean => age = Window]_vars

\* Whenever the window is open, the clock can still close it: there is a row that is not
\* being removed on behalf of an earlier window, or one is about to be made (resume's
\* store announces every event that finds the Run in the window, Complete is by row).
WindowIsTimed ==
    InWindow(status) => announced \/ \E i \in DOMAIN rows : i > 1 \/ phase["timer"] # "removing"

\* A window is closed in the end: it has a row of its own, whatever becomes of
\* the rows of others (the inserter, Complete, Cancel).
WindowCloses == InWindow(status) ~> ~InWindow(status)
=============================================================================
