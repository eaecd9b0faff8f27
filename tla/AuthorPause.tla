----------------------------- MODULE AuthorPause -----------------------------
(***************************************************************************)
(* A polled Run, and who asked for its pause: PolledSweep with a history   *)
(* variable, which no action reads.  pauseReason itself cannot tell, as    *)
(* handleProviderAuthEvent writes over whatever reason is there.           *)
(***************************************************************************)
EXTENDS PolledSweep

VARIABLE
    asked      \* the author's last word was a pause

avars == <<pvars, asked>>

AskedTypeOK == asked \in BOOLEAN

AskedInit == PolledInit /\ asked = FALSE

\* The author speaks: at /control, in a note, or at the command line.
AuthorSpeaks ==
    \/ Control \/ CommandLine
    \/ \E u \in Units, ev \in Notes : ev.body \in Verbs /\ PollNote(u, ev)

\* Everything else, a note that is not the author's included.
OthersMove ==
    \/ BeginTick \/ PollUnauthorized \/ EndTick
    \/ \E u \in Units : PollError(u) \/ PollState(u) \/ PollDone(u)
    \/ \E u \in Units, ev \in Notes : ev.body \notin Verbs /\ PollNote(u, ev)
    \/ RunAlone \/ TokenExpires \/ TokenRefreshed \/ DaemonRestarts

AskedNext ==
    \/ AuthorSpeaks /\ asked' = (status' = "Paused" /\ pauseReason' = "author")
    \/ OthersMove /\ UNCHANGED asked

AskedSpec == AskedInit /\ [][AskedNext]_avars /\ Fairness

-----------------------------------------------------------------------------
(* Properties. *)

\* A Run its author paused stays paused until its author speaks again: the pause for
\* expired credentials is told apart from it when they are valid again
\* (handleProviderAuthEvent, workflow.go:1480-1492).
AuthorsPauseHolds == asked => status = "Paused"

\* It does for as long as the token has not expired since the Run began, whatever the
\* poller's stale snapshots, failing ticks, late events and restarts bring to it.
HoldsWhileTokenDoes == expiries = 0 => AuthorsPauseHolds
=============================================================================
