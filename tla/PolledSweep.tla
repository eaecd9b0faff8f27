---------------------------- MODULE PolledSweep ----------------------------
(***************************************************************************)
(* A Run of RefactorSweep in poll mode (the default): its events come from *)
(* internal/poller, which walks the Run's in-flight MRs at every tick, and *)
(* from the daemon's localhost /control endpoint, both through main.go's   *)
(* dispatcher.                                                             *)
(*                                                                         *)
(* A tick is not one step: it polls one MR after the other and dispatches  *)
(* as it goes, working from a snapshot of the Run taken when it began,     *)
(* while the Run's own steps, the author and the reviewers move on.  The   *)
(* count of authentication failures lives in the daemon's memory.          *)
(***************************************************************************)
EXTENDS RefactorSweep

CONSTANTS
    MaxExpiries,  \* bound: times the provider token expires
    MaxRestarts,  \* bound: times the daemon is restarted
    MaxLost       \* bound: authentication events whose dispatch fails

ASSUME PolledAssumption == MaxExpiries \in Nat /\ MaxRestarts \in Nat /\ MaxLost \in Nat

VARIABLES
    ticking,       \* a pollRun call is under way
    toPoll,        \* the units of its snapshot it has not polled yet
    seenStates,    \* its snapshot of LastMRStates
    hadAuthErr,
    authFailures,  \* authBackoff[run].failures: 0, 1, or 2 for more
    tokenValid,    \* the provider accepts the token
    expiries, restarts,
    lost           \* authentication events that were dispatched in vain

tickVars   == <<ticking, toPoll, seenStates, hadAuthErr>>
daemonVars == <<authFailures, tokenValid, expiries, restarts, lost>>
pvars      == <<vars, tickVars, daemonVars>>

\* The poller's variables have their types.
PolledTypeOK ==
    /\ ticking \in BOOLEAN
    /\ toPoll \subseteq Units
    /\ seenStates \in [Units -> {"none", "merged", "closed"}]
    /\ hadAuthErr \in BOOLEAN
    /\ authFailures \in 0..2
    /\ tokenValid \in BOOLEAN
    /\ expiries \in 0..MaxExpiries /\ restarts \in 0..MaxRestarts /\ lost \in 0..MaxLost

PolledInit ==
    /\ Init
    /\ ticking = FALSE /\ toPoll = {}
    /\ seenStates = [u \in Units |-> "none"]
    /\ hadAuthErr = FALSE
    /\ authFailures = 0
    /\ tokenValid = TRUE
    /\ expiries = 0 /\ restarts = 0 /\ lost = 0

-----------------------------------------------------------------------------
(* main.go's dispatcher and /control endpoint. *)

\* The callback registered for the status the record is in; none for the others.
Dispatch(ev) ==
    \/ status \in CallbackStatuses /\ Resume(ev)
    \/ status \notin CallbackStatuses /\ UNCHANGED vars

\* /control speaks as the author, about any in-flight MR, or MR 0 without one.
Control ==
    /\ \E ev \in Notes :
         /\ ev.body \in Verbs
         /\ IF inFlight = {} THEN ev.mr = NoUnit ELSE ev.mr \in inFlight
         /\ Dispatch(ev)
    /\ UNCHANGED <<tickVars, daemonVars>>

-----------------------------------------------------------------------------
(* One tick of the poller over the Run (pollRun). *)

\* A poll-mode Run that is not finished is polled while something is in flight.
Pollable == runState # "finished" /\ inFlight # {}

\* pollRun is left, and its locals with it.
NoTick ==
    /\ ticking' = FALSE /\ toPoll' = {} /\ hadAuthErr' = FALSE
    /\ seenStates' = [u \in Units |-> "none"]

\* Mutated form of BeginTick: only Runs in AwaitingMerge are polled.
BeginTickAwaitingMerge ==
    /\ ~ticking
    /\ status = "AwaitingMerge" /\ inFlight # {}
    /\ ticking' = TRUE
    /\ toPoll' = inFlight
    /\ seenStates' = lastMRStates
    /\ hadAuthErr' = FALSE
    /\ UNCHANGED <<vars, daemonVars>>

\* A tick reaches the Run, and its backoff has passed.
BeginTick ==
    /\ ~ticking
    /\ Pollable
    /\ ticking' = TRUE
    /\ toPoll' = inFlight
    /\ seenStates' = lastMRStates
    /\ hadAuthErr' = FALSE
    /\ UNCHANGED <<vars, daemonVars>>

Polled(u) == toPoll' = toPoll \ {u} /\ UNCHANGED <<ticking, seenStates, hadAuthErr>>

\* Mutated form of PollUnauthorized: every error is taken for a 401.
PollRefused ==
    /\ toPoll # {}
    /\ hadAuthErr' = TRUE
    /\ toPoll' = {}
    /\ UNCHANGED <<vars, ticking, seenStates, daemonVars>>

\* The first 401 ends the tick's polling.
PollUnauthorized ==
    /\ toPoll # {} /\ ~tokenValid
    /\ hadAuthErr' = TRUE
    /\ toPoll' = {}
    /\ UNCHANGED <<vars, ticking, seenStates, daemonVars>>

\* Any other error, the dispatcher's included, is logged, and the MR skipped.
PollError(u) ==
    /\ u \in toPoll
    /\ Polled(u)
    /\ UNCHANGED <<vars, daemonVars>>

\* Mutated form of MRStateEvents: an MR that is no longer open was merged.
MRStateEventsOfAny(u) ==
    {ev \in MREvents : ev.mr = u /\ ev.kind = "MRMerged" /\ mrState[u] # "opened"}

\* The events GetMRState's answer stands for.
MRStateEvents(u) ==
    {ev \in MREvents : /\ ev.mr = u
                       /\ \/ ev.kind = "MRMerged" /\ mrState[u] = "merged"
                          \/ ev.kind = "MRClosed" /\ mrState[u] = "closed"}

\* Mutated form of PollState: a closed MR raises no event.
PollStateOfMerged(u) ==
    /\ u \in toPoll /\ tokenValid
    /\ mrState[u] # seenStates[u]
    /\ \E ev \in MRStateEvents(u) : ev.kind = "MRMerged" /\ Dispatch(ev)
    /\ Polled(u)
    /\ UNCHANGED daemonVars

\* An MR that was merged or closed since LastMRStates was written: its event
\* is dispatched, and its notes are not listed.
PollState(u) ==
    /\ u \in toPoll /\ tokenValid
    /\ mrState[u] # seenStates[u]
    /\ \E ev \in MRStateEvents(u) : Dispatch(ev)
    /\ Polled(u)
    /\ UNCHANGED daemonVars

\* Nothing to dispatch about the MR's state: its notes are listed.
ListsNotes(u) ==
    /\ u \in toPoll /\ tokenValid
    /\ mrState[u] = seenStates[u] \/ MRStateEvents(u) = {}

PollNote(u, ev) ==
    /\ ListsNotes(u) /\ ev.mr = u
    /\ Dispatch(ev)
    /\ UNCHANGED <<tickVars, daemonVars>>

PollDone(u) ==
    /\ ListsNotes(u)
    /\ Polled(u)
    /\ UNCHANGED <<vars, daemonVars>>

AuthEvent(kind) == [kind |-> kind, mr |-> NoUnit, body |-> "none"]

\* Dispatched once: an error of the dispatcher (its lookup, the callback) is logged.
Announce(kind) ==
    \/ Dispatch(AuthEvent(kind)) /\ UNCHANGED lost
    \/ lost < MaxLost /\ lost' = lost + 1 /\ UNCHANGED vars              \* bound

\* The first failure is announced; later ones only stretch the backoff.
EndUnauthorized ==
    /\ hadAuthErr
    /\ authFailures' = IF authFailures = 0 THEN 1 ELSE 2
    /\ IF authFailures = 0 THEN Announce("ProviderAuthFailure") ELSE UNCHANGED <<vars, lost>>

\* Mutated form of EndClean: like the failure, the recovery is announced after one only.
EndCleanAfterOne ==
    /\ ~hadAuthErr
    /\ authFailures' = 0
    /\ IF authFailures = 1 THEN Announce("ProviderAuthRestored") ELSE UNCHANGED <<vars, lost>>

\* A tick without a 401 after failures, whatever its calls answered: they are
\* forgotten, and then the recovery is announced.
EndClean ==
    /\ ~hadAuthErr
    /\ authFailures' = 0
    /\ IF authFailures > 0 THEN Announce("ProviderAuthRestored") ELSE UNCHANGED <<vars, lost>>

EndTick ==
    /\ ticking /\ toPoll = {}
    /\ EndUnauthorized \/ EndClean
    /\ NoTick
    /\ UNCHANGED <<tokenValid, expiries, restarts>>

Poller ==
    \/ BeginTick
    \/ PollUnauthorized
    \/ \E u \in Units : PollError(u) \/ PollState(u) \/ PollDone(u)
    \/ \E u \in Units, ev \in Notes : PollNote(u, ev)
    \/ EndTick

-----------------------------------------------------------------------------
(* The daemon and the provider's token. *)

TokenExpires ==
    /\ tokenValid /\ expiries < MaxExpiries
    /\ tokenValid' = FALSE
    /\ expiries' = expiries + 1
    /\ UNCHANGED <<vars, tickVars, authFailures, restarts, lost>>

\* `gh auth login` or `glab auth login`: the daemon asks them for every request.
TokenRefreshed ==
    /\ ~tokenValid
    /\ tokenValid' = TRUE
    /\ UNCHANGED <<vars, tickVars, authFailures, expiries, restarts, lost>>

\* The tick under way and authBackoff are lost.
DaemonRestarts ==
    /\ restarts < MaxRestarts
    /\ restarts' = restarts + 1
    /\ NoTick
    /\ authFailures' = 0
    /\ UNCHANGED <<vars, tokenValid, expiries, lost>>

\* What goes on beside the poller: the Run's own steps and timeouts, the reviewers;
RunAlone ==
    /\ \/ Step \/ WorkIsCutShort \/ AutoPause \/ AutoRetry
       \/ OnAbandonConfirmTimeout
       \/ Environment
    /\ UNCHANGED <<tickVars, daemonVars>>

\* and the CLI, at the store.
CommandLine == (DirectAbandon \/ DirectResume) /\ UNCHANGED <<tickVars, daemonVars>>

PolledNext ==
    \/ Poller \/ Control \/ RunAlone \/ CommandLine
    \/ TokenExpires \/ TokenRefreshed \/ DaemonRestarts

\* The daemon keeps ticking and stepping, a step or a call that is tried again
\* and again works in the end, the token is refreshed, reviewers decide, and a
\* timeout fires.  The author owes nothing.
Fairness ==
    /\ SF_pvars(Step /\ UNCHANGED <<tickVars, daemonVars>>)
    /\ WF_pvars(AutoRetry /\ UNCHANGED <<tickVars, daemonVars>>)
    /\ WF_pvars(OnAbandonConfirmTimeout /\ UNCHANGED <<tickVars, daemonVars>>)
    /\ WF_pvars(BeginTick)
    /\ WF_pvars(PollUnauthorized \/ \E u \in Units : PollError(u) \/ PollState(u) \/ PollDone(u))
    /\ WF_pvars(EndTick)
    /\ \A u \in Units :
         /\ SF_pvars(PollState(u))
         /\ WF_pvars((ReviewerMerges(u) \/ ReviewerCloses(u)) /\ UNCHANGED <<tickVars, daemonVars>>)
    /\ WF_pvars(TokenRefreshed)

PolledSpec == PolledInit /\ [][PolledNext]_pvars /\ Fairness

-----------------------------------------------------------------------------
(* Properties. *)

\* A polled Run behaves like a Run of RefactorSweep: whatever the poller's
\* snapshots and the /control endpoint make of it, every event they deliver is
\* one the provider could have reported (pollRun, controlHandler, dispatcher).
ImplementsSweep == Spec

Over == status \in TerminalStatuses

\* The poller tells the Run of every merge and close: an MR that is in flight
\* and merged or closed gets recorded in LastMRStates, however ticks fail, the
\* token expires or the daemon restarts (pollRun, decodeActiveRun), unless the
\* Run is over or the unit is settled first.
DecisionIsRecorded ==
    \A u \in Units :
        (u \in inFlight /\ mrState[u] \in {"merged", "closed"})
            ~> (u \notin inFlight \/ lastMRStates[u] # "none" \/ Over)

AuthPaused == status = "Paused" /\ pauseReason = "provider-auth"

\* A pause for expired credentials ends by itself (ADR-0038): some later tick
\* finds the token valid and lifts it.
AuthPauseAlwaysLifts == AuthPaused ~> ~AuthPaused

\* What the poller still knows of such a pause, and will lift.
Remembered == AuthPaused /\ authFailures > 0
Forgotten  == AuthPaused /\ authFailures = 0

\* Whatever happened before, a pause the poller remembers lifts, or else the daemon is
\* restarted or the event that was to lift it is lost meanwhile (pollRun, authBackoff).
AuthPauseLifts ==
    \A n \in 0..(MaxRestarts + MaxLost) :
        Remembered /\ restarts + lost = n ~> ~AuthPaused \/ restarts + lost > n

\* A sweep whose reviewers decide comes to an end, unless it is parked for a
\* person to look at it: it never waits for ever in AwaitingMerge.
SweepAlwaysEnds == <>(Over \/ (status = "Paused" /\ ~AuthPaused))

\* It does as long as the token holds and nobody opens the abandon window,
\* whatever ticks fail and however the daemon is restarted.
SweepEnds == [](expiries = 0 /\ status # "AwaitingAbandonConfirm") => SweepAlwaysEnds

\* Only a restart and a ProviderAuthRestored that is lost make the poller forget a Run
\* that is parked for expired credentials: no verb, step or event parks it so without
\* the poller's knowledge, and nothing else clears what it knows while the Run is parked
\* (pollRun deletes its entry before it dispatches, poller.go:257-272).
OnlyLossForgetsAuth ==
    [][Forgotten' => Forgotten \/ DaemonRestarts
                     \/ (EndTick /\ ~hadAuthErr /\ lost' > lost)]_pvars
=============================================================================
