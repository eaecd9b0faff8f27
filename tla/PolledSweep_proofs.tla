------------------------ MODULE PolledSweep_proofs ------------------------
(***************************************************************************)
(* A polled Run implements RefactorSweep, and so inherits every theorem    *)
(* about it; only a restart and a lost event make the daemon forget why a  *)
(* Run is parked for expired credentials; and its author's pause holds     *)
(* while the credentials do (AuthorPause).                                 *)
(***************************************************************************)
EXTENDS AuthorPause, RefactorSweep_proofs

\* What the poller relies on: the MRs it asks about exist, and go on existing.
PolledInv ==
    /\ TypeOK /\ PolledTypeOK
    /\ \A u \in inFlight \cup toPoll : mrState[u] # "none"

\* The provider could have reported an event about an MR the poller polls.
LEMMA PolledPlausible ==
    ASSUME PolledInv, NEW u \in toPoll, NEW ev \in Notes \cup MRStateEvents(u), ev.mr = u
    PROVE  ev \in Events /\ Plausible(ev)
<1>1. u \in Units /\ mrState[u] # "none"
  BY DEF PolledInv, PolledTypeOK
<1>2. CASE ev \in MRStateEvents(u)
  <2>1. /\ ev \in MREvents
        /\ \/ ev.kind = "MRMerged" /\ mrState[u] = "merged"
           \/ ev.kind = "MRClosed" /\ mrState[u] = "closed"
    BY <1>2 DEF MRStateEvents
  <2> QED BY <1>1, <2>1 DEF Plausible, Events
<1>3. CASE ev \in Notes
  <2>1. ev.kind = "NoteAdded"
    BY <1>3 DEF Notes
  <2> QED BY <1>1, <1>3, <2>1 DEF Plausible, Events
<1> QED BY <1>2, <1>3

\* An event that is dispatched is a step of RefactorSweep, or none.
LEMMA DispatchStep ==
    ASSUME NEW ev \in Events, Plausible(ev), Dispatch(ev)
    PROVE  [Next]_vars
BY DEF Dispatch, Next

\* Authentication events are about no MR.
LEMMA AuthPlausible ==
    ASSUME NEW kind \in {"ProviderAuthFailure", "ProviderAuthRestored"}
    PROVE  AuthEvent(kind) \in Events /\ Plausible(AuthEvent(kind))
BY DEF AuthEvent, Events, AuthEvents, Plausible

\* Whatever the poller, /control and the daemon do, the Run takes a step of its own or none.
LEMMA PolledStep == PolledInv /\ [PolledNext]_pvars => [Next]_vars
<1> SUFFICES ASSUME PolledInv, [PolledNext]_pvars PROVE [Next]_vars
  OBVIOUS
<1>1. CASE UNCHANGED pvars
  BY <1>1 DEF pvars
<1>2. CASE BeginTick \/ PollUnauthorized \/ \E u \in Units : PollError(u) \/ PollDone(u)
  BY <1>2 DEF BeginTick, PollUnauthorized, PollError, PollDone
<1>3. ASSUME NEW u \in Units, PollState(u) PROVE [Next]_vars
  <2>1. PICK ev \in MRStateEvents(u) : Dispatch(ev)
    BY <1>3 DEF PollState
  <2>2. u \in toPoll /\ ev.mr = u
    BY <1>3, <2>1 DEF PollState, MRStateEvents
  <2> QED BY <2>1, <2>2, PolledPlausible, DispatchStep
<1>4. ASSUME NEW u \in Units, NEW ev \in Notes, PollNote(u, ev) PROVE [Next]_vars
  <2>1. u \in toPoll /\ ev.mr = u /\ Dispatch(ev)
    BY <1>4 DEF PollNote, ListsNotes
  <2> QED BY <2>1, PolledPlausible, DispatchStep
<1>5. CASE EndTick
  <2>1. ASSUME NEW kind \in {"ProviderAuthFailure", "ProviderAuthRestored"}, Announce(kind)
        PROVE  [Next]_vars
    BY <2>1, AuthPlausible, DispatchStep DEF Announce
  <2> QED BY <1>5, <2>1 DEF EndTick, EndUnauthorized, EndClean
<1>6. CASE Control
  <2>1. PICK ev \in Notes :
          /\ IF inFlight = {} THEN ev.mr = NoUnit ELSE ev.mr \in inFlight
          /\ Dispatch(ev)
    BY <1>6 DEF Control
  <2>2. CASE ev.mr = NoUnit
    BY <2>1, <2>2, DispatchStep DEF Plausible, Events
  <2>3. CASE ev.mr \in inFlight
    <3>1. ev.mr \in Units /\ mrState[ev.mr] # "none" /\ ev.kind = "NoteAdded"
      BY <2>3 DEF PolledInv, TypeOK, Notes
    <3> QED BY <2>1, <3>1, DispatchStep DEF Plausible, Events
  <2> QED BY <2>1, <2>2, <2>3
<1>7. CASE RunAlone \/ CommandLine
  BY <1>7 DEF RunAlone, CommandLine, Next
<1>8. CASE TokenExpires \/ TokenRefreshed \/ DaemonRestarts
  BY <1>8 DEF TokenExpires, TokenRefreshed, DaemonRestarts
<1> QED BY <1>1, <1>2, <1>3, <1>4, <1>5, <1>6, <1>7, <1>8 DEF PolledNext, Poller

\* MRs never disappear, and only an opened one gets in flight.
LEMMA MRsPersist ==
    ASSUME TypeOK, [Next]_vars
    PROVE  /\ \A u \in Units : mrState[u] # "none" => mrState'[u] # "none"
           /\ \A u \in inFlight' : u \in inFlight \/ mrState'[u] # "none"
<1> USE DEF MRsMoveOn, KeepsUnits
<1>1. CASE UNCHANGED vars
  BY <1>1 DEF vars, unitVars, envVars
<1>2. CASE \E ev \in Events : Plausible(ev) /\ Resume(ev)
  BY <1>2, ResumeEffect DEF UnitEffect, Holds, MRsClose, MarkUnitMerged, MarkUnitBlacklisted, unitVars
<1>3. CASE \/ WorkIsCutShort \/ AutoPause \/ AutoRetry \/ OnAbandonConfirmTimeout
           \/ DirectAbandon \/ DirectResume \/ Environment
  BY <1>3, OutsideKeeps
<1>4. CASE WorkOpensMR
  <2>1. currentUnit \in Units
    BY <1>4 DEF WorkOpensMR, TypeOK, MRs
  <2>2. /\ mrState' = [mrState EXCEPT ![currentUnit] = "opened"]
        /\ inFlight' = inFlight \cup {currentUnit}
    BY <1>4 DEF WorkOpensMR
  <2> QED BY <2>1, <2>2 DEF TypeOK
<1>5. CASE Step /\ ~WorkOpensMR
  BY <1>5 DEF Step, Setup, DiscoverOverBudget, DiscoverSweep, DiscoverSpec, WorkFailsEarly,
              WorkFails, WorkFindsNothing, unitVars, envVars
<1> QED BY <1>1, <1>2, <1>3, <1>4, <1>5 DEF Next

\* A bounded counter stays in its bounds.
LEMMA CountsUp ==
    ASSUME NEW max \in Nat, NEW n \in 0..max, n < max
    PROVE  n + 1 \in 0..max
OBVIOUS

\* The poller's variables keep their types.
LEMMA PolledTypes == PolledInv /\ [PolledNext]_pvars => PolledTypeOK'
<1> SUFFICES ASSUME PolledInv, [PolledNext]_pvars PROVE PolledTypeOK'
  OBVIOUS
<1>0. PolledTypeOK /\ inFlight \subseteq Units /\ lastMRStates \in [Units -> {"none", "merged", "closed"}]
  BY DEF PolledInv, TypeOK
<1> USE <1>0 DEF PolledTypeOK, tickVars, daemonVars
<1>1. CASE UNCHANGED pvars
  BY <1>1 DEF pvars
<1>2. CASE BeginTick
  BY <1>2 DEF BeginTick
<1>3. CASE \/ PollUnauthorized \/ \E u \in Units : PollError(u) \/ PollState(u) \/ PollDone(u)
           \/ \E u \in Units, ev \in Notes : PollNote(u, ev)
  BY <1>3 DEF PollUnauthorized, PollError, PollState, PollNote, PollDone, Polled
<1>4. CASE EndTick
  <2>1. authFailures' \in 0..2
    BY <1>4 DEF EndTick, EndUnauthorized, EndClean
  <2>2. lost' \in 0..MaxLost
    <3>1. ASSUME NEW kind, Announce(kind) PROVE lost' \in 0..MaxLost
      BY <3>1, CountsUp, PolledAssumption DEF Announce
    <3> QED BY <1>4, <3>1 DEF EndTick, EndUnauthorized, EndClean
  <2> QED BY <1>4, <2>1, <2>2 DEF EndTick, NoTick
<1>5. CASE Control \/ RunAlone \/ CommandLine
  BY <1>5 DEF Control, RunAlone, CommandLine
<1>6. CASE TokenExpires
  <2>1. expiries' \in 0..MaxExpiries
    BY <1>6, CountsUp, PolledAssumption DEF TokenExpires
  <2> QED BY <1>6, <2>1 DEF TokenExpires
<1>7. CASE TokenRefreshed
  BY <1>7 DEF TokenRefreshed
<1>8. CASE DaemonRestarts
  <2>1. restarts' \in 0..MaxRestarts
    BY <1>8, CountsUp, PolledAssumption DEF DaemonRestarts
  <2>2. /\ seenStates' \in [Units -> {"none", "merged", "closed"}]
        /\ authFailures' \in 0..2 /\ expiries' \in 0..MaxExpiries /\ lost' \in 0..MaxLost
    BY <1>8 DEF DaemonRestarts, NoTick
  <2>3. /\ ticking' \in BOOLEAN /\ toPoll' \subseteq Units /\ hadAuthErr' \in BOOLEAN
        /\ tokenValid' \in BOOLEAN
    BY <1>8 DEF DaemonRestarts, NoTick
  <2> QED BY <2>1, <2>2, <2>3
<1> QED BY <1>1, <1>2, <1>3, <1>4, <1>5, <1>6, <1>7, <1>8 DEF PolledNext, Poller

\* It holds to begin with,
LEMMA InitPolledInv == PolledInit => PolledInv
<1> SUFFICES ASSUME PolledInit PROVE PolledInv
  OBVIOUS
<1>1. TypeOK /\ inFlight = {} /\ toPoll = {}
  BY InitTypeOK DEF PolledInit, Init
<1>2. PolledTypeOK
  <2>1. 0 \in 0..MaxExpiries /\ 0 \in 0..MaxRestarts /\ 0 \in 0..MaxLost /\ 0 \in 0..2
    BY PolledAssumption
  <2> QED BY <2>1 DEF PolledInit, PolledTypeOK
<1> QED BY <1>1, <1>2 DEF PolledInv

\* and every step keeps it.
LEMMA NextPolledInv == PolledInv /\ [PolledNext]_pvars => PolledInv'
<1> SUFFICES ASSUME PolledInv, [PolledNext]_pvars PROVE PolledInv'
  OBVIOUS
<1>1. [Next]_vars
  BY PolledStep
<1>2. TypeOK' /\ PolledTypeOK'
  BY <1>1, NextTypeOK, PolledTypes DEF PolledInv
<1>3. toPoll' \subseteq toPoll \cup inFlight
  BY DEF PolledNext, Poller, BeginTick, PollUnauthorized, PollError, PollState, PollNote, PollDone,
         Polled, EndTick, NoTick, Control, RunAlone, CommandLine, TokenExpires, TokenRefreshed,
         DaemonRestarts, tickVars, pvars
<1>4. inFlight \cup toPoll \subseteq Units
  BY DEF PolledInv, TypeOK, PolledTypeOK
<1> QED BY <1>1, <1>2, <1>3, <1>4, MRsPersist DEF PolledInv

\* The invariant under which a step of the polled Run is a step of the Run.
LEMMA PolledInvariant == PolledSpec => []PolledInv
BY InitPolledInv, NextPolledInv, PTL DEF PolledSpec

\* A polled Run implements RefactorSweep: every event the poller and /control
\* deliver, from whatever stale snapshot, is one the provider could have sent
\* (pollRun, controlHandler, the dispatcher in main.go).
THEOREM PolledImplementsSweep == PolledSpec => ImplementsSweep
<1>1. PolledInit => Init
  BY DEF PolledInit
<1> QED BY <1>1, PolledStep, PolledInvariant, PTL DEF PolledSpec, Spec, ImplementsSweep

\* A polled Run keeps its units apart, like every Run.
COROLLARY PolledUnitsStayDisjoint == PolledSpec => []UnitsDisjoint
BY PolledImplementsSweep, UnitsStayDisjoint DEF ImplementsSweep

\* What holds of every Run holds of one whose events come from the poller's snapshots and
\* from /control: one unit at a time, only transitions that Build declares, every unit's
\* life, and reports that are handled unless the Run is parked.
COROLLARY PolledKeepsPromises ==
    PolledSpec =>
        /\ []OneUnitAtATime
        /\ ImplementsLifecycle /\ ImplementsUnitLife
        /\ SwallowedOnlyWhileParked
BY PolledImplementsSweep, OneUnitOnly, SweepKeepsLifecycle, SweepImplementsUnitLife,
   ReportsAreHandled, PTL DEF ImplementsSweep

\* No tick, /control call or restart of the daemon loses a unit, unless the Run is revived.
COROLLARY PolledUnitsAreKept == ASSUME ~CanRevive PROVE PolledSpec => NoUnitLost
BY PolledImplementsSweep, UnitsAreKept, PTL DEF ImplementsSweep

-----------------------------------------------------------------------------
(* The pause for expired credentials. *)

\* Other verbs and events park for a reason of their own.
LEMMA InvokeReason ==
    ASSUME NEW ev, NEW u, NEW prompt, InvokeForEvent(ev, u, prompt)
    PROVE  ~AuthPaused'
BY DEF InvokeForEvent, SyncFails, IsolationFails, TurnParks, TurnChangesNothing, TurnPushes,
       TurnRetriesCI, Park, Watch, Store, AuthPaused

\* No control verb parks the Run for expired credentials.
LEMMA ControlReason ==
    ASSUME NEW ev, HandleControlCommand(ev), AuthPaused'
    PROVE  AuthPaused
<1> USE DEF AuthPaused, Store
<1>1. CASE CmdPause \/ CmdResume \/ CmdStop
  BY <1>1 DEF CmdPause, CmdResume, CmdStop, Park
<1>2. CASE Reply \/ CmdPrompt
  BY <1>2 DEF Reply, CmdPrompt
<1>3. CASE CmdAbandon
  BY <1>3 DEF CmdAbandon, CmdStop
<1>4. CASE ev.mr \in inFlight /\ CmdSkip(ev)
  BY <1>4 DEF CmdSkip, MarkUnitBlacklisted
<1>5. CASE ev.mr \in inFlight /\ CmdFreeform(ev)
  BY <1>5, InvokeReason DEF CmdFreeform
<1> QED
  BY <1>1, <1>2, <1>3, <1>4, <1>5 DEF HandleControlCommand, CmdRetry, CmdSkip, CmdFreeform

\* Only an authentication failure parks the Run for its credentials, and a
\* restored event does not leave it so.
LEMMA ResumeReason ==
    ASSUME NEW ev \in Events, Resume(ev), AuthPaused'
    PROVE  \/ ev.kind = "ProviderAuthFailure"
           \/ AuthPaused /\ ev.kind # "ProviderAuthRestored"
<1> USE DEF AuthPaused, Store
<1>1. ev.kind = "ProviderAuthRestored" => ev.body \notin Verbs \cup {"echo"}
  <2>1. "none" \notin AllVerbs \cup {"echo"}
    BY DEF AllVerbs
  <2>2. ev.kind = "ProviderAuthRestored" => ev.body = "none"
    BY DEF Events, Notes, MREvents, AuthEvents
  <2> QED BY <2>1, <2>2, ConstantsAssumption
<1>2. CASE OwnEcho(ev)
  BY <1>1, <1>2 DEF OwnEcho, Reply
<1>3. CASE ConfirmWindow(ev)
  BY <1>3 DEF ConfirmWindow, DropAbandonConfirm, Watch, CmdAbandon, CmdStop
<1>4. CASE ControlCommand(ev)
  BY <1>1, <1>4, ControlReason DEF ControlCommand
<1>5. CASE HandleProviderAuthEvent(ev)
  BY <1>5 DEF HandleProviderAuthEvent, Park
<1>6. CASE WhilePaused(ev)
  BY <1>6 DEF WhilePaused, AboutMR, Reply
<1>7. CASE NotTracked(ev) \/ Informational(ev)
  BY <1>7 DEF NotTracked, Informational, Watch
<1>8. CASE Lifecycle(ev)
  BY <1>8 DEF Lifecycle, MarkUnitMerged, MarkUnitBlacklisted
<1>9. CASE Filtered(ev)
  BY <1>9, InvokeReason DEF Filtered, Watch, Park
<1> QED
  BY <1>2, <1>3, <1>4, <1>5, <1>6, <1>7, <1>8, <1>9 DEF Resume

\* What goes on beside the poller, and at the command line, parks no Run for its credentials.
LEMMA AloneReason == ASSUME RunAlone \/ CommandLine, AuthPaused' PROVE AuthPaused
<1> USE DEF AuthPaused, Store
<1>1. CASE Step
  <2>1. status \in {"Initiated", "Discovering", "Working"}
    BY <1>1 DEF Step, Setup, DiscoverOverBudget, DiscoverSweep, DiscoverSpec, WorkFailsEarly,
                WorkFails, WorkFindsNothing, WorkOpensMR, StepRuns
  <2> QED BY <1>1 DEF Step, Setup, DiscoverOverBudget, DiscoverSweep, DiscoverSpec, Decisions,
                      WorkFailsEarly, WorkFails, WorkFindsNothing, WorkOpensMR
<1>2. CASE WorkIsCutShort \/ AutoPause \/ AutoRetry \/ OnAbandonConfirmTimeout
  BY <1>2 DEF WorkIsCutShort, AutoPause, AutoRetry, OnAbandonConfirmTimeout, Watch, recordVars
<1>3. CASE DirectAbandon \/ DirectResume
  BY <1>3 DEF DirectAbandon, DirectResume
<1>4. CASE Environment
  BY <1>4 DEF Environment, ReviewerMerges, ReviewerCloses, StrayIsDecided, RuntimeElapses, recordVars
<1> QED BY <1>1, <1>2, <1>3, <1>4 DEF RunAlone, CommandLine

\* An event that reports no authentication failure parks no Run for its credentials.
LEMMA DispatchReason ==
    ASSUME NEW ev \in Events, Dispatch(ev), ev.kind # "ProviderAuthFailure", AuthPaused'
    PROVE  AuthPaused
BY ResumeReason DEF Dispatch, vars, recordVars, AuthPaused

\* Of all steps only a restart and a recovery that is announced in vain leave a Run parked
\* for its credentials whose poller has just forgotten it.
LEMMA ForgottenByLoss ==
    ASSUME PolledInv, [PolledNext]_pvars, Forgotten', ~Forgotten, ~DaemonRestarts
    PROVE  EndTick /\ ~hadAuthErr /\ lost' > lost
<1> USE DEF Forgotten
<1>0. authFailures \in 0..2 /\ lost \in Nat
  BY DEF PolledInv, PolledTypeOK
<1>1. UNCHANGED authFailures => ~AuthPaused
  OBVIOUS
<1>2. CASE UNCHANGED vars /\ UNCHANGED authFailures
  BY <1>1, <1>2 DEF vars, recordVars, AuthPaused
<1>3. ASSUME NEW ev \in Notes, Dispatch(ev), UNCHANGED authFailures PROVE FALSE
  <2>1. ev \in Events /\ ev.kind = "NoteAdded"
    BY DEF Events, Notes
  <2> QED BY <1>1, <1>3, <2>1, DispatchReason
<1>4. CASE Control \/ \E u \in Units, ev \in Notes : PollNote(u, ev)
  BY <1>3, <1>4 DEF Control, PollNote, daemonVars
<1>5. ASSUME NEW u \in Units, PollState(u) PROVE FALSE
  <2>1. PICK ev \in MRStateEvents(u) : Dispatch(ev)
    BY <1>5 DEF PollState
  <2>2. ev \in Events /\ ev.kind # "ProviderAuthFailure"
    BY <2>1 DEF MRStateEvents, Events
  <2> QED BY <1>1, <1>5, <2>1, <2>2, DispatchReason DEF PollState, daemonVars
<1>6. CASE EndTick
  <2>1. EndClean
    BY <1>0, <1>6 DEF EndTick, EndUnauthorized
  <2>2. CASE authFailures = 0
    BY <1>2, <2>1, <2>2 DEF EndClean
  <2>3. CASE authFailures > 0
    <3>1. Announce("ProviderAuthRestored")
      BY <2>1, <2>3 DEF EndClean
    <3>2. ~Dispatch(AuthEvent("ProviderAuthRestored"))
      <4> SUFFICES ASSUME Dispatch(AuthEvent("ProviderAuthRestored")) PROVE FALSE
        OBVIOUS
      <4>1. AuthEvent("ProviderAuthRestored") \in Events
        BY AuthPlausible
      <4>2. AuthEvent("ProviderAuthRestored").kind = "ProviderAuthRestored"
        BY DEF AuthEvent
      <4>3. CASE status \notin CallbackStatuses /\ UNCHANGED vars
        BY <4>3 DEF vars, recordVars, AuthPaused, CallbackStatuses
      <4>4. CASE Resume(AuthEvent("ProviderAuthRestored"))
        BY <4>1, <4>2, <4>4, ResumeReason
      <4> QED BY <4>3, <4>4 DEF Dispatch
    <3> QED BY <1>0, <1>6, <2>1, <3>1, <3>2 DEF Announce, EndClean
  <2> QED BY <1>0, <2>2, <2>3
<1>7. CASE RunAlone \/ CommandLine
  BY <1>1, <1>7, AloneReason DEF RunAlone, CommandLine, daemonVars
<1>8. CASE \/ BeginTick \/ PollUnauthorized \/ \E u \in Units : PollError(u) \/ PollDone(u)
           \/ TokenExpires \/ TokenRefreshed \/ UNCHANGED pvars
  BY <1>2, <1>8 DEF BeginTick, PollUnauthorized, PollError, PollDone, TokenExpires,
                    TokenRefreshed, daemonVars, pvars
<1> QED BY <1>4, <1>5, <1>6, <1>7, <1>8 DEF PolledNext, Poller

\* For any number of units, expiries, restarts and lost events: a Run parked for expired
\* credentials is one the poller will send ProviderAuthRestored to, until a restart or the
\* loss of that very event (pollRun's authBackoff, handleProviderAuthEvent).
THEOREM AuthIsForgottenByLoss == PolledSpec => OnlyLossForgetsAuth
<1>1. PolledInv /\ [PolledNext]_pvars =>
        [Forgotten' => Forgotten \/ DaemonRestarts
                       \/ (EndTick /\ ~hadAuthErr /\ lost' > lost)]_pvars
  BY ForgottenByLoss
<1> QED BY <1>1, PolledInvariant, PTL DEF PolledSpec, OnlyLossForgetsAuth

-----------------------------------------------------------------------------
(* The author's pause (AuthorPause). *)

\* As long as the token holds no tick ends unauthorized, and the pause is the author's.
AskedInv ==
    /\ PolledInv
    /\ expiries = 0 => tokenValid /\ ~hadAuthErr /\ authFailures = 0
    /\ asked \in BOOLEAN
    /\ expiries = 0 /\ asked => status = "Paused" /\ pauseReason = "author"

\* The history variable restricts nothing.
LEMMA AskedSteps == AskedNext => PolledNext
BY DEF AskedNext, AuthorSpeaks, OthersMove, PolledNext, Poller

\* While the token holds, a tick has nothing to announce.
LEMMA TokenStep ==
    ASSUME AskedInv, [PolledNext]_pvars, expiries' = 0
    PROVE  /\ expiries = 0
           /\ tokenValid' /\ ~hadAuthErr' /\ authFailures' = 0
           /\ EndTick => UNCHANGED vars
<1> USE DEF AskedInv
<1>0. expiries \in Nat
  BY DEF PolledInv, PolledTypeOK
<1>a. expiries = 0 /\ EndTick => UNCHANGED vars
  BY DEF EndTick, EndUnauthorized, EndClean
<1>1. CASE Poller
  <2>1. UNCHANGED <<expiries, tokenValid>>
    BY <1>1 DEF Poller, BeginTick, PollUnauthorized, PollError, PollState, PollNote, PollDone,
                EndTick, daemonVars
  <2>2. CASE EndTick
    BY <2>1, <2>2 DEF EndTick, EndUnauthorized, EndClean, NoTick
  <2>3. CASE BeginTick \/ \E u \in Units : PollError(u) \/ PollState(u) \/ PollDone(u)
    BY <2>1, <2>3, <1>a DEF BeginTick, PollError, PollState, PollDone, Polled, daemonVars
  <2>4. CASE \E u \in Units, ev \in Notes : PollNote(u, ev)
    BY <2>1, <2>4, <1>a DEF PollNote, tickVars, daemonVars
  <2>5. CASE PollUnauthorized
    BY <2>1, <2>5 DEF PollUnauthorized
  <2> QED BY <1>1, <2>2, <2>3, <2>4, <2>5 DEF Poller
<1>2. CASE Control \/ RunAlone \/ CommandLine
  BY <1>2, <1>a DEF Control, RunAlone, CommandLine, tickVars, daemonVars
<1>3. CASE TokenExpires \/ TokenRefreshed \/ DaemonRestarts
  BY <1>0, <1>3, <1>a DEF TokenExpires, TokenRefreshed, DaemonRestarts, NoTick, tickVars
<1>4. CASE UNCHANGED pvars
  BY <1>4, <1>a DEF pvars, tickVars, daemonVars
<1> QED BY <1>1, <1>2, <1>3, <1>4 DEF PolledNext

\* While the token holds, nobody but the author moves a Run its author has paused.
LEMMA OthersKeepPause ==
    ASSUME AskedInv, OthersMove, expiries' = 0, asked
    PROVE  UNCHANGED <<status, pauseReason>>
<1>0. status = "Paused" /\ expiries = 0 /\ (EndTick => UNCHANGED vars) /\ TypeOK
  BY TokenStep DEF AskedInv, OthersMove, PolledNext, Poller, PolledInv
<1>1. CASE UNCHANGED vars
  BY <1>1 DEF vars, recordVars
<1>2. ASSUME NEW ev \in Events, Dispatch(ev), ~(ev \in Notes /\ ev.body \in Verbs),
             ev \notin AuthEvents
      PROVE  UNCHANGED <<status, pauseReason>>
  BY <1>0, <1>1, <1>2, OthersLeavePause DEF Dispatch, PauseStays
<1>3. ASSUME NEW u \in Units, PollState(u) PROVE UNCHANGED <<status, pauseReason>>
  <2>1. PICK ev \in MRStateEvents(u) : Dispatch(ev)
    BY <1>3 DEF PollState
  <2>2. ev \in Events /\ ev \notin Notes /\ ev \notin AuthEvents
    BY <2>1 DEF MRStateEvents, Events, Notes, AuthEvents
  <2> QED BY <1>2, <2>1, <2>2
<1>4. ASSUME NEW u \in Units, NEW ev \in Notes, ev.body \notin Verbs, PollNote(u, ev)
      PROVE  UNCHANGED <<status, pauseReason>>
  <2>1. ev \in Events /\ ev \notin AuthEvents
    BY DEF Events, Notes, AuthEvents
  <2> QED BY <1>2, <1>4, <2>1 DEF PollNote
<1>5. CASE RunAlone
  BY <1>0, <1>5 DEF RunAlone, Step, Setup, DiscoverOverBudget, DiscoverSweep, DiscoverSpec,
                    WorkFailsEarly, WorkFails, WorkFindsNothing, WorkOpensMR, WorkIsCutShort,
                    AutoPause, AutoRetry, OnAbandonConfirmTimeout, Environment, ReviewerMerges,
                    ReviewerCloses, StrayIsDecided, RuntimeElapses, StepRuns, StepStatuses, recordVars
<1>6. CASE \/ BeginTick \/ PollUnauthorized \/ \E u \in Units : PollError(u) \/ PollDone(u)
           \/ TokenExpires \/ TokenRefreshed \/ DaemonRestarts
  BY <1>1, <1>6 DEF BeginTick, PollUnauthorized, PollError, PollDone, TokenExpires, TokenRefreshed,
                    DaemonRestarts
<1>7. CASE EndTick
  BY <1>0, <1>1, <1>7
<1> QED BY <1>3, <1>4, <1>5, <1>6, <1>7 DEF OthersMove

\* A Run its author paused stays paused until its author speaks again, for any number of
\* units, notes, failing ticks and restarts, as long as the token holds (resume, pollRun).
THEOREM AuthorsPauseIsKept == AskedSpec => []HoldsWhileTokenDoes
<1>1. AskedInit => AskedInv
  BY InitPolledInv DEF AskedInit, AskedInv, PolledInit
<1>2. AskedInv /\ [AskedNext]_avars => AskedInv'
  <2> SUFFICES ASSUME AskedInv, [AskedNext]_avars PROVE AskedInv'
    OBVIOUS
  <2>1. [PolledNext]_pvars
    BY AskedSteps DEF avars
  <2>2. PolledInv' /\ (expiries' = 0 => tokenValid' /\ ~hadAuthErr' /\ authFailures' = 0)
    BY <2>1, NextPolledInv, TokenStep DEF AskedInv
  <2>3. CASE AuthorSpeaks /\ asked' = (status' = "Paused" /\ pauseReason' = "author")
    BY <2>2, <2>3 DEF AskedInv
  <2>4. CASE OthersMove /\ UNCHANGED asked
    BY <2>1, <2>2, <2>4, TokenStep, OthersKeepPause DEF AskedInv
  <2>5. CASE UNCHANGED avars
    BY <2>2, <2>5 DEF AskedInv, avars, pvars, vars, recordVars, daemonVars
  <2> QED BY <2>3, <2>4, <2>5 DEF AskedNext
<1>3. AskedInv => HoldsWhileTokenDoes
  BY DEF AskedInv, HoldsWhileTokenDoes, AuthorsPauseHolds
<1> QED BY <1>1, <1>2, <1>3, PTL DEF AskedSpec
=============================================================================
