--------------------------- MODULE RefactorSweep ---------------------------
(***************************************************************************)
(* One Run of internal/refactorsweep: the business state machine built by  *)
(* workflow.go's Build, its step bodies (setup, discover, work), its       *)
(* callback (resume, with every control verb of controls.go), the abandon  *)
(* timeout, and the direct store writes of `syntropy abandon` and          *)
(* `syntropy resume` (main.go).                                            *)
(*                                                                         *)
(* A handler runs as one step here: it reads the stored record, calls the  *)
(* provider, git and the runner, and its result is stored.  A handler that *)
(* returns an error stores nothing.  What the provider, git, the filter    *)
(* and the runner answer is a nondeterministic choice.                     *)
(*                                                                         *)
(* Events are delivered by an environment that knows nothing of what was   *)
(* delivered before: they may be repeated, late, or about somebody else's  *)
(* MR, as a project-wide webhook delivers them.  Module PolledSweep is the *)
(* same Run fed by the daemon's poller.                                    *)
(***************************************************************************)
EXTENDS Naturals, Sequences, FiniteSets, Functions

CONSTANTS
    NumUnits,      \* units are 1..NumUnits; in spec mode unit n is "increment-n"
    Mode,          \* "sweep" (static queue) or "spec" (planner)
    MaxQueue,      \* bound: longest queue a sweep is triggered with
    MaxUnits,      \* Budget.MaxUnits, 0 for no limit
    MaxTokens,     \* Budget.MaxTokens counted in turns, 0 for no limit
    HasMaxRuntime, \* whether Budget.MaxRuntime is set
    MaxCIRetries,  \* maxCIRetries
    MaxTurns,      \* bound: runner turns of a behaviour
    Verbs,         \* control verbs the author uses
    CanRevive      \* whether anyone runs `syntropy resume` against the store

NoUnit == 0
Units  == 1..NumUnits
MRs    == Units \cup {NoUnit}    \* the MR opened for a unit; NoUnit: an MR we do not track

AllVerbs == {"pause", "resume", "retry", "skip", "prompt", "status", "stop",
             "abandon", "freeform"}

Decisions == {"Done", "Continue", "Ask", "Fail", "NoChange", "RetryCI"}

ASSUME ConstantsAssumption ==
    /\ NumUnits \in Nat /\ MaxQueue \in Nat
    /\ Mode \in {"sweep", "spec"}
    /\ MaxUnits \in Nat /\ MaxTokens \in Nat /\ HasMaxRuntime \in BOOLEAN
    /\ MaxCIRetries \in Nat /\ MaxTurns \in Nat
    /\ Verbs \subseteq AllVerbs
    /\ CanRevive \in BOOLEAN

VARIABLES
    \* workflow.Record
    status,          \* AgentStatus
    runState,        \* "running", "paused" (circuit breaker) or "finished"
    \* AgentState
    queue, plan, inFlight, completed, blacklisted, currentUnit,
    pauseReason, promptInjection, ciRetryCounts, lastMRStates,
    turns,           \* Len(History), also the tokens spent
    \* environment
    overtime,        \* MaxRuntime has elapsed since StartedAt
    mrState,         \* the provider's view of each unit's MR
    strays           \* units with an open MR whose opening the Run was not told of

recordVars == <<status, runState>>
unitVars   == <<queue, plan, inFlight, completed, blacklisted, currentUnit>>
turnVars   == <<promptInjection, ciRetryCounts, turns>>
envVars    == <<overtime, mrState, strays>>
vars       == <<recordVars, unitVars, pauseReason, turnVars, lastMRStates, envVars>>

Statuses == {"Initiated", "Discovering", "Working", "AwaitingMerge", "Paused",
             "Completed", "Failed", "Cancelled", "AwaitingAbandonConfirm"}
TerminalStatuses == {"Completed", "Failed", "Cancelled"}
StepStatuses     == {"Initiated", "Discovering", "Working"}
CallbackStatuses == {"AwaitingMerge", "Paused", "AwaitingAbandonConfirm"}

PauseReasons == {"none", "author", "provider-auth", "budget", "planner", "event"}
Outcomes     == {"in_flight", "completed", "blacklisted"}

Settled == Range(completed) \cup Range(blacklisted)

\* The record, AgentState and the provider's MR states have their types, in every
\* state a handler, an event or the CLI leaves behind (types.go).
TypeOK ==
    /\ status \in Statuses
    /\ runState \in {"running", "paused", "finished"}
    /\ queue \in Seq(Units)
    /\ plan \in Seq(Outcomes)
    /\ inFlight \subseteq Units
    /\ completed \in Seq(Units) /\ blacklisted \in Seq(Units)
    /\ currentUnit \in MRs
    /\ pauseReason \in PauseReasons
    /\ promptInjection \in BOOLEAN
    /\ ciRetryCounts \in [Units -> Nat]
    /\ lastMRStates \in [Units -> {"none", "merged", "closed"}]
    /\ turns \in Nat
    /\ overtime \in BOOLEAN
    /\ mrState \in [Units -> {"none", "opened", "merged", "closed"}]
    /\ strays \subseteq Units

Init ==
    /\ status = "Initiated" /\ runState = "running"
    /\ queue \in IF Mode = "sweep" THEN UNION {[1..n -> Units] : n \in 0..MaxQueue}
                                   ELSE {<<>>}
    /\ plan = <<>> /\ inFlight = {}
    /\ completed = <<>> /\ blacklisted = <<>>
    /\ currentUnit = NoUnit
    /\ pauseReason = "none" /\ promptInjection = FALSE
    /\ ciRetryCounts = [u \in Units |-> 0]
    /\ lastMRStates = [u \in Units |-> "none"]
    /\ turns = 0
    /\ overtime = FALSE
    /\ mrState = [u \in Units |-> "none"]
    /\ strays = {}

-----------------------------------------------------------------------------
(* The workflow library: a stored transition, and its RunState. *)

\* A handler returned status s with no error; a terminal status finishes the Run.
Store(s) ==
    /\ status' = s
    /\ runState' = IF s \in TerminalStatuses THEN "finished" ELSE "running"

\* A step's consumer only delivers Runs that are running in the step's status.
StepRuns(s) == status = s /\ runState = "running"

\* A step keeps returning errors (nothing of it is stored) until
\* PauseAfterErrCount trips the circuit breaker; onAutoPause only comments.
\* The sweep's discover has no error return.
AutoPause ==
    /\ status \in StepStatuses /\ runState = "running"
    /\ ~(status = "Discovering" /\ Mode = "sweep")
    /\ runState' = "paused"
    /\ UNCHANGED <<status, unitVars, pauseReason, turnVars, lastMRStates, envVars>>

\* The library's pausedRecordsRetry sets the Run running again after an hour.
AutoRetry ==
    /\ runState = "paused"
    /\ runState' = "running"
    /\ UNCHANGED <<status, unitVars, pauseReason, turnVars, lastMRStates, envVars>>

-----------------------------------------------------------------------------
(* Helpers shared by the handlers. *)

\* Mutated form of UpdatePlanOutcome: the outcome is recorded on the last entry.
UpdateLastPlanEntry(u, outcome) ==
    plan' = IF u \in DOMAIN plan THEN [plan EXCEPT ![Len(plan)] = "completed"] ELSE plan

UpdatePlanOutcome(u, outcome) ==
    plan' = IF u \in DOMAIN plan THEN [plan EXCEPT ![u] = outcome] ELSE plan

\* Provider.CloseMR for every unit of S, best effort: ok are the calls that work.
CloseMRs(S) ==
    \E ok \in SUBSET S :
        mrState' = [u \in Units |->
                      IF u \in ok /\ mrState[u] = "opened" THEN "closed" ELSE mrState[u]]

\* Mutated form of MarkUnitMerged: the unit is not recorded as completed.
ForgetMergedUnit(u) ==
    /\ inFlight' = inFlight \ {u}
    /\ UpdatePlanOutcome(u, "completed")
    /\ currentUnit' = IF currentUnit = u THEN NoUnit ELSE currentUnit
    /\ Store("Discovering")
    /\ UNCHANGED <<queue, completed, blacklisted>>

\* Mutated form of MarkUnitMerged: the Run goes on watching.
MergedAndWatch(u) ==
    /\ inFlight' = inFlight \ {u}
    /\ completed' = Append(completed, u)
    /\ UpdatePlanOutcome(u, "completed")
    /\ currentUnit' = IF currentUnit = u THEN NoUnit ELSE currentUnit
    /\ Store("AwaitingMerge")
    /\ UNCHANGED <<queue, blacklisted>>

MarkUnitMerged(u) ==
    /\ inFlight' = inFlight \ {u}
    /\ completed' = Append(completed, u)
    /\ UpdatePlanOutcome(u, "completed")
    /\ currentUnit' = IF currentUnit = u THEN NoUnit ELSE currentUnit
    /\ Store("Discovering")
    /\ UNCHANGED <<queue, blacklisted>>

\* Mutated form of MarkUnitBlacklisted: the unit stays in flight.
BlacklistButKeepInFlight(u) ==
    /\ blacklisted' = Append(blacklisted, u)
    /\ UpdatePlanOutcome(u, "blacklisted")
    /\ currentUnit' = IF currentUnit = u THEN NoUnit ELSE currentUnit
    /\ Store("Discovering")
    /\ UNCHANGED <<queue, completed, inFlight>>

MarkUnitBlacklisted(u) ==
    /\ inFlight' = inFlight \ {u}
    /\ blacklisted' = Append(blacklisted, u)
    /\ UpdatePlanOutcome(u, "blacklisted")
    /\ currentUnit' = IF currentUnit = u THEN NoUnit ELSE currentUnit
    /\ Store("Discovering")
    /\ UNCHANGED <<queue, completed>>

-----------------------------------------------------------------------------
(* Steps: setup, discover, work. *)

Setup ==
    /\ StepRuns("Initiated")
    /\ Store("Discovering")
    /\ UNCHANGED <<unitVars, pauseReason, turnVars, lastMRStates, envVars>>

\* Mutated form of OverBudget: the last unit of the budget is not counted.
OverBudgetByOne ==
    \/ MaxUnits > 0 /\ Len(completed) + Len(blacklisted) > MaxUnits
    \/ MaxTokens > 0 /\ turns >= MaxTokens
    \/ overtime

OverBudget ==
    \/ MaxUnits > 0 /\ Len(completed) + Len(blacklisted) >= MaxUnits
    \/ MaxTokens > 0 /\ turns >= MaxTokens
    \/ overtime

\* checkBudget comes before any discovery.
DiscoverOverBudget ==
    /\ StepRuns("Discovering")
    /\ OverBudget
    /\ pauseReason' = "budget"
    /\ Store("Paused")
    /\ UNCHANGED <<unitVars, turnVars, lastMRStates, envVars>>

\* Mutated form of Seen: units in flight are considered again.
SeenForgetsInFlight == Settled

\* The units a sweep no longer considers.
Seen == Settled \cup inFlight

\* The sweep drops the k seen units at the head of the queue, and takes the
\* next one.  An empty queue completes the Run, whatever is in flight.
DiscoverSweep ==
    /\ StepRuns("Discovering") /\ ~OverBudget
    /\ Mode = "sweep"
    /\ \E k \in 0..Len(queue) :
         /\ \A i \in 1..k : queue[i] \in Seen
         /\ \/ /\ k = Len(queue)
               /\ queue' = <<>>
               /\ Store("Completed")
               /\ UNCHANGED currentUnit
            \/ /\ k < Len(queue)
               /\ queue[k + 1] \notin Seen
               /\ currentUnit' = queue[k + 1]
               /\ queue' = SubSeq(queue, k + 2, Len(queue))
               /\ Store("Working")
    /\ UNCHANGED <<plan, inFlight, completed, blacklisted, pauseReason, turnVars,
                   lastMRStates, envVars>>

\* A runner turn: recorded in History, and it consumes the pending prompt.
RunnerTurn ==
    /\ turns < MaxTurns
    /\ turns' = turns + 1
    /\ promptInjection' = FALSE

\* The planner is asked for the next increment.
DiscoverSpec ==
    /\ StepRuns("Discovering") /\ ~OverBudget
    /\ Mode = "spec"
    /\ RunnerTurn
    /\ \E decision \in Decisions :
         \/ /\ decision \in {"Done", "NoChange"}
            /\ Store("Completed")
            /\ UNCHANGED <<plan, currentUnit, pauseReason>>
         \/ /\ decision = "Ask"
            /\ pauseReason' = "planner"
            /\ Store("Paused")
            /\ UNCHANGED <<plan, currentUnit>>
         \/ /\ decision \in {"Fail", "RetryCI"}    \* RetryCI: the default case
            /\ Store("Failed")
            /\ UNCHANGED <<plan, currentUnit, pauseReason>>
         \/ /\ decision = "Continue"
            /\ Len(plan) < NumUnits                \* bound
            /\ plan' = Append(plan, "in_flight")
            /\ currentUnit' = Len(plan) + 1
            /\ Store("Working")
            /\ UNCHANGED pauseReason
    /\ UNCHANGED <<queue, inFlight, completed, blacklisted, ciRetryCounts,
                   lastMRStates, envVars>>

\* work() fails before its turn: EnsureBranch does (the prompt survives), or the
\* worktree is not isolated (the prompt was already consumed).
WorkFailsEarly ==
    /\ StepRuns("Working") /\ currentUnit # NoUnit
    /\ promptInjection' \in {promptInjection, FALSE}
    /\ Store("Failed")
    /\ UNCHANGED <<unitVars, pauseReason, ciRetryCounts, turns, lastMRStates, envVars>>

\* The turn ran, but the runner, git or CreateMR failed, or the decision is
\* Fail or one work() does not expect.  CreateMR may have failed in its answer only,
\* when the MR is open.
WorkFails ==
    /\ StepRuns("Working") /\ currentUnit # NoUnit
    /\ RunnerTurn
    /\ strays' \in {strays, strays \cup {currentUnit}}
    /\ Store("Failed")
    /\ UNCHANGED <<unitVars, pauseReason, ciRetryCounts, lastMRStates, overtime, mrState>>

\* The daemon stops, or the store fails, when the MR is open: nothing of the step is
\* stored, and it will be run again.
WorkIsCutShort ==
    /\ StepRuns("Working") /\ currentUnit \notin strays \cup {NoUnit}
    /\ strays' = strays \cup {currentUnit}
    /\ UNCHANGED <<recordVars, unitVars, pauseReason, turnVars, lastMRStates, overtime, mrState>>

\* NoChange, or a Done or Continue that left nothing to push.
WorkFindsNothing ==
    /\ StepRuns("Working") /\ currentUnit # NoUnit
    /\ RunnerTurn
    /\ blacklisted' = Append(blacklisted, currentUnit)
    /\ UpdatePlanOutcome(currentUnit, "blacklisted")
    /\ currentUnit' = NoUnit
    /\ Store("Discovering")
    /\ UNCHANGED <<queue, inFlight, completed, pauseReason, ciRetryCounts,
                   lastMRStates, envVars>>

\* Done or Continue with something to push: the MR is opened and tracked.  The
\* provider refuses a second open MR of the branch.
WorkOpensMR ==
    /\ StepRuns("Working") /\ currentUnit \notin strays \cup {NoUnit}
    /\ RunnerTurn
    /\ mrState' = [mrState EXCEPT ![currentUnit] = "opened"]
    /\ inFlight' = inFlight \cup {currentUnit}
    /\ Store("AwaitingMerge")
    /\ UNCHANGED <<queue, plan, completed, blacklisted, currentUnit, pauseReason,
                   ciRetryCounts, lastMRStates, overtime, strays>>

Step ==
    \/ Setup \/ DiscoverOverBudget \/ DiscoverSweep \/ DiscoverSpec
    \/ WorkFailsEarly \/ WorkFails \/ WorkFindsNothing \/ WorkOpensMR

-----------------------------------------------------------------------------
(* invokeForEvent: a runner turn about an event on unit u's MR.  prompt is the *)
(* PromptInjection it starts with.                                             *)

\* The callback keeps everything but the turn, the pause reason and the status.
Park(reason) == pauseReason' = reason /\ Store("Paused")
Watch        == UNCHANGED pauseReason /\ Store("AwaitingMerge")

\* SyncWithBase failed: the prompt is kept for the next turn.
SyncFails(prompt) ==
    /\ promptInjection' = prompt
    /\ Park("event")
    /\ UNCHANGED <<ciRetryCounts, turns>>

\* The worktree is not isolated: the prompt is gone all the same.
IsolationFails ==
    /\ promptInjection' = FALSE
    /\ Park("event")
    /\ UNCHANGED <<ciRetryCounts, turns>>

\* Ask, Fail, or an error of the runner or of git.
TurnParks == RunnerTurn /\ Park("event") /\ UNCHANGED ciRetryCounts

\* NoChange, or a Done or Continue with nothing to push.
TurnChangesNothing == RunnerTurn /\ Watch /\ UNCHANGED ciRetryCounts

\* A change was pushed; one that fixes CI clears the unit's retry streak.
TurnPushes(ev, u) ==
    /\ RunnerTurn
    /\ Watch
    /\ ciRetryCounts' = IF ev.kind = "PipelineFailed"
                        THEN [ciRetryCounts EXCEPT ![u] = 0]
                        ELSE ciRetryCounts

\* RetryCI: the failed jobs run again, unless the streak is too long or a
\* call to retry a job fails.
TurnRetriesCI(ev, u) ==
    /\ RunnerTurn
    /\ ciRetryCounts' = [ciRetryCounts EXCEPT ![u] = @ + 1]
    /\ \/ ciRetryCounts'[u] <= MaxCIRetries /\ Watch
       \/ ciRetryCounts'[u] <= MaxCIRetries /\ ev.kind = "PipelineFailed" /\ Park("event")
       \/ ciRetryCounts'[u] > MaxCIRetries /\ Park("event")

InvokeForEvent(ev, u, prompt) ==
    /\ \/ SyncFails(prompt) \/ IsolationFails
       \/ TurnParks \/ TurnChangesNothing \/ TurnPushes(ev, u) \/ TurnRetriesCI(ev, u)
    /\ UNCHANGED <<unitVars, envVars>>

-----------------------------------------------------------------------------
(* Events. *)

\* body is what a note is to the Run: a comment the daemon posted itself and
\* still remembers ("echo"), a control verb of the author, or any other text.
Notes     == [kind : {"NoteAdded"}, mr : MRs, body : Verbs \cup {"text", "echo"}]
MREvents  == [kind : {"MRMerged", "MRClosed", "MRUpdated", "PipelineSucceeded", "PipelineFailed"},
              mr : MRs, body : {"none"}]
AuthEvents == [kind : {"ProviderAuthFailure", "ProviderAuthRestored"},
               mr : {NoUnit}, body : {"none"}]
Events    == Notes \cup MREvents \cup AuthEvents

\* The provider only reports what happened to an MR that exists.
Plausible(ev) ==
    \/ ev.mr = NoUnit
    \/ ev.mr \in Units /\ mrState[ev.mr] =
           CASE ev.kind = "MRMerged" -> "merged"
             [] ev.kind = "MRClosed" -> "closed"
             [] OTHER -> IF mrState[ev.mr] = "none" THEN "opened" ELSE mrState[ev.mr]

-----------------------------------------------------------------------------
(* Control verbs (controls.go), outside the abandon window. *)

CmdPause == Park("author") /\ UNCHANGED <<unitVars, turnVars, envVars>>

\* resume and retry only differ in the comment they post.
CmdResume ==
    /\ pauseReason' = "none"
    /\ Store("AwaitingMerge")
    /\ UNCHANGED <<unitVars, turnVars, envVars>>
CmdRetry == CmdResume

\* A verb that changes nothing: status, help, a verb about an MR we do not track.
Reply == Store(status) /\ UNCHANGED <<unitVars, pauseReason, turnVars, envVars>>

CmdSkip(ev) ==
    IF ev.mr \in inFlight
    THEN /\ CloseMRs({ev.mr})
         /\ MarkUnitBlacklisted(ev.mr)
         /\ UNCHANGED <<pauseReason, turnVars, overtime, strays>>
    ELSE Reply

CmdPrompt ==
    /\ promptInjection' = TRUE
    /\ Store(status)
    /\ UNCHANGED <<unitVars, pauseReason, ciRetryCounts, turns, envVars>>

\* stop, and the second abandon: InFlight is left as it is.
CmdStop ==
    /\ CloseMRs(inFlight)
    /\ Store("Cancelled")
    /\ UNCHANGED <<unitVars, pauseReason, turnVars, overtime, strays>>

CmdAbandon ==
    IF status = "AwaitingAbandonConfirm"
    THEN CmdStop
    ELSE /\ Store("AwaitingAbandonConfirm")
         /\ UNCHANGED <<unitVars, pauseReason, turnVars, envVars>>

\* The text is the prompt of a turn that runs at once, paused or not.
CmdFreeform(ev) ==
    IF ev.mr \in inFlight THEN InvokeForEvent(ev, ev.mr, TRUE) ELSE Reply

HandleControlCommand(ev) ==
    \/ ev.body = "pause"    /\ CmdPause
    \/ ev.body = "resume"   /\ CmdResume
    \/ ev.body = "retry"    /\ CmdRetry
    \/ ev.body = "skip"     /\ CmdSkip(ev)
    \/ ev.body = "prompt"   /\ CmdPrompt
    \/ ev.body = "status"   /\ Reply
    \/ ev.body = "stop"     /\ CmdStop
    \/ ev.body = "abandon"  /\ CmdAbandon
    \/ ev.body = "freeform" /\ CmdFreeform(ev)

-----------------------------------------------------------------------------
(* The callback: resume. *)

\* LastMRStates is written before anything else is decided.
AdvanceWatermarks(ev) ==
    lastMRStates' =
        IF ev.mr \in Units /\ ev.kind \in {"MRMerged", "MRClosed"}
        THEN [lastMRStates EXCEPT ![ev.mr] = IF ev.kind = "MRMerged" THEN "merged" ELSE "closed"]
        ELSE lastMRStates

\* Mutated form of DropAbandonConfirm: the Run is paused, as it may have been before.
DropToPaused == Park("author") /\ UNCHANGED <<unitVars, turnVars, envVars>>

\* In the abandon window only a second abandon counts; any other event drops
\* the window, and is itself dropped.
DropAbandonConfirm == Watch /\ UNCHANGED <<unitVars, turnVars, envVars>>

ConfirmWindow(ev) ==
    /\ status = "AwaitingAbandonConfirm" /\ ev.body # "echo"
    /\ IF ev.body = "abandon" THEN CmdAbandon ELSE DropAbandonConfirm

ControlCommand(ev) ==
    /\ status # "AwaitingAbandonConfirm" /\ ev.body \in Verbs
    /\ HandleControlCommand(ev)

OwnEcho(ev) == ev.body = "echo" /\ Reply

\* Neither an echo, nor a control command, nor in the abandon window.
Ordinary(ev) ==
    status # "AwaitingAbandonConfirm" /\ ev.body \notin Verbs \cup {"echo"}

HandleProviderAuthEvent(ev) ==
    /\ Ordinary(ev)
    /\ \/ /\ ev.kind = "ProviderAuthFailure"
          /\ Park("provider-auth")
       \/ /\ ev.kind = "ProviderAuthRestored"
          /\ IF pauseReason = "provider-auth"
             THEN pauseReason' = "none" /\ Store("AwaitingMerge")
             ELSE UNCHANGED pauseReason /\ Store(status)
    /\ UNCHANGED <<unitVars, turnVars, envVars>>

\* Events that are not about the provider's credentials.
AboutMR(ev) == Ordinary(ev) /\ ev.kind \notin {"ProviderAuthFailure", "ProviderAuthRestored"}

WhilePaused(ev) ==
    /\ AboutMR(ev) /\ status = "Paused"
    /\ Reply

NotTracked(ev) ==
    /\ AboutMR(ev) /\ status # "Paused" /\ ev.mr \notin inFlight
    /\ Watch
    /\ UNCHANGED <<unitVars, turnVars, envVars>>

\* Mutated form of Watched: events are handled while paused.
WatchedWhilePaused(ev) == AboutMR(ev) /\ ev.mr \in inFlight

\* An event the Run is watching for.
Watched(ev) == AboutMR(ev) /\ status # "Paused" /\ ev.mr \in inFlight

\* Mutated form of Lifecycle: a closed MR counts as merged.
LifecycleMergesAll(ev) ==
    /\ Watched(ev)
    /\ ev.kind \in {"MRMerged", "MRClosed"}
    /\ MarkUnitMerged(ev.mr)
    /\ UNCHANGED <<pauseReason, turnVars, envVars>>

\* Mutated form of Lifecycle: a closed MR is watched on.
LifecycleIgnoresClosed(ev) ==
    /\ Watched(ev)
    /\ \/ ev.kind = "MRMerged" /\ MarkUnitMerged(ev.mr)
       \/ ev.kind = "MRClosed" /\ Watch /\ UNCHANGED unitVars
    /\ UNCHANGED <<pauseReason, turnVars, envVars>>

Lifecycle(ev) ==
    /\ Watched(ev)
    /\ \/ ev.kind = "MRMerged" /\ MarkUnitMerged(ev.mr)
       \/ ev.kind = "MRClosed" /\ MarkUnitBlacklisted(ev.mr)
    /\ UNCHANGED <<pauseReason, turnVars, envVars>>

Informational(ev) ==
    /\ Watched(ev)
    /\ ev.kind \in {"MRUpdated", "PipelineSucceeded"}
    /\ ciRetryCounts' = IF ev.kind = "PipelineSucceeded"
                        THEN [ciRetryCounts EXCEPT ![ev.mr] = 0]
                        ELSE ciRetryCounts
    /\ Watch
    /\ UNCHANGED <<unitVars, promptInjection, turns, envVars>>

\* Notes and failed pipelines go through the filter.
Filtered(ev) ==
    /\ Watched(ev)
    /\ ev.kind \in {"NoteAdded", "PipelineFailed"}
    /\ \/ Watch /\ UNCHANGED <<unitVars, turnVars, envVars>>           \* skip
       \/ Park("event") /\ UNCHANGED <<unitVars, turnVars, envVars>>   \* pause
       \/ InvokeForEvent(ev, ev.mr, promptInjection)                   \* invoke a subagent

Resume(ev) ==
    /\ status \in CallbackStatuses
    /\ AdvanceWatermarks(ev)
    /\ \/ OwnEcho(ev) \/ ConfirmWindow(ev) \/ ControlCommand(ev)
       \/ HandleProviderAuthEvent(ev) \/ WhilePaused(ev) \/ NotTracked(ev)
       \/ Lifecycle(ev) \/ Informational(ev) \/ Filtered(ev)

OnAbandonConfirmTimeout ==
    /\ status = "AwaitingAbandonConfirm"
    /\ Watch
    /\ UNCHANGED <<unitVars, turnVars, lastMRStates, envVars>>

-----------------------------------------------------------------------------
(* The CLI's direct store writes (main.go). *)

DirectAbandon ==
    /\ runState # "finished"
    /\ CloseMRs(inFlight)
    /\ Store("Cancelled")
    /\ UNCHANGED <<unitVars, pauseReason, turnVars, lastMRStates, overtime, strays>>

DirectResume ==
    /\ CanRevive
    /\ \/ /\ runState = "paused"        \* only steps are auto-paused, never Paused
          /\ Store(status)
          /\ UNCHANGED pauseReason
       \/ /\ runState # "paused"
          /\ status \in {"Cancelled", "Failed", "Paused"}
          /\ pauseReason' = "none"
          /\ Store("Discovering")
    /\ UNCHANGED <<unitVars, turnVars, lastMRStates, envVars>>

-----------------------------------------------------------------------------
(* The environment: reviewers, and the clock. *)

ReviewerMerges(u) ==
    /\ mrState[u] = "opened"
    /\ mrState' = [mrState EXCEPT ![u] = "merged"]
    /\ UNCHANGED <<recordVars, unitVars, pauseReason, turnVars, lastMRStates, overtime, strays>>

ReviewerCloses(u) ==
    /\ mrState[u] = "opened"
    /\ mrState' = [mrState EXCEPT ![u] = "closed"]
    /\ UNCHANGED <<recordVars, unitVars, pauseReason, turnVars, lastMRStates, overtime, strays>>

\* An MR the Run does not know of is merged or closed.
StrayIsDecided(u) ==
    /\ u \in strays
    /\ strays' = strays \ {u}
    /\ UNCHANGED <<recordVars, unitVars, pauseReason, turnVars, lastMRStates, overtime, mrState>>

RuntimeElapses ==
    /\ HasMaxRuntime /\ ~overtime
    /\ overtime' = TRUE
    /\ UNCHANGED <<recordVars, unitVars, pauseReason, turnVars, lastMRStates, mrState, strays>>

Environment ==
    \/ \E u \in Units : ReviewerMerges(u) \/ ReviewerCloses(u) \/ StrayIsDecided(u)
    \/ RuntimeElapses

Next ==
    \/ Step \/ WorkIsCutShort \/ AutoPause \/ AutoRetry
    \/ \E ev \in Events : Plausible(ev) /\ Resume(ev)
    \/ OnAbandonConfirmTimeout
    \/ DirectAbandon \/ DirectResume
    \/ Environment

Spec == Init /\ [][Next]_vars

-----------------------------------------------------------------------------
(* Properties. *)

\* A unit is in one place only: it is settled at most once, it is not in
\* flight once settled, and work never starts on a unit that is in flight or
\* settled.  Holds however the Run is paused, abandoned and revived
\* (discoverSweep's dedup, markUnitMerged, markUnitBlacklisted).
UnitsDisjoint ==
    /\ inFlight \cap Settled = {}
    /\ Range(completed) \cap Range(blacklisted) = {}
    /\ IsInjective(completed) /\ IsInjective(blacklisted)
    /\ status = "Working" => currentUnit \in Units \ Seen

\* Every MR the Run was told of is in flight or settled: no path of resume or of the
\* control verbs drops one on the floor.  One it was not told of, because a stop or a lost
\* answer cut work() short, is the only MR of its unit: no later attempt opens another
\* beside it, and no unit that has been watched gets one (work, discoverSweep's dedup).
MRsAccounted ==
    /\ \A u \in Units : mrState[u] # "none" => u \in Seen
    /\ \A u \in strays : mrState[u] = "none"

\* A unit counts as completed only when its MR was merged.
CompletedAreMerged == \A u \in Range(completed) : mrState[u] = "merged"

\* Where a unit is.
StageOf(u) ==
    CASE u \in Range(completed)                   -> "completed"
      [] u \in Range(blacklisted)                 -> "blacklisted"
      [] u \in inFlight                           -> "watched"
      [] status = "Working" /\ currentUnit = u    -> "working"
      [] OTHER                                    -> "out"

UnitsOf == INSTANCE UnitLife WITH stage <- [u \in Units |-> StageOf(u)], mr <- mrState

\* Whatever is paused, stopped, revived, repeated and failing, every unit lives as
\* UnitLife has it: worked on once at a time and only without an MR, watched until its
\* MR is decided or skipped, settled by what became of the MR, and never moved again.
ImplementsUnitLife == UnitsOf!Spec

\* The transitions Build declares.
Life ==
    INSTANCE RunLifecycle WITH paused <- (runState = "paused"), Overlapping <- FALSE

\* Whatever a handler returns is a transition Build declares from where the Run is:
\* one that is not would be refused by the library, and tried again every time
\* (graph_test.go:16-27, ADR-0034).
ImplementsLifecycle == Life!Spec

\* What the planner reads about an increment is where the increment really is.
PlanMatchesUnits ==
    \A u \in DOMAIN plan :
        /\ plan[u] = "completed"   <=> u \in Range(completed)
        /\ plan[u] = "blacklisted" <=> u \in Range(blacklisted)

\* Unless somebody revives the Run against the store, it has one unit at a
\* time: nothing is in flight while it looks for a unit, works on one, or is
\* over ("at most one in v1 with concurrency=1", onAbandonConfirmTimeout).
OneUnitAtATime ==
    ~CanRevive =>
        /\ \A u, v \in inFlight : u = v
        /\ inFlight \subseteq {currentUnit}
        /\ status \in StepStatuses \cup {"Completed", "Failed"} => inFlight = {}

\* MaxUnits bounds the units settled and in progress together, so that merges
\* that arrive later cannot exceed it (checkBudget), unless the Run is revived.
BudgetCapsUnits ==
    ~CanRevive /\ MaxUnits > 0 =>
        LET done == Len(completed) + Len(blacklisted)
        IN  /\ done <= MaxUnits
            /\ inFlight # {} \/ status = "Working" => done < MaxUnits

\* The units the Run knows of.
Known == Range(queue) \cup ({currentUnit} \ {NoUnit}) \cup Seen

\* No step loses a unit: what was queued, worked on or in flight is still
\* queued, worked on, in flight or settled after it.
NoUnitLost == [][Known \subseteq Known']_vars

\* The Run waits for merges with nothing in flight.  Nobody polls it then
\* (decodeActiveRun).
AwaitsNothing == status = "AwaitingMerge" /\ inFlight = {}

\* It only comes to that by being taken out of a pause, or out of an abandon
\* window that was opened in one: whatever settles the last unit in flight also
\* sends the Run to look for the next (cmdResume, dropAbandonConfirm, cmdSkip,
\* markUnitMerged).
OnlyPausesEndInNothing ==
    [][AwaitsNothing' => AwaitsNothing \/ status \in {"Paused", "AwaitingAbandonConfirm"}]_vars

\* Whoever may move a paused Run.
AuthorActs ==
    \/ DirectAbandon \/ DirectResume
    \/ \E ev \in Notes : ev.body \in Verbs /\ Resume(ev)

\* The token expires, which takes a pause over whoever asked for it; and once it is
\* valid again, a pause that it has taken is lifted.
CredentialsMove ==
    /\ UNCHANGED unitVars
    /\ \/ status' = "Paused" /\ pauseReason' = "provider-auth"
       \/ pauseReason = "provider-auth" /\ pauseReason' = "none" /\ status' = "AwaitingMerge"

\* A paused Run keeps its status, its reason and its units until the author acts,
\* whatever events arrive, but for the provider's credentials: those that expire make any
\* pause theirs, and no other pause ends with them (resume, handleProviderAuthEvent).
PausedHoldsStill ==
    [][status = "Paused" =>
         UNCHANGED <<status, pauseReason, unitVars>> \/ AuthorActs \/ CredentialsMove]_vars

\* The Run remembers that the provider reported a merge or a close, and goes on
\* watching the unit all the same, only if the report came while it was parked: in a
\* pause or in the abandon window.  Such a report is not repeated (resume writes
\* LastMRStates first; mrStateEvent, poller.go:284).
SwallowedOnlyWhileParked ==
    [][\A u \in inFlight \cap inFlight' :
         lastMRStates'[u] # lastMRStates[u] => status \in {"Paused", "AwaitingAbandonConfirm"}]_vars
=============================================================================
