# everflow: models, checks and proofs

everflow (the binary is called `syntropy`) is a daemon that carries one refactor
through a repository as a series of merge requests.  It finds the next unit of
work, lets a coding agent (the *runner*) make the change in a git worktree, opens an
MR, and then minds that MR: it answers comments, looks at failed pipelines, waits
for the merge, and goes on to the next unit.  A refactor in progress is a *Run*.

This directory holds TLA+ models of that daemon, the TLC runs that check them and
TLAPS proofs about them.  Everything is translated from the Go source; where the
source leans on a library or a service, the model says what the source assumes of it.

## The system

| component | state it keeps | operations | hard part |
|---|---|---|---|
| `internal/refactorsweep` (`workflow.go`, `types.go`) | the Run's record: status, queue, plan, units in flight, completed and blacklisted, pause reason, watermarks | steps `setup`, `discover`, `work`; callback `resume` with `invokeForEvent`; the abandon timeout; the auto-pause hook | events in any status, in any order; revivals behind its back; partial failure inside a step |
| control verbs (`controls.go`) | none of their own | pause, resume, retry, skip, prompt, status, stop, abandon, freeform | legal in every callback status; come from the MR and from `/control` at once; a two-tap window with a clock |
| `internal/poller` | `authBackoff`, in memory | `pollRun`: state and notes of every MR in flight, auth failure and recovery | works from a snapshot while the Run moves on; note streams with ids of their own; its own comments come back; forgets on restart |
| `internal/eventstream` | tables `event_log`, `event_cursors`; a mutex and a condition variable | `Send`, `Recv`, acknowledgement, `NewReceiver` | lost wake-ups; skipping other topics' rows; deletions under the cursors; restarts |
| `internal/store` | tables `records`, `outbox`, `timeouts` | `Store` (record and outbox in one transaction), lookups, listings, `DeleteRun` | no compare-and-swap; order of outbox and log |
| `internal/git` | worktrees, branches, origin | `EnsureBranch`, `SyncWithBase`, `Commit`, `Push`, `RemoveWorktree`, `HardReset` | leftovers of interrupted commands; locks of sibling Runs; what counts as work |
| providers (`github`, `gitlab`) | MRs at the service | create, close, comment, list notes, retry jobs | not idempotent; tokens expire; answers get lost; pages end |
| `internal/reconciler` | none | finds Runs that stopped moving, sends their event again | what it listed is stale |
| `internal/retention` | none | deletes old ended Runs and their worktrees | list, then delete |
| `main.go` | the wiring | `/trigger`, `/control`, dispatcher, CLI writes straight to the store, shutdown | the CLI bypasses the daemon |
| webhook, filter, runner, setup, spec, config | files | parsing, prompts, processes | sequential |

How they interact.  The workflow library (`luno/workflow`, not in the repository)
runs one consumer per step status: it receives an event from the streamer, looks the
record up, runs the step, and stores the result together with the next event in one
transaction; a relay moves events from the outbox to the log.  The callback is
called by the dispatcher, from three directions: the poller, the webhook server and
`/control`.  `syntropy abandon` and `syntropy resume` write to the store from another
process.  A step calls git, the runner and the provider in turn, and only its last
act, the store, is atomic.

What makes it correct, part by part:

- *Run*: a unit is in one place; no MR is forgotten; only merged MRs count; nothing
  is lost; the budget holds; a pause holds until the author acts or the token expires; the plan is true.
- *poller*: it only reports what happened; every decision of a reviewer arrives; a
  pause for expired credentials lifts, unless a restart or a lost dispatch makes it forget.
- *conversation*: no note is lost or handled twice, in whatever order the streams
  number them; the daemon does not answer itself; a prompt that was acknowledged reaches the runner.
- *abandon window*: one tap never cancels; nothing but people and the clock close the window; it closes.
- *streamer*: a queue per receiver, in order, with nothing lost or repeated after its
  acknowledgement; nobody sleeps on an event.
- *store*: a step that is due has its event, whoever wrote the record; a step that runs
  keeps its record; only ended Runs are deleted; no step runs for ever.
- *work*: what the runner did is pushed or was nothing; a failed Run leaves no MR
  behind but one whose opening was interrupted; a step that is interrupted and run again ends.

`PROJECT.json` lists what can go wrong, line by line (`hazards`).

## The modules

| module | models | composes |
|---|---|---|
| `StatusGraph` | the statuses and the transitions `Build` declares | |
| `RunLifecycle` | what may become of one Run's record, whoever writes it | abstract, over `StatusGraph` |
| `UnitLife` | what may become of a Run's units and their MRs | abstract |
| `UnitLife_proofs` | what every implementation of it inherits | `UnitLife` |
| `RefactorSweep` | one Run: every handler as one action on its record | implements `RunLifecycle` and `UnitLife` |
| `RefactorSweep_proofs` | its safety properties and both implementations | `RefactorSweep`, `UnitLife_proofs` |
| `PolledSweep` | the same Run with the poller, `/control`, the token, restarts | extends `RefactorSweep`, and implements it |
| `AuthorPause` | the same, with who asked for the pause | extends `PolledSweep` |
| `PolledSweep_proofs` | the implementation, what it carries over, and the author's pause | `AuthorPause`, `RefactorSweep_proofs` |
| `TopicQueues` | what the streamer promises | abstract |
| `EventLog` | the streamer over its two tables | implements `TopicQueues` |
| `MCEventLog` | the instance TLC checks | `EventLog` |
| `EventLog_proofs` | the implementation, and no lost wake-up | both |
| `UnitWork` | one unit, a git, runner or provider call at a time | implements `UnitLife` |
| `UnitWork_proofs` | its safety properties and the implementation | `UnitWork` |
| `RunStore` | the records and everybody who writes them | implements `RunLifecycle`, over `StatusGraph` |
| `RunStore_proofs` | its safety properties and the implementation | `RunStore` |
| `Conversation` | the notes of one MR, from the provider's page to the stored record | |
| `MCConversation` | two streams whose ids overlap | `Conversation` |
| `Conversation_proofs` | its safety properties | `Conversation` |
| `AbandonWindow` | the two taps, the clock, the timeout rows | |
| `AbandonWindow_proofs` | its safety properties; it keeps to `RunLifecycle` | `AbandonWindow` |

Three abstract specifications hold the models together.  `TopicQueues` is the streamer's.
**RunLifecycle** is a Run seen from its record, a status and whether the circuit breaker has
parked it: a handler takes a Run that is where the handler belongs along a transition of `Build`
(`Goes`), and only the library, the CLI and the retention sweeper take it anywhere else.  Whatever
a handler returns that `Build` does not declare is an error of the library, every time it is tried again.  `RefactorSweep`
implements it with whole handlers (`paused <- runState = "paused"`), `RunStore` with reads and late
writes (`status <- rec[r].status`).  `CanRevive` and `Overlapping` name the two liberties:
the CLI revives ended Runs, and writers overlap, which adds a pause or a cancellation stored over
an ended Run and nothing else.
**UnitLife** is a unit and its MR: taken up only without an MR, watched only with one, settled
once by what became of it.  `RefactorSweep` maps the queue and the lists to stages (`StageOf`) and
its `mrState` to the MRs; `UnitWork` maps the status of its one unit, and the MR whose URL the record
has (`KnownMR`): one whose opening was interrupted is no MR of the Run's.

**RefactorSweep.**  The variables are the fields of `workflow.Record` and of
`AgentState` that steer a handler: `Queue`, `Plan` (outcomes only; increment *n* is
unit *n*), `InFlight` (its MRs are named by their units), `Completed`,
`Blacklisted`, `CurrentUnit`, `PauseReason` (by kind), `PromptInjection` (whether
there is one), `CIRetryCounts`, `LastMRStates`, and `turns` for `History`, which is
also what the token budget is counted in.  `mrState` is the provider's view of the MRs the Run was
told of; `strays` are the units with an open MR it was not told of, because the daemon stopped or
the answer of `CreateMR` was lost (`WorkIsCutShort`, `WorkFails`).  The provider refuses a second MR of the
same branch, so that a step that is run again over one cannot open another.  A handler
is one action: guards are its conditions and early returns, its branches are disjuncts.
A step that returns an error stores nothing and is tried again; after enough errors
the library parks the Run (`AutoPause`), and takes it up an hour later (`AutoRetry`).
Comments and the cursors of notes are `Conversation`'s; reactions, wording and thread
resolution are left out.
The events come from an environment that may send anything the provider could have
reported (`Plausible`: a merge only of a merged MR), as often as it likes, as a
project-wide webhook does.  Control commands are events too.

**PolledSweep** replaces that environment by the real one: ticks of `pollRun` with
their snapshot of `InFlight` and `LastMRStates`, one action per MR polled, the
end-of-tick accounting of `authBackoff`, the dispatcher, `/control`, the command line, and restarts that
lose what is in memory.  The two auth events are dispatched once: `Announce` delivers one or, like an error of
the dispatcher, which is only logged, does not.  `Fairness` says: the daemon ticks and steps; a step, and the
call that asks for an MR's state, work in the end if they are tried again and again;
tokens are refreshed; reviewers decide; the abandon timeout fires.  It says nothing
of the author, and nothing of a dispatch at the end of a tick.  The ticker loop, the library's retries and the timeout poller
are what justifies it.

**AuthorPause** adds a history variable to `PolledSweep`: `asked`, whether the author's last word
was a pause.  The record cannot tell, since `handleProviderAuthEvent` writes over whatever reason is
there.  Its actions are `PolledSweep`'s, divided into those the author's word comes by
(`AuthorSpeaks`: `/control`, a note with a verb, the command line) and the others.  TLC checks
what `PolledSweep` promises on this specification, which restricts nothing.

**EventLog.**  `Send`, the search of `Recv` and an acknowledgement each hold the
streamer's mutex and are one action; `cond.Wait` is membership of `parked`.
`DeleteRun` (the retention sweeper) does not take the mutex and may come at any
moment.  A restart keeps the tables.  `TopicQueues` is the specification: a set of
owed events per receiver, delivered oldest first.  Fairness: the daemon opens its
receivers, their goroutines keep calling `Recv` (strongly: others' broadcasts and
restarts interrupt it), and a step that is tried again and again is acknowledged.

**UnitWork** opens one unit's step, and the turns after it, up into calls: the
worktree (`site`), what is uncommitted (`dirt`), the branch against base and origin
(`local`, `base`, `remote`; `"even"` is a branch whose commits undo one another, which
`HasWorkBeyondBase` counts and `DiffShortstat` does not see), the MR.  The daemon may stop between any two calls, and
inside `worktree add` and `RemoveWorktree`, whose leftovers are modelled; the step is
then run again, over whatever is there.  Lock contention is counted as `withRetry`
counts it.  Fairness: a Run in Working is given to its step, and each call returns.
For the runner that is an assumption, since `work` sets no `Timeout`
(`claude.go:147`).  `RefactorSweep` has the same step as one action, and both
implement `UnitLife`, so that they agree on what a step may make of a unit.

**RunStore** is the level below a handler: what the others take for one action is here a
read, a stretch of time, and a `Store` that compares nothing.  A record is its version,
status and whether it is auto-paused; what a handler decides is free within the transitions
`Build` declares (`Goes`).  `Store` writes the record and its event into `outbox` at
once; the relay sends, then deletes (`RelaySend`, `DeleteOutboxEvent`), and the daemon may
stop in between.  A step's consumer receives an event, skips it or runs the step, stores and
acknowledges.  The writers that go past it: two goroutines that dispatch callbacks
(the poller's and `/control`'s), the library's retry of an auto-paused Run, and `syntropy
abandon` and `resume` from a process of their own.  `directAbandon` closes MRs and removes
worktrees between its read and its write, so it is two actions; `directResume` has
nothing in between and is one.  The CLI goes to the store if the daemon cannot be reached, if the Run
is auto-paused, or if `/control`'s callback fails, which needs a status with a callback
(`Unattended`).  The reconciler looks a Run up and sends an event for what it saw; the
retention sweeper lists ended Runs and deletes them one by one.  It lists only what nobody
works on any more (`Settled`): a Run has to be days old, and the first tick comes an hour
after the daemon's start.  Events are bags here (their order is `EventLog`'s), and only statuses with a
step have events, since nobody consumes the others.  What the library does with an event (skip it
if the record is gone, elsewhere, paused or newer; come back to it if the record is older; store a
result only if the status is still the same) is read off its use and marked external.
Fairness: the daemon is started again, the relay and the consumers keep running, a
step returns or fails.

**Conversation** is what `RefactorSweep` leaves out of the same callback: comments.  Notes
have a stream and a place in it, and their id is the stream's first plus that place
(`FirstID`), so that the ids of two streams can interleave or coincide.  The record keeps what the
handlers read of it: status, the scalar watermark, one cursor per stream, the ring of
hashes of the daemon's own comments, and whether there is a prompt.  A tick takes
its snapshot (`BeginTick`), lists (`ListNotesSince`, with the provider's page), and
dispatches lowest id first; a callback reads the record (`Begin`), does one of the things a verb or a
turn can do (`Handle`, `SaysMore`), and stores (`Store`).  `/control` runs the same
callback beside it.  A comment the daemon makes is its number: the ring holds numbers, and an
echo is a note whose number is on the ring.  `FilterSettles`, `SyncFails`,
`IsolationFails` and `Invoke` are the paths of a turn, told apart by what
they do to the prompt.  `GetMRState`, dispatch and the callback can fail, and the daemon
may be restarted.  Fairness: the ticker ticks, a
listing that is tried again and again works (strongly: ticks can fail before they list), what is listed is
dispatched, a callback is finished and stored.

**AbandonWindow** follows one Run through `/syntropy abandon`.  A note is a tap, other
activity, or an echo; a comment of the daemon is other activity until the callback that made it
has stored its hash.  The clock is discrete: `Window` ticks are the twelve hours, each row of
`timeouts` counts down (`Tick`), the library inserts a row for every announced
write that finds the Run in the window (`Insert`), and looks at rows that are due,
oldest first (`TimerReads`, `Store`, `RemoveRow`).  The poller, `/control`
and the timer each work on a copy and store it if the status has not changed.  Fairness: the
clock runs, so do the inserter and the library's poll of the table, and a callback ends.

## The runs

| run | asks | bounds | states |
|---|---|---|---|
| `SweepRevived` | one place per unit; no MR forgotten; `UnitLife` and `RunLifecycle`; what is reported is acted on unless the Run is parked; who moves a paused Run; only pauses end in waiting for nothing | 3 units, queues up to 3 with duplicates, 2 runner turns, all verbs, revivals | 258 k |
| `SpecPlanned` | the plan is true, the budget holds | 3 increments of which 2 are in the budget, 6 tokens, 7 turns, runtime budget | 82 k |
| `Polled` | the polled Run implements the Run; one unit at a time, none lost; decisions arrive; the author's pause holds while the token does; auth pauses lift, and only a loss forgets one; the sweep ends | 2 units, 2 turns; one expiry, one restart, one lost dispatch; `pause` and `resume` | 136 k |
| `EventLog` | queues, wake-ups, draining | 2 receivers, 2 topics, 2 Runs, 4 events | 135 k |
| `UnitWork` | nothing dropped, everything pushed, locks ridden out, no MR of a Run that failed uninterrupted, `UnitLife`, the step ends | 3 attempts, 3 turns, 2 stops, 1 lost answer | 96 k |
| `RunStore` | a due step's event, a running step's record, `RunLifecycle`, steps end | 1 Run, 4 versions, 2 errors in a row, 2 restarts, commands or sweeps | 92 k |
| `Conversation` | no note lost, none handled twice, no answer to itself, a prompt reaches the runner, every note arrives | 2 streams, 2 notes of people, 3 comments of the daemon, a ring of 2, pages of 3, one fault or `/control` call, `resume` and `prompt` | 244 k |
| `AbandonWindow` | one tap cancels nothing, a window has its timer, questions keep it, a clean window is whole, it closes | a window of 2 ticks, 3 notes or commands, one fault | 107 k |

Why the bounds are enough.  With three units one can be settled, one in flight and
one queued, with a duplicate of each; two units suffice where only one can be in flight
at a time (the poller).  Turns bound only how long a unit is minded; two of them are a turn
after a turn.  One expiry, one restart and one lost dispatch are each a failure with a before and an after,
and their order is free.  The other verbs meet stale events in `SweepRevived`, whose environment
repeats and delays what it likes, and the proofs take any set of verbs behind the poller too.  Four events in the log are one before, between and after
those of another topic.  Two stops interrupt a step and its repetition.  In `RunStore` Runs
meet nowhere but at a consumer that is busy (the proofs take any number of Runs); four versions are a
step, a pause, a revival and what follows; two meddlings are a sweep that a command or a restart cuts in two.
In `Conversation` the opening comment and two more fill a ring of two and push one out; two
people's notes are one in each stream, or one behind the other; one fault is between
any two steps of the callbacks they cause.  The page holds three, so that the fourth note of a stream is beyond it.  The
provider refuses the answers in review threads; that it may refuse any comment (`PostsFail`) triples the run
and is left to the proofs, which take every value of it.  Three
inputs in `AbandonWindow` open a window, close it and open another, over the row of the first.

Deadlock is not checked: a Run that ended, or one whose bounds are used up, stops.

Four runs are *violations*: each shows a trace in which the code does something its
documentation or comments say it does not (`findings`).

- `MergedUnauthorized`: an MR merged while the Run is parked for credentials is
  written to `LastMRStates` before the Paused early return; nothing reports it again.
- `RestartForgetsAuth`: restarting the daemon, as the README says to, forgets that the Run is to be resumed.
- `AuthorPauseTakenOver`: a token that expires during the author's pause takes the pause over
  (`workflow.go:1496`), and the recovered token ends it.
- `ConflictNotMerged`: `Commit`'s leading `git reset` ends the stopped merge, so
  the runner's resolution has one parent and base is never merged.

Their passing counterparts say what does hold: `SweepEnds` while the token holds, `AuthPauseLifts` until a
restart or a lost event, `OnlyLossForgetsAuth` that there is no third way to forget, `HoldsWhileTokenDoes` and
`PausedHoldsStill` (credentials move a paused Run, no other event does).

Observations without a run of their own:

- `pollRun` deletes its backoff entry, then dispatches `ProviderAuthRestored`, and only logs an error of that
  dispatch (`poller.go:257-272`): the event is never sent again, and the Run stays parked for credentials
  without any restart (`lost`, which `AuthPauseLifts` excepts).  `TROUBLESHOOTING.md:93` promises otherwise.
- A tick whose calls all failed for other reasons than a 401 counts as a recovered token (`poller.go:257`), and
  so does one without a call: the pause lifts, and the next 401 parks the Run again.
- A stop after `CreateMR`, or a lost answer, leaves an MR the Run does not know (`strays`).  `CreateMR` does not look for
  an MR of its branch and the provider refuses a second one, so the step that is run again fails, and the Run ends
  Failed (`workflow.go:815`; "Any error before MR creation", `workflow.go:650`).
- A reply in a GitHub review thread is an error every time, since `ReplyToDiscussion` wants a number
  (`github.go:218`) and `DiscussionID` is a node id (`github.go:387`); `ThreadsAnswer` is FALSE for that.
- A Run revived against the store while a unit is in flight may complete over it,
  a state `workflow.go:394` calls unreachable.  `syntropy resume` on a Failed Run skips the
  unit it failed on: `NoUnitLost` holds without revivals only.
- `resume` after a pause that came before any MR (a spent budget, a planner's question) waits
  in AwaitingMerge with nothing in flight, which the poller never polls
  (`OnlyPausesEndInNothing` says that this is the one way there).
- The row of an abandon that was called off is still in the table when the next window opens, and
  closes that one early, although the reply promises 12 hours (`controls.go:169`).
  `CleanWindowIsWhole` is stated for windows without such a row.
- The hash of a comment is stored with the record, after the comment was posted.  A
  poll in between takes the comment for a person's, contrary to `workflow.go:907-909`; one poller that
  also runs the callback cannot do that, `/control` beside it can (`torn`).
- A second tap closes the MRs before it stores; if the timer's store comes first, the
  Run goes on without them.
- A window that was opened from a pause ends in AwaitingMerge.
- A GitHub listing is the first 100 comments of each stream, oldest first: the 101st is never
  seen (`github.go:350`).  A GitLab one is the newest 50: older ones that came since the last tick are passed.
- A note whose dispatch failed is passed by the watermark of the next one (`poller.go:228`).
- More than 32 comments in one go push the first ones off the ring: the daemon answers them.
- The comment `onAutoPause` posts is not remembered on the ring (`workflow.go:180`), so the poller takes it for a
  person's; the auto-pause hook has no part in `Conversation`.
- `directResume` reads and stores in one action of `RunStore`: nothing is called in between, but another process
  could still write there (`Store` compares nothing).
- Free text addressed to the daemon takes the place of a prompt that is still waiting.
- Callbacks of one Run that overlap are stored one over the other: the prompt, the hashes and
  the cursors of the first are gone.  `NoNoteLost` and `OneTapNeverCancels` hold all the same.
- A prompt is cleared before the isolation check that may stop its turn (`workflow.go:1211`).
- A slow `abandon` stored over a retried step takes the version back, and the step's MR is
  forgotten.  An event newer than its record is an error until the record has caught up, which is
  why `StepsEnd` is stated for behaviours without one (`NoneAhead`).  A slow callback does the same
  when another one has moved the Run on and a step has brought it back to the status the slow one
  has read.  `OnlyStaleWritesRunAhead` shows that there is no third way.
- An auto-pause is stored over a cancellation that came while the step ran.
- `EventOnItsWay` needs no reconciler: the durable log has made the lost events it looks
  for (`reconciler.go:1-5`) impossible.
- The backoff starts at two minutes; its comment says 30 seconds (`poller.go:31`).
- A worktree left dirty (a binary `Commit` skips, edits of a failed turn, an unresolved conflict)
  makes `SyncWithBase` refuse every later event; `retry` does not clean it.
- A shutdown inside `RemoveWorktree` can leave a registration without a directory,
  which the next `worktree add` of that branch meets (`LocksNeverRefuse` allows it).
- A runner that answers NoChange when a step is run again gives up the commits of
  the interrupted attempt.
- Once somebody else pushes to the MR's branch, every later push of a turn is refused.

## What is proved

The theorems hold for every value of the constants, under the assumptions in
the modules (`ConstantsAssumption`, `PolledAssumption`, `LogAssumption`,
`UnitAssumption`, `StoreAssumption`, `ConversationAssumption`, `WindowAssumption`: numbers are numbers, sets are what they are used as).
Every safety and action property that a passing run checks is a theorem, and so are the type
invariants, which no run repeats.

- **RefactorSweep.**  `TypeCorrect` first.  The properties that hold under revival
  are conjuncts of one inductive invariant, `UnitInv` (they need each other, and
  `PlanCoversUnits`: a unit that is anywhere has a plan entry).  Every step is shown to have one of
  four effects on the units: it keeps them, merges the one in flight, gives one up, or opens
  an MR; the invariant is proved for the effects, and each handler is shown
  to have one of them.  Without revival, `OneUnitInv` adds
  `OneUnitAtATime` and `BudgetCapsUnits` and the fact that `CurrentUnit` is
  known; `NoUnitLost` follows from it as an action property.  `PausesEndInNothing`, `PausesHold` and
  `ReportsAreHandled` need no invariant but the types: the first goes by the effects again, the
  others by what each event may do to a Run.
- **Lifecycles.**  `SweepImplementsUnitLife` goes by the effects once more: each is a `Move` of every
  unit, given `UnitInv` (a settled unit is in no other list, an MR belongs to a unit that was
  watched).  What `UnitLife_proofs` shows of the abstract specification, above all that what is settled stays settled,
  is then the Run's as well (`SweepSettlesForGood`).  `SweepKeepsLifecycle` needs that only a
  step's status is ever auto-paused.  `WorkImplementsUnitLife` has `LifeInv`: where a step stands
  tells whether its MR is opened, stored or neither, across stops and lost answers.
  `RunsLiveTheirLives` rests on the owners' invariant below: a step that is run has its own record or
  a cancelled one, and neither it nor a record that is being abandoned is deleted meanwhile (`ReadIsStored`).
  `WindowKeepsLifecycle` does the same for the two taps and the clock: no callback was called in a Run that
  had ended, so none that comes late brings one back.
- **PolledSweep.**  `PolledImplementsSweep`: each step of the polled Run is a step of
  RefactorSweep or leaves its variables alone.  The core is that a polled event is
  `Plausible`: MRs are never reopened, so what the provider said stays said.
  The theorems of RefactorSweep are carried over (`PolledUnitsStayDisjoint`, `PolledKeepsPromises`,
  `PolledUnitsAreKept`).  `AuthIsForgottenByLoss` goes by what each step may do to the
  pause: only `ProviderAuthFailure` parks a Run for credentials, and that is dispatched with the failure counted.
  `AuthorsPauseIsKept` needs that a Run whose
  token never expired has no failure counted, no 401 in the tick under way, and no pause for credentials, so that
  nothing but a verb moves the pause the author asked for.
- **EventLog.**  `LogInv`: types, unique row identifiers, no parked receiver with a match, and
  a held row is the first one owed.  With it, `LogImplementsQueues` maps each step: `Recv`
  that skips is a stutter, because a skipped row is on another topic and was never owed.
  `LogKeepsPromises` proves of the queues, and carries over to the log, that events come in order, that
  none comes back after its acknowledgement, and that none is lost but with its Run.
- **UnitWork.**  Three invariants: where a handler is tells what it has made sure of
  (`OnItsWay`); only a stop leaves a registration behind (`NothingDangles`); until a stop or a
  lost answer an MR is known or about to be stored (`MRIsExpected`).  `CallsRunOut` is the part of `WorkEnds`
  that needs no fairness: between two stops every call brings a step or turn nearer to its end, which is at most
  `Attempts` + 8 calls away.
- **RunStore.**  `StoreInv` in three layers.  Types, with what is read leaving room for its
  successor.  Owners: `StepOwnsRecord` needs that two consumers never run steps of one Run
  and that a restart leaves nothing in memory; every write outside a consumer is shown to be of a
  record no consumer owns (`NotOwned`: its status has a callback, its step is paused, or the daemon
  is down), except a cancellation.  Events: what is in the outbox and already sent does not
  count (`Covered`), so that the relay's deletion takes nothing; `Store` brings the
  event of what it writes.  `OnlyEndedAreSwept` follows from the owners: listed Runs are left alone.
  `StepsAreAtomic` is what `RefactorSweep` takes for granted: the record a step's result is stored over is
  the one the step has read.  `OnlyStaleWritesRunAhead` is about the supposition of `StepsEnd`: no event is ever newer than
  its record, as long as no result of `abandon` or of a callback is stored over a record written since it
  was read (`Overtaken`).  It needs that a Run is cancelled at most once while its step runs
  (`CancelledOnce`), because the circuit breaker then stores the version that the cancellation had.
  Under the same supposition callbacks and `abandon` store over the very record they read
  (`VersionsWouldDo`): versions are enough to tell, if `Store` compared them.
- **Conversation.**  Every handler is first shown to be one kind of step (`Works`): it
  changes its copy but for the cursors, and makes one comment or none.  `NotesAreKept` needs
  `LossInv`: no cursor anybody holds, stored, copied or in the poller's snapshot, is ahead of its stream
  (`CursorsInv`) or of a note that is still to be taken (`AheadInv`), and what a listing left
  out of a stream comes after what it holds (`QueueInv`), since the lowest id is dispatched first.  It holds
  through overlapping callbacks because their stores only take cursors back.  The other three are about
  callbacks that neither overlap nor fail: `OneInv` says there is one, `WholeStep` what it can do, and
  on it rest the prompt (inductive with it), the ring (`RingInv`: it holds the latest comments,
  all of them while they fit) and the notes behind the cursors (`CoverInv`).
- **AbandonWindow.**  `TapInv` says where the one tap may be (unread, on its way, in the record, nowhere);
  `CleanInv` that a row of a clean window was made in it and has the time left that the window has;
  `QuestionInv` that nothing of the daemon's is taken for a person's while callbacks come one at a time;
  `TimedInv` that the row of an open window is not the one the timer is removing for another, the safe half of `WindowCloses`.

Only model-checked: every liveness property (fairness is beyond the prover).  The violations are TLC traces.  What a liveness property rests on that is
safety is proved, so that fairness has only to make the next step happen:

| Run's property | what is proved of it |
|---|---|
| `EveryNoteArrives` | `NoNoteLost`: what is still to arrive is behind every cursor |
| `StepsEnd` | `EventOnItsWay`; `OnlyStaleWritesRunAhead` |
| `QueuesDrain` | `NoLostWakeup` |
| `AuthPauseLifts` | `OnlyLossForgetsAuth`: but for a loss, the poller knows the Run it has to lift |
| `WindowCloses` | `WindowIsTimed` |
| `WorkEnds` | `CallsRunOut`, a bound for the calls that are left |
| `SweepEnds`, `DecisionIsRecorded` | `ReportsAreHandled`; `OnlyPausesEndInNothing` |

## Not modelled

The HTTP servers and their parsing, the webhook's signature check and what a provider delivers
through it twice (`Conversation` and `AbandonWindow` are about poll mode), Starlark and
phrase files, the runner process, the setup wizard, spec and config files, secrets,
rate limits, `_v0`.  Reactions and the resolving of threads: they change nothing the daemon reads.  Runs
written before streams had cursors of their own (`Legacy` as a floor: the model starts without).
The files and worktrees the retention sweeper removes.  Durations but the 12
hours of an abandon: backoffs, retention ages, cooldowns.

These parts are parsing, process handling and printing: sequential, without state that two
actors share, and better served by the unit tests they have.

## Plan

1. `Conversation` as an implementation of `RefactorSweep`'s callback (in `RunStore`, steps are
   atomic, and callbacks while no newer record is overwritten: `StepsAreAtomic`, `VersionsWouldDo`).
2. A bound for the steps that are left to a Run nobody revives, as `CallsRunOut` is one for
   the calls of a step.
3. The prefix match of the control verbs (`levenshtein`) against its definition.
