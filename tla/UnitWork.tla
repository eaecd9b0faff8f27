------------------------------ MODULE UnitWork ------------------------------
(***************************************************************************)
(* One unit of one Run, at the grain of the calls it makes: the step       *)
(* work() and the turns of invokeForEvent (internal/refactorsweep), with   *)
(* the unit's worktree and branch (internal/git), its branch on origin and *)
(* its MR at the provider.  Only the record survives a stop of the daemon, *)
(* and only what git and the provider hold survives with it: a step that   *)
(* was interrupted is run again from its beginning, over its own           *)
(* leftovers.                                                              *)
(*                                                                         *)
(* RefactorSweep takes such a step as a whole; callbacks that overlap are  *)
(* not modelled, and the runner stays on the branch it was started on.     *)
(***************************************************************************)
EXTENDS Naturals

CONSTANTS
    Attempts,    \* defaultFetchRetry.attempts
    MaxTurns,    \* bound: turns of invokeForEvent
    MaxStops,    \* bound: stops of the daemon
    MaxLost      \* bound: answers of CreateMR that get lost

ASSUME UnitAssumption ==
    /\ Attempts \in Nat \ {0}
    /\ MaxTurns \in Nat /\ MaxStops \in Nat /\ MaxLost \in Nat

Statuses  == {"Working", "AwaitingMerge", "Paused", "Discovering", "Failed"}
Steps     == {"idle", "ensure", "add", "sync", "run", "inspect", "commit", "push",
              "create", "remove", "store"}
Reasons   == {"none", "git", "exists", "runner", "createMR"}
Decisions == {"Done", "NoChange", "Fail"}   \* Continue is as Done; Ask and an error as Fail;
                                            \* RetryCI as NoChange, or as Fail
Dirt      == {"edits", "binary", "conflict"}

VARIABLES
    \* the stored record
    status, lastError,
    \* the step or turn under way: where it is, what it is going to store
    pc, result, reason, decision, attempt,
    \* the unit's branch in the base repository and its worktree: "none" of them, a
    \* branch that is checked out nowhere ("orphan"), one that is registered to a
    \* directory that is gone ("dangling"), or the "worktree"
    site,
    \* what is uncommitted in the worktree ("binary": untracked binaries, which Commit
    \* leaves alone; "conflict": a merge of base that stopped, with its MERGE_HEAD), and
    \* whether the branch is at the base, has commits that are all pushed, is ahead of
    \* what was pushed, or is so by commits that undo one another ("even")
    dirt, local,
    \* the base that was fetched last: "merged" into the branch, "missing" from it, or
    \* "givenUp" by the runner
    base,
    \* the branch on origin: absent, all of it in the local branch ("ours"), or with
    \* commits the local branch does not have ("others")
    remote,
    \* the MR at the provider
    mr,
    turns, stops, lost

record == <<status, lastError>>
tree   == <<site, dirt, local, base>>
bounds == <<turns, stops, lost>>
vars   == <<record, pc, result, reason, decision, attempt, tree, remote, mr, bounds>>

\* Types, and the bound on the attempts of a lock-contended git command (withRetry).
TypeOK ==
    /\ status \in Statuses /\ result \in Statuses
    /\ lastError \in Reasons /\ reason \in Reasons
    /\ pc \in Steps /\ decision \in Decisions \cup {"none"}
    /\ attempt \in 1..Attempts
    /\ site \in {"none", "orphan", "dangling", "worktree"}
    /\ dirt \subseteq Dirt
    /\ local \in {"base", "pushed", "ahead", "even"}
    /\ base \in {"merged", "missing", "givenUp"}
    /\ remote \in {"absent", "ours", "others"}
    /\ mr \in {"none", "open", "settled"}
    /\ turns \in Nat /\ stops \in Nat /\ lost \in Nat

Init ==
    /\ status = "Working" /\ lastError = "none"
    /\ pc = "idle" /\ result = "Working" /\ reason = "none"
    /\ decision = "none" /\ attempt = 1
    /\ site = "none" /\ dirt = {} /\ local = "base" /\ base = "merged"
    /\ remote = "absent" /\ mr = "none"
    /\ turns = 0 /\ stops = 0 /\ lost = 0

-----------------------------------------------------------------------------
(* How a step or turn goes on. *)

GoesTo(p) == pc' = p /\ UNCHANGED <<result, reason>>

Ends(s) == pc' = "store" /\ result' = s /\ reason' = "none"

\* Before there is an MR the Run fails; afterwards the author is asked.
Fails(why) ==
    /\ pc' = "store"
    /\ result' = IF status = "Working" THEN "Failed" ELSE "Paused"
    /\ reason' = why

\* The unit is done with: its worktree is removed, and the next one looked for.
Removes == pc' = "remove" /\ result' = "Discovering" /\ reason' = "none"

StartWork ==
    /\ status = "Working" /\ pc = "idle"
    /\ GoesTo("ensure")
    /\ attempt' = 1
    /\ UNCHANGED <<record, decision, tree, remote, mr, bounds>>

StartTurn ==
    /\ status = "AwaitingMerge" /\ pc = "idle"
    /\ turns < MaxTurns                                                \* bound
    /\ turns' = turns + 1
    /\ GoesTo("sync")
    /\ UNCHANGED <<record, decision, attempt, tree, remote, mr, stops, lost>>

-----------------------------------------------------------------------------
(* The worktree. *)

\* A worktree that is there is used; otherwise base is fetched, lock contention
\* ridden out.
EnsureBranch ==
    /\ pc = "ensure"
    /\ \/ site = "worktree" /\ GoesTo("run")
       \/ site # "worktree" /\ GoesTo("add")
       \/ Fails("git")
    /\ UNCHANGED <<record, decision, attempt, tree, remote, mr, bounds>>

\* The branch and its commits are gone; what was pushed of them is not.
BranchDeleted ==
    /\ local' = "base" /\ base' = "merged"
    /\ remote' = IF remote = "ours" THEN "others" ELSE remote

Added ==
    /\ site' = "worktree" /\ dirt' = {}
    /\ GoesTo("run")
    /\ UNCHANGED attempt

\* Mutated form of Contended: the attempts are not counted.
ContendedForever ==
    /\ site' \in {"none", "orphan"} /\ UNCHANGED <<dirt, attempt>>
    /\ GoesTo("add")

\* A sibling holds a lock: the branch may be there, the worktree is not.
Contended ==
    /\ site' \in {"none", "orphan"} /\ UNCHANGED dirt
    /\ \/ /\ attempt < Attempts
          /\ attempt' = attempt + 1
          /\ GoesTo("add")
       \/ /\ attempt = Attempts
          /\ Fails("git")
          /\ UNCHANGED attempt

\* Mutated form of AddWorktree: an orphaned branch is not cleaned up.
AddWithoutCleanup ==
    /\ pc = "add"
    /\ \/ site # "none" /\ Fails("exists") /\ UNCHANGED <<attempt, tree, remote>>
       \/ site = "none" /\ BranchDeleted /\ (Added \/ Contended)
    /\ UNCHANGED <<record, decision, mr, bounds>>

\* One attempt of `git worktree add -b`.  A branch that is checked out nowhere is
\* deleted first; one that is registered, be its directory there or not, is left,
\* and git refuses to make it again.
AddWorktree ==
    /\ pc = "add"
    /\ \/ site = "dangling" /\ Fails("exists") /\ UNCHANGED <<attempt, tree, remote>>
       \/ site # "dangling" /\ BranchDeleted /\ (Added \/ Contended)
       \/ /\ site # "dangling" /\ BranchDeleted
          /\ site' \in {"none", "orphan"} /\ Fails("git")
          /\ UNCHANGED <<attempt, dirt>>
    /\ UNCHANGED <<record, decision, mr, bounds>>

\* A turn merges base into the branch first, unless something is uncommitted.  A
\* merge conflict is left for the runner.
SyncWithBase ==
    /\ pc = "sync"
    /\ \/ /\ site = "worktree" /\ dirt = {}
          /\ \/ base' = "merged" /\ local' \in {local, "ahead"} /\ UNCHANGED dirt
             \/ base' = "missing" /\ dirt' = {"conflict"} /\ UNCHANGED local
          /\ GoesTo("run")
       \/ Fails("git") /\ UNCHANGED <<dirt, local, base>>
    /\ UNCHANGED <<record, decision, attempt, site, remote, mr, bounds>>

RemoveWorktree ==
    /\ pc = "remove"
    /\ \/ site \in {"dangling", "worktree"} /\ site' = "orphan" /\ dirt' = {}
       \/ UNCHANGED <<site, dirt>>                                     \* best effort
    /\ pc' = "store"
    /\ UNCHANGED <<record, result, reason, decision, attempt, local, base, remote, mr, bounds>>

-----------------------------------------------------------------------------
(* The runner's turn and what becomes of its work. *)

\* The runner edits, builds, commits or throws away as it sees fit.  A stopped merge it
\* leaves as it is, edited or not, commits, or aborts.
RunnerTurn ==
    /\ pc = "run"
    /\ dirt' \in SUBSET (dirt \cup {"edits", "binary"})
    /\ local' \in {local, "ahead", "even"}
    /\ IF "conflict" \in dirt \ dirt'
       THEN \/ base' = "merged" /\ local' \in {"ahead", "even"}
            \/ base' = "givenUp"
       ELSE UNCHANGED base
    /\ decision' \in Decisions
    /\ CASE decision' = "Done" -> GoesTo("inspect")
         [] decision' = "Fail" -> Fails("runner")
         [] decision' = "NoChange" /\ status = "Working" -> Removes
         [] OTHER -> Ends("AwaitingMerge")
    /\ UNCHANGED <<record, attempt, site, remote, mr, bounds>>

\* Commits of the branch's own: beyond base in work(), beyond what was pushed in a turn
\* (HasWorkBeyondBase).
HasCommits == IF status = "Working" THEN local # "base" ELSE local \in {"ahead", "even"}

\* They differ from where they began, all together (DiffShortstat).
HasDiff == HasCommits /\ local # "even"

\* Mutated form of HasWork: git status alone.
HasChanges == dirt # {}

HasWork == dirt # {} \/ HasCommits

\* In work() the unit needs no change; in a turn the reviewer is told so.
NothingDone == IF status = "Working" THEN Removes ELSE Ends("AwaitingMerge")

Inspect ==
    /\ pc = "inspect"
    /\ \/ HasWork /\ GoesTo("commit")
       \/ ~HasWork /\ NothingDone
       \/ Fails("git")
    /\ UNCHANGED <<record, decision, attempt, tree, remote, mr, bounds>>

Stageable == dirt \ {"binary"}

\* Mutated form of Commit: what the runner committed itself counts as nothing.
CommitOnlyStaged ==
    /\ pc = "commit"
    /\ \/ /\ Stageable # {}
          /\ dirt' = dirt \ Stageable /\ local' = "ahead"
          /\ GoesTo("push")
       \/ Stageable = {} /\ NothingDone /\ UNCHANGED <<dirt, local>>
    /\ UNCHANGED <<record, decision, attempt, site, base, remote, mr, bounds>>

\* Everything stageable is committed; ErrNoChanges is fine when the runner
\* committed something itself.  A hook may refuse.  The `git reset` in front of it all ends a
\* stopped merge: what is committed has one parent, new binaries of base are untracked
\* ones, and a conflict resolved the branch's way is no change.
Commit ==
    /\ pc = "commit"
    /\ \/ /\ Stageable # {}
          /\ dirt' \in {dirt \ Stageable} \cup (IF "conflict" \in dirt THEN {{"binary"}} ELSE {})
          /\ local' \in {"ahead", "even"}
          /\ GoesTo("push")
       \/ /\ Stageable \subseteq {"conflict"}
          /\ dirt' \in {dirt \ Stageable} \cup (IF "conflict" \in dirt THEN {{"binary"}} ELSE {})
          /\ IF HasDiff THEN GoesTo("push") ELSE NothingDone
          /\ UNCHANGED local
       \/ Fails("git") /\ UNCHANGED <<dirt, local>>
    /\ UNCHANGED <<record, decision, attempt, site, base, remote, mr, bounds>>

\* Mutated form of Push: the branch is enough, whoever opens its MR.
PushWithoutMR ==
    /\ pc = "push" /\ remote # "others"
    /\ remote' = "ours" /\ local' = "pushed"
    /\ Ends("AwaitingMerge")
    /\ UNCHANGED <<record, decision, attempt, site, dirt, base, mr, bounds>>

\* origin takes a fast-forward only.
Push ==
    /\ pc = "push"
    /\ \/ /\ remote # "others"
          /\ remote' = "ours" /\ local' = "pushed"
          /\ IF status = "Working" THEN GoesTo("create") ELSE Ends("AwaitingMerge")
       \/ Fails("git") /\ UNCHANGED <<remote, local>>
    /\ UNCHANGED <<record, decision, attempt, site, dirt, base, mr, bounds>>

\* Mutated form of CreateMR: the first comment must be posted, too.
CreateMRAndComment ==
    /\ pc = "create" /\ mr # "open"
    /\ mr' = "open"
    /\ Ends("AwaitingMerge") \/ Fails("createMR")
    /\ UNCHANGED <<record, decision, attempt, tree, remote, bounds>>

\* The provider refuses a second MR of the branch.  An answer may get lost on its
\* way, when the MR is there.
CreateMR ==
    /\ pc = "create"
    /\ \/ /\ mr # "open"
          /\ mr' = "open" /\ Ends("AwaitingMerge")
          /\ UNCHANGED lost
       \/ Fails("createMR") /\ UNCHANGED <<mr, lost>>
       \/ /\ mr # "open"
          /\ lost < MaxLost                                            \* bound
          /\ lost' = lost + 1
          /\ mr' = "open" /\ Fails("createMR")
    /\ UNCHANGED <<record, decision, attempt, tree, remote, turns, stops>>

StoreResult ==
    /\ pc = "store"
    /\ pc' = "idle"
    /\ status' = result /\ lastError' = reason
    /\ decision' = "none"
    /\ UNCHANGED <<result, reason, attempt, tree, remote, mr, bounds>>

-----------------------------------------------------------------------------
(* The author, the reviewers, and the machine. *)

\* The MR is merged, closed or skipped.
Settle ==
    /\ status \in {"AwaitingMerge", "Paused"} /\ pc = "idle"
    /\ mr' = "settled"
    /\ Removes
    /\ UNCHANGED <<record, decision, attempt, tree, remote, bounds>>

\* /syntropy retry or resume.
Retry ==
    /\ status = "Paused" /\ pc = "idle"
    /\ status' = "AwaitingMerge" /\ lastError' = "none"
    /\ UNCHANGED <<pc, result, reason, decision, attempt, tree, remote, mr, bounds>>

\* Somebody pushes to the MR's branch.
AuthorPushes ==
    /\ mr = "open"
    /\ remote' = "others"
    /\ UNCHANGED <<record, pc, result, reason, decision, attempt, tree, mr, bounds>>

\* What an interrupted git command leaves.  On a shutdown the context is cancelled:
\* RemoveWorktree's git commands fail, and its os.RemoveAll works.
Leftovers ==
    \/ UNCHANGED <<tree, remote>>
    \/ /\ pc = "add" /\ site # "dangling"
       /\ BranchDeleted
       /\ site' \in {"none", "orphan"} /\ UNCHANGED dirt
    \/ /\ pc = "remove" /\ site = "worktree"
       /\ site' = "dangling" /\ dirt' = {}
       /\ UNCHANGED <<local, base, remote>>

\* The daemon stops and is started again.
Stop ==
    /\ stops < MaxStops                                                \* bound
    /\ stops' = stops + 1
    /\ pc' = "idle" /\ decision' = "none"
    /\ Leftovers
    /\ UNCHANGED <<record, result, reason, attempt, mr, turns, lost>>

WorkOrTurn ==
    \/ EnsureBranch \/ AddWorktree \/ SyncWithBase \/ RunnerTurn \/ Inspect
    \/ Commit \/ Push \/ CreateMR \/ RemoveWorktree \/ StoreResult

Next ==
    \/ StartWork \/ StartTurn \/ WorkOrTurn
    \/ Settle \/ Retry \/ AuthorPushes \/ Stop

\* A Run in Working is given to its step until the step's result is stored, and every
\* call of a step returns.  Of the runner this is an assumption: work() sets no Timeout.
Fairness == WF_vars(StartWork) /\ WF_vars(WorkOrTurn)

Spec == Init /\ [][Next]_vars /\ Fairness

-----------------------------------------------------------------------------
(* Properties. *)

\* A unit the runner calls done is given up as "no changes" only if there are none:
\* no commits but such as undo one another, the runner's own included, no edits, nothing
\* left by an earlier, interrupted attempt (HasWorkBeyondBase, work's ErrNoChanges branch).
WorkIsNotDropped ==
    pc = "remove" /\ decision = "Done" => local \in {"base", "even"} /\ Stageable = {}

\* When a step or turn that calls itself done is over, and the MR waits to be
\* merged, all there is to push is pushed: commits of this turn and of earlier ones
\* whose push failed, base merges and resolved conflicts (work, invokeForEvent).
AnswerIsPushed ==
    pc = "store" /\ decision = "Done" /\ result = "AwaitingMerge" =>
        local # "ahead" /\ Stageable = {}

\* However often a sibling Run holds a lock, git never refuses to make a branch
\* because an earlier attempt left it behind: only a daemon that was stopped while it
\* removed the worktree meets its own registration (cleanupOrphanedBranch, ADR-0059).
LocksNeverRefuse == "exists" \in {reason, lastError} => stops > 0

\* When a turn that calls itself done is over, the branch holds the base it was synced
\* with, unless the runner gave the merge up ("leaves the worktree with unmerged paths
\* for the runner to resolve as part of its turn", SyncWithBase).
AnswerHoldsBase ==
    pc = "store" /\ decision = "Done" /\ result = "AwaitingMerge" => base # "missing"

\* A Run that failed did so before it had an MR ("Any error before MR creation ->
\* StatusFailed", workflow.go:650), unless the daemon was stopped or an answer of CreateMR
\* was lost: nothing that goes wrong once the MR is known makes the Run Failed (work).
FailureLeavesNoMR == stops = 0 /\ lost = 0 /\ status = "Failed" => mr = "none"

\* The unit as its Run's queue, InFlight, Completed and Blacklisted know it.
UnitStage ==
    CASE status = "Working" -> "working"
      [] status \in {"AwaitingMerge", "Paused"} -> "watched"
      [] status = "Discovering" /\ mr = "settled" -> "completed"
      [] status = "Discovering" /\ mr # "settled" -> "blacklisted"
      [] status = "Failed" -> "out"

\* An MR whose URL the record has.  A settled one counts as merged here.
KnownMR ==
    CASE UnitStage \in {"watched", "completed"} /\ mr = "open" -> "opened"
      [] UnitStage \in {"watched", "completed"} /\ mr = "settled" -> "merged"
      [] OTHER -> "none"

Life == INSTANCE UnitLife WITH Units <- {"unit"},
            stage <- [u \in {"unit"} |-> UnitStage], mr <- [u \in {"unit"} |-> KnownMR]

\* Call by call, across stops, retries and lost answers, the unit leads the life that
\* RefactorSweep gives it in single steps: it is watched only with an MR at the
\* provider, and a unit that is over is not taken up again (work, invokeForEvent, markUnitMerged).
ImplementsUnitLife == Life!Spec

\* The step ends: the Run does not stay in Working, across contended locks and stops
\* of the daemon (withRetry's bound, the step run again).
WorkEnds == status = "Working" ~> status # "Working"
=============================================================================
