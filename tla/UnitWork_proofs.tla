--------------------------- MODULE UnitWork_proofs --------------------------
(* The safety properties of UnitWork, for any number of attempts, turns and stops. *)
EXTENDS UnitWork, TLAPS

(***************************************************************************)
(* What holds where a step or turn is: which status it runs under, what it *)
(* has already made sure of, and what only a stop can leave.               *)
(***************************************************************************)
OnItsWay ==
    /\ pc \in {"ensure", "add", "create"} => status = "Working"
    /\ pc = "sync" => status = "AwaitingMerge"
    /\ pc \in {"run", "inspect", "commit", "push"} => status \in {"Working", "AwaitingMerge"}
    /\ pc = "idle" => decision = "none"
    /\ pc = "remove" => result = "Discovering"
    /\ pc = "store" => result # "Working"
    /\ pc = "store" /\ result = "Failed" => status = "Working"
    /\ pc \in {"push", "create"} => Stageable = {}
    /\ pc = "create" => local = "pushed"

NothingDangles ==
    /\ pc = "add" => site # "worktree"
    /\ site = "dangling" => stops > 0

MRIsExpected ==
    stops = 0 /\ lost = 0 /\ mr # "none" =>
        \/ status \in {"AwaitingMerge", "Paused", "Discovering"}
        \/ status = "Working" /\ pc = "store" /\ result = "AwaitingMerge"

AnswerInv == OnItsWay /\ WorkIsNotDropped /\ AnswerIsPushed
LocksInv  == NothingDangles /\ LocksNeverRefuse
MRInv     == MRIsExpected /\ FailureLeavesNoMR

(***************************************************************************)
(* Types.                                                                  *)
(***************************************************************************)

\* Every step keeps the types, the bound of withRetry among them.
LEMMA TypeStep ==
    ASSUME TypeOK, [Next]_vars
    PROVE  TypeOK'
<1> USE UnitAssumption DEF TypeOK, Statuses, Steps, Reasons, Decisions, Dirt
<1>1. CASE StartWork
  BY <1>1 DEF StartWork, record, tree, bounds, GoesTo
<1>2. CASE StartTurn
  BY <1>2 DEF StartTurn, record, tree, bounds, GoesTo
<1>3. CASE EnsureBranch
  BY <1>3 DEF EnsureBranch, record, tree, bounds, GoesTo, Fails
<1>4. CASE AddWorktree
  <2>1. dirt' \subseteq Dirt
    BY <1>4 DEF AddWorktree, record, tree, bounds, GoesTo, Fails, BranchDeleted, Added, Contended
  <2>2. TypeOK'
    BY <1>4, <2>1 DEF AddWorktree, record, tree, bounds, GoesTo, Fails, BranchDeleted, Added, Contended
  <2> QED
    BY <2>2
<1>5. CASE SyncWithBase
  <2>1. dirt' \subseteq Dirt
    BY <1>5 DEF SyncWithBase, record, tree, bounds, GoesTo, Fails
  <2>2. TypeOK'
    BY <1>5, <2>1 DEF SyncWithBase, record, tree, bounds, GoesTo, Fails
  <2> QED
    BY <2>2
<1>6. CASE RunnerTurn
  BY <1>6 DEF RunnerTurn, record, tree, bounds, GoesTo, Fails, Ends, Removes
<1>7. CASE Inspect
  BY <1>7 DEF Inspect, record, tree, bounds, GoesTo, Fails, Ends, Removes, NothingDone, HasWork, HasCommits
<1>8. CASE Commit
  <2>1. dirt' \subseteq Dirt
    BY <1>8 DEF Commit, record, tree, bounds, GoesTo, Fails, Ends, Removes, NothingDone, HasCommits, HasDiff, Stageable
  <2>2. TypeOK'
    BY <1>8, <2>1 DEF Commit, record, tree, bounds, GoesTo, Fails, Ends, Removes, NothingDone, HasCommits, HasDiff, Stageable
  <2> QED
    BY <2>2
<1>9. CASE Push
  BY <1>9 DEF Push, record, tree, bounds, GoesTo, Fails, Ends
<1>10. CASE CreateMR
  BY <1>10 DEF CreateMR, record, tree, bounds, Fails, Ends
<1>11. CASE RemoveWorktree
  <2>1. dirt' \subseteq Dirt
    BY <1>11 DEF RemoveWorktree, record, tree, bounds
  <2>2. TypeOK'
    BY <1>11, <2>1 DEF RemoveWorktree, record, tree, bounds
  <2> QED
    BY <2>2
<1>12. CASE StoreResult
  BY <1>12 DEF StoreResult, record, tree, bounds
<1>13. CASE Settle
  BY <1>13 DEF Settle, record, tree, bounds, Removes
<1>14. CASE Retry
  BY <1>14 DEF Retry, record, tree, bounds
<1>15. CASE AuthorPushes
  BY <1>15 DEF AuthorPushes, record, tree, bounds
<1>16. CASE Stop
  <2>1. dirt' \subseteq Dirt
    BY <1>16 DEF Stop, record, tree, bounds, Leftovers, BranchDeleted
  <2>2. TypeOK'
    BY <1>16, <2>1 DEF Stop, record, tree, bounds, Leftovers, BranchDeleted
  <2> QED
    BY <2>2
<1>17. CASE UNCHANGED vars
  BY <1>17 DEF vars, record, tree, bounds
<1> QED
  BY <1>1, <1>2, <1>3, <1>4, <1>5, <1>6, <1>7, <1>8, <1>9, <1>10, <1>11, <1>12, <1>13, <1>14, <1>15, <1>16, <1>17 DEF Next, WorkOrTurn

\* The attempts of a lock-contended command stay within withRetry's bound.
THEOREM UnitTypeCorrect == Spec => []TypeOK
<1>1. Init => TypeOK
  BY UnitAssumption DEF Init, TypeOK, Statuses, Steps, Reasons, Decisions, Dirt
<1>2. TypeOK /\ [Next]_vars => TypeOK'
  BY TypeStep
<1> QED
  BY <1>1, <1>2, PTL DEF Spec

(***************************************************************************)
(* The runner's work.                                                      *)
(***************************************************************************)

\* Where a handler is tells what it has seen to: what is staged, committed, pushed.
LEMMA AnswerStep ==
    ASSUME TypeOK, AnswerInv, [Next]_vars
    PROVE  AnswerInv'
<1> USE UnitAssumption DEF AnswerInv, OnItsWay, WorkIsNotDropped, AnswerIsPushed, Stageable
<1>1. CASE StartWork
  BY <1>1 DEF StartWork, record, tree, bounds, GoesTo
<1>2. CASE StartTurn
  BY <1>2 DEF StartTurn, record, tree, bounds, GoesTo
<1>3. CASE EnsureBranch
  BY <1>3 DEF EnsureBranch, record, tree, bounds, GoesTo, Fails
<1>4. CASE AddWorktree
  BY <1>4 DEF AddWorktree, record, tree, bounds, GoesTo, Fails, BranchDeleted, Added, Contended
<1>5. CASE SyncWithBase
  BY <1>5 DEF SyncWithBase, record, tree, bounds, GoesTo, Fails
<1>6. CASE RunnerTurn
  BY <1>6 DEF RunnerTurn, record, tree, bounds, GoesTo, Fails, Ends, Removes
<1>7. CASE Inspect
  BY <1>7 DEF Inspect, record, tree, bounds, GoesTo, Fails, Ends, Removes, NothingDone, HasWork, HasCommits
<1>8. CASE Commit
  BY <1>8 DEF Commit, record, tree, bounds, GoesTo, Fails, Ends, Removes, NothingDone, HasCommits, HasDiff
<1>9. CASE Push
  BY <1>9 DEF Push, record, tree, bounds, GoesTo, Fails, Ends
<1>10. CASE CreateMR
  BY <1>10 DEF CreateMR, record, tree, bounds, Fails, Ends
<1>11. CASE RemoveWorktree
  BY <1>11 DEF RemoveWorktree, record, tree, bounds
<1>12. CASE StoreResult
  BY <1>12 DEF StoreResult, record, tree, bounds
<1>13. CASE Settle
  BY <1>13 DEF Settle, record, tree, bounds, Removes
<1>14. CASE Retry
  BY <1>14 DEF Retry, record, tree, bounds
<1>15. CASE AuthorPushes
  BY <1>15 DEF AuthorPushes, record, tree, bounds
<1>16. CASE Stop
  BY <1>16 DEF Stop, record, tree, bounds, Leftovers, BranchDeleted
<1>17. CASE UNCHANGED vars
  BY <1>17 DEF vars, record, tree, bounds
<1> QED
  BY <1>1, <1>2, <1>3, <1>4, <1>5, <1>6, <1>7, <1>8, <1>9, <1>10, <1>11, <1>12, <1>13, <1>14, <1>15, <1>16, <1>17 DEF Next, WorkOrTurn

\* Where a step or turn is tells what it has seen to (work, invokeForEvent).
THEOREM AnswerInvariant == Spec => []AnswerInv
<1>1. Init => AnswerInv
  BY DEF Init, AnswerInv, OnItsWay, WorkIsNotDropped, AnswerIsPushed
<1>2. TypeOK /\ AnswerInv /\ [Next]_vars => AnswerInv'
  BY AnswerStep
<1> QED
  BY <1>1, <1>2, UnitTypeCorrect, PTL DEF Spec

\* A unit is given up as unchanged only when nothing was left to commit or push, for
\* any number of turns and stops (work, HasWorkBeyondBase).
THEOREM WorkReachesOrigin == Spec => []WorkIsNotDropped
<1>1. AnswerInv => WorkIsNotDropped
  BY DEF AnswerInv
<1> QED
  BY <1>1, AnswerInvariant, PTL

\* What a turn calls done is on origin, commits of earlier turns included whose push
\* failed, for any number of turns and stops (work, invokeForEvent).
THEOREM AnswersReachOrigin == Spec => []AnswerIsPushed
<1>1. AnswerInv => AnswerIsPushed
  BY DEF AnswerInv
<1> QED
  BY <1>1, AnswerInvariant, PTL

(***************************************************************************)
(* The leftovers of `git worktree add`.                                    *)
(***************************************************************************)

\* Only a stop leaves a registration without a directory.
LEMMA LocksStep ==
    ASSUME TypeOK, LocksInv, [Next]_vars
    PROVE  LocksInv'
<1> USE UnitAssumption DEF TypeOK, LocksInv, NothingDangles, LocksNeverRefuse
<1>1. CASE StartWork
  BY <1>1 DEF StartWork, record, tree, bounds, GoesTo
<1>2. CASE StartTurn
  BY <1>2 DEF StartTurn, record, tree, bounds, GoesTo
<1>3. CASE EnsureBranch
  BY <1>3 DEF EnsureBranch, record, tree, bounds, GoesTo, Fails
<1>4. CASE AddWorktree
  BY <1>4 DEF AddWorktree, record, tree, bounds, GoesTo, Fails, BranchDeleted, Added, Contended
<1>5. CASE SyncWithBase
  BY <1>5 DEF SyncWithBase, record, tree, bounds, GoesTo, Fails
<1>6. CASE RunnerTurn
  BY <1>6 DEF RunnerTurn, record, tree, bounds, GoesTo, Fails, Ends, Removes
<1>7. CASE Inspect
  BY <1>7 DEF Inspect, record, tree, bounds, GoesTo, Fails, Ends, Removes, NothingDone, HasWork, HasCommits
<1>8. CASE Commit
  BY <1>8 DEF Commit, record, tree, bounds, GoesTo, Fails, Ends, Removes, NothingDone, HasCommits, HasDiff, Stageable
<1>9. CASE Push
  BY <1>9 DEF Push, record, tree, bounds, GoesTo, Fails, Ends
<1>10. CASE CreateMR
  BY <1>10 DEF CreateMR, record, tree, bounds, Fails, Ends
<1>11. CASE RemoveWorktree
  BY <1>11 DEF RemoveWorktree, record, tree, bounds
<1>12. CASE StoreResult
  BY <1>12 DEF StoreResult, record, tree, bounds
<1>13. CASE Settle
  BY <1>13 DEF Settle, record, tree, bounds, Removes
<1>14. CASE Retry
  BY <1>14 DEF Retry, record, tree, bounds
<1>15. CASE AuthorPushes
  BY <1>15 DEF AuthorPushes, record, tree, bounds
<1>16. CASE Stop
  BY <1>16 DEF Stop, record, tree, bounds, Leftovers, BranchDeleted
<1>17. CASE UNCHANGED vars
  BY <1>17 DEF vars, record, tree, bounds
<1> QED
  BY <1>1, <1>2, <1>3, <1>4, <1>5, <1>6, <1>7, <1>8, <1>9, <1>10, <1>11, <1>12, <1>13, <1>14, <1>15, <1>16, <1>17 DEF Next, WorkOrTurn

\* Lock contention alone never makes git refuse the branch, for any number of
\* attempts (cleanupOrphanedBranch before every one of them).
THEOREM LocksAreRiddenOut == Spec => []LocksNeverRefuse
<1>1. Init => LocksInv
  BY DEF Init, LocksInv, NothingDangles, LocksNeverRefuse
<1>2. TypeOK /\ LocksInv /\ [Next]_vars => LocksInv'
  BY LocksStep
<1>3. LocksInv => LocksNeverRefuse
  BY DEF LocksInv
<1> QED
  BY <1>1, <1>2, <1>3, UnitTypeCorrect, PTL DEF Spec

(***************************************************************************)
(* The MR of a Run that failed.                                            *)
(***************************************************************************)

\* Until the daemon stops or an answer is lost, an MR is known or about to be stored.
LEMMA MRStep ==
    ASSUME TypeOK, AnswerInv, MRInv, [Next]_vars
    PROVE  MRInv'
<1> USE UnitAssumption DEF TypeOK, Statuses, AnswerInv, OnItsWay, MRInv, MRIsExpected, FailureLeavesNoMR
<1>1. CASE StartWork
  BY <1>1 DEF StartWork, record, tree, bounds, GoesTo
<1>2. CASE StartTurn
  BY <1>2 DEF StartTurn, record, tree, bounds, GoesTo
<1>3. CASE EnsureBranch
  BY <1>3 DEF EnsureBranch, record, tree, bounds, GoesTo, Fails
<1>4. CASE AddWorktree
  BY <1>4 DEF AddWorktree, record, tree, bounds, GoesTo, Fails, BranchDeleted, Added, Contended
<1>5. CASE SyncWithBase
  BY <1>5 DEF SyncWithBase, record, tree, bounds, GoesTo, Fails
<1>6. CASE RunnerTurn
  BY <1>6 DEF RunnerTurn, record, tree, bounds, GoesTo, Fails, Ends, Removes
<1>7. CASE Inspect
  BY <1>7 DEF Inspect, record, tree, bounds, GoesTo, Fails, Ends, Removes, NothingDone, HasWork, HasCommits
<1>8. CASE Commit
  BY <1>8 DEF Commit, record, tree, bounds, GoesTo, Fails, Ends, Removes, NothingDone, HasCommits, HasDiff, Stageable
<1>9. CASE Push
  BY <1>9 DEF Push, record, tree, bounds, GoesTo, Fails, Ends
<1>10. CASE CreateMR
  BY <1>10 DEF CreateMR, record, tree, bounds, Fails, Ends
<1>11. CASE RemoveWorktree
  BY <1>11 DEF RemoveWorktree, record, tree, bounds
<1>12. CASE StoreResult
  BY <1>12 DEF StoreResult, record, tree, bounds
<1>13. CASE Settle
  BY <1>13 DEF Settle, record, tree, bounds, Removes
<1>14. CASE Retry
  BY <1>14 DEF Retry, record, tree, bounds
<1>15. CASE AuthorPushes
  BY <1>15 DEF AuthorPushes, record, tree, bounds
<1>16. CASE Stop
  BY <1>16 DEF Stop, record, tree, bounds, Leftovers, BranchDeleted
<1>17. CASE UNCHANGED vars
  BY <1>17 DEF vars, record, tree, bounds
<1> QED
  BY <1>1, <1>2, <1>3, <1>4, <1>5, <1>6, <1>7, <1>8, <1>9, <1>10, <1>11, <1>12, <1>13, <1>14, <1>15, <1>16, <1>17 DEF Next, WorkOrTurn

\* Without a stop or a lost answer, a Run that failed has no MR (work).
THEOREM FailureIsBeforeMR == Spec => []FailureLeavesNoMR
<1>1. Init => AnswerInv /\ MRInv
  BY DEF Init, AnswerInv, OnItsWay, WorkIsNotDropped, AnswerIsPushed, MRInv, MRIsExpected, FailureLeavesNoMR
<1>2. TypeOK /\ AnswerInv /\ MRInv /\ [Next]_vars => (AnswerInv /\ MRInv)'
  BY AnswerStep, MRStep
<1>3. MRInv => FailureLeavesNoMR
  BY DEF MRInv
<1> QED
  BY <1>1, <1>2, <1>3, UnitTypeCorrect, PTL DEF Spec
(***************************************************************************)
(* The unit's life.                                                        *)
(***************************************************************************)

\* What is about to be stored, and the MR it rests on: a unit is watched only with an
\* MR, and given up after that only with one that is settled.
LifeInv ==
    /\ status \in {"Discovering", "Failed"} => pc = "idle"
    /\ status = "Paused" => pc \in {"idle", "remove", "store"}
    /\ status = "Working" => mr # "settled"
    /\ status \in {"AwaitingMerge", "Paused"} => mr # "none"
    /\ pc = "store" =>
         CASE status = "Working" -> /\ result \in {"AwaitingMerge", "Failed", "Discovering"}
                                    /\ result = "AwaitingMerge" => mr = "open"
           [] status = "AwaitingMerge" -> /\ result \in {"AwaitingMerge", "Paused", "Discovering"}
                                          /\ result = "Discovering" => mr = "settled"
           [] status = "Paused" -> result = "Discovering" /\ mr = "settled"
           [] OTHER -> FALSE
    /\ pc = "remove" /\ status # "Working" => mr = "settled"

\* Nothing but the opening of the MR lets a step store that it awaits the merge.
LEMMA LifeInvStep ==
    ASSUME TypeOK, AnswerInv, LifeInv, [Next]_vars
    PROVE  LifeInv'
<1> USE UnitAssumption DEF TypeOK, Statuses, AnswerInv, OnItsWay, LifeInv
<1>1. CASE StartWork
  BY <1>1 DEF StartWork, record, tree, bounds, GoesTo
<1>2. CASE StartTurn
  BY <1>2 DEF StartTurn, record, tree, bounds, GoesTo
<1>3. CASE EnsureBranch
  BY <1>3 DEF EnsureBranch, record, tree, bounds, GoesTo, Fails
<1>4. CASE AddWorktree
  BY <1>4 DEF AddWorktree, record, tree, bounds, GoesTo, Fails, BranchDeleted, Added, Contended
<1>5. CASE SyncWithBase
  BY <1>5 DEF SyncWithBase, record, tree, bounds, GoesTo, Fails
<1>6. CASE RunnerTurn
  BY <1>6 DEF RunnerTurn, record, tree, bounds, GoesTo, Fails, Ends, Removes, Decisions
<1>7. CASE Inspect
  BY <1>7 DEF Inspect, record, tree, bounds, GoesTo, Fails, Ends, Removes, NothingDone
<1>8. CASE Commit
  BY <1>8 DEF Commit, record, tree, bounds, GoesTo, Fails, Ends, Removes, NothingDone
<1>9. CASE Push
  BY <1>9 DEF Push, record, tree, bounds, GoesTo, Fails, Ends
<1>10. CASE CreateMR
  BY <1>10 DEF CreateMR, record, tree, bounds, Fails, Ends
<1>11. CASE RemoveWorktree
  BY <1>11 DEF RemoveWorktree, record, tree, bounds
<1>12. CASE StoreResult
  BY <1>12 DEF StoreResult, record, tree, bounds
<1>13. CASE Settle
  BY <1>13 DEF Settle, record, tree, bounds, Removes
<1>14. CASE Retry
  BY <1>14 DEF Retry, record, tree, bounds
<1>15. CASE AuthorPushes
  BY <1>15 DEF AuthorPushes, record, tree, bounds
<1>16. CASE Stop
  BY <1>16 DEF Stop, record, tree, bounds, Leftovers, BranchDeleted
<1>17. CASE UNCHANGED vars
  BY <1>17 DEF vars, record, tree, bounds
<1> QED
  BY <1>1, <1>2, <1>3, <1>4, <1>5, <1>6, <1>7, <1>8, <1>9, <1>10, <1>11, <1>12, <1>13, <1>14, <1>15, <1>16, <1>17 DEF Next, WorkOrTurn

\* A unit is watched only with an MR, and forgotten only without one, or with a settled
\* one (work, markUnitMerged, markUnitSkipped).
THEOREM LifeInvariant == Spec => []LifeInv
<1>1. Init => LifeInv
  BY DEF Init, LifeInv
<1>2. TypeOK /\ AnswerInv /\ LifeInv /\ [Next]_vars => LifeInv'
  BY LifeInvStep
<1> QED
  BY <1>1, <1>2, UnitTypeCorrect, AnswerInvariant, PTL DEF Spec

\* What the unit's Run knows of it, changed by a step: one move of UnitLife, or none.
Moves ==
    \/ UnitStage' = UnitStage /\ KnownMR' = KnownMR
    \/ UnitStage = "working" /\ UnitStage' \in {"out", "blacklisted"} /\ KnownMR' = KnownMR
    \/ UnitStage = "working" /\ UnitStage' = "watched" /\ KnownMR = "none" /\ KnownMR' = "opened"
    \/ UnitStage = "watched" /\ UnitStage' = "completed" /\ KnownMR = "merged" /\ KnownMR' = "merged"
    \/ UnitStage' = UnitStage /\ KnownMR = "opened" /\ KnownMR' = "merged"

\* Only the store and the settling of the MR move the unit; the other calls change
\* neither the status nor, but for the opening of the MR, the MR.
LEMMA UnitMoves ==
    ASSUME TypeOK, AnswerInv, LifeInv, [Next]_vars
    PROVE  Moves
<1> USE DEF TypeOK, Statuses, AnswerInv, OnItsWay, LifeInv, UnitStage, KnownMR, Moves
<1>1. CASE status' = status /\ mr' = mr
  BY <1>1
<1>2. CASE CreateMR
  BY <1>2 DEF CreateMR, record
<1>3. CASE StoreResult
  <2> USE DEF StoreResult
  <2>1. CASE status = "Working"
    BY <1>3, <2>1
  <2>2. CASE status = "AwaitingMerge"
    BY <1>3, <2>2
  <2>3. CASE status = "Paused"
    BY <1>3, <2>3
  <2> QED
    BY <1>3, <2>1, <2>2, <2>3
<1>4. CASE Settle
  BY <1>4 DEF Settle, record
<1>5. CASE Retry
  BY <1>5 DEF Retry
<1>6. CreateMR \/ StoreResult \/ Settle \/ Retry \/ (status' = status /\ mr' = mr)
  BY DEF Next, WorkOrTurn, vars, record, StartWork, StartTurn, EnsureBranch, AddWorktree, SyncWithBase,
         RunnerTurn, Inspect, Commit, Push, RemoveWorktree, AuthorPushes, Stop
<1> QED
  BY <1>1, <1>2, <1>3, <1>4, <1>5, <1>6

\* Each move is one of UnitLife's.
LEMMA UnitLifeStep ==
    ASSUME TypeOK, Moves
    PROVE  [Life!Next]_(Life!vars)
<1> DEFINE s == [u \in {"unit"} |-> UnitStage]
           m == [u \in {"unit"} |-> KnownMR]
<1>1. UnitStage' \in Life!Stages /\ KnownMR' \in Life!MRStates
  BY DEF TypeOK, Statuses, Moves, UnitStage, KnownMR, Life!Stages, Life!MRStates
<1>2. /\ s["unit"] = UnitStage /\ s'["unit"] = UnitStage'
      /\ m["unit"] = KnownMR /\ m'["unit"] = KnownMR'
  OBVIOUS
<1>3. /\ s' \in [{"unit"} -> Life!Stages]
      /\ m' \in [{"unit"} -> Life!MRStates]
  BY <1>1
<1>4. Life!Move("unit") \/ (s'["unit"] = s["unit"] /\ Life!SameMR("unit"))
  BY <1>2 DEF Moves, Life!Move, Life!Take, Life!Leave, Life!GiveUp, Life!Open, Life!Complete,
         Life!Blacklist, Life!Decide, Life!From, Life!MRFrom, Life!SameMR
<1>5. Life!Next
  BY <1>3, <1>4 DEF Life!Next
<1> QED
  BY <1>5

\* Call by call, with any number of turns, stops and lost answers, the unit leads the
\* life that its Run's queue promises (work, runUnit, markUnitMerged).
THEOREM WorkImplementsUnitLife == Spec => ImplementsUnitLife
<1>1. Init => Life!Init
  BY DEF Init, Life!Init, UnitStage, KnownMR
<1>2. TypeOK /\ AnswerInv /\ LifeInv /\ [Next]_vars => [Life!Next]_(Life!vars)
  BY UnitMoves, UnitLifeStep
<1> QED
  BY <1>1, <1>2, UnitTypeCorrect, AnswerInvariant, LifeInvariant, PTL DEF Spec, ImplementsUnitLife, Life!Spec

(***************************************************************************)
(* The end of a step.                                                      *)
(***************************************************************************)

\* The calls a step or turn can still come to, at most; an attempt of a contended
\* command is a call of its own.
CallsAhead ==
    LET after == [p \in Steps |->
            CASE p = "idle" -> 0 [] p = "store" -> 1 [] p = "remove" -> 2 [] p = "create" -> 3
              [] p = "push" -> 4 [] p = "commit" -> 5 [] p = "inspect" -> 6 [] p = "run" -> 7
              [] p = "sync" -> 8 [] p \in {"add", "ensure"} -> 8]
    IN after[pc] + (CASE pc = "add" -> Attempts - attempt
                      [] pc = "ensure" -> Attempts + 1 - attempt
                      [] OTHER -> 0)

\* No call leads back: each leaves fewer to come, so that a step or turn is over within
\* Attempts + 8 of them, whatever git, the runner and the provider answer (what WorkEnds
\* rests on, besides that every call returns).
CallsCountDown ==
    [][WorkOrTurn => CallsAhead' < CallsAhead /\ CallsAhead' \in Nat]_vars

\* Every call leaves fewer to come.
LEMMA CountdownStep ==
    ASSUME TypeOK, WorkOrTurn
    PROVE  CallsAhead' < CallsAhead /\ CallsAhead' \in Nat
<1> USE UnitAssumption DEF TypeOK, Steps, CallsAhead, Decisions
<1>1. CASE EnsureBranch
  BY <1>1 DEF EnsureBranch, record, tree, bounds, GoesTo, Fails
<1>2. CASE AddWorktree
  BY <1>2 DEF AddWorktree, record, tree, bounds, GoesTo, Fails, BranchDeleted, Added, Contended
<1>3. CASE SyncWithBase
  BY <1>3 DEF SyncWithBase, record, tree, bounds, GoesTo, Fails
<1>4. CASE RunnerTurn
  BY <1>4 DEF RunnerTurn, record, tree, bounds, GoesTo, Fails, Ends, Removes, Decisions
<1>5. CASE Inspect
  BY <1>5 DEF Inspect, record, tree, bounds, GoesTo, Fails, Ends, Removes, NothingDone
<1>6. CASE Commit
  BY <1>6 DEF Commit, record, tree, bounds, GoesTo, Fails, Ends, Removes, NothingDone
<1>7. CASE Push
  BY <1>7 DEF Push, record, tree, bounds, GoesTo, Fails, Ends
<1>8. CASE CreateMR
  BY <1>8 DEF CreateMR, record, tree, bounds, Fails, Ends
<1>9. CASE RemoveWorktree
  BY <1>9 DEF RemoveWorktree, record, tree, bounds
<1>10. CASE StoreResult
  BY <1>10 DEF StoreResult, record, tree, bounds
<1> QED
  BY <1>1, <1>2, <1>3, <1>4, <1>5, <1>6, <1>7, <1>8, <1>9, <1>10 DEF WorkOrTurn

\* A step or turn is over within Attempts + 8 calls, for any number of attempts (work,
\* invokeForEvent, withRetry).
THEOREM CallsRunOut == Spec => CallsCountDown
<1>1. TypeOK /\ [Next]_vars => [WorkOrTurn => CallsAhead' < CallsAhead /\ CallsAhead' \in Nat]_vars
  BY CountdownStep
<1> QED
  BY <1>1, UnitTypeCorrect, PTL DEF Spec, CallsCountDown
=============================================================================
