------------------------ MODULE RefactorSweep_proofs ------------------------
(***************************************************************************)
(* Proofs about RefactorSweep: its type invariant, and the bookkeeping of  *)
(* units and MRs that survives every interleaving of steps, events,        *)
(* control verbs, abandons and revivals.                                   *)
(***************************************************************************)
EXTENDS RefactorSweep, SequenceTheorems, TLAPS

-----------------------------------------------------------------------------
(* Type correctness. *)

\* The Run starts with a well-typed record.
LEMMA InitTypeOK == Init => TypeOK
<1> SUFFICES ASSUME Init PROVE TypeOK
  OBVIOUS
<1>1. queue \in Seq(Units)
  <2>1. CASE Mode = "sweep"
    <3>1. queue \in UNION {[1..n -> Units] : n \in 0..MaxQueue}
      BY <2>1 DEF Init
    <3>2. PICK n \in 0..MaxQueue : queue \in [1..n -> Units]
      BY <3>1
    <3>3. n \in Nat
      BY ConstantsAssumption
    <3> QED BY <3>2, <3>3, SeqDef
  <2>2. CASE Mode # "sweep"
    <3>1. queue = <<>>
      BY <2>2 DEF Init
    <3> QED BY <3>1
  <2> QED BY <2>1, <2>2
<1>2. /\ status \in Statuses /\ runState = "running"
      /\ pauseReason \in PauseReasons /\ promptInjection \in BOOLEAN
      /\ turns \in Nat /\ overtime \in BOOLEAN
  BY DEF Init, Statuses, PauseReasons
<1>3. /\ plan \in Seq(Outcomes) /\ inFlight \subseteq Units
      /\ completed \in Seq(Units) /\ blacklisted \in Seq(Units)
      /\ currentUnit \in MRs
  BY EmptySeq DEF Init, MRs
<1>4. /\ ciRetryCounts \in [Units -> Nat]
      /\ lastMRStates \in [Units -> {"none", "merged", "closed"}]
      /\ mrState \in [Units -> {"none", "opened", "merged", "closed"}]
      /\ strays \subseteq Units
  BY DEF Init
<1> QED BY <1>1, <1>2, <1>3, <1>4 DEF TypeOK

\* The statuses a handler stores are statuses.
LEMMA StoreType ==
    ASSUME NEW s \in Statuses, Store(s)
    PROVE  status' \in Statuses /\ runState' \in {"running", "paused", "finished"}
BY DEF Store

\* Recording an outcome keeps the plan well typed.
LEMMA PlanType ==
    ASSUME TypeOK, NEW u \in Units, NEW outcome \in Outcomes, UpdatePlanOutcome(u, outcome)
    PROVE  plan' \in Seq(Outcomes) /\ Len(plan') = Len(plan)
<1>1. plan \in Seq(Outcomes) /\ DOMAIN plan = 1..Len(plan)
  BY DEF TypeOK
<1>2. CASE u \in DOMAIN plan
  <2>1. plan' = [plan EXCEPT ![u] = outcome]
    BY <1>2 DEF UpdatePlanOutcome
  <2> QED BY <1>1, <1>2, <2>1, ExceptSeq
<1>3. CASE u \notin DOMAIN plan
  BY <1>1, <1>3 DEF UpdatePlanOutcome
<1> QED BY <1>2, <1>3

\* Closing MRs keeps the provider's states well typed.
LEMMA CloseType ==
    ASSUME TypeOK, NEW S, CloseMRs(S)
    PROVE  mrState' \in [Units -> {"none", "opened", "merged", "closed"}]
BY DEF TypeOK, CloseMRs

\* A runner turn keeps History and the pending prompt well typed.
LEMMA TurnType ==
    ASSUME TypeOK, RunnerTurn
    PROVE  turns' \in Nat /\ promptInjection' \in BOOLEAN
<1>1. turns' \in Nat
  BY DEF TypeOK, RunnerTurn
<1>2. promptInjection' = FALSE
  BY DEF RunnerTurn
<1> QED BY <1>1, <1>2

\* Starting work, opening an MR, or failing keeps the record well typed.
LEMMA StepType == TypeOK /\ Step => TypeOK'
<1> SUFFICES ASSUME TypeOK, Step PROVE TypeOK'
  OBVIOUS
<1> USE DEF TypeOK
<1>1. CASE Setup
  BY <1>1 DEF Setup, Store, Statuses, TerminalStatuses, unitVars, turnVars, envVars
<1>2. CASE DiscoverOverBudget
  BY <1>2 DEF DiscoverOverBudget, Store, Statuses, PauseReasons, unitVars, turnVars, envVars
<1>3. CASE DiscoverSweep
  <2>1. PICK k \in 0..Len(queue) :
          \/ queue' = <<>> /\ Store("Completed") /\ UNCHANGED currentUnit
          \/ /\ k < Len(queue)
             /\ currentUnit' = queue[k + 1]
             /\ queue' = SubSeq(queue, k + 2, Len(queue))
             /\ Store("Working")
    BY <1>3 DEF DiscoverSweep
  <2>2. queue' \in Seq(Units) /\ currentUnit' \in MRs
    <3>1. CASE queue' = <<>> /\ UNCHANGED currentUnit
      BY <3>1, EmptySeq
    <3>2. CASE /\ k < Len(queue)
               /\ currentUnit' = queue[k + 1]
               /\ queue' = SubSeq(queue, k + 2, Len(queue))
      <4>1. \A i \in k + 2 .. Len(queue) : queue[i] \in Units
        BY ElementOfSeq
      <4>2. queue' \in Seq(Units)
        BY <3>2, <4>1, SubSeqProperties
      <4>3. queue[k + 1] \in Units
        BY <3>2, ElementOfSeq
      <4> QED BY <3>2, <4>2, <4>3 DEF MRs
    <3> QED BY <2>1, <3>1, <3>2
  <2>3. status' \in Statuses /\ runState' \in {"running", "paused", "finished"}
    BY <2>1 DEF Store, Statuses
  <2> QED BY <1>3, <2>2, <2>3 DEF DiscoverSweep, turnVars, envVars
<1>4. CASE DiscoverSpec
  <2>1. status' \in Statuses /\ runState' \in {"running", "paused", "finished"}
    BY <1>4 DEF DiscoverSpec, Decisions, Store, Statuses
  <2>2. turns' \in Nat /\ promptInjection' \in BOOLEAN
    BY <1>4, TurnType DEF DiscoverSpec
  <2>3. plan' \in Seq(Outcomes) /\ currentUnit' \in MRs /\ pauseReason' \in PauseReasons
    <3>1. CASE UNCHANGED <<plan, currentUnit>>
      BY <1>4, <3>1 DEF DiscoverSpec, PauseReasons
    <3>2. CASE /\ Len(plan) < NumUnits
               /\ plan' = Append(plan, "in_flight")
               /\ currentUnit' = Len(plan) + 1
               /\ UNCHANGED pauseReason
      <4>1. plan' \in Seq(Outcomes)
        BY <3>2, AppendProperties DEF Outcomes
      <4>2. currentUnit' \in Units
        BY <3>2, ConstantsAssumption DEF Units
      <4> QED BY <3>2, <4>1, <4>2 DEF MRs
    <3> QED BY <1>4, <3>1, <3>2 DEF DiscoverSpec
  <2> QED BY <1>4, <2>1, <2>2, <2>3 DEF DiscoverSpec, envVars
<1>5. CASE WorkFailsEarly
  BY <1>5 DEF WorkFailsEarly, Store, Statuses, unitVars, envVars
<1>6. CASE WorkFails
  <2>1. strays' \subseteq Units
    BY <1>6 DEF WorkFails, MRs
  <2> QED BY <1>6, <2>1, TurnType DEF WorkFails, Store, Statuses, unitVars
<1>7. CASE WorkFindsNothing
  <2>1. currentUnit \in Units
    BY <1>7 DEF WorkFindsNothing, MRs
  <2>2. plan' \in Seq(Outcomes)
    BY <1>7, <2>1, PlanType DEF WorkFindsNothing, Outcomes
  <2>3. blacklisted' \in Seq(Units) /\ currentUnit' \in MRs
    BY <1>7, <2>1, AppendProperties DEF WorkFindsNothing, MRs
  <2> QED BY <1>7, <2>2, <2>3, TurnType DEF WorkFindsNothing, Store, Statuses, envVars
<1>8. CASE WorkOpensMR
  <2>1. currentUnit \in Units
    BY <1>8 DEF WorkOpensMR, MRs
  <2>2. /\ inFlight' \subseteq Units
        /\ mrState' \in [Units -> {"none", "opened", "merged", "closed"}]
    BY <1>8, <2>1 DEF WorkOpensMR
  <2> QED BY <1>8, <2>2, TurnType DEF WorkOpensMR, Store, Statuses
<1> QED BY <1>1, <1>2, <1>3, <1>4, <1>5, <1>6, <1>7, <1>8 DEF Step

\* The part of the record a runner turn about an event decides.
TurnOK ==
    /\ status' \in Statuses /\ runState' \in {"running", "paused", "finished"}
    /\ pauseReason' \in PauseReasons
    /\ promptInjection' \in BOOLEAN
    /\ ciRetryCounts' \in [Units -> Nat]
    /\ turns' \in Nat

\* invokeForEvent, however it ends, leaves the units and the MRs alone.
LEMMA InvokeType ==
    ASSUME TypeOK, NEW ev \in Events, NEW u \in Units, NEW prompt \in BOOLEAN,
           InvokeForEvent(ev, u, prompt)
    PROVE  TurnOK /\ UNCHANGED <<unitVars, envVars>>
<1> USE DEF TypeOK, TurnOK, Park, Watch, Store, Statuses, PauseReasons
<1>1. CASE SyncFails(prompt)
  BY <1>1 DEF InvokeForEvent, SyncFails
<1>2. CASE IsolationFails
  BY <1>2 DEF InvokeForEvent, IsolationFails
<1>3. CASE TurnParks
  BY <1>3, TurnType DEF InvokeForEvent, TurnParks
<1>4. CASE TurnChangesNothing
  BY <1>4, TurnType DEF InvokeForEvent, TurnChangesNothing
<1>5. CASE TurnPushes(ev, u)
  BY <1>5, TurnType DEF InvokeForEvent, TurnPushes
<1>6. CASE TurnRetriesCI(ev, u)
  BY <1>6, TurnType DEF InvokeForEvent, TurnRetriesCI
<1> QED BY <1>1, <1>2, <1>3, <1>4, <1>5, <1>6 DEF InvokeForEvent

\* Settling a unit in flight keeps the lists of units well typed.
LEMMA SettleType ==
    ASSUME TypeOK, NEW u \in Units, MarkUnitMerged(u) \/ MarkUnitBlacklisted(u)
    PROVE  /\ queue' \in Seq(Units) /\ plan' \in Seq(Outcomes) /\ inFlight' \subseteq Units
           /\ completed' \in Seq(Units) /\ blacklisted' \in Seq(Units)
           /\ currentUnit' \in MRs
           /\ status' \in Statuses /\ runState' \in {"running", "paused", "finished"}
<1>1. CASE MarkUnitMerged(u)
  <2>1. plan' \in Seq(Outcomes)
    BY <1>1, PlanType DEF MarkUnitMerged, Outcomes
  <2>2. completed' \in Seq(Units)
    BY <1>1, AppendProperties DEF MarkUnitMerged, TypeOK
  <2> QED BY <1>1, <2>1, <2>2 DEF MarkUnitMerged, TypeOK, Store, Statuses, MRs
<1>2. CASE MarkUnitBlacklisted(u)
  <2>1. plan' \in Seq(Outcomes)
    BY <1>2, PlanType DEF MarkUnitBlacklisted, Outcomes
  <2>2. blacklisted' \in Seq(Units)
    BY <1>2, AppendProperties DEF MarkUnitBlacklisted, TypeOK
  <2> QED BY <1>2, <2>1, <2>2 DEF MarkUnitBlacklisted, TypeOK, Store, Statuses, MRs
<1> QED BY <1>1, <1>2

\* Every control verb keeps the record well typed.
LEMMA ControlType ==
    ASSUME TypeOK, NEW ev \in Events, HandleControlCommand(ev),
           lastMRStates' \in [Units -> {"none", "merged", "closed"}]
    PROVE  TypeOK'
<1> USE DEF TypeOK, Store, Statuses, PauseReasons
<1>1. CASE CmdPause
  BY <1>1 DEF CmdPause, Park, unitVars, turnVars, envVars
<1>2. CASE CmdResume
  BY <1>2 DEF CmdResume, unitVars, turnVars, envVars
<1>3. CASE Reply
  BY <1>3 DEF Reply, unitVars, turnVars, envVars
<1>4. CASE ev.mr \in inFlight /\ CmdSkip(ev)
  <2>1. ev.mr \in Units /\ MarkUnitBlacklisted(ev.mr) /\ CloseMRs({ev.mr})
    BY <1>4 DEF CmdSkip
  <2> QED BY <1>4, <2>1, SettleType, CloseType DEF CmdSkip, turnVars
<1>5. CASE CmdPrompt
  BY <1>5 DEF CmdPrompt, unitVars, envVars
<1>6. CASE CmdStop
  BY <1>6, CloseType DEF CmdStop, unitVars, turnVars
<1>7. CASE CmdAbandon
  <2>1. CASE CmdStop
    BY <1>6, <2>1
  <2>2. CASE ~CmdStop
    BY <1>7, <2>2 DEF CmdAbandon, unitVars, turnVars, envVars
  <2> QED BY <2>1, <2>2
<1>8. CASE ev.mr \in inFlight /\ CmdFreeform(ev)
  <2>1. ev.mr \in Units /\ InvokeForEvent(ev, ev.mr, TRUE)
    BY <1>8 DEF CmdFreeform
  <2> QED BY <2>1, InvokeType DEF TurnOK, unitVars, envVars
<1> QED
  BY <1>1, <1>2, <1>3, <1>4, <1>5, <1>6, <1>7, <1>8
  DEF HandleControlCommand, CmdRetry, CmdSkip, CmdFreeform

\* The callback keeps the record well typed, whatever the event.
LEMMA ResumeType == ASSUME TypeOK, NEW ev \in Events, Resume(ev) PROVE TypeOK'
<1> USE DEF TypeOK
<1>0. ev.mr \in MRs
  BY DEF Events, Notes, MREvents, AuthEvents, MRs
<1>1. lastMRStates' \in [Units -> {"none", "merged", "closed"}]
  BY <1>0 DEF Resume, AdvanceWatermarks
<1>2. CASE OwnEcho(ev)
  BY <1>1, <1>2 DEF OwnEcho, Reply, Store, Statuses, unitVars, turnVars, envVars
<1>3. CASE ConfirmWindow(ev)
  <2>1. CASE CmdAbandon /\ ev.body = "abandon"
    BY <1>1, <2>1, ControlType DEF HandleControlCommand
  <2>2. CASE DropAbandonConfirm
    BY <1>1, <2>2 DEF DropAbandonConfirm, Watch, Store, Statuses, unitVars, turnVars, envVars
  <2> QED BY <1>3, <2>1, <2>2 DEF ConfirmWindow
<1>4. CASE ControlCommand(ev)
  BY <1>1, <1>4, ControlType DEF ControlCommand
<1>5. CASE HandleProviderAuthEvent(ev)
  BY <1>1, <1>5
  DEF HandleProviderAuthEvent, Park, Store, Statuses, PauseReasons, unitVars, turnVars, envVars
<1>6. CASE WhilePaused(ev)
  BY <1>1, <1>6 DEF WhilePaused, Reply, Store, Statuses, unitVars, turnVars, envVars
<1>7. CASE NotTracked(ev)
  BY <1>1, <1>7 DEF NotTracked, Watch, Store, Statuses, unitVars, turnVars, envVars
<1>8. CASE Lifecycle(ev)
  <2>1. ev.mr \in Units /\ (MarkUnitMerged(ev.mr) \/ MarkUnitBlacklisted(ev.mr))
    BY <1>8 DEF Lifecycle, Watched
  <2> QED BY <1>1, <1>8, <2>1, SettleType DEF Lifecycle, turnVars, envVars
<1>9. CASE Informational(ev)
  <2>1. ev.mr \in Units
    BY <1>9 DEF Informational, Watched
  <2> QED BY <1>1, <1>9, <2>1 DEF Informational, Watch, Store, Statuses, unitVars, envVars
<1>10. CASE Filtered(ev)
  <2>1. ev.mr \in Units
    BY <1>10 DEF Filtered, Watched
  <2>2. CASE InvokeForEvent(ev, ev.mr, promptInjection)
    BY <1>1, <2>1, <2>2, InvokeType DEF TurnOK, unitVars, envVars
  <2>3. CASE (Watch \/ Park("event")) /\ UNCHANGED <<unitVars, turnVars, envVars>>
    BY <1>1, <2>3 DEF Watch, Park, Store, Statuses, PauseReasons, unitVars, turnVars, envVars
  <2> QED BY <1>10, <2>2, <2>3 DEF Filtered
<1> QED
  BY <1>2, <1>3, <1>4, <1>5, <1>6, <1>7, <1>8, <1>9, <1>10 DEF Resume

\* What the library, the CLI, the reviewers and the clock do.
LEMMA OutsideType ==
    ASSUME TypeOK,
           \/ WorkIsCutShort \/ AutoPause \/ AutoRetry \/ OnAbandonConfirmTimeout
           \/ DirectAbandon \/ DirectResume \/ Environment
    PROVE  TypeOK'
<1> USE DEF TypeOK
<1>1. CASE AutoPause
  BY <1>1 DEF AutoPause, unitVars, turnVars, envVars
<1>2. CASE AutoRetry
  BY <1>2 DEF AutoRetry, unitVars, turnVars, envVars
<1>3. CASE OnAbandonConfirmTimeout
  BY <1>3 DEF OnAbandonConfirmTimeout, Watch, Store, Statuses, unitVars, turnVars, envVars
<1>4. CASE DirectAbandon
  BY <1>4, CloseType DEF DirectAbandon, Store, Statuses, unitVars, turnVars
<1>5. CASE DirectResume
  BY <1>5 DEF DirectResume, Store, Statuses, PauseReasons, unitVars, turnVars, envVars
<1>6. CASE Environment
  BY <1>6 DEF Environment, ReviewerMerges, ReviewerCloses, StrayIsDecided, RuntimeElapses,
              recordVars, unitVars, turnVars
<1>7. CASE WorkIsCutShort
  BY <1>7 DEF WorkIsCutShort, MRs, recordVars, unitVars, turnVars
<1> QED BY <1>1, <1>2, <1>3, <1>4, <1>5, <1>6, <1>7

\* Every step of the Run and of its environment keeps the record well typed.
LEMMA NextTypeOK == TypeOK /\ [Next]_vars => TypeOK'
<1> SUFFICES ASSUME TypeOK, [Next]_vars PROVE TypeOK'
  OBVIOUS
<1>1. CASE UNCHANGED vars
  BY <1>1 DEF TypeOK, vars, recordVars, unitVars, turnVars, envVars
<1>2. CASE \E ev \in Events : Plausible(ev) /\ Resume(ev)
  BY <1>2, ResumeType
<1> QED BY <1>1, <1>2, StepType, OutsideType DEF Next

\* Every field of the record and of the environment keeps its type: every MR
\* number, unit name and status that a handler reads was stored by one
\* (workflow.go, controls.go, main.go's direct writes).
THEOREM TypeCorrect == Spec => []TypeOK
<1> QED BY InitTypeOK, NextTypeOK, PTL DEF Spec

-----------------------------------------------------------------------------
(* The bookkeeping of units.  The safety properties are inductive together   *)
(* with the fact that a planned Run only ever knows the increments of its    *)
(* plan: the number of the next one is then new.                             *)

PlanCoversUnits ==
    /\ Mode = "sweep" => plan = <<>>
    /\ Mode = "spec" => /\ Seen \subseteq DOMAIN plan
                        /\ status = "Working" => currentUnit \in DOMAIN plan

UnitInv ==
    /\ UnitsDisjoint /\ MRsAccounted /\ CompletedAreMerged
    /\ PlanMatchesUnits /\ PlanCoversUnits

\* The elements of a list of units are units.
LEMMA RangeUnits == ASSUME NEW s \in Seq(Units) PROVE Range(s) \subseteq Units
BY ElementOfSeq, LenProperties DEF Range

\* Appending a new element to a list without duplicates.
LEMMA AppendNew ==
    ASSUME NEW s \in Seq(Units), NEW u \in Units, u \notin Range(s), IsInjective(s)
    PROVE  Range(Append(s, u)) = Range(s) \cup {u} /\ IsInjective(Append(s, u))
<1> DEFINE t == Append(s, u)
<1>1. /\ DOMAIN s = 1..Len(s) /\ Len(s) \in Nat
      /\ DOMAIN t = 1..(Len(s) + 1)
      /\ t[Len(s) + 1] = u
      /\ \A i \in 1..Len(s) : t[i] = s[i]
  BY AppendProperties, LenProperties
<1> HIDE DEF t
<1>2. \A i \in DOMAIN t : i \in DOMAIN s \/ i = Len(s) + 1
  BY <1>1
<1>3. Range(t) = Range(s) \cup {u}
  BY <1>1, <1>2 DEF Range
<1>4. IsInjective(t)
  BY <1>1, <1>2 DEF Range, IsInjective
<1> QED BY <1>3, <1>4 DEF t

\* What a step may do to an MR without the Run: an open one is merged or closed.
MRsMoveOn ==
    \A u \in Units :
        mrState'[u] = mrState[u] \/ (mrState[u] = "opened" /\ mrState'[u] \in {"merged", "closed"})

\* What the Run does to MRs it gives up: it closes open ones, as far as that works.
MRsClose ==
    \A u \in Units :
        mrState'[u] = mrState[u] \/ (mrState[u] = "opened" /\ mrState'[u] = "closed")

\* A step that settles nothing, opens nothing and takes up no unit.
KeepsUnits ==
    /\ UNCHANGED <<plan, inFlight, completed, blacklisted>>
    /\ status' = "Working" => status = "Working" /\ UNCHANGED currentUnit
    /\ MRsMoveOn
    /\ \A u \in strays' : u \in strays \/ (status = "Working" /\ u = currentUnit)

\* A step that leaves the units alone, lets MRs only move on and does not enter
\* work keeps the unit invariant.
LEMMA KeepsInv == ASSUME TypeOK, UnitInv, KeepsUnits PROVE UnitInv'
<1> USE DEF KeepsUnits, UnitInv, Seen, Settled
<1>1. UnitsDisjoint'
  BY DEF UnitsDisjoint
<1>2. MRsAccounted'
  <2>1. ASSUME NEW u \in strays' PROVE mrState'[u] = "none"
    <3>1. u \in Units /\ mrState[u] = "none"
      BY <2>1 DEF MRsAccounted, UnitsDisjoint, TypeOK
    <3> QED BY <3>1 DEF MRsMoveOn
  <2> QED BY <2>1 DEF MRsAccounted, MRsMoveOn
<1>3. CompletedAreMerged'
  <2>1. Range(completed) \subseteq Units
    BY RangeUnits DEF TypeOK
  <2> QED BY <2>1 DEF CompletedAreMerged, MRsMoveOn
<1>4. PlanMatchesUnits' /\ PlanCoversUnits'
  BY DEF PlanMatchesUnits, PlanCoversUnits
<1> QED BY <1>1, <1>2, <1>3, <1>4

\* The unit's MR is merged: it moves from InFlight to Completed.
LEMMA MergedInv ==
    ASSUME TypeOK, UnitInv, NEW u \in inFlight, mrState[u] = "merged",
           MarkUnitMerged(u), UNCHANGED <<mrState, strays>>
    PROVE  UnitInv'
<1>1. u \in Units /\ completed \in Seq(Units) /\ u \notin Range(completed)
  BY DEF TypeOK, UnitInv, UnitsDisjoint, Settled
<1>2. Range(completed') = Range(completed) \cup {u} /\ IsInjective(completed')
  BY <1>1, AppendNew DEF MarkUnitMerged, UnitInv, UnitsDisjoint
<1>3. inFlight' = inFlight \ {u} /\ UNCHANGED blacklisted /\ status' = "Discovering"
  BY DEF MarkUnitMerged, Store
<1>4. Seen' = Seen
  BY <1>2, <1>3 DEF Seen, Settled
<1>5. UnitsDisjoint'
  BY <1>2, <1>3 DEF UnitInv, UnitsDisjoint, Settled
<1>6. MRsAccounted' /\ CompletedAreMerged'
  BY <1>2, <1>4 DEF UnitInv, MRsAccounted, CompletedAreMerged
<1>7. /\ DOMAIN plan' = DOMAIN plan
      /\ \A v \in DOMAIN plan : plan'[v] = IF v = u THEN "completed" ELSE plan[v]
  BY DEF MarkUnitMerged, UpdatePlanOutcome
<1>8. PlanMatchesUnits'
  BY <1>2, <1>3, <1>5, <1>7 DEF UnitInv, PlanMatchesUnits, UnitsDisjoint
<1>9. PlanCoversUnits'
  BY <1>3, <1>4, <1>7 DEF UnitInv, PlanCoversUnits, MarkUnitMerged, UpdatePlanOutcome
<1> QED BY <1>5, <1>6, <1>8, <1>9 DEF UnitInv

\* The unit is given up: it moves to Blacklisted, from InFlight or from work.
LEMMA DroppedInv ==
    ASSUME TypeOK, UnitInv, NEW u \in Units, u \notin Settled,
           Mode = "spec" => u \in DOMAIN plan,
           inFlight' = inFlight \ {u},
           blacklisted' = Append(blacklisted, u),
           UpdatePlanOutcome(u, "blacklisted"),
           UNCHANGED <<completed, strays>>, status' = "Discovering", MRsMoveOn
    PROVE  UnitInv'
<1>1. blacklisted \in Seq(Units) /\ u \notin Range(blacklisted)
  BY DEF TypeOK, Settled
<1>2. Range(blacklisted') = Range(blacklisted) \cup {u} /\ IsInjective(blacklisted')
  BY <1>1, AppendNew DEF UnitInv, UnitsDisjoint
<1>3. Seen' = Seen \cup {u}
  BY <1>2 DEF Seen, Settled
<1>4. UnitsDisjoint'
  BY <1>2 DEF UnitInv, UnitsDisjoint, Settled
<1>5. MRsAccounted'
  BY <1>3 DEF UnitInv, MRsAccounted, MRsMoveOn, TypeOK
<1>6. CompletedAreMerged'
  <2>1. Range(completed) \subseteq Units
    BY RangeUnits DEF TypeOK
  <2> QED BY <2>1 DEF UnitInv, CompletedAreMerged, MRsMoveOn
<1>7. /\ DOMAIN plan' = DOMAIN plan
      /\ \A v \in DOMAIN plan : plan'[v] = IF v = u THEN "blacklisted" ELSE plan[v]
  BY DEF UpdatePlanOutcome
<1>8. PlanMatchesUnits'
  BY <1>2, <1>4, <1>7 DEF UnitInv, PlanMatchesUnits, UnitsDisjoint
<1>9. PlanCoversUnits'
  BY <1>3, <1>7 DEF UnitInv, PlanCoversUnits, UpdatePlanOutcome
<1> QED BY <1>4, <1>5, <1>6, <1>8, <1>9 DEF UnitInv

\* An event that settles nothing leaves the Run in a callback status or cancelled.
Holds ==
    /\ UNCHANGED <<unitVars, strays>>
    /\ status' \notin StepStatuses \cup {"Completed", "Failed"}
    /\ MRsMoveOn

\* What an event does to the units.
UnitEffect(ev) ==
    \/ Holds
    \/ /\ ev.mr \in inFlight /\ mrState[ev.mr] = "merged"
       /\ MarkUnitMerged(ev.mr) /\ UNCHANGED <<mrState, strays>>
    \/ ev.mr \in inFlight /\ MarkUnitBlacklisted(ev.mr) /\ MRsClose /\ UNCHANGED strays

\* Closing MRs only moves open ones on.
LEMMA CloseMovesOn == ASSUME TypeOK, NEW S, CloseMRs(S) PROVE MRsClose /\ MRsMoveOn
BY DEF CloseMRs, MRsClose, MRsMoveOn

\* A runner turn about an event leaves the units and the MRs as they are.
LEMMA InvokeEffect ==
    ASSUME TypeOK, NEW ev \in Events, NEW u \in Units, NEW prompt \in BOOLEAN,
           InvokeForEvent(ev, u, prompt)
    PROVE  Holds
<1>1. status' \in {"Paused", "AwaitingMerge"}
  BY DEF InvokeForEvent, SyncFails, IsolationFails, TurnParks, TurnChangesNothing,
         TurnPushes, TurnRetriesCI, Park, Watch, Store
<1> QED BY <1>1, InvokeType DEF Holds, MRsMoveOn, StepStatuses, envVars

\* What a control verb does to the units is one of the effects of UnitEffect.
LEMMA ControlEffect ==
    ASSUME TypeOK, status \in CallbackStatuses, NEW ev \in Events, HandleControlCommand(ev)
    PROVE  UnitEffect(ev)
<1> USE DEF UnitEffect, Holds, MRsMoveOn, MRsClose, Store, CallbackStatuses, StepStatuses
<1>1. CASE CmdPause
  BY <1>1 DEF CmdPause, Park, unitVars, envVars
<1>2. CASE CmdResume
  BY <1>2 DEF CmdResume, unitVars, envVars
<1>3. CASE Reply
  BY <1>3 DEF Reply, unitVars, envVars
<1>4. CASE ev.mr \in inFlight /\ CmdSkip(ev)
  BY <1>4, CloseMovesOn DEF CmdSkip
<1>5. CASE CmdPrompt
  BY <1>5 DEF CmdPrompt, unitVars, envVars
<1>6. CASE CmdStop
  BY <1>6, CloseMovesOn DEF CmdStop, unitVars
<1>7. CASE CmdAbandon
  BY <1>6, <1>7 DEF CmdAbandon, unitVars, envVars
<1>8. CASE ev.mr \in inFlight /\ CmdFreeform(ev)
  <2>1. ev.mr \in Units /\ InvokeForEvent(ev, ev.mr, TRUE)
    BY <1>8 DEF CmdFreeform, TypeOK
  <2> QED BY <2>1, InvokeEffect
<1> QED
  BY <1>1, <1>2, <1>3, <1>4, <1>5, <1>6, <1>7, <1>8
  DEF HandleControlCommand, CmdRetry, CmdSkip, CmdFreeform

\* The callback settles at most the unit the event is about, and counts it as
\* completed only when the provider said its MR was merged.
LEMMA ResumeEffect ==
    ASSUME TypeOK, NEW ev \in Events, Plausible(ev), Resume(ev)
    PROVE  UnitEffect(ev)
<1> USE DEF UnitEffect, Holds, MRsMoveOn, MRsClose, Store, StepStatuses
<1>0. status \in CallbackStatuses /\ status \notin StepStatuses \cup {"Completed", "Failed"}
  BY DEF Resume, CallbackStatuses
<1>1. CASE OwnEcho(ev) \/ WhilePaused(ev)
  BY <1>0, <1>1 DEF OwnEcho, WhilePaused, Reply, unitVars, envVars
<1>2. CASE ConfirmWindow(ev)
  <2>1. CASE CmdAbandon /\ ev.body = "abandon"
    BY <1>0, <2>1, ControlEffect DEF HandleControlCommand
  <2>2. CASE DropAbandonConfirm
    BY <2>2 DEF DropAbandonConfirm, Watch, unitVars, envVars
  <2> QED BY <1>2, <2>1, <2>2 DEF ConfirmWindow
<1>3. CASE ControlCommand(ev)
  BY <1>0, <1>3, ControlEffect DEF ControlCommand
<1>4. CASE HandleProviderAuthEvent(ev)
  BY <1>0, <1>4 DEF HandleProviderAuthEvent, Park, unitVars, envVars
<1>5. CASE NotTracked(ev)
  BY <1>5 DEF NotTracked, Watch, unitVars, envVars
<1>6. CASE Lifecycle(ev)
  <2>1. ev.mr \in inFlight /\ ev.mr \in Units /\ ev.mr # NoUnit
    <3>1. ev.mr \in inFlight
      BY <1>6 DEF Lifecycle, Watched
    <3>2. ev.mr \in Units
      BY <3>1 DEF TypeOK
    <3>3. NoUnit \notin Units
      BY ConstantsAssumption DEF Units, NoUnit
    <3> QED BY <3>1, <3>2, <3>3
  <2>2. ev.kind = "MRMerged" => mrState[ev.mr] = "merged"
    BY <2>1 DEF Plausible
  <2> QED BY <1>6, <2>1, <2>2 DEF Lifecycle, envVars
<1>7. CASE Informational(ev)
  BY <1>7 DEF Informational, Watch, unitVars, envVars
<1>8. CASE Filtered(ev)
  <2>1. ev.mr \in Units /\ promptInjection \in BOOLEAN
    BY <1>8 DEF Filtered, Watched, TypeOK
  <2>2. CASE InvokeForEvent(ev, ev.mr, promptInjection)
    BY <2>1, <2>2, InvokeEffect
  <2>3. CASE (Watch \/ Park("event")) /\ UNCHANGED <<unitVars, turnVars, envVars>>
    BY <2>3 DEF Watch, Park, unitVars, envVars
  <2> QED BY <1>8, <2>2, <2>3 DEF Filtered
<1> QED
  BY <1>1, <1>2, <1>3, <1>4, <1>5, <1>6, <1>7, <1>8 DEF Resume

\* A Run that was just triggered satisfies the unit invariant.
LEMMA InitInv == Init => UnitInv
<1> SUFFICES ASSUME Init PROVE UnitInv
  OBVIOUS
<1>1. /\ completed = <<>> /\ blacklisted = <<>> /\ inFlight = {} /\ plan = <<>>
      /\ status = "Initiated"
      /\ mrState = [u \in Units |-> "none"] /\ strays = {}
  BY DEF Init
<1>2. Range(completed) = {} /\ Range(blacklisted) = {}
  BY <1>1 DEF Range
<1>3. IsInjective(completed) /\ IsInjective(blacklisted)
  BY <1>1 DEF IsInjective
<1> QED
  BY <1>1, <1>2, <1>3
  DEF UnitInv, UnitsDisjoint, MRsAccounted, CompletedAreMerged, PlanMatchesUnits,
      PlanCoversUnits, Seen, Settled

\* Every step body keeps the bookkeeping: a unit taken up is a new one.
LEMMA StepInv == ASSUME TypeOK, UnitInv, Step PROVE UnitInv'
<1> USE DEF Store
<1>1. CASE Setup \/ DiscoverOverBudget \/ WorkFailsEarly \/ WorkFails
  <2>1. KeepsUnits
    BY <1>1 DEF Setup, DiscoverOverBudget, WorkFailsEarly, WorkFails, StepRuns, KeepsUnits,
                MRsMoveOn, unitVars, envVars
  <2> QED BY <2>1, KeepsInv
<1>2. CASE DiscoverSweep
  <2>1. PICK k \in 0..Len(queue) :
          \/ Store("Completed")
          \/ /\ k < Len(queue) /\ queue[k + 1] \notin Seen
             /\ currentUnit' = queue[k + 1]
             /\ Store("Working")
    BY <1>2 DEF DiscoverSweep
  <2>2. UNCHANGED <<plan, inFlight, completed, blacklisted, mrState, strays>>
    BY <1>2 DEF DiscoverSweep, envVars
  <2>3. CASE Store("Completed")
    BY <2>2, <2>3, KeepsInv DEF KeepsUnits, MRsMoveOn
  <2>4. CASE k < Len(queue) /\ queue[k + 1] \notin Seen /\ currentUnit' = queue[k + 1]
             /\ Store("Working")
    <3>1. currentUnit' \in Units \ Seen
      BY <2>4, ElementOfSeq DEF TypeOK
    <3>2. Mode = "sweep"
      BY <1>2 DEF DiscoverSweep
    <3> QED
      BY <2>2, <3>1, <3>2
      DEF UnitInv, UnitsDisjoint, MRsAccounted, CompletedAreMerged, PlanMatchesUnits,
          PlanCoversUnits, Seen, Settled
  <2> QED BY <2>1, <2>3, <2>4
<1>3. CASE DiscoverSpec
  <2>1. UNCHANGED <<inFlight, completed, blacklisted, mrState, strays>> /\ Mode = "spec"
    BY <1>3 DEF DiscoverSpec, envVars
  <2>2. CASE UNCHANGED plan /\ status' # "Working"
    BY <2>1, <2>2, KeepsInv DEF KeepsUnits, MRsMoveOn
  <2>3. CASE /\ Len(plan) < NumUnits
             /\ plan' = Append(plan, "in_flight")
             /\ currentUnit' = Len(plan) + 1
    <3> DEFINE n == Len(plan) + 1
    <3>1. /\ DOMAIN plan = 1..Len(plan) /\ DOMAIN plan' = 1..n /\ n \in Nat
          /\ plan'[n] = "in_flight"
          /\ \A u \in DOMAIN plan : plan'[u] = plan[u]
      BY <2>3, AppendProperties, LenProperties DEF TypeOK, Outcomes
    <3>2. Seen \subseteq DOMAIN plan
      BY <2>1 DEF UnitInv, PlanCoversUnits
    <3>3. n \in Units \ Seen
      BY <2>3, <3>1, <3>2, ConstantsAssumption DEF Units
    <3>4. UnitsDisjoint' /\ MRsAccounted' /\ CompletedAreMerged'
      BY <2>1, <2>3, <3>3
      DEF UnitInv, UnitsDisjoint, MRsAccounted, CompletedAreMerged, Seen, Settled
    <3>5. PlanMatchesUnits'
      <4> SUFFICES ASSUME NEW u \in DOMAIN plan'
                   PROVE  /\ plan'[u] = "completed"   <=> u \in Range(completed)
                          /\ plan'[u] = "blacklisted" <=> u \in Range(blacklisted)
        BY <2>1 DEF PlanMatchesUnits
      <4>1. CASE u = n
        BY <3>1, <3>3, <4>1 DEF Seen, Settled
      <4>2. CASE u # n
        BY <3>1, <4>2 DEF UnitInv, PlanMatchesUnits
      <4> QED BY <4>1, <4>2
    <3>6. PlanCoversUnits'
      BY <2>1, <2>3, <3>1, <3>2 DEF PlanCoversUnits, Seen, Settled
    <3> QED BY <3>4, <3>5, <3>6 DEF UnitInv
  <2> QED BY <1>3, <2>2, <2>3 DEF DiscoverSpec, Decisions
<1>4. CASE WorkFindsNothing
  <2>1. /\ currentUnit \in Units \ Seen
        /\ Mode = "spec" => currentUnit \in DOMAIN plan
    BY <1>4 DEF WorkFindsNothing, StepRuns, UnitInv, UnitsDisjoint, PlanCoversUnits
  <2>2. inFlight' = inFlight \ {currentUnit} /\ MRsMoveOn /\ status' = "Discovering"
    BY <1>4, <2>1 DEF WorkFindsNothing, MRsMoveOn, envVars, Seen
  <2> QED BY <1>4, <2>1, <2>2, DroppedInv DEF WorkFindsNothing, Seen, envVars
<1>5. CASE WorkOpensMR
  <2>1. /\ currentUnit \in Units \ Seen
        /\ Mode = "spec" => currentUnit \in DOMAIN plan
    BY <1>5 DEF WorkOpensMR, StepRuns, UnitInv, UnitsDisjoint, PlanCoversUnits
  <2>2. /\ UNCHANGED <<completed, blacklisted, plan, currentUnit>>
        /\ inFlight' = inFlight \cup {currentUnit}
        /\ status' = "AwaitingMerge"
        /\ mrState' = [mrState EXCEPT ![currentUnit] = "opened"]
        /\ strays' = strays /\ currentUnit \notin strays
    BY <1>5 DEF WorkOpensMR
  <2>3. UnitsDisjoint' /\ PlanMatchesUnits' /\ PlanCoversUnits'
    BY <2>1, <2>2
    DEF UnitInv, UnitsDisjoint, PlanMatchesUnits, PlanCoversUnits, Seen, Settled
  <2>4. MRsAccounted'
    BY <2>1, <2>2 DEF UnitInv, MRsAccounted, Seen, Settled, TypeOK
  <2>5. CompletedAreMerged'
    <3>1. Range(completed) \subseteq Units
      BY RangeUnits DEF TypeOK
    <3> QED BY <2>1, <2>2, <3>1 DEF UnitInv, CompletedAreMerged, Seen, Settled, TypeOK
  <2> QED BY <2>3, <2>4, <2>5 DEF UnitInv
<1> QED BY <1>1, <1>2, <1>3, <1>4, <1>5 DEF Step

\* What goes on outside the steps and the callback keeps the units.
LEMMA OutsideKeeps ==
    ASSUME TypeOK,
           \/ WorkIsCutShort \/ AutoPause \/ AutoRetry \/ OnAbandonConfirmTimeout
           \/ DirectAbandon \/ DirectResume \/ Environment
    PROVE  KeepsUnits
<1> USE DEF KeepsUnits, MRsMoveOn, Store
<1>1. CASE AutoPause \/ AutoRetry
  BY <1>1 DEF AutoPause, AutoRetry, unitVars, envVars
<1>2. CASE OnAbandonConfirmTimeout
  BY <1>2 DEF OnAbandonConfirmTimeout, Watch, unitVars, envVars
<1>3. CASE DirectAbandon
  BY <1>3, CloseMovesOn DEF DirectAbandon, unitVars
<1>4. CASE DirectResume
  BY <1>4 DEF DirectResume, unitVars, envVars
<1>5. CASE Environment
  BY <1>5 DEF Environment, ReviewerMerges, ReviewerCloses, StrayIsDecided, RuntimeElapses,
              recordVars, unitVars, TypeOK
<1>6. CASE WorkIsCutShort
  BY <1>6 DEF WorkIsCutShort, StepRuns, recordVars, unitVars
<1> QED BY <1>1, <1>2, <1>3, <1>4, <1>5, <1>6

\* Every step of the Run keeps the unit invariant.
LEMMA NextInv == TypeOK /\ UnitInv /\ [Next]_vars => UnitInv'
<1> SUFFICES ASSUME TypeOK, UnitInv, [Next]_vars PROVE UnitInv'
  OBVIOUS
<1>1. CASE UNCHANGED vars
  BY <1>1, KeepsInv DEF KeepsUnits, MRsMoveOn, vars, recordVars, unitVars, envVars
<1>2. CASE \E ev \in Events : Plausible(ev) /\ Resume(ev)
  <2>1. PICK ev \in Events : Plausible(ev) /\ Resume(ev)
    BY <1>2
  <2>2. UnitEffect(ev)
    BY <2>1, ResumeEffect
  <2>3. CASE Holds
    BY <2>3, KeepsInv DEF Holds, KeepsUnits, StepStatuses, unitVars
  <2>4. CASE /\ ev.mr \in inFlight /\ mrState[ev.mr] = "merged"
             /\ MarkUnitMerged(ev.mr) /\ UNCHANGED <<mrState, strays>>
    BY <2>4, MergedInv
  <2>5. CASE ev.mr \in inFlight /\ MarkUnitBlacklisted(ev.mr) /\ MRsClose /\ UNCHANGED strays
    <3>0. MRsMoveOn
      BY <2>5 DEF MRsClose, MRsMoveOn
    <3>1. ev.mr \in Units /\ ev.mr \notin Settled
      BY <2>5 DEF TypeOK, UnitInv, UnitsDisjoint
    <3>2. Mode = "spec" => ev.mr \in DOMAIN plan
      BY <2>5 DEF UnitInv, PlanCoversUnits, Seen
    <3> QED BY <2>5, <3>0, <3>1, <3>2, DroppedInv DEF MarkUnitBlacklisted, Store
  <2> QED BY <2>2, <2>3, <2>4, <2>5 DEF UnitEffect
<1>3. CASE Step
  BY <1>3, StepInv
<1>4. CASE \/ WorkIsCutShort \/ AutoPause \/ AutoRetry \/ OnAbandonConfirmTimeout
           \/ DirectAbandon \/ DirectResume \/ Environment
  BY <1>4, OutsideKeeps, KeepsInv
<1> QED BY <1>1, <1>2, <1>3, <1>4 DEF Next

\* The bookkeeping is invariant, however the Run is paused, abandoned, revived,
\* and whatever events it is sent.
THEOREM UnitInvariant == Spec => []UnitInv
<1> QED BY InitInv, NextInv, TypeCorrect, PTL DEF Spec

\* No unit is in two places, and work never starts again on a unit that is in
\* flight or settled (discoverSweep's dedup, markUnitMerged, markUnitBlacklisted).
THEOREM UnitsStayDisjoint == Spec => []UnitsDisjoint
<1>1. UnitInv => UnitsDisjoint
  BY DEF UnitInv
<1> QED BY <1>1, UnitInvariant, PTL

\* Every MR the Run was told of is in flight or settled, and one it was not told of is the
\* only MR of its unit (work, discoverSweep's dedup, resume, the control verbs).
THEOREM MRsStayAccounted == Spec => []MRsAccounted
<1>1. UnitInv => MRsAccounted
  BY DEF UnitInv
<1> QED BY <1>1, UnitInvariant, PTL

\* What counts as completed was merged by a reviewer (markUnitMerged).
THEOREM CompletedWereMerged == Spec => []CompletedAreMerged
<1>1. UnitInv => CompletedAreMerged
  BY DEF UnitInv
<1> QED BY <1>1, UnitInvariant, PTL

\* The planner reads the true outcome of every increment (updatePlanOutcome).
THEOREM PlanStaysTrue == Spec => []PlanMatchesUnits
<1>1. UnitInv => PlanMatchesUnits
  BY DEF UnitInv
<1> QED BY <1>1, UnitInvariant, PTL

-----------------------------------------------------------------------------
(* A Run that nobody revives has one unit at a time.                         *)

\* A unit that is no longer worked on is in flight, settled, or given up with
\* the Run: discover may forget it.
CurrentIsKnown ==
    status \notin TerminalStatuses \cup {"Working"} => currentUnit \in Seen \cup {NoUnit}

OneUnitInv == OneUnitAtATime /\ BudgetCapsUnits /\ CurrentIsKnown

\* Settling the unit in flight leaves nothing in flight.
LEMMA SettleOne ==
    ASSUME ~CanRevive, TypeOK, OneUnitInv, NEW u \in inFlight,
           MarkUnitMerged(u) \/ MarkUnitBlacklisted(u)
    PROVE  /\ inFlight' = {} /\ status' = "Discovering"
           /\ Len(completed') + Len(blacklisted') = Len(completed) + Len(blacklisted) + 1
           /\ Seen \subseteq Seen'
           /\ currentUnit' = NoUnit
           /\ UNCHANGED queue
<1>1. u \in Units /\ inFlight = {u} /\ currentUnit = u
  BY DEF TypeOK, OneUnitInv, OneUnitAtATime
<1>2. /\ completed \in Seq(Units) /\ blacklisted \in Seq(Units)
      /\ Len(completed) \in Nat /\ Len(blacklisted) \in Nat
  BY LenProperties DEF TypeOK
<1>3. CASE MarkUnitMerged(u)
  <2>1. Range(completed) \cup {u} = Range(completed')
    BY <1>1, <1>2, <1>3, AppendProperties, LenProperties DEF MarkUnitMerged, Range
  <2> QED BY <1>1, <1>2, <1>3, <2>1, AppendProperties DEF MarkUnitMerged, Store, Seen, Settled
<1>4. CASE MarkUnitBlacklisted(u)
  <2>1. Range(blacklisted) \cup {u} = Range(blacklisted')
    BY <1>1, <1>2, <1>4, AppendProperties, LenProperties DEF MarkUnitBlacklisted, Range
  <2> QED BY <1>1, <1>2, <1>4, <2>1, AppendProperties DEF MarkUnitBlacklisted, Store, Seen, Settled
<1> QED BY <1>3, <1>4

\* A step that leaves the units alone, and does not start looking for one.
LEMMA StaysOne ==
    ASSUME ~CanRevive, OneUnitInv, UNCHANGED <<inFlight, completed, blacklisted, currentUnit>>,
           \/ status' = status
           \/ status' \notin StepStatuses \cup {"Completed", "Failed"}
           \/ status \in StepStatuses /\ status' # "Working",
           status = "Working" => status' \in TerminalStatuses \cup {"Working"},
           status \in TerminalStatuses => status' \in TerminalStatuses
    PROVE  OneUnitInv'
BY DEF OneUnitInv, OneUnitAtATime, BudgetCapsUnits, CurrentIsKnown, Seen, Settled, StepStatuses,
       TerminalStatuses

\* Below the budget there is room for one more unit.
LEMMA RoomLeft ==
    ASSUME TypeOK, ~OverBudget, MaxUnits > 0
    PROVE  Len(completed) + Len(blacklisted) < MaxUnits
BY LenProperties, ConstantsAssumption DEF TypeOK, OverBudget

\* No step body takes up a second unit, or loses one, when nobody revives the Run.
LEMMA StepOne ==
    ASSUME ~CanRevive, TypeOK, UnitInv, OneUnitInv, Step
    PROVE  OneUnitInv' /\ Known \subseteq Known'
<1> USE DEF Store
<1>0. inFlight = {} /\ status \in StepStatuses
  BY DEF Step, Setup, DiscoverOverBudget, DiscoverSweep, DiscoverSpec, WorkFailsEarly, WorkFails,
         WorkFindsNothing, WorkOpensMR, StepRuns, OneUnitInv, OneUnitAtATime, StepStatuses
<1>1. CASE Setup \/ DiscoverOverBudget \/ WorkFailsEarly \/ WorkFails
  <2>1. /\ UNCHANGED unitVars
        /\ status' # "Working"
        /\ status = "Working" => status' = "Failed"
    BY <1>1 DEF Setup, DiscoverOverBudget, WorkFailsEarly, WorkFails, StepRuns
  <2>2. OneUnitInv'
    BY <1>0, <2>1, StaysOne DEF unitVars, TerminalStatuses, StepStatuses
  <2> QED BY <2>1, <2>2 DEF unitVars, Known, Seen, Settled
<1>2. CASE DiscoverSweep
  <2>1. PICK k \in 0..Len(queue) :
          /\ \A i \in 1..k : queue[i] \in Seen
          /\ \/ k = Len(queue) /\ queue' = <<>> /\ Store("Completed") /\ UNCHANGED currentUnit
             \/ /\ k < Len(queue)
                /\ currentUnit' = queue[k + 1]
                /\ queue' = SubSeq(queue, k + 2, Len(queue))
                /\ Store("Working")
    BY <1>2 DEF DiscoverSweep
  <2>2. /\ UNCHANGED <<inFlight, completed, blacklisted>> /\ ~OverBudget
        /\ currentUnit \in Seen \cup {NoUnit}
        /\ Seen' = Seen
    BY <1>2 DEF DiscoverSweep, StepRuns, OneUnitInv, CurrentIsKnown, TerminalStatuses, Seen, Settled
  <2>3. OneUnitInv'
    <3>1. OneUnitAtATime' /\ CurrentIsKnown'
      BY <1>0, <2>1, <2>2 DEF OneUnitAtATime, CurrentIsKnown, TerminalStatuses, StepStatuses
    <3>2. BudgetCapsUnits'
      BY <2>1, <2>2, RoomLeft DEF OneUnitInv, BudgetCapsUnits
    <3> QED BY <3>1, <3>2 DEF OneUnitInv
  <2>4. Known \subseteq Known'
    <3> SUFFICES ASSUME NEW i \in 1..Len(queue), queue[i] \notin Seen
                 PROVE  queue[i] \in Known'
      BY <2>2, LenProperties DEF Known, Range, TypeOK
    <3>1. i > k /\ k < Len(queue)
      BY <2>1
    <3>2. CASE i = k + 1
      <4>1. queue[i] \in Units
        BY ElementOfSeq DEF TypeOK
      <4>2. queue[i] # NoUnit
        BY <4>1, ConstantsAssumption DEF Units, NoUnit
      <4>3. currentUnit' = queue[i]
        BY <2>1, <3>1, <3>2
      <4> QED BY <4>2, <4>3 DEF Known
    <3>3. CASE i > k + 1
      <4> DEFINE rest == SubSeq(queue, k + 2, Len(queue))
      <4>0. k \in Nat /\ i \in Nat /\ k + 2 \in Int /\ Len(queue) \in Int /\ k + 2 <= Len(queue)
        BY <3>1, <3>3, LenProperties DEF TypeOK
      <4>1. /\ rest \in Seq(Units)
            /\ Len(rest) = Len(queue) - (k + 2) + 1
            /\ \A j \in 1..(Len(queue) - (k + 2) + 1) : rest[j] = queue[(k + 2) + j - 1]
        <5>1. \A j \in (k + 2)..Len(queue) : queue[j] \in Units
          BY ElementOfSeq DEF TypeOK
        <5> QED BY <4>0, <5>1, SubSeqProperties
      <4>2. queue' = rest
        BY <2>1, <3>1
      <4>3. i - k - 1 \in 1..Len(rest) /\ rest[i - k - 1] = queue[i]
        <5>1. i - k - 1 \in 1..(Len(queue) - (k + 2) + 1)
          BY <3>1, <3>3, <4>0
        <5>2. (k + 2) + (i - k - 1) - 1 = i
          BY <4>0
        <5> HIDE DEF rest
        <5> QED BY <4>1, <5>1, <5>2
      <4> HIDE DEF rest
      <4> QED BY <4>1, <4>2, <4>3, LenProperties DEF Known, Range
    <3> QED BY <3>1, <3>2, <3>3
  <2> QED BY <2>3, <2>4
<1>3. CASE DiscoverSpec
  <2>1. /\ UNCHANGED <<queue, inFlight, completed, blacklisted>> /\ ~OverBudget
        /\ status = "Discovering" /\ currentUnit \in Seen \cup {NoUnit}
        /\ Seen' = Seen
    BY <1>3 DEF DiscoverSpec, StepRuns, OneUnitInv, CurrentIsKnown, TerminalStatuses, Seen, Settled
  <2>2. status' = "Working" \/ UNCHANGED currentUnit
    BY <1>3 DEF DiscoverSpec, Decisions
  <2>3. OneUnitInv'
    <3>1. OneUnitAtATime' /\ CurrentIsKnown'
      BY <1>0, <2>1, <2>2 DEF OneUnitAtATime, CurrentIsKnown, TerminalStatuses, StepStatuses
    <3>2. BudgetCapsUnits'
      BY <2>1, <2>2, RoomLeft DEF OneUnitInv, BudgetCapsUnits
    <3> QED BY <3>1, <3>2 DEF OneUnitInv
  <2> QED BY <2>1, <2>3 DEF Known
<1>4. CASE WorkFindsNothing
  <2>1. currentUnit \in Units /\ blacklisted \in Seq(Units) /\ status = "Working"
    BY <1>4 DEF WorkFindsNothing, TypeOK, MRs, StepRuns
  <2>2. /\ Len(blacklisted') = Len(blacklisted) + 1
        /\ Range(blacklisted') = Range(blacklisted) \cup {currentUnit}
    BY <1>4, <2>1, AppendProperties, LenProperties DEF WorkFindsNothing, Range
  <2>3. /\ UNCHANGED <<queue, inFlight, completed>>
        /\ currentUnit' = NoUnit /\ status' = "Discovering"
    BY <1>4 DEF WorkFindsNothing
  <2>4. OneUnitInv'
    BY <1>0, <2>1, <2>2, <2>3, LenProperties, ConstantsAssumption
    DEF OneUnitInv, OneUnitAtATime, BudgetCapsUnits, CurrentIsKnown, TypeOK
  <2> QED BY <2>2, <2>3, <2>4 DEF Known, Seen, Settled
<1>5. CASE WorkOpensMR
  <2>1. /\ UNCHANGED <<queue, completed, blacklisted, currentUnit>>
        /\ inFlight' = {currentUnit} /\ status' = "AwaitingMerge" /\ status = "Working"
    BY <1>0, <1>5 DEF WorkOpensMR, StepRuns
  <2>2. OneUnitInv'
    BY <2>1
    DEF OneUnitInv, OneUnitAtATime, BudgetCapsUnits, CurrentIsKnown, Seen, StepStatuses
  <2> QED BY <1>0, <2>1, <2>2 DEF Known, Seen, Settled
<1> QED BY <1>1, <1>2, <1>3, <1>4, <1>5 DEF Step

\* Nor does anything outside the steps and the callback.
LEMMA OutsideOne ==
    ASSUME ~CanRevive, TypeOK, OneUnitInv,
           \/ WorkIsCutShort \/ AutoPause \/ AutoRetry \/ OnAbandonConfirmTimeout
           \/ DirectAbandon \/ DirectResume \/ Environment
    PROVE  OneUnitInv' /\ Known \subseteq Known'
<1> USE DEF Store, StepStatuses, TerminalStatuses
<1>1. UNCHANGED unitVars
  BY DEF WorkIsCutShort, AutoPause, AutoRetry, OnAbandonConfirmTimeout, DirectAbandon, DirectResume,
         Environment, ReviewerMerges, ReviewerCloses, StrayIsDecided, RuntimeElapses
<1>2. \/ status' = status
      \/ status' = "AwaitingMerge" /\ status = "AwaitingAbandonConfirm"
      \/ status' = "Cancelled"
  BY DEF WorkIsCutShort, AutoPause, AutoRetry, OnAbandonConfirmTimeout, Watch, DirectAbandon,
         DirectResume, Environment, ReviewerMerges, ReviewerCloses, StrayIsDecided, RuntimeElapses,
         recordVars
<1>3. OneUnitInv'
  BY <1>1, <1>2, StaysOne DEF unitVars
<1> QED BY <1>1, <1>3 DEF unitVars, Known, Seen, Settled

\* Nor does an event, whatever it is.
LEMMA EventOne ==
    ASSUME ~CanRevive, TypeOK, OneUnitInv, NEW ev \in Events, Plausible(ev), Resume(ev)
    PROVE  OneUnitInv' /\ Known \subseteq Known'
<1>1. UnitEffect(ev)
  BY ResumeEffect
<1>2. status \in {"AwaitingMerge", "Paused", "AwaitingAbandonConfirm"}
  BY DEF Resume, CallbackStatuses
<1>3. CASE Holds
  <2>1. UNCHANGED unitVars /\ status' \notin StepStatuses \cup {"Completed", "Failed"}
    BY <1>3 DEF Holds
  <2>2. OneUnitInv'
    BY <1>2, <2>1, StaysOne DEF unitVars, TerminalStatuses
  <2> QED BY <2>1, <2>2 DEF unitVars, Known, Seen, Settled
<1>4. CASE ev.mr \in inFlight /\ (MarkUnitMerged(ev.mr) \/ MarkUnitBlacklisted(ev.mr))
  <2>1. /\ inFlight' = {} /\ status' = "Discovering"
        /\ Len(completed') + Len(blacklisted') = Len(completed) + Len(blacklisted) + 1
        /\ Seen \subseteq Seen'
        /\ currentUnit' = NoUnit
        /\ UNCHANGED queue
    BY <1>4, SettleOne
  <2>2. inFlight = {currentUnit}
    BY <1>4 DEF OneUnitInv, OneUnitAtATime
  <2>3. OneUnitAtATime' /\ CurrentIsKnown'
    BY <2>1 DEF OneUnitAtATime, CurrentIsKnown
  <2>4. BudgetCapsUnits'
    BY <2>1, <2>2, LenProperties, ConstantsAssumption
    DEF OneUnitInv, BudgetCapsUnits, TypeOK
  <2>5. Known \subseteq Known'
    BY <2>1, <2>2 DEF Known, Seen
  <2> QED BY <2>3, <2>4, <2>5 DEF OneUnitInv
<1> QED BY <1>1, <1>3, <1>4 DEF UnitEffect

\* Every step keeps the one-unit invariant and every known unit.
LEMMA NextOne ==
    ASSUME ~CanRevive
    PROVE  TypeOK /\ UnitInv /\ OneUnitInv /\ [Next]_vars => OneUnitInv' /\ Known \subseteq Known'
<1> SUFFICES ASSUME TypeOK, UnitInv, OneUnitInv, [Next]_vars
             PROVE  OneUnitInv' /\ Known \subseteq Known'
  OBVIOUS
<1>1. CASE UNCHANGED vars
  BY <1>1
  DEF vars, recordVars, unitVars, OneUnitInv, OneUnitAtATime, BudgetCapsUnits, CurrentIsKnown,
      Known, Seen, Settled
<1>2. CASE \E ev \in Events : Plausible(ev) /\ Resume(ev)
  BY <1>2, EventOne
<1> QED BY <1>1, <1>2, StepOne, OutsideOne DEF Next

\* A Run that was just triggered satisfies the one-unit invariant.
LEMMA InitOne == Init => OneUnitInv
<1> SUFFICES ASSUME Init PROVE OneUnitInv
  OBVIOUS
<1>1. /\ completed = <<>> /\ blacklisted = <<>> /\ inFlight = {}
      /\ status = "Initiated" /\ currentUnit = NoUnit
  BY DEF Init
<1> QED
  BY <1>1, EmptySeq, ConstantsAssumption
  DEF OneUnitInv, OneUnitAtATime, BudgetCapsUnits, CurrentIsKnown, StepStatuses

\* The one-unit invariant holds of every Run nobody revives.
LEMMA OneUnitInvariant == ASSUME ~CanRevive PROVE Spec => []OneUnitInv
<1>1. Init => OneUnitInv
  BY InitOne
<1>2. TypeOK /\ UnitInv /\ OneUnitInv /\ [Next]_vars => OneUnitInv'
  BY NextOne
<1> QED BY <1>1, <1>2, TypeCorrect, UnitInvariant, PTL DEF Spec

\* A Run nobody revives has one unit in progress at a time, and is over with
\* nothing in flight unless it was stopped (discover, work, markUnitMerged,
\* markUnitBlacklisted; the comments at workflow.go:395 and :1539).
THEOREM OneUnitOnly == Spec => []OneUnitAtATime
<1>1. CASE CanRevive
  <2>1. OneUnitAtATime
    BY <1>1 DEF OneUnitAtATime
  <2> QED BY <2>1, PTL
<1>2. CASE ~CanRevive
  <2>1. OneUnitInv => OneUnitAtATime
    BY DEF OneUnitInv
  <2>2. Spec => []OneUnitInv
    BY <1>2, OneUnitInvariant
  <2> QED BY <2>1, <2>2, PTL
<1> QED BY <1>1, <1>2

\* Budget.MaxUnits is never exceeded, merges that come later included
\* (checkBudget runs before discovery only).
THEOREM BudgetIsKept == Spec => []BudgetCapsUnits
<1>1. CASE CanRevive
  <2>1. BudgetCapsUnits
    BY <1>1 DEF BudgetCapsUnits
  <2> QED BY <2>1, PTL
<1>2. CASE ~CanRevive
  <2>1. OneUnitInv => BudgetCapsUnits
    BY DEF OneUnitInv
  <2>2. Spec => []OneUnitInv
    BY <1>2, OneUnitInvariant
  <2> QED BY <2>1, <2>2, PTL
<1> QED BY <1>1, <1>2

\* Nothing that was queued, worked on or in flight is ever lost by a Run nobody
\* revives, whatever fails (discoverSweep's queue, work's early failures).
THEOREM UnitsAreKept == ASSUME ~CanRevive PROVE Spec => NoUnitLost
<1>1. TypeOK /\ UnitInv /\ OneUnitInv /\ [Next]_vars => [Known \subseteq Known']_vars
  BY NextOne
<1> QED BY <1>1, TypeCorrect, UnitInvariant, OneUnitInvariant, PTL DEF Spec, NoUnitLost

-----------------------------------------------------------------------------
(* Pauses.                                                                   *)

\* A step ends in AwaitingMerge only with an MR in flight.
LEMMA StepAwaits == ASSUME TypeOK, Step PROVE ~AwaitsNothing'
<1> USE DEF Store, AwaitsNothing
<1>1. CASE Setup \/ DiscoverOverBudget \/ DiscoverSweep \/ DiscoverSpec
  BY <1>1 DEF Setup, DiscoverOverBudget, DiscoverSweep, DiscoverSpec
<1>2. CASE WorkFailsEarly \/ WorkFails \/ WorkFindsNothing
  BY <1>2 DEF WorkFailsEarly, WorkFails, WorkFindsNothing
<1>3. CASE WorkOpensMR
  BY <1>3 DEF WorkOpensMR
<1> QED BY <1>1, <1>2, <1>3 DEF Step

\* The Run comes to wait for nothing only from a pause, or from an abandon window,
\* for any number of units and events (resume, controls.go, discover, work).
THEOREM PausesEndInNothing == Spec => OnlyPausesEndInNothing
<1>1. ASSUME TypeOK, [Next]_vars, AwaitsNothing'
      PROVE  AwaitsNothing \/ status \in {"Paused", "AwaitingAbandonConfirm"}
  <2>1. CASE UNCHANGED vars
    BY <1>1, <2>1 DEF vars, recordVars, unitVars, AwaitsNothing
  <2>2. CASE \E ev \in Events : Plausible(ev) /\ Resume(ev)
    <3>1. PICK ev \in Events : Plausible(ev) /\ Resume(ev)
      BY <2>2
    <3>2. UnitEffect(ev) /\ status \in CallbackStatuses
      BY <1>1, <3>1, ResumeEffect DEF Resume
    <3>3. inFlight' = inFlight
      BY <1>1, <3>2 DEF UnitEffect, Holds, unitVars, MarkUnitMerged, MarkUnitBlacklisted,
                        Store, AwaitsNothing
    <3> QED BY <1>1, <3>2, <3>3 DEF CallbackStatuses, AwaitsNothing
  <2>3. CASE Step
    BY <1>1, <2>3, StepAwaits
  <2>4. CASE WorkIsCutShort \/ AutoPause \/ AutoRetry \/ OnAbandonConfirmTimeout \/ Environment
    BY <1>1, <2>4 DEF WorkIsCutShort, AutoPause, AutoRetry, OnAbandonConfirmTimeout, Environment,
                      ReviewerMerges, ReviewerCloses, StrayIsDecided, RuntimeElapses, recordVars,
                      unitVars, AwaitsNothing
  <2>5. CASE DirectAbandon \/ DirectResume
    BY <1>1, <2>5 DEF DirectAbandon, DirectResume, Store, unitVars, AwaitsNothing
  <2> QED BY <1>1, <2>1, <2>2, <2>3, <2>4, <2>5 DEF Next
<1>2. TypeOK /\ [Next]_vars =>
        [AwaitsNothing' => AwaitsNothing \/ status \in {"Paused", "AwaitingAbandonConfirm"}]_vars
  BY <1>1
<1> QED BY <1>2, TypeCorrect, PTL DEF Spec, OnlyPausesEndInNothing

\* What a step does to a paused Run if neither its author nor the credentials move it.
PauseStays == UNCHANGED <<status, pauseReason, unitVars>>

\* Of the events that are not the author's verbs, only the provider's credentials move a
\* paused Run.
LEMMA OthersLeavePause ==
    ASSUME TypeOK, NEW ev \in Events, Resume(ev), ~(ev \in Notes /\ ev.body \in Verbs),
           status = "Paused"
    PROVE  PauseStays \/ (ev \in AuthEvents /\ CredentialsMove)
<1> USE DEF PauseStays
<1>1. ev.body \notin Verbs
  BY ConstantsAssumption DEF Events, Notes, MREvents, AuthEvents, AllVerbs
<1>2. CASE OwnEcho(ev) \/ WhilePaused(ev)
  BY <1>2 DEF OwnEcho, WhilePaused, Reply, Store
<1>3. CASE ConfirmWindow(ev) \/ ControlCommand(ev)
  BY <1>1, <1>3 DEF ConfirmWindow, ControlCommand
<1>4. CASE HandleProviderAuthEvent(ev)
  <2>1. ev \in AuthEvents
    BY <1>4 DEF HandleProviderAuthEvent, Events, Notes, MREvents
  <2> QED BY <1>4, <2>1 DEF HandleProviderAuthEvent, Park, Store, CredentialsMove
<1>5. CASE NotTracked(ev) \/ Lifecycle(ev) \/ Informational(ev) \/ Filtered(ev)
  BY <1>5 DEF NotTracked, Lifecycle, Informational, Filtered, Watched
<1> QED BY <1>2, <1>3, <1>4, <1>5 DEF Resume

\* For any number of units and whatever events arrive: only its author and the provider's
\* credentials move a paused Run, and what the credentials lift is a pause that is theirs,
\* or that they made theirs (resume, handleProviderAuthEvent).
THEOREM PausesHold == Spec => PausedHoldsStill
<1>1. ASSUME TypeOK, [Next]_vars, status = "Paused"
      PROVE  PauseStays \/ AuthorActs \/ CredentialsMove
  <2>1. CASE UNCHANGED vars
    BY <2>1 DEF vars, recordVars, PauseStays
  <2>2. CASE \E ev \in Events : Plausible(ev) /\ Resume(ev)
    BY <1>1, <2>2, OthersLeavePause DEF AuthorActs
  <2>3. CASE Step \/ WorkIsCutShort
    BY <1>1, <2>3 DEF Step, Setup, DiscoverOverBudget, DiscoverSweep, DiscoverSpec,
                      WorkFailsEarly, WorkFails, WorkFindsNothing, WorkOpensMR, WorkIsCutShort,
                      StepRuns
  <2>4. CASE AutoPause \/ AutoRetry \/ OnAbandonConfirmTimeout \/ Environment
    BY <1>1, <2>4 DEF AutoPause, AutoRetry, OnAbandonConfirmTimeout, Environment, ReviewerMerges,
                      ReviewerCloses, StrayIsDecided, RuntimeElapses, recordVars, PauseStays
  <2>5. CASE DirectAbandon \/ DirectResume
    BY <2>5 DEF AuthorActs
  <2> QED BY <1>1, <2>1, <2>2, <2>3, <2>4, <2>5 DEF Next
<1>2. TypeOK /\ [Next]_vars =>
        [status = "Paused" =>
           UNCHANGED <<status, pauseReason, unitVars>> \/ AuthorActs \/ CredentialsMove]_vars
  BY <1>1 DEF PauseStays
<1> QED BY <1>2, TypeCorrect, PTL DEF Spec, PausedHoldsStill

-----------------------------------------------------------------------------
(* The lifecycle of the Run.                                                 *)

\* Only a step is parked, and a Run is finished when its status is terminal.
RunStateInv ==
    /\ runState = "paused" => status \in StepStatuses
    /\ runState = "finished" <=> status \in TerminalStatuses

\* What a handler stores is not parked, and finished when it ends the Run.
LEMMA StoreRunState ==
    ASSUME NEW s, Store(s)
    PROVE  status' = s /\ runState' # "paused" /\ (runState' = "finished" <=> s \in TerminalStatuses)
BY DEF Store

\* The Run is where Build's transitions take it, and not parked.
Along == status' \in Life!Goes[status] /\ runState' # "paused" /\ RunStateInv'

\* A step returns what Build declares for it.
LEMMA StepAlong ==
    ASSUME TypeOK, Step
    PROVE  status \in StepStatuses /\ runState = "running" /\ Along
<1> USE DEF StepRuns, Along, RunStateInv, Store, TerminalStatuses, StepStatuses, Life!Goes,
            Life!Steps, Life!Callbacks
<1>1. CASE Setup \/ DiscoverOverBudget
  BY <1>1 DEF Setup, DiscoverOverBudget
<1>2. CASE DiscoverSweep
  BY <1>2 DEF DiscoverSweep
<1>3. CASE DiscoverSpec
  BY <1>3 DEF DiscoverSpec, Decisions
<1>4. CASE WorkFailsEarly \/ WorkFails \/ WorkFindsNothing \/ WorkOpensMR
  BY <1>4 DEF WorkFailsEarly, WorkFails, WorkFindsNothing, WorkOpensMR
<1> QED BY <1>1, <1>2, <1>3, <1>4 DEF Step

\* So does the callback, whatever the event.
LEMMA ResumeAlong ==
    ASSUME TypeOK, NEW ev \in Events, Resume(ev)
    PROVE  status \in CallbackStatuses /\ Along
<1> USE DEF Along, RunStateInv, Store, Park, Watch, Reply, TerminalStatuses, StepStatuses,
            CallbackStatuses, Life!Goes, Life!Steps, Life!Callbacks
<1>0. status \in CallbackStatuses
  BY DEF Resume
<1>1. ASSUME NEW u, NEW prompt, InvokeForEvent(ev, u, prompt)
      PROVE  Store("Paused") \/ Store("AwaitingMerge")
  BY <1>1 DEF InvokeForEvent, SyncFails, IsolationFails, TurnParks, TurnChangesNothing,
              TurnPushes, TurnRetriesCI
<1>2. CASE OwnEcho(ev) \/ WhilePaused(ev)
  BY <1>0, <1>2 DEF OwnEcho, WhilePaused
<1>3. CASE ConfirmWindow(ev)
  BY <1>3 DEF ConfirmWindow, CmdAbandon, CmdStop, DropAbandonConfirm
<1>4. CASE ControlCommand(ev)
  <2>1. status \in {"AwaitingMerge", "Paused"}
    BY <1>0, <1>4 DEF ControlCommand
  <2>2. \E s \in {"AwaitingMerge", "Paused", "AwaitingAbandonConfirm", "Discovering", "Cancelled"} :
          Store(s)
    BY <1>1, <1>4, <2>1
    DEF ControlCommand, HandleControlCommand, CmdPause, CmdResume, CmdRetry, CmdSkip, CmdPrompt,
        CmdStop, CmdAbandon, CmdFreeform, MarkUnitBlacklisted
  <2> QED BY <2>1, <2>2
<1>5. CASE HandleProviderAuthEvent(ev)
  BY <1>0, <1>5 DEF HandleProviderAuthEvent, Ordinary
<1>6. CASE NotTracked(ev) \/ Informational(ev)
  BY <1>0, <1>6 DEF NotTracked, Informational, Watched, AboutMR, Ordinary
<1>7. CASE Lifecycle(ev)
  BY <1>0, <1>7 DEF Lifecycle, Watched, AboutMR, Ordinary, MarkUnitMerged, MarkUnitBlacklisted
<1>8. CASE Filtered(ev)
  BY <1>0, <1>1, <1>8 DEF Filtered, Watched, AboutMR, Ordinary
<1> QED BY <1>0, <1>2, <1>3, <1>4, <1>5, <1>6, <1>7, <1>8 DEF Resume

\* Every step keeps the RunState in line with the status, and is a step of the lifecycle.
LEMMA NextLifecycle ==
    TypeOK /\ RunStateInv /\ [Next]_vars => RunStateInv' /\ [Life!Next]_(Life!vars)
<1> SUFFICES ASSUME TypeOK, RunStateInv, [Next]_vars
             PROVE  RunStateInv' /\ [Life!Next]_(Life!vars)
  OBVIOUS
<1> USE DEF Life!vars, Life!Next, RunStateInv, StepStatuses, TerminalStatuses
<1>1. CASE UNCHANGED <<status, runState>>
  BY <1>1
<1>2. CASE Along /\ status \in StepStatuses \cup CallbackStatuses /\ runState # "paused"
  BY <1>2 DEF Along, CallbackStatuses, Life!HandlerReturns, Life!Steps, Life!Callbacks
<1>3. CASE AutoPause
  BY <1>3 DEF AutoPause, Life!AutoPause, Life!Steps
<1>4. CASE AutoRetry
  BY <1>4 DEF AutoRetry, Life!Unpark
<1>5. CASE OnAbandonConfirmTimeout
  <2>1. Along /\ status \in CallbackStatuses
    BY <1>5 DEF OnAbandonConfirmTimeout, Watch, Store, Along, CallbackStatuses, Life!Goes,
                Life!Steps, Life!Callbacks
  <2> QED BY <1>2, <2>1 DEF CallbackStatuses
<1>6. CASE DirectAbandon
  BY <1>6 DEF DirectAbandon, Store, Life!Cancel, Life!Steps, Life!Callbacks, TypeOK, Statuses
<1>7. CASE DirectResume
  BY <1>7 DEF DirectResume, Store, Life!Unpark, Life!Revive
<1>8. CASE \E ev \in Events : Plausible(ev) /\ Resume(ev)
  BY <1>2, <1>8, ResumeAlong DEF CallbackStatuses
<1>9. CASE Step
  BY <1>2, <1>9, StepAlong
<1>10. CASE WorkIsCutShort \/ Environment
  BY <1>1, <1>10 DEF WorkIsCutShort, Environment, ReviewerMerges, ReviewerCloses, StrayIsDecided,
                     RuntimeElapses, recordVars
<1> QED
  BY <1>1, <1>3, <1>4, <1>5, <1>6, <1>7, <1>8, <1>9, <1>10 DEF Next, vars, recordVars

\* No handler ever returns a transition Build does not declare, for any budget, queue,
\* verbs and events (setup, discover, work, resume, controls.go, the abandon timeout).
THEOREM SweepKeepsLifecycle == Spec => ImplementsLifecycle
<1>1. Init => RunStateInv /\ Life!Init
  BY DEF Init, RunStateInv, StepStatuses, TerminalStatuses, Life!Init
<1> QED
  BY <1>1, NextLifecycle, TypeCorrect, PTL DEF Spec, ImplementsLifecycle, Life!Spec

-----------------------------------------------------------------------------
(* The life of the units.                                                    *)

\* StageOf names the one place the unit invariant leaves for a unit.
LEMMA StageFacts ==
    UnitsDisjoint =>
        \A u \in Units :
            /\ StageOf(u) = "completed"   <=> u \in Range(completed)
            /\ StageOf(u) = "blacklisted" <=> u \in Range(blacklisted)
            /\ StageOf(u) = "watched"     <=> u \in inFlight
            /\ StageOf(u) = "working"     <=> status = "Working" /\ currentUnit = u
            /\ StageOf(u) = "out"         <=> u \notin Seen /\ ~(status = "Working" /\ currentUnit = u)
            /\ StageOf(u) \in UnitsOf!Stages
BY DEF UnitsDisjoint, Seen, Settled, StageOf, UnitsOf!Stages

\* The same after a step.
LEMMA StageFactsNext ==
    UnitsDisjoint' =>
        \A u \in Units :
            /\ StageOf(u)' = "completed"   <=> u \in Range(completed')
            /\ StageOf(u)' = "blacklisted" <=> u \in Range(blacklisted')
            /\ StageOf(u)' = "watched"     <=> u \in inFlight'
            /\ StageOf(u)' = "working"     <=> status' = "Working" /\ currentUnit' = u
            /\ StageOf(u)' = "out"         <=> u \notin Seen' /\ ~(status' = "Working" /\ currentUnit' = u)
            /\ StageOf(u)' \in UnitsOf!Stages
BY DEF UnitsDisjoint, Seen, Settled, StageOf, UnitsOf!Stages

\* A unit that is out or worked on has no MR.
LEMMA NoMRYet ==
    ASSUME UnitInv, NEW u \in Units, u \notin Seen
    PROVE  mrState[u] = "none"
BY DEF UnitInv, MRsAccounted

\* What a step may do to a unit, from its stage and its MR before and after.
MayMove(s, t, m, n) ==
    \/ s = "out"     /\ t = "working"     /\ m = "none" /\ n = "none"
    \/ s = "working" /\ t = "out"         /\ n = m
    \/ s = "working" /\ t = "blacklisted" /\ n = m
    \/ s = "working" /\ t = "watched"     /\ m = "none" /\ n = "opened"
    \/ s = "watched" /\ t = "completed"   /\ m = "merged" /\ n = "merged"
    \/ s = "watched" /\ t = "blacklisted" /\ n = m
    \/ s = "watched" /\ t = "blacklisted" /\ m = "opened" /\ n = "closed"
    \/ s = t /\ n = m
    \/ s = t /\ m = "opened" /\ n \in {"merged", "closed"}

UnitsMove == \A u \in Units : MayMove(StageOf(u), StageOf(u)', mrState[u], mrState'[u])

\* Units that move that way live as UnitLife has it.
LEMMA UnitsOfMove ==
    ASSUME TypeOK', UnitsDisjoint', UnitsMove
    PROVE  UnitsOf!Next
<1> DEFINE stage == [u \in Units |-> StageOf(u)]
<1>1. stage' \in [Units -> UnitsOf!Stages]
  BY StageFactsNext
<1>2. mrState' \in [Units -> UnitsOf!MRStates]
  BY DEF TypeOK, UnitsOf!MRStates
<1>3. ASSUME NEW u \in Units
      PROVE  UnitsOf!Move(u) \/ (stage'[u] = stage[u] /\ UnitsOf!SameMR(u))
  <2>1. stage[u] = StageOf(u) /\ stage'[u] = StageOf(u)'
    OBVIOUS
  <2>2. MayMove(stage[u], stage'[u], mrState[u], mrState'[u])
    BY <2>1 DEF UnitsMove
  <2> HIDE DEF stage
  <2> QED
    BY <2>2
    DEF MayMove, stage, UnitsOf!Move, UnitsOf!Take, UnitsOf!Leave, UnitsOf!GiveUp, UnitsOf!Open,
        UnitsOf!Complete, UnitsOf!Blacklist, UnitsOf!Decide, UnitsOf!From, UnitsOf!MRFrom,
        UnitsOf!SameMR
<1> QED BY <1>1, <1>2, <1>3 DEF UnitsOf!Next

\* A step that leaves the units alone moves no unit but the one it was working on.
LEMMA KeepsMove ==
    ASSUME UnitInv, UnitsDisjoint', KeepsUnits
    PROVE  UnitsMove
<1> SUFFICES ASSUME NEW u \in Units
             PROVE  MayMove(StageOf(u), StageOf(u)', mrState[u], mrState'[u])
  BY DEF UnitsMove
<1>1. mrState'[u] = mrState[u] \/ (mrState[u] = "opened" /\ mrState'[u] \in {"merged", "closed"})
  BY DEF KeepsUnits, MRsMoveOn
<1>2. CASE StageOf(u)' = StageOf(u)
  BY <1>1, <1>2 DEF MayMove
<1>3. CASE StageOf(u)' # StageOf(u)
  <2>1. StageOf(u) = "working" /\ StageOf(u)' = "out" /\ u \notin Seen
    BY <1>3, StageFacts, StageFactsNext DEF UnitInv, KeepsUnits, UnitsDisjoint, Seen, Settled
  <2>2. mrState'[u] = mrState[u]
    BY <1>1, <2>1, NoMRYet
  <2> QED BY <2>1, <2>2 DEF MayMove
<1> QED BY <1>2, <1>3

\* A step that takes up a new unit moves that unit only.
LEMMA TakesMove ==
    ASSUME UnitInv, UnitsDisjoint', status # "Working", status' = "Working",
           NEW u \in Units, currentUnit' = u, u \notin Seen,
           UNCHANGED <<inFlight, completed, blacklisted, mrState>>
    PROVE  UnitsMove
<1> SUFFICES ASSUME NEW v \in Units
             PROVE  MayMove(StageOf(v), StageOf(v)', mrState[v], mrState'[v])
  BY DEF UnitsMove
<1>1. CASE v = u
  BY <1>1, NoMRYet, StageFacts, StageFactsNext DEF UnitInv, MayMove
<1>2. CASE v # u
  BY <1>2, StageFacts, StageFactsNext DEF UnitInv, MayMove, Seen, Settled
<1> QED BY <1>1, <1>2

\* A step that settles, or begins to watch, unit u moves it, and no other unit but by
\* closing its MR.
LEMMA OneMoves ==
    ASSUME UnitInv, UnitsDisjoint', NEW u \in Units,
           MayMove(StageOf(u), StageOf(u)', mrState[u], mrState'[u]),
           status = "Working" => currentUnit = u, status' # "Working",
           \A v \in Units \ {u} :
               /\ v \in Range(completed')   <=> v \in Range(completed)
               /\ v \in Range(blacklisted') <=> v \in Range(blacklisted)
               /\ v \in inFlight'           <=> v \in inFlight
               /\ mrState'[v] = mrState[v] \/ (mrState[v] = "opened" /\ mrState'[v] = "closed")
    PROVE  UnitsMove
<1> SUFFICES ASSUME NEW v \in Units \ {u}
             PROVE  MayMove(StageOf(v), StageOf(v)', mrState[v], mrState'[v])
  BY DEF UnitsMove
<1>1. StageOf(v)' = StageOf(v)
  BY StageFacts, StageFactsNext DEF UnitInv, Seen, Settled
<1> QED BY <1>1 DEF MayMove

\* The steps move units as UnitLife has it.
LEMMA StepMoves ==
    ASSUME TypeOK, UnitInv, TypeOK', UnitInv', Step
    PROVE  UnitsMove
<1> USE DEF Store
<1>a. UnitsDisjoint' /\ UnitsDisjoint
  BY DEF UnitInv
<1>1. CASE Setup \/ DiscoverOverBudget \/ WorkFailsEarly \/ WorkFails
  <2>1. KeepsUnits
    BY <1>1 DEF Setup, DiscoverOverBudget, WorkFailsEarly, WorkFails, StepRuns, KeepsUnits,
                MRsMoveOn, unitVars, envVars
  <2> QED BY <1>a, <2>1, KeepsMove
<1>2. CASE DiscoverSweep \/ DiscoverSpec
  <2>1. /\ UNCHANGED <<inFlight, completed, blacklisted, mrState>>
        /\ status # "Working" /\ Seen' = Seen
    BY <1>2 DEF DiscoverSweep, DiscoverSpec, StepRuns, envVars, Seen, Settled
  <2>2. CASE status' = "Working"
    <3>1. currentUnit' \in Units \ Seen
      BY <1>a, <2>1, <2>2 DEF UnitsDisjoint
    <3> QED BY <1>a, <2>1, <2>2, <3>1, TakesMove
  <2>3. CASE status' # "Working"
    <3> SUFFICES ASSUME NEW u \in Units
                 PROVE  MayMove(StageOf(u), StageOf(u)', mrState[u], mrState'[u])
      BY DEF UnitsMove
    <3>1. StageOf(u)' = StageOf(u)
      BY <2>1, <2>3 DEF StageOf
    <3> QED BY <2>1, <3>1 DEF MayMove
  <2> QED BY <2>2, <2>3
<1>3. CASE WorkFindsNothing
  <2>1. /\ currentUnit \in Units \ Seen /\ status = "Working" /\ status' # "Working"
        /\ blacklisted \in Seq(Units) /\ IsInjective(blacklisted)
        /\ UNCHANGED <<inFlight, completed, mrState>>
    BY <1>a, <1>3 DEF WorkFindsNothing, StepRuns, UnitsDisjoint, TypeOK, envVars
  <2>2. Range(blacklisted') = Range(blacklisted) \cup {currentUnit}
    BY <1>3, <2>1, AppendNew DEF WorkFindsNothing, Seen, Settled
  <2>3. PICK v \in Units : v = currentUnit
    BY <2>1
  <2>4. MayMove(StageOf(v), StageOf(v)', mrState[v], mrState'[v])
    <3>1. StageOf(v) = "working"
      BY <1>a, <2>1, <2>3, StageFacts
    <3>2. StageOf(v)' = "blacklisted"
      BY <1>a, <2>2, <2>3, StageFactsNext
    <3> QED BY <2>1, <3>1, <3>2 DEF MayMove
  <2> QED BY <1>a, <2>1, <2>2, <2>3, <2>4, OneMoves
<1>4. CASE WorkOpensMR
  <2>1. /\ currentUnit \in Units \ Seen /\ status = "Working" /\ status' # "Working"
        /\ UNCHANGED <<completed, blacklisted, currentUnit>>
        /\ inFlight' = inFlight \cup {currentUnit}
        /\ mrState' = [mrState EXCEPT ![currentUnit] = "opened"]
        /\ mrState \in [Units -> {"none", "opened", "merged", "closed"}]
    BY <1>a, <1>4 DEF WorkOpensMR, StepRuns, UnitsDisjoint, TypeOK
  <2>2. mrState[currentUnit] = "none"
    BY <2>1, NoMRYet
  <2>3. MayMove(StageOf(currentUnit), StageOf(currentUnit)', mrState[currentUnit], mrState'[currentUnit])
    <3>1. StageOf(currentUnit) = "working"
      BY <1>a, <2>1, StageFacts
    <3>2. StageOf(currentUnit)' = "watched"
      BY <1>a, <2>1, StageFactsNext
    <3> QED BY <2>1, <2>2, <3>1, <3>2 DEF MayMove
  <2> QED BY <1>a, <2>1, <2>3, OneMoves
<1> QED BY <1>1, <1>2, <1>3, <1>4 DEF Step

\* So do events, whatever they are.
LEMMA EventMoves ==
    ASSUME TypeOK, UnitInv, TypeOK', UnitInv', NEW ev \in Events, Plausible(ev), Resume(ev)
    PROVE  UnitsMove
<1>a. UnitsDisjoint' /\ UnitsDisjoint /\ UnitEffect(ev) /\ status \in CallbackStatuses
  BY ResumeEffect DEF UnitInv, Resume
<1>b. status # "Working"
  BY <1>a DEF CallbackStatuses
<1>1. CASE Holds
  <2>1. KeepsUnits
    BY <1>1 DEF Holds, KeepsUnits, StepStatuses, unitVars
  <2> QED BY <1>a, <2>1, KeepsMove
<1>2. CASE /\ ev.mr \in inFlight /\ mrState[ev.mr] = "merged"
           /\ MarkUnitMerged(ev.mr) /\ UNCHANGED mrState
  <2>1. /\ ev.mr \in Units /\ completed \in Seq(Units) /\ ev.mr \notin Range(completed)
        /\ IsInjective(completed)
    BY <1>a, <1>2 DEF UnitsDisjoint, TypeOK, Settled
  <2>2. /\ Range(completed') = Range(completed) \cup {ev.mr} /\ UNCHANGED blacklisted
        /\ inFlight' = inFlight \ {ev.mr} /\ status' # "Working"
    BY <1>2, <2>1, AppendNew DEF MarkUnitMerged, Store
  <2>3. MayMove(StageOf(ev.mr), StageOf(ev.mr)', mrState[ev.mr], mrState'[ev.mr])
    <3>1. StageOf(ev.mr) = "watched" /\ StageOf(ev.mr)' = "completed"
      BY <1>a, <1>2, <2>1, <2>2, StageFacts, StageFactsNext
    <3> QED BY <1>2, <3>1 DEF MayMove
  <2> QED BY <1>a, <1>b, <1>2, <2>1, <2>2, <2>3, OneMoves
<1>3. CASE ev.mr \in inFlight /\ MarkUnitBlacklisted(ev.mr) /\ MRsClose
  <2>1. /\ ev.mr \in Units /\ blacklisted \in Seq(Units) /\ ev.mr \notin Range(blacklisted)
        /\ IsInjective(blacklisted)
    BY <1>a, <1>3 DEF UnitsDisjoint, TypeOK, Settled
  <2>2. /\ Range(blacklisted') = Range(blacklisted) \cup {ev.mr} /\ UNCHANGED completed
        /\ inFlight' = inFlight \ {ev.mr} /\ status' # "Working"
    BY <1>3, <2>1, AppendNew DEF MarkUnitBlacklisted, Store
  <2>3. MayMove(StageOf(ev.mr), StageOf(ev.mr)', mrState[ev.mr], mrState'[ev.mr])
    <3>1. StageOf(ev.mr) = "watched" /\ StageOf(ev.mr)' = "blacklisted"
      BY <1>a, <1>3, <2>1, <2>2, StageFacts, StageFactsNext
    <3> QED BY <1>3, <2>1, <3>1 DEF MayMove, MRsClose
  <2> QED BY <1>a, <1>b, <1>3, <2>1, <2>2, <2>3, OneMoves DEF MRsClose
<1> QED BY <1>a, <1>1, <1>2, <1>3 DEF UnitEffect

\* Every step moves the units as UnitLife has it.
LEMMA NextUnits ==
    TypeOK /\ UnitInv /\ [Next]_vars => [UnitsOf!Next]_(UnitsOf!vars)
<1> SUFFICES ASSUME TypeOK, UnitInv, Next PROVE UnitsOf!Next
  BY DEF UnitsOf!vars, vars, recordVars, unitVars, envVars, StageOf
<1>1. TypeOK' /\ UnitInv'
  BY NextTypeOK, NextInv
<1>2. UnitsMove
  <2>1. CASE Step
    BY <1>1, <2>1, StepMoves
  <2>2. CASE \E ev \in Events : Plausible(ev) /\ Resume(ev)
    BY <1>1, <2>2, EventMoves
  <2>3. CASE \/ WorkIsCutShort \/ AutoPause \/ AutoRetry \/ OnAbandonConfirmTimeout
             \/ DirectAbandon \/ DirectResume \/ Environment
    BY <1>1, <2>3, OutsideKeeps, KeepsMove DEF UnitInv
  <2> QED BY <2>1, <2>2, <2>3 DEF Next
<1> QED BY <1>1, <1>2, UnitsOfMove DEF UnitInv

\* A Run that was just triggered has all its units out.
LEMMA InitUnits == Init => UnitsOf!Init
<1> SUFFICES ASSUME Init PROVE UnitsOf!Init
  OBVIOUS
<1>1. \A u \in Units : StageOf(u) = "out"
  BY InitInv, StageFacts DEF Init, UnitInv, Seen, Settled, Range
<1> QED BY <1>1 DEF Init, UnitsOf!Init

\* The units of every Run live as UnitLife has it, for any number of units, whatever is
\* paused, stopped, revived, repeated and failing (discover, work, resume, controls.go,
\* directAbandon, directResume).
THEOREM SweepImplementsUnitLife == Spec => ImplementsUnitLife
BY InitUnits, NextUnits, TypeCorrect, UnitInvariant, PTL DEF Spec, ImplementsUnitLife, UnitsOf!Spec

\* What the Run has settled it never takes up again, and what became of an MR stays, for
\* any number of units and however the Run is revived: a consequence of UnitLife.
THEOREM SweepSettlesForGood == Spec => UnitsOf!SettledForGood
<1> DEFINE stage == [u \in Units |-> StageOf(u)]
<1>1. [UnitsOf!Next]_(UnitsOf!vars) =>
        [\A u \in Units :
           /\ stage[u] \in {"completed", "blacklisted"} => stage'[u] = stage[u]
           /\ mrState[u] \in {"merged", "closed"} => mrState'[u] = mrState[u]]_(UnitsOf!vars)
  <2> SUFFICES ASSUME UnitsOf!Next, NEW u \in Units
               PROVE  /\ stage[u] \in {"completed", "blacklisted"} => stage'[u] = stage[u]
                      /\ mrState[u] \in {"merged", "closed"} => mrState'[u] = mrState[u]
    OBVIOUS
  <2>1. UnitsOf!Move(u) \/ (stage'[u] = stage[u] /\ UnitsOf!SameMR(u))
    BY DEF UnitsOf!Next
  <2> QED
    BY <2>1
    DEF UnitsOf!Move, UnitsOf!Take, UnitsOf!Leave, UnitsOf!GiveUp, UnitsOf!Open, UnitsOf!Complete,
        UnitsOf!Blacklist, UnitsOf!Decide, UnitsOf!From, UnitsOf!MRFrom, UnitsOf!SameMR
<1> QED
  BY <1>1, SweepImplementsUnitLife, PTL
  DEF ImplementsUnitLife, UnitsOf!Spec, UnitsOf!SettledForGood

-----------------------------------------------------------------------------
(* Reports of the provider.                                                  *)

\* A report of a merge or a close that reaches a Run which is not parked is acted upon.
LEMMA ReportIsHandled ==
    ASSUME TypeOK, NEW ev \in Events, Resume(ev), NEW u \in inFlight,
           lastMRStates'[u] # lastMRStates[u],
           status \notin {"Paused", "AwaitingAbandonConfirm"}
    PROVE  u \notin inFlight'
<1>1. ev.mr = u /\ ev.kind \in {"MRMerged", "MRClosed"}
  BY DEF Resume, AdvanceWatermarks, TypeOK
<1>2. ev.body = "none"
  BY <1>1 DEF Events, Notes, MREvents, AuthEvents
<1>3. ev.body \notin Verbs \cup {"echo"}
  BY <1>2, ConstantsAssumption DEF AllVerbs
<1>4. Lifecycle(ev)
  BY <1>1, <1>3 DEF Resume, OwnEcho, ConfirmWindow, ControlCommand, HandleProviderAuthEvent,
                    WhilePaused, NotTracked, Informational, Filtered, Watched, AboutMR, Ordinary
<1> QED BY <1>1, <1>4 DEF Lifecycle, MarkUnitMerged, MarkUnitBlacklisted

\* The only reports the Run remembers without acting on them are those that reach it in a
\* pause or in the abandon window, for any number of units (resume, WhilePaused,
\* dropAbandonConfirm).
THEOREM ReportsAreHandled == Spec => SwallowedOnlyWhileParked
<1>1. TypeOK /\ [Next]_vars =>
        [\A u \in inFlight \cap inFlight' :
           lastMRStates'[u] # lastMRStates[u] => status \in {"Paused", "AwaitingAbandonConfirm"}]_vars
  <2> SUFFICES ASSUME TypeOK, Next, NEW u \in inFlight \cap inFlight',
                      lastMRStates'[u] # lastMRStates[u]
               PROVE  status \in {"Paused", "AwaitingAbandonConfirm"}
    OBVIOUS
  <2>1. CASE \E ev \in Events : Plausible(ev) /\ Resume(ev)
    BY <2>1, ReportIsHandled
  <2>2. CASE Step
    BY <2>2 DEF Step, Setup, DiscoverOverBudget, DiscoverSweep, DiscoverSpec, WorkFailsEarly,
                WorkFails, WorkFindsNothing, WorkOpensMR
  <2>3. CASE \/ WorkIsCutShort \/ AutoPause \/ AutoRetry \/ OnAbandonConfirmTimeout
             \/ DirectAbandon \/ DirectResume \/ Environment
    BY <2>3 DEF WorkIsCutShort, AutoPause, AutoRetry, OnAbandonConfirmTimeout, DirectAbandon,
                DirectResume, Environment, ReviewerMerges, ReviewerCloses, StrayIsDecided,
                RuntimeElapses
  <2> QED BY <2>1, <2>2, <2>3 DEF Next
<1> QED BY <1>1, TypeCorrect, PTL DEF Spec, SwallowedOnlyWhileParked
=============================================================================
