------------------------ MODULE AbandonWindow_proofs ------------------------
(* The safety properties of AbandonWindow, for any length of the window and *)
(* any number of notes, calls of /control and faults.                       *)
EXTENDS AbandonWindow, TLAPS

(***************************************************************************)
(* Inductive invariants.                                                   *)
(***************************************************************************)

\* The row the timer works on is the first one, and due; no other caller removes rows.
TimerHoldsRow ==
    /\ phase["timer"] # "idle" => rows # <<>> /\ rows[1] = 0
    /\ \A c \in Callers : phase[c] = "removing" => c = "timer"

RowInv == TypeOK /\ TimerHoldsRow

\* A row of a clean window was made in it, and is not due before its end; nor
\* has the timer come to end it before.
CleanInv ==
    clean =>
        /\ InWindow(status)
        /\ \A i \in DOMAIN rows : rows[i] + age >= Window
        /\ phase["timer"] = "storing" => age = Window

\* Where one tap may be: unread, on its way to the record, or in the record, and
\* nowhere if there was none.
TapInv ==
    asked["tap"] < 2 =>
        /\ status # "Cancelled" /\ \A c \in Callers : to[c] # "Cancelled"
        /\ InWindow(status) \/ InWindow(to["control"]) => "tap" \notin unread
        /\ ~InWindow(to["timer"])
        /\ InWindow(to["poller"]) => InWindow(from["poller"]) \/ task = "tap"
        /\ asked["tap"] = 0 =>
             /\ ~InWindow(status) /\ \A c \in Callers : ~InWindow(to[c])
             /\ "tap" \notin unread

\* As long as callbacks neither overlap nor fail there is one at a time, and it
\* finds the record as it has read it; then nothing of the daemon's is taken for
\* activity of a person.
OneAtATime ==
    ~torn =>
        /\ \A c, d \in Callers : phase[c] = "storing" /\ phase[d] = "storing" => c = d
        /\ \A c \in Callers : phase[c] = "storing" => from[c] = status

QuestionInv ==
    ~torn /\ asked["other"] = 0 =>
        /\ "other" \notin unread
        /\ InWindow(from["poller"]) => to["poller"] \in {"AwaitingAbandonConfirm", "Cancelled"}

(***************************************************************************)
(* Types.                                                                  *)
(***************************************************************************)

\* Wherever a note sends the Run, it is a status.
LEMMA GoesToStatus ==
    ASSUME TypeOK, NEW n \in Notes
    PROVE  Goes(n) \in Statuses
BY DEF TypeOK, Goes, Notes, Inputs, Statuses, InWindow

\* What comes of rows in order when the clock ticks, a row is made, or removed.
LEMMA RowsTick ==
    ASSUME NEW R \in Seq(0..Window), Window \in Nat,
           \A i, j \in DOMAIN R : i < j => R[i] <= R[j],
           NEW S, S = [i \in DOMAIN R |-> IF R[i] > 0 THEN R[i] - 1 ELSE 0]
    PROVE  /\ S \in Seq(0..Window) /\ DOMAIN S = DOMAIN R
           /\ \A i, j \in DOMAIN S : i < j => S[i] <= S[j]
<1>1. DOMAIN R = 1..Len(R) /\ Len(R) \in Nat
  OBVIOUS
<1>2. \A i \in DOMAIN R : R[i] \in 0..Window
  BY <1>1
<1>3. \A i \in DOMAIN R : S[i] \in 0..Window
  BY <1>2
<1>4. S \in [1..Len(R) -> 0..Window]
  BY <1>1, <1>3
<1>5. S \in Seq(0..Window)
  BY <1>4, <1>1
<1>6. \A i, j \in DOMAIN S : i < j => S[i] <= S[j]
  BY <1>1, <1>2
<1> QED
  BY <1>5, <1>6

LEMMA RowsInsert ==
    ASSUME NEW R \in Seq(0..Window), Window \in Nat,
           \A i, j \in DOMAIN R : i < j => R[i] <= R[j]
    PROVE  /\ Append(R, Window) \in Seq(0..Window)
           /\ \A i \in DOMAIN Append(R, Window) :
                Append(R, Window)[i] # Window => i \in DOMAIN R /\ Append(R, Window)[i] = R[i]
           /\ \A i, j \in DOMAIN Append(R, Window) :
                i < j => Append(R, Window)[i] <= Append(R, Window)[j]
<1> DEFINE S == Append(R, Window)
<1>1. Len(R) \in Nat /\ DOMAIN R = 1..Len(R) /\ \A i \in DOMAIN R : R[i] \in 0..Window
  OBVIOUS
<1>2. S \in Seq(0..Window) /\ Len(S) = Len(R) + 1 /\ DOMAIN S = 1..(Len(R) + 1)
  OBVIOUS
<1>3. \A i \in DOMAIN S : S[i] = IF i = Len(R) + 1 THEN Window ELSE R[i]
  OBVIOUS
<1> HIDE DEF S
<1>4. \A i, j \in DOMAIN S : i < j => S[i] <= S[j]
  BY <1>1, <1>2, <1>3
<1>5. \A i \in DOMAIN S : S[i] # Window => i \in DOMAIN R /\ S[i] = R[i]
  <2> SUFFICES ASSUME NEW i \in DOMAIN S, S[i] # Window
               PROVE  i \in DOMAIN R /\ S[i] = R[i]
    OBVIOUS
  <2>1. i # Len(R) + 1 /\ S[i] = R[i]
    BY <1>3
  <2> QED
    BY <1>1, <1>2, <2>1
<1> QED
  BY <1>2, <1>4, <1>5 DEF S

LEMMA RowsRemove ==
    ASSUME NEW R \in Seq(0..Window), Window \in Nat, R # <<>>,
           \A i, j \in DOMAIN R : i < j => R[i] <= R[j]
    PROVE  /\ Tail(R) \in Seq(0..Window)
           /\ \A i \in DOMAIN Tail(R) : i + 1 \in DOMAIN R /\ Tail(R)[i] = R[i + 1]
           /\ \A i, j \in DOMAIN Tail(R) : i < j => Tail(R)[i] <= Tail(R)[j]
<1> DEFINE S == Tail(R)
<1>1. Len(R) \in Nat \ {0} /\ DOMAIN R = 1..Len(R) /\ \A i \in DOMAIN R : R[i] \in 0..Window
  OBVIOUS
<1>2. S \in Seq(0..Window) /\ Len(S) = Len(R) - 1 /\ DOMAIN S = 1..(Len(R) - 1)
  OBVIOUS
<1>3. \A i \in DOMAIN S : S[i] = R[i + 1]
  OBVIOUS
<1> HIDE DEF S
<1>4. \A i \in DOMAIN S : i + 1 \in DOMAIN R
  BY <1>1, <1>2
<1>5. \A i, j \in DOMAIN S : i < j => S[i] <= S[j]
  <2> SUFFICES ASSUME NEW i \in DOMAIN S, NEW j \in DOMAIN S, i < j
               PROVE  R[i + 1] <= R[j + 1]
    BY <1>3
  <2>1. i + 1 < j + 1
    BY <1>1, <1>2
  <2> QED
    BY <2>1, <1>4
<1> QED
  BY <1>2, <1>3, <1>4, <1>5 DEF S

LEMMA RowInit == Init => RowInv
<1> SUFFICES ASSUME Init PROVE RowInv
  OBVIOUS
<1> USE WindowAssumption DEF Init, Callers, Inputs, Notes, Statuses, InWindow
<1>1. rows \in Seq(0..Window) /\ DOMAIN rows = {}
  OBVIOUS
<1>2. /\ phase \in [Callers -> {"idle", "storing", "removing"}]
      /\ from \in [Callers -> Statuses] /\ to \in [Callers -> Statuses]
      /\ asked \in [Inputs -> Nat]
  OBVIOUS
<1>3. \A i, j \in DOMAIN rows : i < j => rows[i] <= rows[j]
  BY <1>1
<1>4. unread \subseteq Notes /\ status \in Statuses /\ task \in Notes /\ age \in 0..Window
  OBVIOUS
<1>5. announced \in BOOLEAN /\ clean \in BOOLEAN /\ torn \in BOOLEAN /\ ~announced
  OBVIOUS
<1>6. written \in Nat /\ faults \in Nat
  OBVIOUS
<1>7. TypeOK
  BY <1>1, <1>2, <1>3, <1>4, <1>5, <1>6, Zenon DEF TypeOK
<1> QED
  BY <1>7 DEF RowInv, TimerHoldsRow

\* Every step keeps the types, and the timer its row.
LEMMA RowStep ==
    ASSUME RowInv, [Next]_vars
    PROVE  RowInv'
<1> USE WindowAssumption DEF RowInv, TypeOK, TimerHoldsRow, Callers, Inputs, Notes, Statuses, InWindow
<1>1. ASSUME NEW i \in Inputs, PersonWrites(i)
      PROVE  RowInv'
  BY <1>1 DEF PersonWrites, Counted, callVars
<1>2. ASSUME NEW i \in Inputs, Control(i)
      PROVE  RowInv'
  <2>1. Goes(i) \in Statuses
    BY GoesToStatus
  <2> QED
    BY <1>2, <2>1 DEF Control, Counted, Reads
<1>3. CASE DispatchNote
  <2>1. PICK n \in Notes : Reads("poller", Goes(n)) /\ task' = n
    BY <1>3 DEF DispatchNote
  <2>2. Goes(n) \in Statuses
    BY GoesToStatus
  <2> QED
    BY <1>3, <2>1, <2>2 DEF DispatchNote, Reads
<1>4. ASSUME NEW c \in Callers, Store(c)
      PROVE  RowInv'
  <2>1. unread' \subseteq Notes
    BY <1>4 DEF Store, StillUnread, Strangers
  <2>2. status' \in Statuses /\ age' \in 0..Window /\ clean' \in BOOLEAN
    <3>1. status' \in Statuses /\ age' \in 0..Window
      BY <1>4 DEF Store
    <3>2. clean' \in BOOLEAN
      <4> DEFINE opens == ~InWindow(status) /\ InWindow(to[c])
                 new   == IF opens THEN rows = <<>> /\ phase["timer"] = "idle"
                                   ELSE clean /\ InWindow(to[c])
      <4>1. clean' = new \/ clean' = clean
        BY <1>4 DEF Store
      <4>2. new \in BOOLEAN
        OBVIOUS
      <4> QED
        BY <4>1, <4>2
    <3> QED
      BY <3>1, <3>2
  <2>3. announced' \in BOOLEAN /\ (announced' => InWindow(status'))
    <3>1. CASE status = from[c]
      <4>1. announced' = (to[c] = "AwaitingAbandonConfirm") /\ status' = to[c]
        BY <1>4, <3>1 DEF Store
      <4>2. CASE to[c] = "AwaitingAbandonConfirm"
        BY <4>1, <4>2
      <4>3. CASE to[c] # "AwaitingAbandonConfirm"
        BY <4>1, <4>3
      <4> QED
        BY <4>2, <4>3
    <3>2. CASE status # from[c]
      BY <1>4, <3>2 DEF Store
    <3> QED
      BY <3>1, <3>2
  <2> QED
    BY <1>4, <2>1, <2>2, <2>3 DEF Store, Idle, bounds
<1>5. ASSUME NEW cs \in SUBSET Callers, Fail(cs)
      PROVE  RowInv'
  <2>1. unread' \subseteq Notes
    BY <1>5 DEF Fail, Strangers
  <2> QED
    BY <1>5, <2>1 DEF Fail, Idle
<1>6. CASE Tick
  <2>1. /\ rows' \in Seq(0..Window) /\ DOMAIN rows' = DOMAIN rows
        /\ \A i, j \in DOMAIN rows' : i < j => rows'[i] <= rows'[j]
    BY <1>6, RowsTick DEF Tick
  <2>2. age' \in 0..Window
    BY <1>6 DEF Tick
  <2>3. TypeOK'
    BY <1>6, <2>1, <2>2 DEF Tick, callVars, bounds
  <2>4. phase["timer"] # "idle" => rows' # <<>> /\ rows'[1] = 0
    BY <1>6, <2>1 DEF Tick
  <2> QED
    BY <1>6, <2>3, <2>4 DEF Tick, callVars
<1>7. CASE Insert
  <2>1. /\ rows' \in Seq(0..Window)
        /\ \A i, j \in DOMAIN rows' : i < j => rows'[i] <= rows'[j]
    BY <1>7, RowsInsert DEF Insert, WithRow
  <2>2. rows # <<>> => rows' # <<>> /\ rows'[1] = rows[1]
    BY <1>7 DEF Insert, WithRow
  <2>3. announced' \in BOOLEAN /\ (announced' => InWindow(status')) /\ faults' \in Nat
    <3>1. CASE announced' = FALSE /\ UNCHANGED faults
      BY <3>1
    <3>2. CASE faults' = faults + 1 /\ UNCHANGED announced
      BY <1>7, <3>2 DEF Insert
    <3> QED
      BY <1>7, <3>1, <3>2 DEF Insert
  <2>4. TypeOK'
    BY <1>7, <2>1, <2>3 DEF Insert, callVars, history
  <2> QED
    BY <1>7, <2>2, <2>4 DEF Insert, callVars
<1>8. CASE TimerReads
  <2>1. rows # <<>> /\ rows[1] = 0
    BY <1>8 DEF TimerReads, IsDue
  <2>2. CASE Reads("timer", "AwaitingMerge")
    BY <1>8, <2>1, <2>2 DEF TimerReads, Reads
  <2>3. CASE /\ phase' = [phase EXCEPT !["timer"] = "removing"]
            /\ UNCHANGED <<unread, status, from, to, announced, rows, faults, age, clean, torn>>
    <3>1. UNCHANGED <<task, written, asked>>
      BY <1>8 DEF TimerReads
    <3> QED
      BY <2>1, <2>3, <3>1
  <2> QED
    BY <1>8, <2>2, <2>3 DEF TimerReads
<1>9. CASE RemoveRow
  <2>1. /\ rows' \in Seq(0..Window)
        /\ \A i, j \in DOMAIN rows' : i < j => rows'[i] <= rows'[j]
    BY <1>9, RowsRemove DEF RemoveRow, WithoutRow
  <2> QED
    BY <1>9, <2>1 DEF RemoveRow, bounds, history
<1>10. CASE UNCHANGED vars
  BY <1>10 DEF vars, callVars, bounds, history
<1> QED
  BY <1>1, <1>2, <1>3, <1>4, <1>5, <1>6, <1>7, <1>8, <1>9, <1>10 DEF Next, Active

\* The variables keep their types for any window and any number of rows, and the
\* rows their order.
THEOREM TypeCorrect == Spec => []TypeOK
<1>1. Init => RowInv
  BY RowInit
<1>2. RowInv /\ [Next]_vars => RowInv'
  BY RowStep
<1>3. RowInv => TypeOK
  BY DEF RowInv
<1> QED
  BY <1>1, <1>2, <1>3, PTL DEF Spec

LEMMA RowsAlways == Spec => []RowInv
<1>1. Init => RowInv
  BY RowInit
<1>2. RowInv /\ [Next]_vars => RowInv'
  BY RowStep
<1> QED
  BY <1>1, <1>2, PTL DEF Spec

(***************************************************************************)
(* Windows and rows.                                                       *)
(***************************************************************************)

\* A clean window keeps its rows at least as long as it is open itself.
LEMMA CleanStep ==
    ASSUME RowInv, CleanInv, [Next]_vars
    PROVE  CleanInv'
<1> USE WindowAssumption DEF RowInv, TypeOK, CleanInv, Callers, Statuses, InWindow
<1>1. ASSUME NEW i \in Inputs, PersonWrites(i)
      PROVE  CleanInv'
  BY <1>1 DEF PersonWrites, callVars
<1>2. ASSUME NEW i \in Inputs, Control(i)
      PROVE  CleanInv'
  BY <1>2 DEF Control, Reads
<1>3. CASE DispatchNote
  BY <1>3 DEF DispatchNote, Reads
<1>4. ASSUME NEW c \in Callers, Store(c)
      PROVE  CleanInv'
  <2>1. CASE status # from[c]
    BY <1>4, <2>1 DEF Store, Idle
  <2>2. CASE status = from[c] /\ ~InWindow(to[c])
    <3>1. ~clean'
      BY <1>4, <2>2 DEF Store
    <3> QED
      BY <3>1
  <2>3. CASE status = from[c] /\ InWindow(to[c]) /\ InWindow(status)
    <3>1. status' = to[c] /\ age' = age /\ clean' = (clean /\ TRUE) /\ rows' = rows
      BY <1>4, <2>3 DEF Store
    <3>2. phase'["timer"] = "storing" => phase["timer"] = "storing"
      BY <1>4 DEF Store, Idle
    <3> QED
      BY <2>3, <3>1, <3>2
  <2>4. CASE status = from[c] /\ InWindow(to[c]) /\ ~InWindow(status)
    <3>1. status' = to[c] /\ rows' = rows
      BY <1>4, <2>4 DEF Store
    <3>2. clean' => rows = <<>> /\ phase["timer"] = "idle"
      BY <1>4, <2>4 DEF Store
    <3>3. phase'["timer"] = "storing" => phase["timer"] = "storing"
      BY <1>4 DEF Store, Idle
    <3> QED
      BY <2>4, <3>1, <3>2, <3>3
  <2> QED
    BY <2>1, <2>2, <2>3, <2>4
<1>5. ASSUME NEW cs \in SUBSET Callers, Fail(cs)
      PROVE  CleanInv'
  BY <1>5 DEF Fail, Idle
<1>6. CASE Tick
  <2> SUFFICES ASSUME clean
               PROVE  CleanInv'
    BY <1>6 DEF Tick
  <2>1. /\ rows' = [i \in DOMAIN rows |-> IF rows[i] > 0 THEN rows[i] - 1 ELSE 0]
        /\ age' = IF age < Window THEN age + 1 ELSE age
        /\ UNCHANGED <<status, phase, clean>>
    BY <1>6 DEF Tick, callVars
  <2>2. \A i \in DOMAIN rows : rows[i] \in 0..Window
    OBVIOUS
  <2>3. \A i \in DOMAIN rows' : rows'[i] + age' >= Window
    BY <2>1, <2>2
  <2> QED
    BY <2>1, <2>3
<1>7. CASE Insert
  <2>1. \A i \in DOMAIN rows' : rows'[i] # Window => i \in DOMAIN rows /\ rows'[i] = rows[i]
    <3>1. rows \in Seq(0..Window) /\ Window \in Nat
          /\ \A i, j \in DOMAIN rows : i < j => rows[i] <= rows[j]
      OBVIOUS
    <3>2. rows' = Append(rows, Window)
      BY <1>7 DEF Insert, WithRow
    <3>3. \A i \in DOMAIN Append(rows, Window) :
            Append(rows, Window)[i] # Window => i \in DOMAIN rows /\ Append(rows, Window)[i] = rows[i]
      BY <3>1, RowsInsert
    <3> QED
      BY <3>2, <3>3
  <2>2. \A i \in DOMAIN rows : rows[i] \in 0..Window
    OBVIOUS
  <2>3. UNCHANGED <<status, phase, age, clean>>
    BY <1>7 DEF Insert, callVars, history
  <2>4. age \in 0..Window
    OBVIOUS
  <2>5. clean => \A i \in DOMAIN rows' : rows'[i] + age >= Window
    BY <2>1, <2>2, <2>4
  <2> QED
    BY <2>3, <2>5
<1>8. CASE TimerReads
  <2>1. rows # <<>> /\ rows[1] = 0 /\ 1 \in DOMAIN rows
    BY <1>8 DEF TimerReads, IsDue
  <2>2. clean => age = Window
    BY <2>1
  <2>3. UNCHANGED <<status, rows, age, clean>>
    BY <1>8 DEF TimerReads, Reads
  <2> QED
    BY <2>2, <2>3
<1>9. CASE RemoveRow
  <2>1. rows # <<>>
    BY <1>9 DEF RemoveRow, TimerHoldsRow
  <2>2. \A i \in DOMAIN rows' : i + 1 \in DOMAIN rows /\ rows'[i] = rows[i + 1]
    BY <1>9, <2>1, RowsRemove DEF RemoveRow, WithoutRow
  <2> QED
    BY <1>9, <2>2 DEF RemoveRow, history
<1>10. CASE UNCHANGED vars
  BY <1>10 DEF vars, callVars, history
<1> QED
  BY <1>1, <1>2, <1>3, <1>4, <1>5, <1>6, <1>7, <1>8, <1>9, <1>10 DEF Next, Active

\* A window opened when no row was left is not closed by the clock before its
\* time, whatever rows are made in it and however often.
THEOREM CleanWindowsAreWhole == Spec => CleanWindowIsWhole
<1>1. Init => CleanInv
  BY DEF Init, CleanInv
<1>2. RowInv /\ CleanInv /\ [Next]_vars => CleanInv'
  BY CleanStep
<1>3. CleanInv => [Closes("timer") /\ clean => age = Window]_vars
  BY DEF CleanInv, Closes, Store
<1> QED
  BY <1>1, <1>2, <1>3, RowsAlways, PTL DEF Spec, CleanWindowIsWhole

(***************************************************************************)
(* Taps.                                                                   *)
(***************************************************************************)

LEMMA TapStep ==
    ASSUME RowInv, TapInv, [Next]_vars
    PROVE  TapInv'
<1> SUFFICES ASSUME asked'["tap"] < 2
             PROVE  TapInv'
  BY DEF TapInv
<1> USE DEF RowInv, TypeOK, Callers, Inputs, Notes, Statuses, InWindow
<1>0. {asked["tap"], asked'["tap"]} \subseteq Nat /\ asked["tap"] <= asked'["tap"]
  <2>1. UNCHANGED asked \/ \E i \in Inputs : Counted(i)
    BY DEF Next, PersonWrites, Control, DispatchNote, Store, Fail, Tick, Insert, TimerReads,
           RemoveRow, vars, history
  <2> QED
    BY <2>1 DEF Counted
<1>a. asked["tap"] < 2
  BY <1>0
<1> USE <1>a DEF TapInv
<1>1. ASSUME NEW i \in Inputs, PersonWrites(i)
      PROVE  TapInv'
  <2>1. UNCHANGED <<status, phase, from, to, task>> /\ unread' = unread \cup {i}
    BY <1>1 DEF PersonWrites, callVars
  <2>2. asked' = [asked EXCEPT ![i] = @ + 1]
    BY <1>1 DEF PersonWrites, Counted
  <2>3. CASE i = "tap"
    <3>1. asked["tap"] = 0 /\ asked'["tap"] = 1
      BY <1>0, <2>2, <2>3
    <3> QED
      BY <2>1, <3>1
  <2>4. CASE i = "other"
    BY <2>1, <2>2, <2>4
  <2> QED
    BY <2>3, <2>4
<1>2. ASSUME NEW i \in Inputs, Control(i)
      PROVE  TapInv'
  <2>1. /\ UNCHANGED <<unread, status, task>>
        /\ to' = [to EXCEPT !["control"] = Goes(i)]
        /\ from' = [from EXCEPT !["control"] = status]
    BY <1>2 DEF Control, Reads
  <2>2. asked' = [asked EXCEPT ![i] = @ + 1]
    BY <1>2 DEF Control, Counted
  <2>3. CASE i = "tap"
    <3>1. asked["tap"] = 0 /\ asked'["tap"] = 1
      BY <1>0, <2>2, <2>3
    <3>2. Goes(i) = "AwaitingAbandonConfirm"
      BY <2>3, <3>1 DEF Goes
    <3> QED
      BY <2>1, <3>1, <3>2
  <2>4. CASE i = "other"
    <3>1. Goes(i) \notin {"AwaitingAbandonConfirm", "Cancelled"}
      BY <2>4 DEF Goes
    <3> QED
      BY <2>1, <2>2, <2>4, <3>1
  <2> QED
    BY <2>3, <2>4
<1>3. CASE DispatchNote
  <2>1. PICK n \in Notes :
          /\ n = "tap" => n \in unread
          /\ to' = [to EXCEPT !["poller"] = Goes(n)]
          /\ from' = [from EXCEPT !["poller"] = status]
          /\ task' = n
          /\ UNCHANGED <<unread, status, asked>>
    BY <1>3 DEF DispatchNote, Reads
  <2>2. CASE n = "tap"
    <3>1. ~InWindow(status) /\ asked["tap"] # 0
      BY <2>1, <2>2
    <3>2. Goes(n) = "AwaitingAbandonConfirm"
      BY <2>2, <3>1 DEF Goes
    <3> QED
      BY <2>1, <2>2, <3>1, <3>2
  <2>3. CASE n = "echo"
    <3>1. Goes(n) = status
      BY <2>3 DEF Goes
    <3> QED
      BY <2>1, <3>1
  <2>4. CASE n = "other"
    <3>1. Goes(n) \notin {"AwaitingAbandonConfirm", "Cancelled"}
      BY <2>4 DEF Goes
    <3> QED
      BY <2>1, <3>1
  <2> QED
    BY <2>2, <2>3, <2>4
<1>4. ASSUME NEW c \in Callers, Store(c)
      PROVE  TapInv'
  <2>1. /\ to' = [d \in Callers |-> IF d \in {c} THEN "AwaitingMerge" ELSE to[d]]
        /\ from' = [d \in Callers |-> IF d \in {c} THEN "AwaitingMerge" ELSE from[d]]
        /\ task' = IF "poller" \in {c} THEN "echo" ELSE task
        /\ asked' = asked
    BY <1>4 DEF Store, Idle
  <2>2. CASE status # from[c]
    <3>1. status' = status /\ ("tap" \in unread' => "tap" \in unread)
      BY <1>4, <2>2 DEF Store, Strangers
    <3> QED
      BY <2>1, <3>1
  <2>3. CASE status = from[c]
    <3>1. /\ status' = to[c]
          /\ "tap" \in unread' => "tap" \in unread /\ (c = "poller" => task # "tap")
      BY <1>4, <2>3 DEF Store, StillUnread
    <3>2. InWindow(status') => "tap" \notin unread'
      BY <2>3, <3>1
    <3> QED
      BY <2>1, <3>1, <3>2
  <2> QED
    BY <2>2, <2>3
<1>5. ASSUME NEW cs \in SUBSET Callers, Fail(cs)
      PROVE  TapInv'
  <2>1. "tap" \in unread' => "tap" \in unread
    BY <1>5 DEF Fail, Strangers
  <2>2. /\ to' = [d \in Callers |-> IF d \in cs THEN "AwaitingMerge" ELSE to[d]]
        /\ from' = [d \in Callers |-> IF d \in cs THEN "AwaitingMerge" ELSE from[d]]
        /\ task' = IF "poller" \in cs THEN "echo" ELSE task
        /\ UNCHANGED <<status, asked>>
    BY <1>5 DEF Fail, Idle
  <2> QED
    BY <2>1, <2>2
<1>6. CASE TimerReads
  BY <1>6 DEF TimerReads, Reads
<1>7. CASE Tick \/ Insert \/ RemoveRow \/ UNCHANGED vars
  BY <1>7 DEF Tick, Insert, RemoveRow, vars, callVars, history
<1> QED
  BY <1>1, <1>2, <1>3, <1>4, <1>5, <1>6, <1>7 DEF Next, Active

\* One tap cancels nothing, for any number of overlaps, failures and repetitions.
THEOREM OneTapIsNotEnough == Spec => []OneTapNeverCancels
<1>1. Init => TapInv
  BY DEF Init, TapInv, Inputs, Callers, InWindow
<1>2. RowInv /\ TapInv /\ [Next]_vars => TapInv'
  BY TapStep
<1>3. RowInv /\ TapInv => OneTapNeverCancels
  BY DEF RowInv, TypeOK, Inputs, TapInv, OneTapNeverCancels
<1> QED
  BY <1>1, <1>2, <1>3, RowsAlways, PTL DEF Spec

(***************************************************************************)
(* The daemon's question.                                                  *)
(***************************************************************************)

LEMMA OneStep ==
    ASSUME RowInv, OneAtATime, [Next]_vars
    PROVE  OneAtATime'
<1> USE DEF RowInv, TypeOK, OneAtATime, Callers, Inputs, Active
<1>1. ASSUME NEW c \in Callers, NEW s \in Statuses, Reads(c, s)
      PROVE  OneAtATime'
  <2>1. /\ phase' = [phase EXCEPT ![c] = "storing"]
        /\ from' = [from EXCEPT ![c] = status]
        /\ torn' = (torn \/ Active # {}) /\ status' = status
    BY <1>1 DEF Reads
  <2>2. ~torn' => ~torn /\ \A d \in Callers : phase[d] = "idle"
    BY <2>1
  <2> QED
    BY <2>1, <2>2
<1>2. ASSUME NEW i \in Inputs, Control(i)
      PROVE  OneAtATime'
  BY <1>1, <1>2, GoesToStatus DEF Control, Notes
<1>3. CASE DispatchNote
  BY <1>1, <1>3, GoesToStatus DEF DispatchNote, Notes
<1>4. ASSUME NEW c \in Callers, Store(c)
      PROVE  OneAtATime'
  <2>1. /\ phase' = [d \in Callers |-> IF d = c THEN IF c = "timer" THEN "removing" ELSE "idle"
                                                ELSE phase[d]]
        /\ from' = [d \in Callers |-> IF d = c THEN "AwaitingMerge" ELSE from[d]]
        /\ torn' = torn /\ phase[c] = "storing"
    BY <1>4 DEF Store, Idle
  <2>2. ~torn' => \A d \in Callers : phase'[d] # "storing"
    BY <2>1
  <2> QED
    BY <2>2
<1>5. ASSUME NEW i \in Inputs, PersonWrites(i)
      PROVE  OneAtATime'
  BY <1>5 DEF PersonWrites, callVars
<1>6. ASSUME NEW cs \in SUBSET Callers, Fail(cs)
      PROVE  OneAtATime'
  BY <1>6 DEF Fail
<1>7. CASE Tick \/ Insert \/ UNCHANGED vars
  BY <1>7 DEF Tick, Insert, vars, callVars, history
<1>8. CASE TimerReads
  <2>1. CASE Reads("timer", "AwaitingMerge")
    BY <1>1, <2>1 DEF Statuses
  <2>2. CASE phase' = [phase EXCEPT !["timer"] = "removing"] /\ UNCHANGED <<status, from, torn>>
    BY <2>2
  <2> QED
    BY <1>8, <2>1, <2>2 DEF TimerReads
<1>9. CASE RemoveRow
  BY <1>9 DEF RemoveRow, history
<1> QED
  BY <1>2, <1>3, <1>4, <1>5, <1>6, <1>7, <1>8, <1>9 DEF Next

LEMMA QuestionStep ==
    ASSUME RowInv, OneAtATime, QuestionInv, [Next]_vars
    PROVE  QuestionInv'
<1> SUFFICES ASSUME ~torn', asked'["other"] = 0
             PROVE  QuestionInv'
  BY DEF QuestionInv
<1> USE DEF RowInv, TypeOK, Callers, Inputs, Notes, Statuses, InWindow
<1>0. ~torn /\ asked["other"] = 0
  <2>1. torn => torn'
    BY DEF Next, PersonWrites, Control, DispatchNote, Store, Fail, Tick, Insert, TimerReads,
           RemoveRow, Reads, vars, callVars, history
  <2>2. UNCHANGED asked \/ \E i \in Inputs : Counted(i)
    BY DEF Next, PersonWrites, Control, DispatchNote, Store, Fail, Tick, Insert, TimerReads,
           RemoveRow, vars, history
  <2>3. asked["other"] = 0
    BY <2>2 DEF Counted
  <2> QED
    BY <2>1, <2>3
<1> USE <1>0 DEF QuestionInv
<1>1. ASSUME NEW i \in Inputs, PersonWrites(i)
      PROVE  QuestionInv'
  <2>1. i # "other"
    BY <1>1 DEF PersonWrites, Counted
  <2> QED
    BY <1>1, <2>1 DEF PersonWrites, callVars
<1>2. ASSUME NEW i \in Inputs, Control(i)
      PROVE  QuestionInv'
  BY <1>2 DEF Control, Reads
<1>3. CASE DispatchNote
  <2>1. PICK n \in unread \cup {m \in {"other"} : \E c \in Callers : Commented(c)} :
          Reads("poller", Goes(n))
    BY <1>3 DEF DispatchNote
  <2>2. \A c \in Callers : phase[c] = "idle"
    BY <2>1 DEF Reads, Active
  <2>3. n \in {"tap", "echo"}
    BY <2>1, <2>2 DEF Commented
  <2>4. InWindow(status) => Goes(n) \in {"AwaitingAbandonConfirm", "Cancelled"}
    BY <2>3 DEF Goes
  <2>5. /\ to' = [to EXCEPT !["poller"] = Goes(n)]
        /\ from' = [from EXCEPT !["poller"] = status] /\ unread' = unread
    BY <2>1 DEF Reads
  <2> QED
    BY <2>4, <2>5
<1>4. ASSUME NEW c \in Callers, Store(c)
      PROVE  QuestionInv'
  <2>1. status = from[c]
    BY <1>4 DEF Store, OneAtATime
  <2>2. "other" \notin unread'
    BY <1>4, <2>1 DEF Store, StillUnread
  <2> QED
    BY <1>4, <2>2 DEF Store, Idle
<1>5. ASSUME NEW cs \in SUBSET Callers, Fail(cs)
      PROVE  QuestionInv'
  BY <1>5 DEF Fail
<1>6. CASE TimerReads
  BY <1>6 DEF TimerReads, Reads
<1>7. CASE Tick \/ Insert \/ RemoveRow \/ UNCHANGED vars
  BY <1>7 DEF Tick, Insert, RemoveRow, vars, callVars, history
<1> QED
  BY <1>1, <1>2, <1>3, <1>4, <1>5, <1>6, <1>7 DEF Next, Active

\* If people only tap, no callback of the poller takes the Run out of the window
\* but to cancel it, unless callbacks overlap or are cut short.
THEOREM QuestionsKeepWindows == Spec => QuestionKeepsWindow
<1>1. Init => OneAtATime /\ QuestionInv
  BY DEF Init, OneAtATime, QuestionInv, Callers, Inputs, InWindow
<1>2. RowInv /\ OneAtATime /\ [Next]_vars => OneAtATime'
  BY OneStep
<1>3. RowInv /\ OneAtATime /\ QuestionInv /\ [Next]_vars => QuestionInv'
  BY QuestionStep
<1>4. QuestionInv => [Closes("poller") /\ asked["other"] = 0 => torn \/ status' = "Cancelled"]_vars
  <2> SUFFICES ASSUME QuestionInv, Closes("poller"), asked["other"] = 0, ~torn
               PROVE  status' = "Cancelled"
    OBVIOUS
  <2>1. status = from["poller"] /\ status' = to["poller"]
    BY DEF Closes, Store, InWindow
  <2> QED
    BY <2>1 DEF Closes, QuestionInv, InWindow
<1> QED
  BY <1>1, <1>2, <1>3, <1>4, RowsAlways, PTL DEF Spec, QuestionKeepsWindow
(***************************************************************************)
(* The end of a window.                                                    *)
(***************************************************************************)

\* What the timer stores ends the window it was called in.
TimerCloses == phase["timer"] = "storing" => InWindow(from["timer"]) /\ to["timer"] = "AwaitingMerge"

TimedInv == TimerCloses /\ WindowIsTimed

\* Only the store of another status leaves the window without a row, and only the event
\* of a store makes one.
LEMMA TimedStep ==
    ASSUME RowInv, TimedInv, [Next]_vars
    PROVE  TimedInv'
<1> USE WindowAssumption DEF RowInv, TypeOK, TimerHoldsRow, TimedInv, TimerCloses, WindowIsTimed, Callers, Statuses, InWindow
<1>1. ASSUME NEW i \in Inputs, PersonWrites(i)
      PROVE  TimedInv'
  BY <1>1 DEF PersonWrites, callVars
<1>2. ASSUME NEW c \in {"poller", "control"}, NEW s, Reads(c, s)
      PROVE  TimedInv'
  BY <1>2 DEF Reads
<1>3. ASSUME NEW i \in Inputs, Control(i)
      PROVE  TimedInv'
  BY <1>2, <1>3 DEF Control
<1>4. CASE DispatchNote
  BY <1>2, <1>4 DEF DispatchNote
<1>5. ASSUME NEW c \in Callers, Store(c)
      PROVE  TimedInv'
  <2>1. TimerCloses'
    BY <1>5 DEF Store, Idle
  <2>2. CASE status = from[c]
    <3>1. status' = to[c] /\ announced' = (to[c] = "AwaitingAbandonConfirm")
      BY <1>5, <2>2 DEF Store
    <3> QED
      BY <2>1, <3>1
  <2>3. CASE status # from[c]
    <3>1. UNCHANGED <<status, announced, rows>>
      BY <1>5, <2>3 DEF Store
    <3>2. CASE c = "timer"
      BY <1>5, <2>1, <2>3, <3>1, <3>2 DEF Store
    <3>3. CASE c # "timer"
      <4>1. phase'["timer"] = phase["timer"]
        BY <1>5, <3>3 DEF Store, Idle
      <4> QED
        BY <2>1, <3>1, <4>1
    <3> QED
      BY <3>2, <3>3
  <2> QED
    BY <2>2, <2>3
<1>6. ASSUME NEW cs \in SUBSET Callers, Fail(cs)
      PROVE  TimedInv'
  BY <1>6 DEF Fail, Idle
<1>7. CASE Tick
  <2>1. DOMAIN rows' = DOMAIN rows /\ UNCHANGED <<status, phase, from, to, announced>>
    BY <1>7 DEF Tick, callVars
  <2> QED
    BY <2>1
<1>8. CASE Insert
  <2>1. rows' = Append(rows, Window) /\ UNCHANGED <<status, phase, from, to>>
    BY <1>8 DEF Insert, WithRow, callVars
  <2>2. DOMAIN rows' = 1..(Len(rows) + 1) /\ Len(rows) \in Nat
    BY <2>1
  <2>3. Len(rows) + 1 \in DOMAIN rows' /\ (phase["timer"] = "removing" => Len(rows) + 1 > 1)
    BY <2>2
  <2> QED
    BY <2>1, <2>3
<1>9. CASE TimerReads
  <2>1. 1 \in DOMAIN rows
    BY <1>9 DEF TimerReads, IsDue
  <2>2. CASE InWindow(status) /\ Reads("timer", "AwaitingMerge")
    <3>1. /\ phase'["timer"] = "storing" /\ from'["timer"] = status /\ to'["timer"] = "AwaitingMerge"
          /\ rows' = rows
      BY <2>2 DEF Reads
    <3> QED
      BY <2>1, <2>2, <3>1
  <2>3. CASE /\ ~InWindow(status) /\ phase' = [phase EXCEPT !["timer"] = "removing"]
            /\ UNCHANGED <<unread, status, from, to, announced, rows, faults, age, clean, torn>>
    BY <2>3
  <2> QED
    BY <1>9, <2>2, <2>3 DEF TimerReads
<1>10. CASE RemoveRow
  <2>1. /\ rows # <<>> /\ rows' = Tail(rows) /\ UNCHANGED <<status, from, to, announced>>
        /\ phase["timer"] = "removing" /\ phase'["timer"] = "idle"
    BY <1>10 DEF RemoveRow, WithoutRow
  <2>2. DOMAIN rows = 1..Len(rows) /\ DOMAIN rows' = 1..(Len(rows) - 1) /\ Len(rows) \in Nat \ {0}
    BY <2>1
  <2>3. (\E i \in DOMAIN rows : i > 1) => \E i \in DOMAIN rows' : TRUE
    BY <2>2
  <2> QED
    BY <2>1, <2>3
<1>11. CASE UNCHANGED vars
  BY <1>11 DEF vars, callVars
<1> QED
  BY <1>1, <1>3, <1>4, <1>5, <1>6, <1>7, <1>8, <1>9, <1>10, <1>11 DEF Next, Active

\* An open window has a row of its own, or gets one, however often it was opened and
\* closed before and whatever failed meanwhile (resume's store, Complete, Cancel).
THEOREM WindowsAreTimed == Spec => []WindowIsTimed
<1>1. Init => TimedInv
  BY DEF Init, TimedInv, TimerCloses, WindowIsTimed, Callers, InWindow
<1>2. RowInv /\ TimedInv /\ [Next]_vars => TimedInv'
  BY TimedStep
<1>3. TimedInv => WindowIsTimed
  BY DEF TimedInv
<1> QED
  BY <1>1, <1>2, <1>3, RowsAlways, PTL DEF Spec

(***************************************************************************)
(* The window in the life of its Run.                                      *)
(***************************************************************************)

\* The Run between its first tap and its end, which RunLifecycle allows no callback
\* to leave again.
Life == INSTANCE RunLifecycle WITH paused <- FALSE, CanRevive <- FALSE, Overlapping <- FALSE

\* No callback was called in a Run that had ended.
NobodyReadsTheEnd == \A c \in Callers : from[c] # "Cancelled"

LEMMA EndStep ==
    ASSUME RowInv, NobodyReadsTheEnd, [Next]_vars
    PROVE  NobodyReadsTheEnd' /\ [Life!Next]_(Life!vars)
<1> USE DEF RowInv, TypeOK, NobodyReadsTheEnd, Callers, Statuses, InWindow, Life!vars
<1>1. ASSUME NEW c \in Callers, Store(c)
      PROVE  NobodyReadsTheEnd' /\ [Life!Next]_(Life!vars)
  <2>1. NobodyReadsTheEnd'
    BY <1>1 DEF Store, Idle
  <2>2. CASE status = from[c]
    <3>1. status # "Cancelled" /\ status' = to[c] /\ to[c] \in Statuses
      BY <1>1, <2>2 DEF Store
    <3>2. /\ status \in Life!Steps \cup Life!Callbacks
          /\ to[c] \in Life!Goes[status]
      BY <3>1 DEF Life!Steps, Life!Callbacks, Life!Goes
    <3>3. Life!HandlerReturns
      BY <3>1, <3>2 DEF Life!HandlerReturns
    <3> QED BY <2>1, <3>3 DEF Life!Next
  <2>3. CASE status # from[c]
    BY <1>1, <2>1, <2>3 DEF Store
  <2> QED BY <2>2, <2>3
<1>2. ASSUME NEW i \in Inputs, PersonWrites(i) \/ Control(i)
      PROVE  NobodyReadsTheEnd' /\ UNCHANGED status
  BY <1>2 DEF PersonWrites, Control, Reads, Counted, callVars
<1>3. ASSUME DispatchNote PROVE NobodyReadsTheEnd' /\ UNCHANGED status
  BY <1>3 DEF DispatchNote, Reads
<1>4. ASSUME NEW cs \in SUBSET Callers, Fail(cs) PROVE NobodyReadsTheEnd' /\ UNCHANGED status
  BY <1>4 DEF Fail, Idle
<1>5. ASSUME TimerReads PROVE NobodyReadsTheEnd' /\ UNCHANGED status
  <2>1. CASE InWindow(status) /\ Reads("timer", "AwaitingMerge")
    BY <2>1 DEF Reads
  <2>2. CASE UNCHANGED <<status, from>>
    BY <2>2
  <2> QED BY <1>5, <2>1, <2>2 DEF TimerReads
<1>6. CASE Tick \/ Insert \/ RemoveRow \/ UNCHANGED vars
  BY <1>6 DEF Tick, Insert, RemoveRow, callVars, vars
<1> QED
  BY <1>1, <1>2, <1>3, <1>4, <1>5, <1>6 DEF Next, Active

\* Taps, echoes and the clock take the Run along transitions that Build declares, and a
\* callback or timer that comes late takes no cancelled Run back (the updater's
\* comparison of statuses; resume and onAbandonConfirmTimeout).
THEOREM WindowKeepsLifecycle == Spec => [][Life!Next]_(Life!vars)
<1>1. Init => NobodyReadsTheEnd
  BY DEF Init, NobodyReadsTheEnd, Callers
<1>2. RowInv /\ NobodyReadsTheEnd /\ [Next]_vars => NobodyReadsTheEnd' /\ [Life!Next]_(Life!vars)
  BY EndStep
<1> QED
  BY <1>1, <1>2, RowsAlways, PTL DEF Spec
=============================================================================
