-------------------------- MODULE PlanUsageProofs --------------------------
(***************************************************************************)
(* Proofs about PlanUsage, for any cadence, any length of a provider's     *)
(* turn and any waits that a Retry-After may ask for.                      *)
(***************************************************************************)
EXTENDS PlanUsage, TLAPS

----------------------------------------------------------------------------
(* Arithmetic.                                                             *)

\* The least of one or two numbers.
LEMMA MinIs ==
    ASSUME NEW S \in SUBSET Int, NEW a \in S, NEW b \in S, S = {a, b}
    PROVE  Min(S) \in S /\ \A x \in S : Min(S) <= x
<1>1. \E x \in S : \A y \in S : x <= y
  <2>1. CASE a <= b
    BY <2>1
  <2>2. CASE ~(a <= b)
    BY <2>2
  <2> QED
    BY <2>1, <2>2
<1> QED
  BY <1>1 DEF Min

\* `next_wake`'s answer is within its bounds and, for every provider that is
\* on and not parked, in time.
LEMMA NextWakeInTime ==
    ASSUME TypeOK
    PROVE  /\ NextWake \in 0..Cadence
           /\ \A p \in Provider :
                 asked[p] /\ ~parked[p] => NextWake <= Larger(due[p], 1)
<1> DEFINE on_ == {q \in Provider : asked[q] /\ ~parked[q]}
           waits == {due[p] : p \in on_}
<1>1. due \in [Provider -> Int] /\ Cadence \in Nat \ {0}
  <2>1. -Longest..Larger(Cadence, MaxRetry) \subseteq Int
    OBVIOUS
  <2> QED
    BY <2>1, ConstantsAssumption DEF TypeOK
<1>2. NextWake = IF waits = {} \/ Min(waits) > Cadence THEN Cadence
                 ELSE Larger(Min(waits), 1)
  BY DEF NextWake
<1>3. CASE waits = {}
  <2>1. \A p \in Provider : ~(asked[p] /\ ~parked[p])
    BY <1>3
  <2> HIDE DEF waits
  <2> QED
    BY <1>1, <1>2, <1>3, <2>1
<1>4. CASE waits # {}
  <2>1. \E a, b \in waits : waits = {a, b}
    <3>1. CASE Claude \in on_ /\ Codex \in on_
      <4>1. waits = {due[Claude], due[Codex]}
        BY <3>1 DEF Provider
      <4> QED
        BY <4>1
    <3>2. CASE Claude \in on_ /\ Codex \notin on_
      <4>1. waits = {due[Claude]}
        BY <3>2 DEF Provider
      <4> QED
        BY <4>1
    <3>3. CASE Claude \notin on_ /\ Codex \in on_
      <4>1. waits = {due[Codex]}
        BY <3>3 DEF Provider
      <4> QED
        BY <4>1
    <3>4. CASE Claude \notin on_ /\ Codex \notin on_
      <4>1. waits = {}
        BY <3>4 DEF Provider
      <4> QED
        BY <4>1, <1>4
    <3> QED
      BY <3>1, <3>2, <3>3, <3>4
  <2>2. waits \in SUBSET Int
    BY <1>1
  <2>3. \A p \in Provider : asked[p] /\ ~parked[p] => due[p] \in waits
    OBVIOUS
  <2> HIDE DEF waits
  <2>4. Min(waits) \in waits /\ \A x \in waits : Min(waits) <= x
    BY <2>1, <2>2, MinIs
  <2>5. Min(waits) \in Int
    BY <2>2, <2>4
  <2>6. \A p \in Provider : asked[p] /\ ~parked[p] => Min(waits) <= due[p]
    BY <2>3, <2>4
  <2> HIDE DEF on_
  <2> QED
    BY <1>1, <1>2, <1>4, <2>5, <2>6 DEF Larger
<1> QED
  BY <1>3, <1>4

----------------------------------------------------------------------------
(* The inductive invariant.                                                *)

\* The values a launch starts with.
LEMMA AtLaunch ==
    /\ Claude \in Provider /\ AllOff \in [Provider -> BOOLEAN]
    /\ -Longest \in -Longest..Larger(Cadence, MaxRetry)
    /\ 0 \in 0..Longest /\ 0 \in 0..Cadence /\ 0 \in 0..MaxRetry
  BY ConstantsAssumption DEF Provider, AllOff, Larger

LEMMA InitInv == Init => PlanInv /\ AlarmInTime
<1> SUFFICES ASSUME NEW saved \in [Provider -> BOOLEAN], Launched(saved)
             PROVE  PlanInv /\ AlarmInTime
  BY DEF Init
<1>2. TypeOK
  BY AtLaunch DEF Launched, TypeOK
<1>3. /\ ReadingIsCurrent /\ OnIsPersisted /\ AskedIsCurrent /\ FreshInv
      /\ TurnInv /\ OffInv /\ DeniedInv /\ AlarmInTime
  BY DEF Launched, AllOff, ReadingIsCurrent, OnIsPersisted, AskedIsCurrent,
         FreshInv, TurnInv, OffInv, DeniedInv, AlarmInTime
<1> QED
  BY <1>2, <1>3 DEF PlanInv

LEMMA RelaunchInv == TypeOK /\ Relaunch => (PlanInv /\ AlarmInTime)'
<1> SUFFICES ASSUME TypeOK, Relaunch
             PROVE  (PlanInv /\ AlarmInTime)'
  OBVIOUS
<1>2. TypeOK'
  BY AtLaunch DEF Relaunch, TypeOK
<1>3. (/\ ReadingIsCurrent /\ OnIsPersisted /\ AskedIsCurrent /\ FreshInv
       /\ TurnInv /\ OffInv /\ DeniedInv /\ AlarmInTime)'
  BY DEF Relaunch, AllOff, ReadingIsCurrent, OnIsPersisted, AskedIsCurrent,
         FreshInv, TurnInv, OffInv, DeniedInv, AlarmInTime
<1> QED
  BY <1>2, <1>3 DEF PlanInv

\* A due time stays in range: what a read, a failure, a reset and a tick make
\* of it.
LEMMA DueInRange ==
    ASSUME TypeOK
    PROVE  /\ -Longest \in -Longest..Larger(Cadence, MaxRetry)
           /\ Cadence - elapsed \in -Longest..Larger(Cadence, MaxRetry)
           /\ \A r \in Retry \union {0} :
                 /\ r \in 0..MaxRetry
                 /\ Larger(Cadence, r) - elapsed \in -Longest..Larger(Cadence, MaxRetry)
           /\ \A p \in Provider :
                 Larger(due[p] - 1, -Longest) \in -Longest..Larger(Cadence, MaxRetry)
<1>1. elapsed \in 0..Longest /\ due \in [Provider -> -Longest..Larger(Cadence, MaxRetry)]
  BY DEF TypeOK
<1>2. \A p \in Provider : due[p] \in -Longest..Larger(Cadence, MaxRetry)
  BY <1>1
<1>3. \A r \in Retry \union {0} : r \in 0..MaxRetry
  BY ConstantsAssumption
<1> QED
  BY <1>1, <1>2, <1>3, ConstantsAssumption DEF Larger

LEMMA TypeInv == TypeOK /\ Session => TypeOK'
<1> SUFFICES ASSUME TypeOK, Session PROVE TypeOK'
  OBVIOUS
<1> USE DEF TypeOK
<1>1. Claude \in Provider /\ Codex \in Provider /\ AllOff \in [Provider -> BOOLEAN]
      /\ 0 \in 0..Longest /\ 0 \in 0..Cadence
  BY ConstantsAssumption DEF Provider, AllOff
<1>2. CASE Ask
  BY <1>1, <1>2 DEF Ask, store, sources, command
<1>3. CASE GateOff
  BY <1>1, <1>3, DueInRange DEF GateOff, Cleared, NextTurn, store, command
<1>4. CASE GateSkip
  BY <1>1, <1>4 DEF GateSkip, NextTurn, store, sources, command
<1>5. CASE StartRead
  BY <1>1, <1>5, DueInRange DEF StartRead, store, command
<1>6. CASE Land
  <2>1. /\ reading' \in [Provider -> {"none", "current", "older"}]
        /\ parked' \in [Provider -> BOOLEAN] /\ denied' \in [Provider -> BOOLEAN]
        /\ due' \in [Provider -> -Longest..Larger(Cadence, MaxRetry)]
        /\ owed' \in [Provider -> 0..MaxRetry]
    <3>1. CASE Recorded
      BY <3>1 DEF Recorded
    <3>2. CASE RecordedRefusal
      BY <3>2 DEF RecordedRefusal
    <3>3. ASSUME NEW r \in Retry \union {0}, RecordedFailure(r)
          PROVE  due' \in [Provider -> -Longest..Larger(Cadence, MaxRetry)]
                 /\ owed' \in [Provider -> 0..MaxRetry]
                 /\ UNCHANGED <<reading, parked, denied>>
      BY <3>3, DueInRange DEF RecordedFailure
    <3>4. CASE UNCHANGED sources
      BY <3>4 DEF sources
    <3> QED
      BY <1>6, <3>1, <3>2, <3>3, <3>4 DEF Land
  <2> QED
    BY <1>1, <1>6, <2>1 DEF Land, NextTurn, store, command
<1>7. CASE Inputs
  BY <1>7 DEF Inputs, store, sources, command
<1>8. CASE Sleep
  BY <1>1, <1>8, NextWakeInTime DEF Sleep, store, sources, command
<1>9. CASE Wake
  BY <1>1, <1>9 DEF Wake, store, sources, command
<1>10. ASSUME NEW p \in Provider, NEW v \in BOOLEAN, NEW saved \in BOOLEAN, Flip(p, v, saved)
       PROVE  TypeOK'
  <2>1. reading' \in [Provider -> {"none", "current", "older"}]
    BY <1>10 DEF Flip
  <2>2. on' \in [Provider -> BOOLEAN] /\ disk' \in [Provider -> BOOLEAN]
    BY <1>10 DEF Flip, Flipped
  <2>3. denied' \in [Provider -> BOOLEAN] /\ fresh' \in BOOLEAN
    BY <1>10 DEF Flip
  <2>4. owed' \in [Provider -> 0..MaxRetry]
    <3>1. 0 \in 0..MaxRetry
      BY ConstantsAssumption
    <3> QED
      BY <1>10, <3>1 DEF Flip
  <2> QED
    BY <1>10, <2>1, <2>2, <2>3, <2>4 DEF Flip
<1>11. CASE Reset
  <2>1. 0 \in 0..MaxRetry
    BY ConstantsAssumption
  <2> QED
    BY <1>11, <2>1, DueInRange DEF Reset, Cleared, store
<1>12. CASE Notify
  BY <1>1, <1>12 DEF Notify, store, sources, loop
<1>13. CASE SaveOther
  BY <1>13 DEF SaveOther, sources, loop, command
<1>14. CASE WakeOther
  BY <1>14 DEF WakeOther, store, sources, loop, command
<1>15. CASE Tick
  <2>1. elapsed' \in 0..Longest
    BY <1>15, ConstantsAssumption DEF Tick
  <2>2. alarm' \in 0..Cadence
    BY <1>15, ConstantsAssumption DEF Tick, Larger
  <2>3. due' \in [Provider -> -Longest..Larger(Cadence, MaxRetry)]
    BY <1>15, DueInRange DEF Tick
  <2>4. owed' \in [Provider -> 0..MaxRetry]
    <3>1. \A p \in Provider : Larger(owed[p] - 1, 0) \in 0..MaxRetry
      BY ConstantsAssumption DEF Larger
    <3> QED
      BY <1>15, <3>1 DEF Tick
  <2> QED
    BY <1>15, <2>1, <2>2, <2>3, <2>4 DEF Tick, store, command
<1> QED
  BY <1>2, <1>3, <1>4, <1>5, <1>6, <1>7, <1>8, <1>9, <1>10, <1>11, <1>12, <1>13,
     <1>14, <1>15 DEF Session, LoopStep, Settings

\* The rest, action by action.
LEMMA LoopInv == PlanInv /\ TypeOK' /\ LoopStep => PlanInv'
<1> SUFFICES ASSUME PlanInv, TypeOK', LoopStep PROVE PlanInv'
  OBVIOUS
<1> USE DEF PlanInv
<1>1. /\ turn \in {Claude, Codex} /\ Provider = {Claude, Codex} /\ Claude < Codex
      /\ Claude \in Int /\ Codex \in Int
  BY DEF TypeOK, Provider, Claude, Codex
<1>2. OnIsPersisted'
  BY DEF LoopStep, Ask, GateOff, GateSkip, StartRead, Land, Inputs, Sleep, Wake,
         store, OnIsPersisted
<1>3. ReadingIsCurrent'
  BY <1>1 DEF LoopStep, Ask, GateOff, GateSkip, StartRead, Land, Inputs, Sleep, Wake,
         store, command, sources, ReadingIsCurrent, Cleared, Recorded, RecordedFailure,
         RecordedRefusal, TypeOK, FreshInv
<1>4. AskedIsCurrent'
  BY <1>1 DEF LoopStep, Ask, GateOff, GateSkip, StartRead, Land, Inputs, Sleep, Wake,
         store, command, AskedIsCurrent, NextTurn, Settled, TypeOK
<1>5. FreshInv'
  BY <1>1 DEF LoopStep, Ask, GateOff, GateSkip, StartRead, Land, Inputs, Sleep, Wake,
         command, FreshInv, NextTurn, TypeOK
<1>6. TurnInv'
  BY <1>1 DEF LoopStep, Ask, GateOff, GateSkip, StartRead, Land, Inputs, Sleep, Wake,
         TurnInv, NextTurn, TypeOK
<1>7. OffInv'
  <2> USE DEF OffInv, AskedIsCurrent, Settled, Ahead, TypeOK
  <2>1. CASE Ask
    BY <1>1, <2>1 DEF Ask, store, sources, command
  <2>2. CASE GateOff
    BY <1>1, <2>2 DEF GateOff, NextTurn, Cleared, store, command
  <2>3. CASE GateSkip
    BY <1>1, <2>3 DEF GateSkip, NextTurn, store, sources, command
  <2>4. CASE StartRead
    BY <1>1, <2>4 DEF StartRead, store, command
  <2>5. CASE Land
    <3>1. \A p \in Provider : p # turn => reading'[p] = reading[p]
      BY <2>5 DEF Land, Recorded, RecordedFailure, RecordedRefusal, sources
    <3>2. Settled => on[turn]
      BY <2>5 DEF Land
    <3> QED
      BY <1>1, <2>5, <3>1, <3>2 DEF Land, NextTurn, store, command
  <2>6. CASE Inputs \/ Sleep
    BY <2>6 DEF Inputs, Sleep, store, sources, command
  <2>7. CASE Wake
    BY <1>1, <2>7 DEF Wake, TurnInv, store, sources, command
  <2> QED
    BY <2>1, <2>2, <2>3, <2>4, <2>5, <2>6, <2>7 DEF LoopStep
<1>8. DeniedInv'
  <2> USE DEF DeniedInv, TypeOK
  <2>1. CASE Ask
    BY <2>1 DEF Ask, store, sources
  <2>2. CASE GateOff
    BY <1>1, <2>2 DEF GateOff, NextTurn, Cleared, store
  <2>3. CASE GateSkip
    <3>1. pc' # "gate" /\ UNCHANGED <<on, parked, denied>>
      BY <2>3 DEF GateSkip, NextTurn, store, sources
    <3> QED
      BY <3>1
  <2>4. CASE StartRead
    <3>1. pc' # "gate" /\ UNCHANGED <<on, parked, denied>>
      BY <2>4 DEF StartRead, store
    <3> QED
      BY <3>1
  <2>5. CASE Land
    <3>1. \A p \in Provider : denied'[p] => parked'[p] \/ (denied[p] /\ ~parked[p])
      BY <2>5 DEF Land, Recorded, RecordedFailure, RecordedRefusal, sources
    <3> QED
      BY <1>1, <2>5, <3>1 DEF Land, NextTurn, store
  <2>6. CASE Inputs \/ Sleep \/ Wake
    BY <2>6 DEF Inputs, Sleep, Wake, store, sources
  <2> QED
    BY <2>1, <2>2, <2>3, <2>4, <2>5, <2>6 DEF LoopStep
<1> QED
  BY <1>2, <1>3, <1>4, <1>5, <1>6, <1>7, <1>8

LEMMA SettingsInv == PlanInv /\ TypeOK' /\ (Settings \/ WakeOther \/ Tick) => PlanInv'
<1> SUFFICES ASSUME PlanInv, TypeOK', Settings \/ WakeOther \/ Tick PROVE PlanInv'
  OBVIOUS
<1> USE DEF PlanInv
<1>1. ASSUME NEW p \in Provider, NEW v \in BOOLEAN, NEW saved \in BOOLEAN, Flip(p, v, saved)
      PROVE  PlanInv'
  BY <1>1 DEF Flip, Flipped, TypeOK, OnIsPersisted, ReadingIsCurrent, AskedIsCurrent,
              FreshInv, TurnInv, OffInv, DeniedInv, Settled, Ahead
<1>2. CASE Reset
  BY <1>2 DEF Reset, Cleared, store, TypeOK, OnIsPersisted, ReadingIsCurrent,
              AskedIsCurrent, FreshInv, TurnInv, OffInv, DeniedInv, Settled, Ahead
<1>3. CASE Notify
  BY <1>3 DEF Notify, store, sources, loop, TypeOK, OnIsPersisted, ReadingIsCurrent,
              AskedIsCurrent, FreshInv, TurnInv, OffInv, DeniedInv, Settled, Ahead
<1>4. CASE SaveOther
  BY <1>4 DEF SaveOther, sources, loop, command, TypeOK, OnIsPersisted, ReadingIsCurrent,
              AskedIsCurrent, FreshInv, TurnInv, OffInv, DeniedInv, Settled, Ahead
<1>5. CASE WakeOther
  BY <1>5 DEF WakeOther, store, sources, loop, command, OnIsPersisted, ReadingIsCurrent,
              AskedIsCurrent, FreshInv, TurnInv, OffInv, DeniedInv, Settled, Ahead
<1>6. CASE Tick
  BY <1>6 DEF Tick, store, command, OnIsPersisted, ReadingIsCurrent,
              AskedIsCurrent, FreshInv, TurnInv, OffInv, DeniedInv, Settled, Ahead
<1> QED
  BY <1>1, <1>2, <1>3, <1>4, <1>5, <1>6 DEF Settings

\* The loop's sleep: set in time, and shortened with every tick.
LEMMA AlarmInv ==
    ASSUME PlanInv, AlarmInTime, Session
    PROVE  AlarmInTime'
<1> USE DEF AlarmInTime, Settled
<1>1. TypeOK
  BY DEF PlanInv
<1>2. CASE Ask \/ GateOff \/ GateSkip \/ StartRead \/ Land \/ Inputs \/ Wake
  <2>1. pc' # "asleep"
    BY <1>2 DEF Ask, GateOff, GateSkip, StartRead, Land, Inputs, Wake, NextTurn
  <2> QED
    BY <2>1
<1>3. CASE Sleep
  <2>1. Settled => asked = on
    BY <1>3 DEF Sleep, PlanInv, AskedIsCurrent
  <2>2. \A p \in Provider : asked[p] /\ ~parked[p] => NextWake <= Larger(due[p], 1)
    BY <1>1, NextWakeInTime
  <2> QED
    BY <1>3, <2>1, <2>2 DEF Sleep, store, sources, command
<1>4. ASSUME NEW p \in Provider, NEW v \in BOOLEAN, NEW saved \in BOOLEAN, Flip(p, v, saved)
      PROVE  AlarmInTime'
  BY <1>4 DEF Flip
<1>5. CASE Reset \/ Notify \/ WakeOther
  BY <1>5 DEF Reset, Notify, WakeOther
<1>6. CASE SaveOther
  BY <1>6 DEF SaveOther, sources, loop, command
<1>7. CASE Tick
  <2> SUFFICES ASSUME NEW p \in Provider, Settled, pc = "asleep", on[p], ~parked[p]
               PROVE  alarm' <= Larger(due'[p], 1)
    BY <1>7 DEF Tick, store, command
  <2>1. alarm <= Larger(due[p], 1)
    OBVIOUS
  <2>2. /\ alarm' = Larger(alarm - 1, 0)
        /\ due'[p] = Larger(due[p] - 1, -Longest)
    BY <1>7 DEF Tick
  <2>3. alarm \in Nat /\ due[p] \in Int /\ Longest \in Nat
    <3>1. due[p] \in -Longest..Larger(Cadence, MaxRetry)
      BY <1>1 DEF TypeOK
    <3> QED
      BY <1>1, <3>1, ConstantsAssumption DEF TypeOK
  <2> QED
    BY <2>1, <2>2, <2>3 DEF Larger
<1> QED
  BY <1>2, <1>3, <1>4, <1>5, <1>6, <1>7 DEF Session, LoopStep, Settings

LEMMA StutterInv == PlanInv /\ AlarmInTime /\ UNCHANGED vars => (PlanInv /\ AlarmInTime)'
<1> SUFFICES ASSUME PlanInv, AlarmInTime, UNCHANGED vars
             PROVE  (PlanInv /\ AlarmInTime)'
  OBVIOUS
<1>1. TypeOK'
  BY DEF PlanInv, TypeOK, vars
<1>2. (/\ ReadingIsCurrent /\ OnIsPersisted /\ AskedIsCurrent /\ FreshInv
       /\ TurnInv /\ OffInv /\ DeniedInv /\ AlarmInTime)'
  BY DEF PlanInv, vars, ReadingIsCurrent, OnIsPersisted, AskedIsCurrent, FreshInv,
         TurnInv, OffInv, DeniedInv, AlarmInTime, Settled, Ahead
<1> QED
  BY <1>1, <1>2 DEF PlanInv

----------------------------------------------------------------------------
(* The theorems.                                                           *)

\* The inductive invariant, with the alarm's.
THEOREM PlanInvariant == Spec => [](PlanInv /\ AlarmInTime)
<1>1. PlanInv /\ AlarmInTime /\ [Next]_vars => (PlanInv /\ AlarmInTime)'
  <2> SUFFICES ASSUME PlanInv, AlarmInTime, [Next]_vars
               PROVE  (PlanInv /\ AlarmInTime)'
    OBVIOUS
  <2>1. TypeOK
    BY DEF PlanInv
  <2>2. CASE Session
    <3>1. TypeOK'
      BY <2>1, <2>2, TypeInv
    <3> QED
      BY <2>2, <3>1, LoopInv, SettingsInv, AlarmInv DEF Session
  <2>3. CASE Relaunch
    BY <2>1, <2>3, RelaunchInv
  <2>4. CASE UNCHANGED vars
    BY <2>4, StutterInv
  <2> QED
    BY <2>2, <2>3, <2>4 DEF Next
<1> QED
  BY InitInv, <1>1, PTL DEF Spec

\* Every variable keeps its type: the due times and the alarm their bounds.
THEOREM TypeCorrect == Spec => []TypeOK
  BY PlanInvariant, PTL DEF PlanInv

\* A read in flight when its opt-in is flipped never lands its result after
\* the flip.
THEOREM NoStaleReading == Spec => []ReadingIsCurrent
  BY PlanInvariant, PTL DEF PlanInv

\* What a session reads, the next launch would read.
THEOREM OnPersists == Spec => []OnIsPersisted
  BY PlanInvariant, PTL DEF PlanInv

\* The loop does not sleep past a due time.
THEOREM WakesInTime == Spec => []AlarmInTime
  BY PlanInvariant, PTL

\* Once the loop is back asleep, a provider that is off shows nothing, even if
\* its sign-in was read across the flip.
THEOREM OffIsEmpty == Spec => []OffShowsNothing
<1>1. PlanInv => OffShowsNothing
  BY DEF PlanInv, OffInv, Ahead, OffShowsNothing
<1> QED
  BY <1>1, PlanInvariant, PTL

\* A denied keychain prompt is not raised again until the opt-in is flipped.
THEOREM DenyIsFinal == Spec => DeniedOnce
<1>1. PlanInv /\ [Next]_vars => [\A p \in Provider : Starts(p) => ~denied[p]]_vars
  <2> SUFFICES ASSUME PlanInv, NEW p \in Provider, Starts(p)
               PROVE  ~denied[p]
    OBVIOUS
  <2> QED
    BY DEF PlanInv, DeniedInv, Starts, StartRead
<1> QED
  BY <1>1, PlanInvariant, PTL DEF Spec, DeniedOnce

(***************************************************************************)
(* What is left of a Retry-After, for a provider that is on or is about to *)
(* be read: no more than the time until its next read and the length of a  *)
(* turn.  A provider turned on since the loop asked owes nothing, since    *)
(* the loop is about to clear its due time.                                *)
(***************************************************************************)
OwedInv ==
    \A p \in Provider :
        /\ on[p] \/ (pc = "gate" /\ turn = p /\ asked[p]) => owed[p] <= due[p] + Longest
        /\ pc = "gate" /\ turn = p /\ ~asked[p] /\ on[p] => owed[p] = 0

\* A step of the loop keeps it: a failure sets both from the same timestamp.
LEMMA OwedLoop == TypeOK /\ OwedInv /\ LoopStep => OwedInv'
<1> SUFFICES ASSUME TypeOK, OwedInv, LoopStep, NEW p \in Provider
             PROVE  /\ on'[p] \/ (pc' = "gate" /\ turn' = p /\ asked'[p])
                         => owed'[p] <= due'[p] + Longest
                    /\ pc' = "gate" /\ turn' = p /\ ~asked'[p] /\ on'[p] => owed'[p] = 0
  BY DEF OwedInv
<1>1. /\ owed[p] \in Int /\ due[p] \in Int /\ Longest \in Nat /\ Cadence \in Nat
      /\ turn \in Provider /\ elapsed \in Int /\ elapsed <= Longest
      /\ due \in [Provider -> Int] /\ owed \in [Provider -> Int]
      /\ asked \in [Provider -> BOOLEAN]
  BY ConstantsAssumption DEF TypeOK
<1>2. CASE Ask
  BY <1>1, <1>2 DEF Ask, OwedInv, store, sources
<1>3. CASE GateOff
  BY <1>1, <1>3 DEF GateOff, OwedInv, Cleared, NextTurn, store
<1>4. CASE GateSkip
  BY <1>1, <1>4 DEF GateSkip, OwedInv, NextTurn, store, sources
<1>5. CASE StartRead
  BY <1>1, <1>5 DEF StartRead, IsDue, OwedInv, store
<1>6. CASE Land
  <2>1. pc' # "gate" /\ on' = on /\ (on[p] => owed[p] <= due[p] + Longest)
    BY <1>6 DEF Land, NextTurn, OwedInv, store
  <2>2. CASE UNCHANGED <<due, owed>>
    BY <2>1, <2>2
  <2>3. ASSUME NEW r \in Retry \union {0}, RecordedFailure(r)
        PROVE  on'[p] => owed'[p] <= due'[p] + Longest
    <3>1. r \in Int
      BY ConstantsAssumption
    <3> QED
      BY <1>1, <2>1, <2>3, <3>1 DEF RecordedFailure, Larger
  <2> QED
    BY <1>6, <2>1, <2>2, <2>3 DEF Land, Recorded, RecordedRefusal, sources
<1>7. CASE Inputs \/ Sleep \/ Wake
  BY <1>1, <1>7 DEF Inputs, Sleep, Wake, OwedInv, store, sources
<1> QED
  BY <1>2, <1>3, <1>4, <1>5, <1>6, <1>7 DEF LoopStep

\* So does everything else: a flip forgives the wait, time shortens both.
LEMMA OwedRest ==
    TypeOK /\ OwedInv /\ (Settings \/ WakeOther \/ Tick \/ Relaunch \/ UNCHANGED vars) => OwedInv'
<1> SUFFICES ASSUME TypeOK, OwedInv, NEW p \in Provider,
                    Settings \/ WakeOther \/ Tick \/ Relaunch \/ UNCHANGED vars
             PROVE  /\ on'[p] \/ (pc' = "gate" /\ turn' = p /\ asked'[p])
                         => owed'[p] <= due'[p] + Longest
                    /\ pc' = "gate" /\ turn' = p /\ ~asked'[p] /\ on'[p] => owed'[p] = 0
  BY DEF OwedInv
<1>1. /\ owed[p] \in Int /\ due[p] \in Int /\ Longest \in Nat
      /\ 0 <= owed[p] /\ -Longest <= due[p]
      /\ due \in [Provider -> Int] /\ owed \in [Provider -> Int]
      /\ on \in [Provider -> BOOLEAN] /\ disk \in [Provider -> BOOLEAN]
  BY ConstantsAssumption DEF TypeOK
<1>2. ASSUME NEW q \in Provider, NEW v \in BOOLEAN, NEW saved \in BOOLEAN, Flip(q, v, saved)
      PROVE  OwedInv'
  BY <1>1, <1>2, ConstantsAssumption DEF Flip, Flipped, OwedInv, TypeOK
<1>3. CASE Reset
  BY <1>1, <1>3 DEF Reset, Cleared, OwedInv, store
<1>4. CASE Notify \/ SaveOther \/ WakeOther \/ UNCHANGED vars
  BY <1>4 DEF Notify, SaveOther, WakeOther, OwedInv, vars, store, sources, loop
<1>5. CASE Tick
  BY <1>1, <1>5 DEF Tick, Larger, OwedInv, store
<1>6. CASE Relaunch
  BY <1>1, <1>6 DEF Relaunch
<1> QED
  BY <1>2, <1>3, <1>4, <1>5, <1>6 DEF Settings, OwedInv

\* A Retry-After is waited out but for the length of the turn it came in.
THEOREM WaitsAsTold == Spec => RetryAfterHonoured
<1>1. Init => OwedInv
  BY ConstantsAssumption DEF Init, Launched, OwedInv, AllOff
<1>2. TypeOK /\ OwedInv /\ [Next]_vars => OwedInv'
  BY OwedLoop, OwedRest DEF Next, Session
<1>3. TypeOK /\ OwedInv /\ [Next]_vars
        => [\A p \in Provider : Starts(p) => owed[p] <= Longest]_vars
  <2> SUFFICES ASSUME TypeOK, OwedInv, NEW p \in Provider, Starts(p)
               PROVE  owed[p] <= Longest
    OBVIOUS
  <2> QED
    BY ConstantsAssumption DEF TypeOK, OwedInv, Starts, StartRead, IsDue
<1> QED
  BY <1>1, <1>2, <1>3, TypeCorrect, PTL DEF Spec, RetryAfterHonoured

\* What is shown and what is read follows the opt-ins.
THEOREM OptInsAreFollowed == Spec => []ReadingsFollowOptIns
  BY NoStaleReading, OffIsEmpty, OnPersists, PTL DEF ReadingsFollowOptIns

\* No provider is asked before it may be.
THEOREM AsksInTime == Spec => NotAskedTooSoon
  BY DenyIsFinal, WaitsAsTold DEF NotAskedTooSoon
=============================================================================
