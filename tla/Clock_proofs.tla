---------------------------- MODULE Clock_proofs ----------------------------
(* Proofs about the model clock and WAIT, for minutes, hours and days of   *)
(* any length, every number of sessions, times and timeouts, and any       *)
(* number of reloads.                                                      *)
EXTENDS Clock, TLAPS

-----------------------------------------------------------------------------
(* The arithmetic of the clock. *)

LEMMA Distribute ==
    ASSUME NEW a \in Int, NEW n \in Int PROVE (a + 1) * n = a * n + n
  BY SMT

LEMMA SecondsType == \A t \in Times : Seconds(t) \in Int
  BY UnitsAssumption DEF Times, Seconds

\* A valid time stays valid when a second is added.
LEMMA TickType == \A t \in Times : Tick(t) \in Times
<1> SUFFICES ASSUME NEW t \in Times PROVE Tick(t) \in Times
  OBVIOUS
<1> DEFINE s == t.sec + 1 = SecPerMin
<1> DEFINE m == s /\ t.min + 1 = MinPerHour
<1> DEFINE h == m /\ t.hour + 1 = HourPerDay
<1>1. /\ t.day \in Nat /\ t.hour \in 0 .. HourPerDay - 1
      /\ t.min \in 0 .. MinPerHour - 1 /\ t.sec \in 0 .. SecPerMin - 1
  BY DEF Times
<1>2. (IF h THEN t.day + 1 ELSE t.day) \in Nat
  BY <1>1
<1>3. (IF h THEN 0 ELSE IF m THEN t.hour + 1 ELSE t.hour) \in 0 .. HourPerDay - 1
  BY <1>1, UnitsAssumption
<1>4. (IF m THEN 0 ELSE IF s THEN t.min + 1 ELSE t.min) \in 0 .. MinPerHour - 1
  BY <1>1, UnitsAssumption
<1>5. (IF s THEN 0 ELSE t.sec + 1) \in 0 .. SecPerMin - 1
  BY <1>1, UnitsAssumption
<1> QED
  BY <1>2, <1>3, <1>4, <1>5 DEF Tick, Times

\* Tick adds one second, over all its carries: thr_clock, srcp-time.c 300-316.
LEMMA TickIsASecond == \A t \in Times : Seconds(Tick(t)) = Seconds(t) + 1
<1> SUFFICES ASSUME NEW t \in Times PROVE Seconds(Tick(t)) = Seconds(t) + 1
  OBVIOUS
<1> DEFINE s == t.sec + 1 = SecPerMin
<1> DEFINE m == s /\ t.min + 1 = MinPerHour
<1> DEFINE h == m /\ t.hour + 1 = HourPerDay
<1> DEFINE hours == t.day * HourPerDay + t.hour
<1> DEFINE minutes == hours * MinPerHour + t.min
<1>1. /\ t.day \in Int /\ t.hour \in Int /\ t.min \in Int /\ t.sec \in Int
      /\ HourPerDay \in Int /\ MinPerHour \in Int /\ SecPerMin \in Int
  BY UnitsAssumption DEF Times
<1>2. hours \in Int /\ minutes \in Int
  BY <1>1
<1>7. Seconds(t) = minutes * SecPerMin + t.sec
  BY DEF Seconds
<1>3. CASE ~s
  BY <1>1, <1>2, <1>3 DEF Seconds, Tick
<1>4. CASE s /\ ~m
  <2>1. Tick(t) = [day |-> t.day, hour |-> t.hour, min |-> t.min + 1, sec |-> 0]
    BY <1>4 DEF Tick
  <2>2. Seconds(Tick(t)) = (minutes + 1) * SecPerMin
    BY <2>1, <1>1, <1>2 DEF Seconds
  <2>3. (minutes + 1) * SecPerMin = minutes * SecPerMin + SecPerMin
    BY <1>1, <1>2, Distribute
  <2> QED
    BY <2>2, <2>3, <1>1, <1>2, <1>4 DEF Seconds
<1>5. CASE m /\ ~h
  <2>1. Tick(t) = [day |-> t.day, hour |-> t.hour + 1, min |-> 0, sec |-> 0]
    BY <1>5 DEF Tick
  <2>2. Seconds(Tick(t)) = ((hours + 1) * MinPerHour) * SecPerMin
    BY <2>1, <1>1, <1>2 DEF Seconds
  <2>3. (hours + 1) * MinPerHour = minutes + 1
    BY <1>1, <1>2, <1>5, Distribute
  <2>4. (minutes + 1) * SecPerMin = minutes * SecPerMin + SecPerMin
    BY <1>1, <1>2, Distribute
  <2> QED
    <3>1. t.sec + 1 = SecPerMin
      BY <1>5
    <3>2. Seconds(Tick(t)) = minutes * SecPerMin + SecPerMin
      BY <2>2, <2>3, <2>4
    <3>3. minutes * SecPerMin \in Int
      BY <1>1, <1>2
    <3> HIDE DEF minutes, hours
    <3> QED
      BY <3>1, <3>2, <3>3, <1>1, <1>7
<1>6. CASE h
  <2>1. Tick(t) = [day |-> t.day + 1, hour |-> 0, min |-> 0, sec |-> 0]
    BY <1>6 DEF Tick
  <2>2. Seconds(Tick(t)) = (((t.day + 1) * HourPerDay) * MinPerHour) * SecPerMin
    BY <2>1, <1>1 DEF Seconds
  <2>3. (t.day + 1) * HourPerDay = hours + 1
    <3>1. t.hour + 1 = HourPerDay
      BY <1>6
    <3>2. (t.day + 1) * HourPerDay = t.day * HourPerDay + HourPerDay
      BY <1>1, Distribute
    <3> QED
      BY <3>1, <3>2, <1>1
  <2>4. (hours + 1) * MinPerHour = minutes + 1
    BY <1>1, <1>2, <1>6, Distribute
  <2>5. (minutes + 1) * SecPerMin = minutes * SecPerMin + SecPerMin
    BY <1>1, <1>2, Distribute
  <2> QED
    <3>1. t.sec + 1 = SecPerMin
      BY <1>6
    <3>2. Seconds(Tick(t)) = minutes * SecPerMin + SecPerMin
      BY <2>2, <2>3, <2>4, <2>5
    <3>3. minutes * SecPerMin \in Int
      BY <1>1, <1>2
    <3> HIDE DEF minutes, hours
    <3> QED
      BY <3>1, <3>2, <3>3, <1>1, <1>7
<1> HIDE DEF s, m, h
<1> QED
  BY <1>3, <1>4, <1>5, <1>6

-----------------------------------------------------------------------------
(* Type correctness. *)

LEMMA MidnightType == Midnight \in Times
  BY UnitsAssumption DEF Midnight, Times

LEMMA TypeInit == Init => TypeOK
<1> SUFFICES ASSUME Init PROVE TypeOK
  OBVIOUS
<1>1. /\ want \in [Sessions -> Times] /\ seen \in [Sessions -> Times]
      /\ wantFB \in [Sessions -> {0, 1}] /\ pc \in [Sessions -> SessionPcs]
  BY MidnightType DEF Init, SessionPcs
<1>2. /\ polls \in [Sessions -> Int] /\ hit \in [Sessions -> Nat]
      /\ disturbed \in [Sessions -> BOOLEAN]
  BY DEF Init
<1> QED
  BY <1>1, <1>2, MidnightType DEF Init, TypeOK, ClockPcs

LEMMA ClockType == ASSUME TypeOK, Clock PROVE TypeOK'
<1> USE DEF TypeOK, ClockPcs, sessionVars, waitVars, reloadVars, history
<1>1. CASE ClockStarts
  BY <1>1 DEF ClockStarts
<1>2. CASE ClockTests
  BY <1>2 DEF ClockTests
<1>3. CASE ClockReads
  BY <1>3 DEF ClockReads
<1>4. CASE ClockWrites
  BY <1>4, TickType, MidnightType DEF ClockWrites
<1>5. CASE ClockInfo
  BY <1>5 DEF ClockInfo
<1> QED
  BY <1>1, <1>2, <1>3, <1>4, <1>5 DEF Clock

\* A command that is called.
CallsACommand(s) ==
  \/ \E t \in SetTimes : SetTime(s, t)
  \/ \E op \in {"init_on", "init_off", "term"} : CallRatio(s, op)
  \/ \E t \in WaitTimes : CallWait(s, t)
  \/ \E v \in {0, 1}, timeout \in Timeouts : CallWaitFB(s, v, timeout)

LEMMA CallType ==
    ASSUME TypeOK, NEW s \in Sessions, CallsACommand(s) PROVE TypeOK'
<1> USE DEF TypeOK, SessionPcs, Goto, clockVars, waitVars, reloadVars, history
<1>1. ASSUME NEW t \in SetTimes, SetTime(s, t) PROVE TypeOK'
  <2>1. disturbed' \in [Sessions -> BOOLEAN]
    BY <1>1 DEF SetTime, WaitPcs
  <2>2. overtaken' \in BOOLEAN
    BY <1>1 DEF SetTime
  <2> QED
    BY <1>1, <2>1, <2>2, InputsAssumption DEF SetTime
<1>2. ASSUME NEW op \in {"init_on", "init_off", "term"}, CallRatio(s, op) PROVE TypeOK'
  BY <1>2 DEF CallRatio
<1>3. ASSUME NEW t \in WaitTimes, CallWait(s, t) PROVE TypeOK'
  BY <1>3, InputsAssumption DEF CallWait
<1>4. ASSUME NEW v \in {0, 1}, NEW timeout \in Timeouts, CallWaitFB(s, v, timeout)
      PROVE  TypeOK'
  <2>1. timeout * PollsPerSecond \in Int
    BY CountsAssumption
  <2> QED
    BY <1>4, <2>1 DEF CallWaitFB
<1> QED
  BY <1>1, <1>2, <1>3, <1>4 DEF CallsACommand

LEMMA ForgetType ==
    ASSUME TypeOK, NEW s \in Sessions, Forget(s)
    PROVE  /\ want' \in [Sessions -> Times] /\ wantFB' \in [Sessions -> {0, 1}]
           /\ seen' \in [Sessions -> Times] /\ polls' \in [Sessions -> Int]
           /\ disturbed' \in [Sessions -> BOOLEAN] /\ hit' \in [Sessions -> Nat]
  BY MidnightType DEF TypeOK, Forget

LEMMA StepType ==
    ASSUME TypeOK, NEW s \in Sessions, Step(s) PROVE TypeOK'
<1> USE DEF TypeOK, SessionPcs, Goto, End, clockVars, waitVars, reloadVars, history
<1>1. CASE SetTimeInfo(s)
  BY <1>1 DEF SetTimeInfo
<1>2. CASE InitTime(s)
  BY <1>2 DEF InitTime, ClockPcs
<1>3. CASE InitTimeInfo(s)
  BY <1>3 DEF InitTimeInfo
<1>4. CASE TermTime(s)
  BY <1>4 DEF TermTime
<1>5. CASE WaitAvailable(s)
  BY <1>5, MidnightType DEF WaitAvailable
<1>6. CASE WaitReads(s)
  BY <1>6 DEF WaitReads
<1>7. CASE WaitPolls(s)
  BY <1>7 DEF WaitPolls
<1>8. CASE WaitAnswers(s)
  BY <1>8, ForgetType DEF WaitAnswers
<1>9. CASE WaitReturns(s)
  BY <1>9, ForgetType DEF WaitReturns
<1>10. CASE WaitFBPolls(s)
  BY <1>10, ForgetType DEF WaitFBPolls
<1>11. CASE WaitFBReturns(s)
  BY <1>11, ForgetType DEF WaitFBReturns
<1> QED
  BY <1>1, <1>2, <1>3, <1>4, <1>5, <1>6, <1>7, <1>8, <1>9, <1>10, <1>11 DEF Step

Reload == CancelClock \/ CancelSessions \/ Recreate

LEMMA ReloadType == ASSUME TypeOK, Reload \/ ContactChanges PROVE TypeOK'
<1> USE DEF TypeOK, ClockPcs, SessionPcs, clockVars, sessionVars, waitVars, reloadVars, history
<1>1. CASE CancelClock
  BY <1>1 DEF CancelClock
<1>2. CASE CancelSessions
  BY <1>2 DEF CancelSessions
<1>3. CASE Recreate
  BY <1>3, MidnightType DEF Recreate
<1>4. CASE ContactChanges
  BY <1>4 DEF ContactChanges
<1> QED
  BY <1>1, <1>2, <1>3, <1>4 DEF Reload

\* Next, sorted as the lemmas above are.
LEMMA NextIs ==
    Next <=> \/ Clock \/ Reload \/ ContactChanges
             \/ \E s \in Sessions : CallsACommand(s) \/ Step(s)
  BY DEF Next, Reload, CallsACommand, SomeSetTime

\* Every variable has its type, and the model time is a valid one at every
\* moment, as the comment in thr_clock promises.
THEOREM TypeCorrect == Spec => []TypeOK
<1>1. ASSUME TypeOK, [Next]_vars PROVE TypeOK'
  <2>1. CASE Next
    BY <1>1, <2>1, NextIs, ClockType, CallType, StepType, ReloadType
  <2>2. CASE UNCHANGED vars
    BY <1>1, <2>2 DEF TypeOK, vars, clockVars, sessionVars, waitVars, reloadVars, history
  <2> QED
    BY <1>1, <2>1, <2>2
<1> QED
  BY <1>1, TypeInit, PTL DEF Spec
-----------------------------------------------------------------------------
(* The time moves by seconds. *)

\* What the clock's thread read is still the time when it writes, unless a SET
\* TIME came between, which happens only there.
ReadInv ==
  /\ cpc = "write" /\ ~overtaken => ctime = vtime
  /\ overtaken => cpc = "write"
  /\ reloading # "no" => cpc = "cancelled"

LEMMA ReadInvInit == Init => ReadInv
  BY DEF Init, ReadInv

LEMMA ReadInvClock == ASSUME TypeOK, ReadInv, Clock PROVE ReadInv'
<1> USE DEF TypeOK, ReadInv, sessionVars, waitVars, reloadVars, history
<1>1. CASE ClockStarts
  BY <1>1 DEF ClockStarts
<1>2. CASE ClockTests
  BY <1>2 DEF ClockTests
<1>3. CASE ClockReads
  BY <1>3 DEF ClockReads
<1>4. CASE ClockWrites
  BY <1>4 DEF ClockWrites
<1>5. CASE ClockInfo
  BY <1>5 DEF ClockInfo
<1> QED
  BY <1>1, <1>2, <1>3, <1>4, <1>5 DEF Clock

\* A session writes the time with SET TIME only, and moves the clock's thread
\* with INIT TIME only, from its wait on the condition.
LEMMA SessionsLeaveTime ==
    ASSUME TypeOK, NEW s \in Sessions,
           CallsACommand(s) \/ Step(s), ~\E t \in SetTimes : SetTime(s, t)
    PROVE  /\ vtime' = vtime /\ ctime' = ctime /\ overtaken' = overtaken
           /\ reloading' = reloading
           /\ cpc' = cpc \/ (cpc = "waiting" /\ cpc' = "test")
<1> USE DEF clockVars, reloadVars, history
<1>1. CASE CallsACommand(s)
  BY <1>1 DEF CallsACommand, CallRatio, CallWait, CallWaitFB
<1>2. CASE Step(s)
  BY <1>2 DEF Step, SetTimeInfo, InitTime, InitTimeInfo, TermTime, WaitAvailable,
     WaitReads, WaitPolls, WaitAnswers, WaitReturns, WaitFBPolls, WaitFBReturns
<1> QED
  BY <1>1, <1>2

LEMMA ReadInvNext == ASSUME TypeOK, ReadInv, [Next]_vars PROVE ReadInv'
<1>1. CASE Clock
  BY <1>1, ReadInvClock
<1>2. ASSUME NEW s \in Sessions, NEW t \in SetTimes, SetTime(s, t) PROVE ReadInv'
  BY <1>2 DEF SetTime, ReadInv, clockVars, reloadVars
<1>3. ASSUME NEW s \in Sessions, CallsACommand(s) \/ Step(s),
             ~\E t \in SetTimes : SetTime(s, t)
      PROVE  ReadInv'
  BY <1>3, SessionsLeaveTime DEF ReadInv
<1>4. CASE Reload
  BY <1>4 DEF Reload, CancelClock, CancelSessions, Recreate, ReadInv, clockVars, history
<1>5. CASE ContactChanges \/ UNCHANGED vars
  BY <1>5 DEF ContactChanges, vars, ReadInv, clockVars, sessionVars, reloadVars, history
<1> QED
  BY <1>1, <1>2, <1>3, <1>4, <1>5, NextIs

LEMMA ReadHolds == Spec => [](TypeOK /\ ReadInv)
<1>1. TypeOK /\ ReadInv /\ [Next]_vars => ReadInv'
  BY ReadInvNext
<1> QED
  BY <1>1, ReadInvInit, TypeCorrect, PTL DEF Spec

\* The time moves by single seconds over every change of minute, hour and day,
\* whatever thr_clock and any number of sessions do at the same time, except
\* for SET TIME and once after one that was lost.
THEOREM SecondsHold == Spec => MovesBySeconds
<1> DEFINE Moves == \/ vtime' = vtime \/ Seconds(vtime') = Seconds(vtime) + 1
                    \/ SomeSetTime
                    \/ overtaken /\ cpc = "write"
<1>1. ASSUME TypeOK, ReadInv, [Next]_vars PROVE Moves
  <2>1. CASE ClockWrites
    BY <1>1, <2>1, TickIsASecond DEF ClockWrites, ReadInv, TypeOK
  <2>2. CASE Clock /\ ~ClockWrites
    BY <2>2 DEF Clock, ClockStarts, ClockTests, ClockReads, ClockInfo
  <2>3. ASSUME NEW s \in Sessions, CallsACommand(s) \/ Step(s) PROVE Moves
    BY <1>1, <2>3, SessionsLeaveTime DEF SomeSetTime
  <2>4. CASE Reload \/ ContactChanges
    BY <2>4 DEF Reload, CancelClock, CancelSessions, Recreate, ContactChanges
  <2>5. CASE UNCHANGED vars
    BY <2>5 DEF vars
  <2> QED
    BY <1>1, <2>1, <2>2, <2>3, <2>4, <2>5, NextIs
<1>2. TypeOK /\ ReadInv /\ [Next]_vars => [Moves]_vars
  BY <1>1
<1> QED
  BY <1>2, ReadHolds, PTL DEF Spec, MovesBySeconds
-----------------------------------------------------------------------------
(* WAIT *)

\* Steps of one session leave the others alone, except for what a SET TIME
\* notes of the WAITs that it disturbs.
LEMMA OthersAlone ==
    ASSUME TypeOK, NEW s \in Sessions, NEW x \in Sessions, x # s,
           CallsACommand(s) \/ Step(s)
    PROVE  /\ pc'[x] = pc[x] /\ want'[x] = want[x] /\ seen'[x] = seen[x]
           /\ hit'[x] = hit[x]
           /\ (~\E t \in SetTimes : SetTime(s, t)) => disturbed'[x] = disturbed[x]
<1> USE DEF TypeOK, Goto, End, Forget, waitVars, history
<1>1. CASE CallsACommand(s)
  BY <1>1 DEF CallsACommand, SetTime, CallRatio, CallWait, CallWaitFB
<1>2. CASE Step(s)
  <2>1. CASE SetTimeInfo(s) \/ InitTime(s) \/ InitTimeInfo(s) \/ TermTime(s)
    BY <2>1 DEF SetTimeInfo, InitTime, InitTimeInfo, TermTime
  <2>2. CASE WaitAvailable(s) \/ WaitReads(s) \/ WaitPolls(s)
    BY <2>2 DEF WaitAvailable, WaitReads, WaitPolls
  <2>3. CASE WaitAnswers(s) \/ WaitReturns(s)
    BY <2>3 DEF WaitAnswers, WaitReturns
  <2>4. CASE WaitFBPolls(s) \/ WaitFBReturns(s)
    BY <2>4 DEF WaitFBPolls, WaitFBReturns
  <2> QED
    BY <1>2, <2>1, <2>2, <2>3, <2>4 DEF Step
<1> QED
  BY <1>1, <1>2

\* Nobody but the sessions changes where they are and what they saw, except the
\* reload that ends all commands.
LEMMA WaitsAlone ==
    ASSUME Clock \/ CancelClock \/ CancelSessions \/ ContactChanges \/ UNCHANGED vars
    PROVE  UNCHANGED <<pc, want, seen, hit, disturbed>>
  BY DEF Clock, ClockStarts, ClockTests, ClockReads, ClockWrites, ClockInfo,
     CancelClock, CancelSessions, ContactChanges, vars, sessionVars, waitVars, history

\* WAIT FB: a session that goes to its answer saw its value, one that polls has not.
HitInv ==
  \A s \in Sessions : /\ pc[s] = "fb_info" => hit[s] >= 1
                      /\ pc[s] = "fb_poll" => hit[s] = 0

LEMMA HitInvOwn ==
    ASSUME TypeOK, HitInv, NEW s \in Sessions, CallsACommand(s) \/ Step(s)
    PROVE  /\ pc'[s] = "fb_info" => hit'[s] >= 1
           /\ pc'[s] = "fb_poll" => hit'[s] = 0
<1> USE DEF TypeOK, HitInv, Goto, End, Forget, waitVars, history
<1>1. CASE CallsACommand(s)
  <2>1. ASSUME NEW v \in {0, 1}, NEW timeout \in Timeouts, CallWaitFB(s, v, timeout)
        PROVE  /\ pc'[s] = "fb_info" => hit'[s] >= 1
               /\ pc'[s] = "fb_poll" => hit'[s] = 0
    BY <2>1 DEF CallWaitFB
  <2> QED
    BY <1>1, <2>1 DEF CallsACommand, SetTime, CallRatio, CallWait
<1>2. CASE WaitFBPolls(s)
  BY <1>2 DEF WaitFBPolls, PollAgain
<1>3. CASE Step(s) /\ ~WaitFBPolls(s)
  <2>1. pc'[s] \notin {"fb_info", "fb_poll"}
    BY <1>3 DEF Step, SetTimeInfo, InitTime, InitTimeInfo, TermTime, WaitAvailable,
       WaitReads, WaitPolls, WaitAnswers, WaitReturns, WaitFBReturns
  <2> QED
    BY <2>1
<1> QED
  BY <1>1, <1>2, <1>3

LEMMA HitInvNext == ASSUME TypeOK, HitInv, [Next]_vars PROVE HitInv'
<1>1. ASSUME NEW s \in Sessions, CallsACommand(s) \/ Step(s) PROVE HitInv'
  BY <1>1, HitInvOwn, OthersAlone DEF HitInv
<1>2. CASE Recreate
  BY <1>2 DEF Recreate, HitInv
<1>3. CASE Clock \/ CancelClock \/ CancelSessions \/ ContactChanges \/ UNCHANGED vars
  BY <1>3, WaitsAlone DEF HitInv
<1> QED
  BY <1>1, <1>2, <1>3, NextIs DEF Reload

\* WAIT FB is answered with the contact's value only if it saw the wanted one,
\* and with a timeout only if no poll but the last did: handleWAIT, for any
\* timeout and any number of polls in a second.
THEOREM WaitFBHolds == Spec => HonestWaitFB
<1> DEFINE Honest ==
      \A s \in Sessions : pc'[s] = "idle" =>
        /\ pc[s] = "fb_info" => hit[s] >= 1
        /\ pc[s] = "fb_poll" => hit[s] = 0
<1>1. Init => HitInv
  BY DEF Init, HitInv
<1>2. TypeOK /\ HitInv /\ [Next]_vars => HitInv'
  BY HitInvNext
<1>3. HitInv => Honest
  BY DEF HitInv
<1>4. HitInv => [Honest]_vars
  BY <1>3
<1> QED
  BY <1>1, <1>2, <1>4, TypeCorrect, PTL DEF Spec, HonestWaitFB

\* WAIT TIME: unless a SET TIME disturbed it, what a session saw is not later
\* than the time is, and it leaves its loop with a time later than the wanted.
LateFor(s) ==
  pc[s] \in {"poll", "late", "time"} /\ ~disturbed[s] =>
    /\ ~overtaken
    /\ Seconds(seen[s]) <= Seconds(vtime)
    /\ pc[s] \in {"late", "time"} => Seconds(want[s]) < Seconds(seen[s])
LateInv == \A s \in Sessions : LateFor(s)

LEMMA LateInvOwn ==
    ASSUME TypeOK, LateInv, NEW s \in Sessions, Step(s) PROVE LateFor(s)'
<1> USE DEF TypeOK, LateInv, LateFor, Goto, End, Forget, waitVars, history
<1>1. /\ Seconds(seen[s]) \in Int /\ Seconds(want[s]) \in Int
      /\ Seconds(vtime) \in Int
  BY SecondsType
<1>2. CASE WaitReads(s)
  BY <1>1, <1>2 DEF WaitReads
<1>3. CASE WaitPolls(s)
  BY <1>1, <1>3 DEF WaitPolls
<1>4. CASE WaitAnswers(s)
  BY <1>4 DEF WaitAnswers
<1>5. CASE Step(s) /\ ~WaitReads(s) /\ ~WaitPolls(s) /\ ~WaitAnswers(s)
  <2>1. pc'[s] \notin {"poll", "late", "time"}
    BY <1>5 DEF Step, SetTimeInfo, InitTime, InitTimeInfo, TermTime, WaitAvailable,
       WaitReturns, WaitFBPolls, WaitFBReturns
  <2> QED
    BY <2>1
<1> QED
  BY <1>2, <1>3, <1>4, <1>5

LEMMA LateInvClock == ASSUME TypeOK, ReadInv, LateInv, Clock PROVE LateInv'
<1>1. UNCHANGED <<pc, want, seen, disturbed>>
  BY WaitsAlone
<1>2. CASE ClockWrites
  <2> SUFFICES ASSUME NEW s \in Sessions PROVE LateFor(s)'
    BY DEF LateInv
  <2>1. CASE overtaken
    BY <1>1, <2>1 DEF LateInv, LateFor
  <2>2. CASE ~overtaken
    <3>1. Seconds(vtime') = Seconds(vtime) + 1 /\ ~overtaken'
      BY <1>2, <2>2, TickIsASecond DEF ClockWrites, ReadInv, TypeOK
    <3>2. Seconds(seen[s]) \in Int /\ Seconds(vtime) \in Int
      BY SecondsType DEF TypeOK
    <3> QED
      BY <1>1, <3>1, <3>2 DEF LateInv, LateFor
  <2> QED
    BY <2>1, <2>2
<1>3. CASE Clock /\ ~ClockWrites
  <2>1. vtime' = vtime /\ (overtaken' => overtaken)
    BY <1>3 DEF Clock, ClockStarts, ClockTests, ClockReads, ClockInfo, history
  <2> QED
    BY <1>1, <2>1 DEF LateInv, LateFor
<1> QED
  BY <1>2, <1>3

LEMMA LateInvNext == ASSUME TypeOK, ReadInv, LateInv, [Next]_vars PROVE LateInv'
<1>1. CASE Clock
  BY <1>1, LateInvClock
<1>2. ASSUME NEW s \in Sessions, NEW t \in SetTimes, SetTime(s, t) PROVE LateInv'
  <2> SUFFICES ASSUME NEW x \in Sessions PROVE LateFor(x)'
    BY DEF LateInv
  <2>1. CASE x = s
    BY <1>2, <2>1 DEF SetTime, Goto, LateFor, TypeOK
  <2>2. CASE x # s
    BY <1>2, <2>2 DEF SetTime, Goto, LateFor, WaitPcs, TypeOK
  <2> QED
    BY <2>1, <2>2
<1>3. ASSUME NEW s \in Sessions, CallsACommand(s) \/ Step(s),
             ~\E t \in SetTimes : SetTime(s, t)
      PROVE  LateInv'
  <2> SUFFICES ASSUME NEW x \in Sessions PROVE LateFor(x)'
    BY DEF LateInv
  <2>1. CASE x # s
    BY <1>3, <2>1, OthersAlone, SessionsLeaveTime DEF LateInv, LateFor
  <2>2. CASE x = s /\ CallsACommand(s)
    <3>1. pc'[s] \notin {"poll", "late", "time"}
      BY <1>3, <2>2 DEF CallsACommand, CallRatio, CallWait, CallWaitFB, Goto, TypeOK
    <3> QED
      BY <2>2, <3>1 DEF LateFor
  <2>3. CASE x = s /\ Step(s)
    BY <2>3, LateInvOwn
  <2> QED
    BY <1>3, <2>1, <2>2, <2>3
<1>4. CASE Recreate
  BY <1>4 DEF Recreate, LateInv, LateFor
<1>5. CASE CancelClock \/ CancelSessions \/ ContactChanges \/ UNCHANGED vars
  <2>1. vtime' = vtime /\ overtaken' = overtaken
    BY <1>5 DEF CancelClock, CancelSessions, ContactChanges, vars, history
  <2> QED
    BY <1>5, <2>1, WaitsAlone DEF LateInv, LateFor
<1> QED
  BY <1>1, <1>2, <1>3, <1>4, <1>5, NextIs DEF Reload

\* The answer to a WAIT TIME is later than the time it waited for, although
\* infoTIME reads the time anew after handleWAIT has tested it, unless a SET
\* TIME came during the WAIT: for any number of sessions and times.
THEOREM LateHolds == Spec => LateAnswer
<1> DEFINE Late ==
      \A s \in Sessions :
        pc[s] = "time" /\ pc'[s] = "idle" /\ ~disturbed[s]
          => Seconds(vtime) > Seconds(want[s])
<1>1. Init => LateInv
  BY DEF Init, LateInv, LateFor
<1>2. TypeOK /\ ReadInv /\ LateInv /\ [Next]_vars => LateInv'
  BY LateInvNext
<1>3. ASSUME TypeOK, LateInv PROVE Late
  <2> SUFFICES ASSUME NEW s \in Sessions, pc[s] = "time", ~disturbed[s]
               PROVE  Seconds(vtime) > Seconds(want[s])
    OBVIOUS
  <2>1. /\ Seconds(seen[s]) \in Int /\ Seconds(want[s]) \in Int
        /\ Seconds(vtime) \in Int
    BY <1>3, SecondsType DEF TypeOK
  <2> QED
    BY <1>3, <2>1 DEF LateInv, LateFor
<1>4. TypeOK /\ LateInv => [Late]_vars
  BY <1>3
<1> QED
  BY <1>1, <1>2, <1>4, ReadHolds, PTL DEF Spec, LateAnswer
=============================================================================
