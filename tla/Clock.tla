-------------------------------- MODULE Clock --------------------------------
(***************************************************************************)
(* The model clock: srcp-time.c, the commands of the device group TIME and *)
(* WAIT (srcp-command.c), and what a SIGHUP does to the clock's thread     *)
(* (srcpd.c).  Actors are the clock's thread, the sessions, the contact    *)
(* that WAIT FB looks at, and the main thread that reloads.                *)
(*                                                                         *)
(* The time is read and written under time_value_mutex, each access an     *)
(* action; the ratio is guarded by time_distort_mutex, which matters only  *)
(* because a thread can die holding it: distortMutex says whether it can   *)
(* still be taken.  A ratio is "on" (both numbers positive) or "off".      *)
(***************************************************************************)
EXTENDS Integers, FiniteSets

CONSTANTS
  Sessions,
  SecPerMin, MinPerHour, HourPerDay,  \* 60, 60 and 24 in the code
  MaxDay,          \* bound: the clock stands still at the end of this day
  SetTimes,        \* times that SET TIME is given
  WaitTimes,       \* times that WAIT TIME is given
  PollsPerSecond,  \* 20 in handleWAIT
  Timeouts,        \* timeouts that WAIT FB is given, in seconds
  MaxReloads       \* bound: SIGHUPs

ASSUME UnitsAssumption ==
  /\ SecPerMin \in Nat \ {0}
  /\ MinPerHour \in Nat \ {0}
  /\ HourPerDay \in Nat \ {0}
ASSUME CountsAssumption ==
  MaxDay \in Nat /\ PollsPerSecond \in Nat \ {0} /\ Timeouts \subseteq Nat

\* vtime_t as setTIME admits it.
Times == [day : Nat, hour : 0..HourPerDay - 1,
          min : 0..MinPerHour - 1, sec : 0..SecPerMin - 1]

ASSUME InputsAssumption == SetTimes \subseteq Times /\ WaitTimes \subseteq Times

Midnight == [day |-> 0, hour |-> 0, min |-> 0, sec |-> 0]

\* The seconds since the clock's day 0, as WAIT computes them.
Seconds(t) ==
  ((t.day * HourPerDay + t.hour) * MinPerHour + t.min) * SecPerMin + t.sec

\* Tick with a bug that MovesBySeconds has to show: the day is not counted.
TickNoDay(t) ==
  LET s == t.sec + 1 = SecPerMin
      m == s /\ t.min + 1 = MinPerHour
      h == m /\ t.hour + 1 = HourPerDay
  IN [day  |-> t.day,
      hour |-> IF h THEN 0 ELSE IF m THEN t.hour + 1 ELSE t.hour,
      min  |-> IF m THEN 0 ELSE IF s THEN t.min + 1 ELSE t.min,
      sec  |-> IF s THEN 0 ELSE t.sec + 1]

\* One second later, with the carries of thr_clock.
Tick(t) ==
  LET s == t.sec + 1 = SecPerMin
      m == s /\ t.min + 1 = MinPerHour
      h == m /\ t.hour + 1 = HourPerDay
  IN [day  |-> IF h THEN t.day + 1 ELSE t.day,
      hour |-> IF h THEN 0 ELSE IF m THEN t.hour + 1 ELSE t.hour,
      min  |-> IF m THEN 0 ELSE IF s THEN t.min + 1 ELSE t.min,
      sec  |-> IF s THEN 0 ELSE t.sec + 1]

NewMinute(t) == t.sec + 1 = SecPerMin

VARIABLES
  vtime,          \* the model time
  ratio,          \* distort: "on" or "off"
  distortMutex,   \* "free", or "dead": locked by a thread that is no more
  cpc, ctime,     \* clock thread: where it is, its copy vt of the time
  contact,        \* the value of the port that WAIT FB asks for
  pc,             \* session: the step of its command it is about to take
  want,           \* session: the time it waits for
  wantFB,         \* session: the contact's value it waits for
  seen,           \* session: its copy vt (WAIT TIME)
  polls,          \* session: timeout, in polls (WAIT FB)
  reloads,        \* SIGHUPs so far
  reloading,      \* "no", or what is being cancelled: "threads", "sessions"
  overtaken,      \* history: a SET TIME came after the clock's last read
  disturbed,      \* history: a SET TIME came during, or was lost to, a WAIT
  hit             \* history: looks of the WAIT FB that saw its value

clockVars   == <<cpc, ctime>>
waitVars    == <<want, wantFB, seen, polls>>
sessionVars == <<pc, waitVars>>
reloadVars  == <<reloads, reloading>>
history     == <<overtaken, disturbed, hit>>
vars == <<vtime, ratio, distortMutex, clockVars, contact, sessionVars,
                 reloadVars, history>>

\* Where a session waits for the model time.
WaitPcs == {"get", "poll", "late", "time"}
SessionPcs == {"idle", "info", "init_on", "init_off", "describe", "term",
               "wait", "get", "poll", "late", "time", "fb_poll", "fb_info"}
ClockPcs == {"start", "test", "waiting", "sleep", "write", "info",
             "cancelled"}

\* Every variable keeps its type; the time is always a valid one, as the
\* comment in thr_clock promises ("so vtime is always valid").
TypeOK ==
  /\ vtime \in Times /\ ctime \in Times
  /\ ratio \in {"on", "off"} /\ distortMutex \in {"free", "dead"}
  /\ cpc \in ClockPcs
  /\ contact \in {0, 1}
  /\ pc \in [Sessions -> SessionPcs]
  /\ want \in [Sessions -> Times] /\ wantFB \in [Sessions -> {0, 1}]
  /\ seen \in [Sessions -> Times]
  /\ polls \in [Sessions -> Int]
  /\ reloads \in Nat /\ reloading \in {"no", "threads", "sessions"}
  /\ overtaken \in BOOLEAN
  /\ disturbed \in [Sessions -> BOOLEAN]
  /\ hit \in [Sessions -> Nat]

Init ==
  /\ vtime = Midnight /\ ctime = Midnight
  /\ ratio = "off" /\ distortMutex = "free"
  /\ cpc = "start"
  /\ contact = 0
  /\ pc = [s \in Sessions |-> "idle"]
  /\ want = [s \in Sessions |-> Midnight]
  /\ wantFB = [s \in Sessions |-> 0]
  /\ seen = [s \in Sessions |-> Midnight]
  /\ polls = [s \in Sessions |-> 0]
  /\ reloads = 0 /\ reloading = "no"
  /\ overtaken = FALSE
  /\ disturbed = [s \in Sessions |-> FALSE]
  /\ hit = [s \in Sessions |-> 0]

-----------------------------------------------------------------------------
(* The clock's thread *)

\* thr_clock starts by clearing the ratio, without the mutex.
ClockStarts ==
  /\ cpc = "start"
  /\ ratio' = "off" /\ cpc' = "test"
  /\ UNCHANGED <<vtime, distortMutex, ctime, contact, sessionVars,
                 reloadVars, history>>

\* The loop around pthread_cond_wait: sleep on the condition while the ratio
\* is off, else compute the length of a second.
ClockTests ==
  /\ cpc = "test" /\ distortMutex = "free"
  /\ cpc' = IF ratio = "off" THEN "waiting" ELSE "sleep"
  /\ UNCHANGED <<vtime, ratio, distortMutex, ctime, contact, sessionVars,
                 reloadVars, history>>

\* A second of model time is over: read the time.
ClockReads ==
  /\ cpc = "sleep" /\ vtime.day <= MaxDay
  /\ ctime' = vtime /\ cpc' = "write" /\ overtaken' = FALSE
  /\ UNCHANGED <<vtime, ratio, distortMutex, contact, sessionVars,
                 reloadVars, disturbed, hit>>

\* Write it back one second later; a new minute is told.
ClockWrites ==
  /\ cpc = "write"
  /\ vtime' = Tick(ctime)
  /\ cpc' = IF NewMinute(ctime) THEN "info" ELSE "test"
  /\ ctime' = Midnight /\ overtaken' = FALSE
  /\ UNCHANGED <<ratio, distortMutex, contact, sessionVars, reloadVars,
                 disturbed, hit>>

\* infoTIME takes the mutex to see whether the clock is on.
TellTime == distortMutex = "free"

ClockInfo ==
  /\ cpc = "info" /\ TellTime
  /\ cpc' = "test"
  /\ UNCHANGED <<vtime, ratio, distortMutex, ctime, contact, sessionVars,
                 reloadVars, history>>

Clock == ClockStarts \/ ClockTests \/ ClockReads \/ ClockWrites \/ ClockInfo

-----------------------------------------------------------------------------
(* The commands of a session.  A command ends when the session is idle;    *)
(* a session runs on while the server reloads, until it is cancelled.      *)

MayCall(s) == pc[s] = "idle" /\ reloading # "sessions"
Goto(s, label) == pc' = [pc EXCEPT ![s] = label]
End(s) == Goto(s, "idle")   \* the reply is sent

\* What a session forgets with its command.
Forget(s) ==
  /\ want' = [want EXCEPT ![s] = Midnight]
  /\ wantFB' = [wantFB EXCEPT ![s] = 0]
  /\ seen' = [seen EXCEPT ![s] = Midnight]
  /\ polls' = [polls EXCEPT ![s] = 0]
  /\ disturbed' = [disturbed EXCEPT ![s] = FALSE]
  /\ hit' = [hit EXCEPT ![s] = 0]

\* SET TIME, setTIME: the new time, then infoTIME.
SetTime(s, t) ==
  /\ MayCall(s)
  /\ vtime' = t
  /\ Goto(s, "info")
  /\ overtaken' = (cpc = "write")
  /\ disturbed' = [x \in Sessions |-> disturbed[x] \/ pc[x] \in WaitPcs]
  /\ UNCHANGED <<ratio, distortMutex, clockVars, contact, waitVars,
                 reloadVars, hit>>

SetTimeInfo(s) ==
  /\ pc[s] = "info" /\ TellTime
  /\ End(s)
  /\ UNCHANGED <<vtime, ratio, distortMutex, clockVars, contact, waitVars, reloadVars, overtaken, disturbed, hit>>

\* INIT TIME x y and TERM TIME are called; the mutex is still to be taken.
CallRatio(s, op) ==
  /\ MayCall(s) /\ op \in {"init_on", "init_off", "term"}
  /\ Goto(s, op)
  /\ UNCHANGED <<vtime, ratio, distortMutex, clockVars, contact, waitVars, reloadVars, history>>

\* InitTime with a bug that WaitEnds has to show: no signal.
InitTimeSilent(s) ==
  /\ pc[s] \in {"init_on", "init_off"} /\ distortMutex = "free"
  /\ ratio' = IF pc[s] = "init_on" THEN "on" ELSE "off"
  /\ Goto(s, "describe")
  /\ UNCHANGED <<vtime, distortMutex, clockVars, contact, waitVars,
                 reloadVars, history>>

\* initTIME: the new ratio (x = 0 is allowed and stops the clock), and a
\* signal to the clock's thread, lost if it does not wait.
InitTime(s) ==
  /\ pc[s] \in {"init_on", "init_off"} /\ distortMutex = "free"
  /\ ratio' = IF pc[s] = "init_on" THEN "on" ELSE "off"
  /\ cpc' = IF cpc = "waiting" THEN "test" ELSE cpc
  /\ Goto(s, "describe")
  /\ UNCHANGED <<vtime, distortMutex, ctime, contact, waitVars,
                 reloadVars, history>>

\* describeTIME and the message of an INIT.
InitTimeInfo(s) ==
  /\ pc[s] = "describe" /\ distortMutex = "free"
  /\ End(s)
  /\ UNCHANGED <<vtime, ratio, distortMutex, clockVars, contact, waitVars, reloadVars, overtaken, disturbed, hit>>

\* termTIME; the clock's thread finds out when it next tests the ratio.
TermTime(s) ==
  /\ pc[s] = "term" /\ distortMutex = "free"
  /\ ratio' = "off"
  /\ End(s)
  /\ UNCHANGED <<vtime, distortMutex, clockVars, contact, waitVars,
                 reloadVars, overtaken, disturbed, hit>>

-----------------------------------------------------------------------------
(* WAIT TIME *)

CallWait(s, t) ==
  /\ MayCall(s)
  /\ Goto(s, "wait")
  /\ want' = [want EXCEPT ![s] = t]
  /\ UNCHANGED <<vtime, ratio, distortMutex, clockVars, contact, wantFB, seen, polls,
                 reloadVars, history>>

\* time_is_available.
WaitAvailable(s) ==
  /\ pc[s] = "wait" /\ distortMutex = "free"
  /\ IF ratio = "on" THEN Goto(s, "get") /\ UNCHANGED <<want>>
     ELSE End(s) /\ want' = [want EXCEPT ![s] = Midnight]
  /\ UNCHANGED <<vtime, ratio, distortMutex, clockVars, contact, wantFB, seen, polls,
                 reloadVars, overtaken, disturbed, hit>>

\* The first getTIME of the command.
WaitReads(s) ==
  /\ pc[s] = "get"
  /\ seen' = [seen EXCEPT ![s] = vtime]
  /\ Goto(s, "poll")
  /\ disturbed' = [disturbed EXCEPT ![s] = overtaken]
  /\ UNCHANGED <<vtime, ratio, distortMutex, clockVars, contact, want, wantFB, polls,
                 reloadVars, overtaken, hit>>

\* WaitPolls with a bug that LateAnswer has to show: it ends with the wanted
\* second, not behind it.
WaitPollsEarly(s) ==
  /\ pc[s] = "poll"
  /\ IF Seconds(want[s]) > Seconds(seen[s])
     THEN seen' = [seen EXCEPT ![s] = vtime] /\ UNCHANGED pc
     ELSE Goto(s, "late") /\ UNCHANGED seen
  /\ UNCHANGED <<vtime, ratio, distortMutex, clockVars, contact, want, wantFB,
                 polls, reloadVars, history>>

\* The loop: while the wanted time is not behind, sleep and read again.
WaitPolls(s) ==
  /\ pc[s] = "poll"
  /\ IF Seconds(want[s]) >= Seconds(seen[s])
     THEN seen' = [seen EXCEPT ![s] = vtime] /\ UNCHANGED pc
     ELSE Goto(s, "late") /\ UNCHANGED seen
  /\ UNCHANGED <<vtime, ratio, distortMutex, clockVars, contact, want, wantFB, polls,
                 reloadVars, history>>

\* infoTIME makes the reply.  It leaves it empty if the clock was terminated
\* meanwhile; otherwise it reads the time once more.
WaitAnswers(s) ==
  /\ pc[s] = "late" /\ distortMutex = "free"
  /\ IF ratio = "on" THEN Goto(s, "time") /\ UNCHANGED <<waitVars, disturbed, hit>>
     ELSE End(s) /\ Forget(s)
  /\ UNCHANGED <<vtime, ratio, distortMutex, clockVars, contact,
                 reloadVars, overtaken>>

WaitReturns(s) ==
  /\ pc[s] = "time"
  /\ End(s) /\ Forget(s)
  /\ UNCHANGED <<vtime, ratio, distortMutex, clockVars, contact,
                 reloadVars, overtaken>>

-----------------------------------------------------------------------------
(* WAIT FB *)

\* The value is looked at once; if it is not the wanted one, the timeout
\* becomes a number of polls.
CallWaitFB(s, v, timeout) ==
  /\ MayCall(s)
  /\ IF contact = v
     THEN /\ Goto(s, "fb_info") /\ UNCHANGED <<wantFB, polls>>
     ELSE /\ Goto(s, "fb_poll")
          /\ wantFB' = [wantFB EXCEPT ![s] = v]
          /\ polls' = [polls EXCEPT ![s] = timeout * PollsPerSecond]
  /\ hit' = [hit EXCEPT ![s] = IF contact = v THEN 1 ELSE 0]
  /\ UNCHANGED <<vtime, ratio, distortMutex, clockVars, contact, want, seen,
                 reloadVars, overtaken, disturbed>>

\* The condition of the loop, after timeout--.
PollAgain(left, found) == left >= 0 /\ ~found

\* A poll: sleep a twentieth of a second, getFB, timeout--.  The reply is a
\* timeout once the polls are used up, even if the last one saw the value.
WaitFBPolls(s) ==
  /\ pc[s] = "fb_poll"
  /\ LET left  == polls[s] - 1
         found == contact = wantFB[s]
         again == PollAgain(left, found)
     IN IF left < 0 /\ ~again
        THEN End(s) /\ Forget(s)
        ELSE /\ Goto(s, IF again THEN "fb_poll" ELSE "fb_info")
             /\ polls' = [polls EXCEPT ![s] = IF again THEN left ELSE 0]
             /\ hit' = [hit EXCEPT ![s] = IF found THEN @ + 1 ELSE @]
             /\ UNCHANGED <<want, wantFB, seen, disturbed>>
  /\ UNCHANGED <<vtime, ratio, distortMutex, clockVars, contact,
                 reloadVars, overtaken>>

\* infoFB makes the reply.
WaitFBReturns(s) ==
  /\ pc[s] = "fb_info"
  /\ End(s) /\ Forget(s)
  /\ UNCHANGED <<vtime, ratio, distortMutex, clockVars, contact,
                 reloadVars, overtaken>>

\* The driver of the bus reports the contact.
ContactChanges ==
  /\ contact' = 1 - contact
  /\ UNCHANGED <<vtime, ratio, distortMutex, clockVars, sessionVars,
                 reloadVars, history>>

-----------------------------------------------------------------------------
(* SIGHUP: cancel_all_threads, then create_all_threads *)

\* cancel_time_thread.  The thread ends where it can be cancelled: in the
\* sleep, or in pthread_cond_wait, which takes time_distort_mutex again before
\* the thread ends; nothing unlocks it then.
CancelClock ==
  /\ reloading = "no" /\ reloads < MaxReloads
  /\ cpc \in {"waiting", "sleep"}
  /\ distortMutex' = IF cpc = "waiting" THEN "dead" ELSE distortMutex
  /\ cpc' = "cancelled"
  /\ reloads' = reloads + 1 /\ reloading' = "threads"
  /\ UNCHANGED <<vtime, ratio, ctime, contact, sessionVars, history>>

\* terminate_all_sessions cancels the sessions: none takes another command.
CancelSessions ==
  /\ reloading = "threads"
  /\ reloading' = "sessions"
  /\ UNCHANGED <<vtime, ratio, distortMutex, clockVars, contact, sessionVars,
                 reloads, history>>

\* It waits until every session has ended: they end where they read from the
\* client or sleep; a session that waits for a mutex cannot be cancelled.  Then
\* the clock's thread is created anew.
Recreate ==
  /\ reloading = "sessions"
  /\ \A s \in Sessions : pc[s] \in {"idle", "poll", "fb_poll"}
  /\ reloading' = "no"
  /\ cpc' = "start"
  /\ pc' = [s \in Sessions |-> "idle"]
  /\ want' = [s \in Sessions |-> Midnight]
  /\ wantFB' = [s \in Sessions |-> 0]
  /\ seen' = [s \in Sessions |-> Midnight]
  /\ polls' = [s \in Sessions |-> 0]
  /\ disturbed' = [s \in Sessions |-> FALSE]
  /\ hit' = [s \in Sessions |-> 0]
  /\ UNCHANGED <<vtime, ratio, distortMutex, ctime, contact, reloads,
                 overtaken>>

-----------------------------------------------------------------------------
\* The steps of a command once it is called.
Step(s) ==
  \/ SetTimeInfo(s) \/ InitTime(s) \/ InitTimeInfo(s) \/ TermTime(s)
  \/ WaitAvailable(s) \/ WaitReads(s) \/ WaitPolls(s)
  \/ WaitAnswers(s) \/ WaitReturns(s)
  \/ WaitFBPolls(s) \/ WaitFBReturns(s)

SomeSetTime == \E s \in Sessions, t \in SetTimes : SetTime(s, t)

Next ==
  \/ Clock
  \/ SomeSetTime
  \/ \E s \in Sessions :
       \/ \E op \in {"init_on", "init_off", "term"} : CallRatio(s, op)
       \/ \E t \in WaitTimes : CallWait(s, t)
       \/ \E v \in {0, 1}, timeout \in Timeouts : CallWaitFB(s, v, timeout)
       \/ Step(s)
  \/ ContactChanges
  \/ CancelClock \/ CancelSessions \/ Recreate

\* The threads run on; nobody must call a command, and no contact must change.
Fairness ==
  /\ WF_vars(Clock)
  /\ \A s \in Sessions : WF_vars(Step(s))
  /\ WF_vars(CancelSessions \/ Recreate)

Spec == Init /\ [][Next]_vars /\ Fairness

-----------------------------------------------------------------------------
(* Properties *)

\* The time moves by single seconds, whatever the clock's thread and the
\* sessions do at the same time, except by SET TIME, and except once after a
\* SET TIME that came between the getTIME and the set_time of the clock's
\* thread: that one is lost.
MovesBySeconds ==
  [][\/ vtime' = vtime \/ Seconds(vtime') = Seconds(vtime) + 1
     \/ SomeSetTime
     \/ overtaken /\ cpc = "write"]_vars

\* The time that answers a WAIT TIME is later than the one it waited for,
\* although it is read anew, after the test: unless a SET TIME came during the
\* WAIT, or a lost one just before it.
LateAnswer ==
  [][\A s \in Sessions :
       pc[s] = "time" /\ pc'[s] = "idle" /\ ~disturbed[s]
         => Seconds(vtime) > Seconds(want[s])]_vars

\* WAIT FB is answered with the contact's value only if it saw the wanted one,
\* and with a timeout only if no look at it but the last one did.
HonestWaitFB ==
  [][\A s \in Sessions : pc'[s] = "idle" =>
       /\ pc[s] = "fb_info" => hit[s] >= 1
       /\ pc[s] = "fb_poll" => hit[s] = 0]_vars

\* Every WAIT ends: WAIT FB after its timeout, however the contact bounces;
\* WAIT TIME if the clock, once it has been started, is left running, and the
\* SET TIMEs come to an end.  The clock's thread must not miss an INIT TIME.
WaitEnds ==
  /\ \A s \in Sessions : pc[s] = "fb_poll" ~> pc[s] # "fb_poll"
  /\ (<>[](ratio = "on") /\ <>[][~SomeSetTime]_vars)
       => \A s \in Sessions : pc[s] = "poll" ~> pc[s] # "poll"
=============================================================================
