------------------------- MODULE Locomotives_proofs -------------------------
(* Proofs about the locomotives, for every set of sessions, every number of  *)
(* addresses, all lock durations, every length of the command queue and any  *)
(* number of commands.                                                       *)
EXTENDS Locomotives, TLAPS

-----------------------------------------------------------------------------
(* Type correctness. *)

Pcs == {"idle", "enqueue", "put", "write", "initstop", "owed", "writestop", "init", "term",
        "brake", "clear", "lock", "duration", "testlock", "release", "bysession", "gone"}

Thread == [pc : Pcs, cmd : {"none", "set", "init", "term", "lock", "unlock", "quit"},
           job : Command, stops : Nat]

LEMMA AddrFacts == N \in Nat \ {0} /\ 1 \in Addr /\ N \in Addr
  BY LocoAssumption DEF Addr

LEMMA StopType == \A a \in Addr : Stop(a) \in Command
  BY DEF Stop, Command

LEMMA IdleType == IdleThread \in Thread
  BY AddrFacts, StopType DEF IdleThread, Thread, Pcs

LEMMA TypeInit == Init => TypeOK
<1> SUFFICES ASSUME Init PROVE TypeOK
  OBVIOUS
<1>1. th \in [Sessions -> Thread]
  BY IdleType DEF Init
<1>2. /\ Len(queue) <= QUEUELEN /\ Len(queue) # QUEUELEN /\ Len(l) <= 1
      /\ bpc \in {"test", "copy", "consume", "cache"} /\ left \in 0 .. MaxCommands
  BY LocoAssumption DEF Init
<1>3. glstate \in [Addr -> [state : {0, 1}, speed : {0, 1}]] /\ track \in [Addr -> {0, 1}]
  BY DEF Init, Dead
<1>4. clash \in BOOLEAN /\ unstopped \subseteq Addr
  BY DEF Init
<1>5. /\ locked_by \in Sessions \cup {0} /\ lockduration \in Nat /\ count \in Nat
      /\ asked \in Nat /\ age \in Nat /\ j \in Addr /\ mpc \in {"read", "store", "release"}
  BY AddrFacts DEF Init
<1>6. queue \in Seq(Command) /\ l \in Seq(Command)
  BY DEF Init
<1> QED
  BY <1>1, <1>2, <1>3, <1>4, <1>5, <1>6 DEF TypeOK, Thread, Pcs

\* Where a request goes on keeps the type of the thread.
LEMMA BeginType ==
    ASSUME TypeOK, NEW s \in Sessions, NEW c \in {"set", "init", "term", "lock", "unlock", "quit"},
           NEW command \in Command, NEW p \in Pcs, Begin(s, c, command, p)
    PROVE  th' \in [Sessions -> Thread] /\ left' \in 0 .. MaxCommands
<1>1. left' \in 0 .. MaxCommands
  BY LocoAssumption DEF TypeOK, Begin
<1>2. [pc |-> p, cmd |-> c, job |-> command, stops |-> 0] \in Thread
  BY DEF Thread
<1>3. th \in [Sessions -> Thread]
  BY DEF TypeOK, Thread, Pcs
<1> QED
  BY <1>1, <1>2, <1>3, IdleType DEF Begin

LEMMA GotoType ==
    ASSUME TypeOK, NEW s \in Sessions, NEW p \in Pcs, Goto(s, p)
    PROVE  th' \in [Sessions -> Thread]
<1>1. th \in [Sessions -> Thread]
  BY DEF TypeOK, Thread, Pcs
<1>2. CASE p = "idle"
  BY <1>1, <1>2, IdleType DEF Goto
<1>3. CASE p # "idle"
  BY <1>1, <1>3 DEF Goto, Thread
<1> QED
  BY <1>2, <1>3

LEMMA NextAddressType ==
    ASSUME TypeOK, NEW s \in Sessions, NextAddress(s)
    PROVE  th' \in [Sessions -> Thread]
<1>1. th \in [Sessions -> Thread]
  BY DEF TypeOK, Thread, Pcs
<1>2. CASE th[s].job.id = N
  <2>1. [IdleThread EXCEPT !.pc = "gone"] \in Thread
    BY IdleType DEF Thread, Pcs
  <2> QED
    BY <1>1, <1>2, <2>1 DEF NextAddress
<1>3. CASE th[s].job.id # N
  <2>1. th[s] \in Thread /\ th[s].job.id \in Addr
    BY <1>1 DEF Thread, Command
  <2>2. Stop(th[s].job.id + 1) \in Command
    BY <1>3, <2>1, StopType, AddrFacts DEF Addr
  <2>3. [th[s] EXCEPT !.pc = "bysession", !.job = Stop(th[s].job.id + 1)] \in Thread
    BY <2>1, <2>2 DEF Thread, Pcs
  <2> QED
    BY <1>1, <1>3, <2>3 DEF NextAddress
<1> QED
  BY <1>2, <1>3

\* Between its test and out++ the bus thread has a slot before it; it holds a
\* copy from then on until the command is cached.
InHand == /\ Reading => queue # <<>>
          /\ l = <<>> <=> bpc \in {"test", "copy"}

LEMMA PutType ==
    ASSUME TypeOK, NEW c \in Command, PutCommand(c)
    PROVE  /\ queue' \in Seq(Command) /\ Len(queue') <= QUEUELEN
           /\ Len(queue') = QUEUELEN => Reading
           /\ unstopped' \subseteq Addr
           /\ Reading => queue' # <<>>
<1> DEFINE written == Append(queue, c)
           overrun == Len(queue) >= IF Reading THEN QUEUELEN ELSE QUEUELEN - 1
<1>1. queue \in Seq(Command) /\ Len(queue) <= QUEUELEN /\ QUEUELEN \in Nat \ {0, 1}
  BY LocoAssumption DEF TypeOK
<1>2. /\ queue' = IF ~overrun THEN written ELSE IF Reading THEN <<c>> ELSE <<>>
      /\ unstopped' = unstopped \/ unstopped' = unstopped \cup {a \in Addr :
                                          \E i \in DOMAIN written : written[i] = Stop(a)}
  BY DEF PutCommand
<1>3. unstopped' \subseteq Addr
  BY <1>2 DEF TypeOK
<1>4. written \in Seq(Command) /\ Len(written) = Len(queue) + 1 /\ written # <<>>
  BY <1>1
<1>5. CASE ~overrun
  <2>1. queue' = written /\ Len(queue) < IF Reading THEN QUEUELEN ELSE QUEUELEN - 1
    BY <1>1, <1>2, <1>5
  <2> HIDE DEF written
  <2> QED
    BY <1>1, <1>3, <1>4, <2>1
<1>6. CASE overrun
  BY <1>1, <1>2, <1>3, <1>6
<1> QED
  BY <1>5, <1>6

LEMMA RequestType ==
    ASSUME TypeOK, NEW s \in Sessions, Request(s) PROVE TypeOK' /\ UNCHANGED busVars
<1>1. th' \in [Sessions -> Thread] /\ left' \in 0 .. MaxCommands
  <2>1. CASE SetGL(s)
    BY <2>1, BeginType DEF SetGL, Pcs
  <2>2. CASE HandleInit(s)
    BY <2>2, BeginType, StopType DEF HandleInit, Pcs
  <2>3. CASE HandleTerm(s)
    <3>1. \A a \in Addr : [Stop(a) EXCEPT !.direction = 2] \in Command
      BY DEF Stop, Command
    <3> QED
      BY <2>3, <3>1, BeginType DEF HandleTerm, Pcs
  <2>4. CASE SetLock(s)
    BY <2>4, BeginType, StopType DEF SetLock, Pcs
  <2>5. CASE TermLock(s)
    BY <2>5, BeginType, StopType DEF TermLock, Pcs
  <2>6. CASE Quit(s)
    BY <2>6, BeginType, StopType, AddrFacts DEF Quit, Pcs
  <2> QED
    BY <2>1, <2>2, <2>3, <2>4, <2>5, <2>6 DEF Request
<1>2. UNCHANGED <<cacheVars, busVars, lockVars, mainVars>>
  BY DEF Request, SetGL, HandleInit, HandleTerm, SetLock, TermLock, Quit
<1> QED
  BY <1>1, <1>2 DEF TypeOK, Thread, Pcs, cacheVars, busVars, lockVars, mainVars, Reading

\* A thread that goes on at another place with another number of stops to do.
LEMMA PlaceAndStops ==
    ASSUME NEW t \in Thread, NEW p \in Pcs, NEW n \in Nat
    PROVE  LET u == [t EXCEPT !.pc = p, !.stops = n]
           IN  u \in Thread /\ u.pc = p /\ u.job = t.job
<1> DEFINE v == [t EXCEPT !.pc = p]
<1>1. v \in Thread /\ v.pc = p /\ v.job = t.job
  BY DEF Thread
<1>2. \A w \in Thread : LET u == [w EXCEPT !.stops = n]
                         IN  u \in Thread /\ u.pc = w.pc /\ u.job = w.job
  BY DEF Thread
<1> HIDE DEF v
<1>3. LET u == [v EXCEPT !.stops = n] IN u \in Thread /\ u.pc = p /\ u.job = t.job
  BY <1>1, <1>2, Zenon
<1> QED
  BY <1>3, Zenon DEF v

\* The locomotives' own steps: INIT, TERM, SET, with the queue and the cache.
LEMMA CacheStepType ==
    ASSUME TypeOK, NEW s \in Sessions,
           EnqueueGL(s) \/ PutGL(s) \/ WriteGL(s) \/ InitGL(s) \/ InitStop(s) \/ OwedStop(s)
             \/ WriteStop(s) \/ TermGL(s) \/ BrakeGL(s) \/ ClearGL(s)
    PROVE  TypeOK' /\ (InHand => InHand')
<1> DEFINE a == th[s].job.id
<1>1. th \in [Sessions -> Thread] /\ th[s] \in Thread
  BY DEF TypeOK, Thread, Pcs
<1>2. a \in Addr /\ th[s].job \in Command /\ Stop(a) \in Command
  BY <1>1, StopType DEF Thread, Command
<1>3. ASSUME Initialise(s)
      PROVE  th' \in [Sessions -> Thread] /\ glstate' \in [Addr -> [state : {0, 1}, speed : {0, 1}]]
  <2>1. PICK n \in Nat : n = th[s].stops + 1
    BY <1>1 DEF Thread
  <2>2. th' = [th EXCEPT ![s] = [th[s] EXCEPT !.pc = "initstop", !.stops = n]]
    BY <1>1, <1>3, <2>1 DEF Initialise, Thread
  <2>3. [th[s] EXCEPT !.pc = "initstop", !.stops = n] \in Thread
    BY <1>1, PlaceAndStops, Zenon DEF Pcs
  <2>4. th' \in [Sessions -> Thread]
    BY <1>1, <2>2, <2>3
  <2> QED
    BY <1>2, <1>3, <2>4 DEF TypeOK, Initialise, Living
<1>4. ASSUME StopDone(s) PROVE th' \in [Sessions -> Thread]
  <2>2. [th[s] EXCEPT !.pc = "put", !.stops = 0] \in Thread
    BY <1>1, PlaceAndStops, Zenon DEF Pcs
  <2>3. ASSUME th[s].stops > 1
        PROVE  [th[s] EXCEPT !.pc = "owed", !.stops = th[s].stops - 1] \in Thread
    <3>1. PICK n \in Nat : n = th[s].stops - 1
      BY <1>1, <2>3 DEF Thread
    <3>2. [th[s] EXCEPT !.pc = "owed", !.stops = n] \in Thread
      BY <1>1, PlaceAndStops, Zenon DEF Pcs
    <3> QED
      BY <3>1, <3>2
  <2> QED
    BY <1>1, <1>4, <2>2, <2>3, IdleType DEF StopDone
<1>5. Return(s) \in Pcs
  BY DEF Return, Pcs
<1> USE DEF busVars, lockVars, mainVars, cacheVars, InHand, Reading
<1>6. CASE EnqueueGL(s)
  <2>1. CASE Goto(s, "put") /\ UNCHANGED glstate
    BY <1>6, <2>1, GotoType DEF EnqueueGL, TypeOK, Thread, Pcs
  <2>2. CASE Initialise(s)
    BY <1>3, <1>6, <2>2 DEF EnqueueGL, TypeOK, Thread, Pcs
  <2> QED
    BY <1>6, <2>1, <2>2 DEF EnqueueGL
<1>7. CASE InitGL(s)
  BY <1>3, <1>7 DEF InitGL, TypeOK, Thread, Pcs
<1>8. CASE InitStop(s)
  <2>1. CASE Goto(s, "owed") /\ UNCHANGED glstate
    BY <1>8, <2>1, GotoType DEF InitStop, TypeOK, Thread, Pcs
  <2>2. CASE Initialise(s)
    BY <1>3, <1>8, <2>2 DEF InitStop, TypeOK, Thread, Pcs
  <2> QED
    BY <1>8, <2>1, <2>2 DEF InitStop
<1>9. CASE OwedStop(s)
  <2>1. CASE StopDone(s) /\ unstopped' = unstopped \cup {a}
    BY <1>2, <1>4, <1>9, <2>1 DEF OwedStop, TypeOK, Thread, Pcs
  <2>2. CASE Goto(s, "writestop") /\ UNCHANGED unstopped
    BY <1>9, <2>2, GotoType DEF OwedStop, TypeOK, Thread, Pcs
  <2> QED
    BY <1>9, <2>1, <2>2 DEF OwedStop
<1>10. CASE PutGL(s)
  <2>1. th' \in [Sessions -> Thread]
    <3>1. Goto(s, Return(s)) \/ Goto(s, "write")
      BY <1>10 DEF PutGL
    <3> QED
      BY <1>5, <3>1, GotoType DEF Pcs
  <2> QED
    BY <1>10, <2>1 DEF PutGL, TypeOK, Thread, Pcs
<1>15. CASE WriteGL(s)
  <2>1. th' \in [Sessions -> Thread] /\ UNCHANGED <<glstate, bpc, l, track, lockVars, mainVars, left>>
    BY <1>5, <1>15, GotoType DEF WriteGL
  <2>2. PutCommand(th[s].job)
    BY <1>15 DEF WriteGL
  <2> QED
    BY <1>2, <2>1, <2>2, PutType DEF TypeOK, Thread, Pcs
<1>16. CASE WriteStop(s)
  <2>1. th' \in [Sessions -> Thread] /\ UNCHANGED <<glstate, bpc, l, track, lockVars, mainVars, left>>
    BY <1>4, <1>16 DEF WriteStop
  <2>2. PutCommand(Stop(a))
    BY <1>16 DEF WriteStop
  <2> QED
    BY <1>2, <2>1, <2>2, PutType DEF TypeOK, Thread, Pcs
<1>11. CASE TermGL(s)
  <2>1. th' \in [Sessions -> Thread]
    <3>1. Goto(s, "idle") \/ Goto(s, "enqueue") \/ Goto(s, "clear")
      BY <1>11, Zenon DEF TermGL
    <3> QED
      BY <3>1, GotoType DEF Pcs
  <2> QED
    BY <1>11, <2>1 DEF TermGL, TypeOK, Thread, Pcs
<1>12. CASE BrakeGL(s)
  <2>1. th' \in [Sessions -> Thread]
    BY <1>12, GotoType DEF BrakeGL, Pcs
  <2>2. glstate' \in [Addr -> [state : {0, 1}, speed : {0, 1}]]
    BY <1>12 DEF BrakeGL, TypeOK
  <2> QED
    BY <1>12, <2>1, <2>2 DEF BrakeGL, TypeOK, Thread, Pcs
<1>13. CASE ClearGL(s)
  <2>1. th' \in [Sessions -> Thread]
    BY <1>13, GotoType DEF ClearGL, Pcs
  <2> QED
    BY <1>13, <2>1 DEF ClearGL, TypeOK, Thread, Pcs, Dead
<1> QED
  BY <1>6, <1>7, <1>8, <1>9, <1>10, <1>11, <1>12, <1>13, <1>15, <1>16

LEMMA LockStepType ==
    ASSUME TypeOK, NEW s \in Sessions,
           LockGL(s) \/ LockDuration(s) \/ TestLock(s) \/ ReleaseGL(s) \/ UnlockBySession(s)
    PROVE  TypeOK' /\ UNCHANGED busVars
<1>1. th' \in [Sessions -> Thread]
  <2>1. \/ \E p \in {"duration", "idle", "release", "term", "testlock"} : Goto(s, p)
        \/ NextAddress(s)
    BY DEF LockGL, LockDuration, TestLock, ReleaseGL, UnlockBySession
  <2> QED
    BY <2>1, GotoType, NextAddressType DEF Pcs
<1>2. UNCHANGED <<cacheVars, busVars, mainVars, left>>
  BY DEF LockGL, LockDuration, TestLock, ReleaseGL, UnlockBySession, lockVars
<1>3. locked_by' \in Sessions \cup {0} /\ lockduration' \in Nat /\ asked' \in Nat /\ age' \in Nat
  BY LocoAssumption
  DEF LockGL, LockDuration, TestLock, ReleaseGL, UnlockBySession, lockVars, TypeOK
<1>4. clash' \in BOOLEAN
  BY DEF LockGL, LockDuration, TestLock, ReleaseGL, UnlockBySession, lockVars, TypeOK
<1> QED
  BY <1>1, <1>2, <1>3, <1>4 DEF TypeOK, Thread, Pcs, cacheVars, busVars, mainVars, Reading

LEMMA NextGLType == ASSUME j \in Addr, NextGL PROVE j' \in Addr /\ mpc' = "read"
  BY AddrFacts DEF NextGL, Addr

\* What the main thread stores again was above 0 when it read it.
Stored == mpc = "store" => count > 0

LEMMA TimeType == ASSUME TypeOK, Stored, unlock_gl_bytime PROVE TypeOK' /\ Stored' /\ UNCHANGED busVars
<1>1. UNCHANGED <<cacheVars, busVars, th, left>>
  BY DEF unlock_gl_bytime, ReadDuration, StoreDuration, ReleaseByTime
<1>2. CASE ReadDuration
  BY <1>1, <1>2, NextGLType DEF Stored, ReadDuration, TypeOK, Thread, Pcs, cacheVars, busVars, Reading
<1>3. CASE StoreDuration
  <2>1. j' \in Addr /\ mpc' \in {"read", "release"}
    BY <1>3, NextGLType DEF StoreDuration, TypeOK
  <2>2. clash' \in BOOLEAN
    BY <1>3 DEF StoreDuration, TypeOK
  <2>3. lockduration' \in Nat
    BY <1>3 DEF StoreDuration, Stored, TypeOK
  <2> QED
    BY <1>1, <1>3, <2>1, <2>2, <2>3 DEF Stored, StoreDuration, TypeOK, Thread, Pcs, cacheVars, busVars, Reading
<1>4. CASE ReleaseByTime
  <2>1. clash' \in BOOLEAN
    BY <1>4 DEF ReleaseByTime, TypeOK
  <2> QED
    BY <1>1, <1>4, <2>1, NextGLType DEF Stored, ReleaseByTime, TypeOK, Thread, Pcs, cacheVars, busVars, Reading
<1> QED
  BY <1>2, <1>3, <1>4 DEF unlock_gl_bytime

LEMMA SpeedType == \A c \in Command : c.id \in Addr /\ Speed(c) \in {0, 1}
  BY DEF Command, Speed

LEMMA BusType == ASSUME TypeOK, InHand, Bus PROVE TypeOK' /\ InHand'
<1>1. /\ queue \in Seq(Command) /\ Len(queue) <= QUEUELEN
      /\ l \in Seq(Command) /\ Len(l) <= 1 /\ QUEUELEN \in Nat \ {0, 1}
  BY LocoAssumption DEF TypeOK
<1> USE DEF InHand, Reading
<1>2. CASE TestGL
  <2>1. queue # <<>>
    <3>1. Len(queue) # 0
      BY <1>1, <1>2 DEF TestGL, queue_len
    <3> QED
      BY <1>1, <3>1
  <2> QED
    BY <1>2, <2>1 DEF TestGL, TypeOK, Thread, Pcs, cacheVars, lockVars, mainVars
<1>3. CASE CopyGL
  <2>1. Head(queue) \in Command
    BY <1>1, <1>3 DEF CopyGL
  <2>2. l' \in Seq(Command) /\ Len(l') <= 1 /\ l' # <<>>
    BY <1>3, <2>1 DEF CopyGL
  <2> QED
    BY <1>3, <2>2 DEF CopyGL, TypeOK, Thread, Pcs, cacheVars, lockVars, mainVars
<1>4. ASSUME l # <<>> PROVE Head(l) \in Command /\ Head(l).id \in Addr /\ Speed(Head(l)) \in {0, 1}
  <2>1. Head(l) \in Command
    BY <1>1, <1>4
  <2> QED
    BY <2>1, SpeedType
<1>5. CASE HandleGLCommand
  <2>1. queue' \in Seq(Command) /\ Len(queue') < QUEUELEN
    <3>1. queue # <<>> /\ queue' = Tail(queue)
      BY <1>5 DEF HandleGLCommand
    <3> QED
      BY <1>1, <3>1
  <2>2. track' \in [Addr -> {0, 1}]
    BY <1>4, <1>5 DEF HandleGLCommand, TypeOK
  <2> QED
    BY <1>1, <1>5, <2>1, <2>2 DEF HandleGLCommand, TypeOK, Thread, Pcs, cacheVars, lockVars, mainVars
<1>6. CASE CacheSetGL
  <2>1. glstate' \in [Addr -> [state : {0, 1}, speed : {0, 1}]]
    <3>1. PICK v \in {0, 1} : glstate' = [glstate EXCEPT ![Head(l).id].speed = v]
      BY <1>4, <1>6 DEF CacheSetGL
    <3> QED
      BY <1>4, <1>6, <3>1 DEF TypeOK, CacheSetGL
  <2>2. unstopped' \subseteq Addr /\ l' \in Seq(Command) /\ Len(l') <= 1
    BY <1>6 DEF CacheSetGL, TypeOK
  <2> QED
    BY <1>6, <2>1, <2>2 DEF CacheSetGL, TypeOK, Thread, Pcs, lockVars, mainVars
<1> QED
  BY <1>2, <1>3, <1>5, <1>6 DEF Bus

TypeInv == TypeOK /\ Stored /\ InHand

LEMMA TypeStep == TypeInv /\ [Next]_vars => TypeInv'
<1>1. ASSUME TypeInv, UNCHANGED vars PROVE TypeInv'
  BY <1>1 DEF TypeInv, TypeOK, Stored, InHand, Reading, vars, cacheVars, busVars, lockVars, mainVars
<1>2. ASSUME TypeInv, NEW s \in Sessions, Request(s) \/ Step(s) PROVE TypeInv'
  <2>1. TypeOK' /\ InHand'
    <3>1. UNCHANGED busVars => InHand'
      BY <1>2 DEF TypeInv, InHand, Reading, busVars
    <3> QED
      BY <1>2, <3>1, RequestType, CacheStepType, LockStepType DEF TypeInv, Step
  <2>2. UNCHANGED mainVars
    BY <1>2 DEF Request, SetGL, HandleInit, HandleTerm, SetLock, TermLock, Quit, Step, EnqueueGL,
      PutGL, WriteGL, InitGL, InitStop, OwedStop, WriteStop, TermGL, BrakeGL, ClearGL, LockGL, LockDuration, TestLock,
      ReleaseGL, UnlockBySession
  <2> QED
    BY <1>2, <2>1, <2>2 DEF TypeInv, Stored, mainVars
<1>3. ASSUME TypeInv, Bus PROVE TypeInv'
  BY <1>3, BusType DEF TypeInv, Stored, Bus, TestGL, CopyGL, HandleGLCommand, CacheSetGL, mainVars
<1>4. ASSUME TypeInv, unlock_gl_bytime PROVE TypeInv'
  BY <1>4, TimeType DEF TypeInv, InHand, Reading, busVars
<1> QED
  BY <1>1, <1>2, <1>3, <1>4 DEF Next

LEMMA TypeInvHolds == Spec => []TypeInv
<1>1. Init => TypeInv
  BY TypeInit DEF TypeInv, Stored, InHand, Reading, Init
<1> QED
  BY <1>1, TypeStep, PTL DEF Spec

\* Every variable of the group stays in its type, whatever interleaves.
THEOREM TypeCorrect == Spec => []TypeOK
<1>1. TypeInv => TypeOK
  BY DEF TypeInv
<1> QED
  BY <1>1, TypeInvHolds, PTL

-----------------------------------------------------------------------------
(* What a step of a session leaves alone: the threads of the others, and     *)
(* where it takes its own thread.                                            *)

LEMMA GotoPlace ==
    ASSUME TypeOK, NEW s \in Sessions, NEW p \in Pcs, Goto(s, p)
    PROVE  /\ th'[s].pc = p /\ (p # "idle" => th'[s].job = th[s].job)
           /\ \A t \in Sessions \ {s} : th'[t] = th[t]
<1>1. th \in [Sessions -> Thread]
  BY DEF TypeOK, Thread, Pcs
<1>2. CASE p = "idle"
  BY <1>1, <1>2 DEF Goto, IdleThread
<1>3. CASE p # "idle"
  BY <1>1, <1>3 DEF Goto, Thread
<1> QED
  BY <1>2, <1>3

LEMMA BeginPlace ==
    ASSUME TypeOK, NEW s \in Sessions, NEW c, NEW command, NEW p, Begin(s, c, command, p)
    PROVE  th[s].pc = "idle" /\ th'[s].pc = p /\ \A t \in Sessions \ {s} : th'[t] = th[t]
<1>1. th \in [Sessions -> Thread]
  BY DEF TypeOK, Thread, Pcs
<1> QED
  BY <1>1 DEF Begin, At, IdleThread

LEMMA NextAddressPlace ==
    ASSUME TypeOK, NEW s \in Sessions, NextAddress(s)
    PROVE  th'[s].pc \in {"gone", "bysession"} /\ \A t \in Sessions \ {s} : th'[t] = th[t]
<1>1. th \in [Sessions -> Thread]
  BY DEF TypeOK, Thread, Pcs
<1> DEFINE u == [th[s] EXCEPT !.pc = "bysession", !.job = Stop(th[s].job.id + 1)]
           v == [IdleThread EXCEPT !.pc = "gone"]
<1>2. v.pc = "gone"
  BY DEF IdleThread
<1>3. u.pc = "bysession"
  <2>1. \A w \in Thread : \A x : [w EXCEPT !.pc = "bysession", !.job = x].pc = "bysession"
    BY Zenon DEF Thread
  <2> QED
    BY <1>1, <2>1
<1>4. th' = [th EXCEPT ![s] = IF th[s].job.id = N THEN v ELSE u]
  BY DEF NextAddress
<1> HIDE DEF u, v
<1> QED
  BY <1>1, <1>2, <1>3, <1>4

LEMMA InitialisePlace ==
    ASSUME TypeOK, NEW s \in Sessions, Initialise(s)
    PROVE  /\ th'[s].pc = "initstop" /\ th'[s].job = th[s].job
           /\ \A t \in Sessions \ {s} : th'[t] = th[t]
<1>1. th \in [Sessions -> Thread]
  BY DEF TypeOK, Thread, Pcs
<1> QED
  BY <1>1 DEF Initialise, Thread

\* A thread whose stop is dealt with has another one to do, or has not.
LEMMA StopDonePlace ==
    ASSUME TypeOK, NEW s \in Sessions, StopDone(s)
    PROVE  th'[s].pc \in {"owed", "put", "idle"} /\ \A t \in Sessions \ {s} : th'[t] = th[t]
<1>1. th \in [Sessions -> Thread] /\ th[s] \in Thread
  BY DEF TypeOK, Thread, Pcs
<1> DEFINE owed == [th[s] EXCEPT !.pc = "owed", !.stops = th[s].stops - 1]
           put == [th[s] EXCEPT !.pc = "put", !.stops = 0]
<1>2. th' = [th EXCEPT ![s] = IF th[s].stops > 1 THEN owed
                           ELSE IF th[s].cmd = "init" THEN IdleThread ELSE put]
  BY DEF StopDone
<1>3. put.pc = "put" /\ owed.pc = "owed"
  <2>1. \A w \in Thread : \A p, n : [w EXCEPT !.pc = p, !.stops = n].pc = p
    BY Zenon DEF Thread
  <2> QED
    BY <1>1, <2>1, Zenon
<1>4. IdleThread.pc = "idle"
  BY DEF IdleThread
<1> HIDE DEF owed, put
<1> QED
  BY <1>1, <1>2, <1>3, <1>4

\* The steps of a session that do not touch the lock, with the place they lead to.
LEMMA AwayFromLock ==
    ASSUME TypeOK, NEW s \in Sessions,
           \/ Request(s) \/ EnqueueGL(s) \/ InitGL(s) \/ InitStop(s) \/ OwedStop(s) \/ PutGL(s)
           \/ WriteGL(s) \/ WriteStop(s)
           \/ TermGL(s) \/ BrakeGL(s) \/ ClearGL(s) \/ TestLock(s) \/ UnlockBySession(s)
    PROVE  /\ UNCHANGED <<lockVars, mainVars>>
           /\ \A t \in Sessions \ {s} : th'[t] = th[t]
           /\ At(s, "lock")' => locked_by \in {0, s}
<1> USE DEF At
<1>1. CASE Request(s)
  <2> USE BeginPlace
  <2>1. CASE SetLock(s)
    BY <2>1 DEF SetLock
  <2>2. CASE SetGL(s)
    BY <2>2 DEF SetGL
  <2>3. CASE HandleInit(s)
    BY <2>3 DEF HandleInit
  <2>4. CASE HandleTerm(s)
    BY <2>4 DEF HandleTerm
  <2>5. CASE TermLock(s)
    BY <2>5 DEF TermLock
  <2>6. CASE Quit(s)
    BY <2>6 DEF Quit
  <2> QED
    BY <1>1, <2>1, <2>2, <2>3, <2>4, <2>5, <2>6 DEF Request
<1>2. CASE EnqueueGL(s)
  BY <1>2, GotoPlace, InitialisePlace DEF EnqueueGL, Pcs
<1>3. CASE InitGL(s)
  BY <1>3, InitialisePlace DEF InitGL
<1>4. CASE InitStop(s)
  BY <1>4, GotoPlace, InitialisePlace DEF InitStop, Pcs
<1>5. CASE OwedStop(s)
  BY <1>5, StopDonePlace, GotoPlace DEF OwedStop, Pcs
<1>6. CASE PutGL(s)
  <2>1. \E p \in {"idle", "brake", "write"} : Goto(s, p)
    BY <1>6 DEF PutGL, Return
  <2> QED
    BY <1>6, <2>1, GotoPlace DEF PutGL, Pcs
<1>7. CASE TermGL(s)
  <2>1. \E p \in {"idle", "enqueue", "clear"} : Goto(s, p)
    BY <1>7 DEF TermGL
  <2> QED
    BY <1>7, <2>1, GotoPlace DEF TermGL, Pcs
<1>8. CASE BrakeGL(s)
  BY <1>8, GotoPlace DEF BrakeGL, Pcs
<1>9. CASE ClearGL(s)
  BY <1>9, GotoPlace DEF ClearGL, Pcs
<1>10. CASE TestLock(s)
  BY <1>10, GotoPlace, NextAddressPlace DEF TestLock, Pcs
<1>11. CASE UnlockBySession(s)
  BY <1>11, GotoPlace, NextAddressPlace DEF UnlockBySession, Pcs
<1>12. CASE WriteGL(s)
  BY <1>12, GotoPlace DEF WriteGL, Return, Pcs
<1>13. CASE WriteStop(s)
  BY <1>13, StopDonePlace DEF WriteStop
<1> QED
  BY <1>1, <1>2, <1>3, <1>4, <1>5, <1>6, <1>7, <1>8, <1>9, <1>10, <1>11, <1>12, <1>13

-----------------------------------------------------------------------------
(* The lock passes over the state "free" (srcp-gl.c, cacheLockGL).           *)
(*                                                                           *)
(* cacheLockGL looks at the holder first and changes it later.  As long as   *)
(* no two threads met in between, what it saw is still true.                 *)

Seen == ~clash => \A s \in Sessions : At(s, "lock") => locked_by \in {0, s}

LEMMA SeenStep == ASSUME TypeInv, Seen, [Next]_vars PROVE Seen'
<1> USE DEF Seen, At
<1>1. CASE UNCHANGED vars
  BY <1>1 DEF vars, lockVars
<1>2. ASSUME NEW s \in Sessions, Request(s) \/ Step(s) PROVE Seen'
  <2>1. CASE LockGL(s)
    <3>1. th'[s].pc = "duration" /\ \A t \in Sessions \ {s} : th'[t] = th[t]
      BY <2>1, GotoPlace DEF LockGL, TypeInv, Pcs
    <3>2. ~clash' => \A t \in Sessions \ {s} : ~At(t, "lock")
      BY <2>1 DEF LockGL, Meets, Changing
    <3> QED
      BY <3>1, <3>2
  <2>2. CASE LockDuration(s)
    <3>1. th'[s].pc = "idle" /\ \A t \in Sessions \ {s} : th'[t] = th[t]
      BY <2>2, GotoPlace DEF LockDuration, TypeInv, Pcs
    <3>2. UNCHANGED locked_by /\ (~clash' => ~clash)
      BY <2>2 DEF LockDuration
    <3> QED
      BY <3>1, <3>2
  <2>3. CASE ReleaseGL(s)
    <3>1. th'[s].pc # "lock" /\ \A t \in Sessions \ {s} : th'[t] = th[t]
      BY <2>3, GotoPlace, NextAddressPlace DEF ReleaseGL, TypeInv, Pcs
    <3>2. locked_by' = 0
      BY <2>3 DEF ReleaseGL
    <3> QED
      BY <3>1, <3>2
  <2>4. CASE ~(LockGL(s) \/ LockDuration(s) \/ ReleaseGL(s))
    BY <1>2, <2>4, AwayFromLock DEF Step, TypeInv, lockVars
  <2> QED
    BY <2>1, <2>2, <2>3, <2>4
<1>3. CASE Bus
  BY <1>3 DEF Bus, TestGL, CopyGL, HandleGLCommand, CacheSetGL, lockVars
<1>4. CASE unlock_gl_bytime
  BY <1>4 DEF unlock_gl_bytime, ReadDuration, StoreDuration, ReleaseByTime
<1> QED
  BY <1>1, <1>2, <1>3, <1>4 DEF Next

LEMMA TakesFreeLock ==
    ASSUME TypeInv, Seen, [Next]_vars, locked_by # 0 PROVE clash' \/ locked_by' \in {0, locked_by}
<1>1. CASE UNCHANGED vars
  BY <1>1 DEF vars, lockVars
<1>2. ASSUME NEW s \in Sessions, Request(s) \/ Step(s)
      PROVE  clash' \/ locked_by' \in {0, locked_by}
  <2>1. CASE LockGL(s)
    BY <2>1 DEF LockGL, Seen
  <2>2. CASE LockDuration(s) \/ ReleaseGL(s)
    BY <2>2 DEF LockDuration, ReleaseGL
  <2>3. CASE ~(LockGL(s) \/ LockDuration(s) \/ ReleaseGL(s))
    BY <1>2, <2>3, AwayFromLock DEF Step, TypeInv, lockVars
  <2> QED
    BY <2>1, <2>2, <2>3
<1>3. CASE Bus \/ unlock_gl_bytime
  BY <1>3 DEF Bus, TestGL, CopyGL, HandleGLCommand, CacheSetGL, lockVars,
              unlock_gl_bytime, ReadDuration, StoreDuration, ReleaseByTime
<1> QED
  BY <1>1, <1>2, <1>3 DEF Next

\* A lock passes from one session to another only over the state "free", unless
\* two threads met between the look at the lock and its change.
THEOREM NoTakeoverHolds == Spec => NoTakeover
<1>1. Init => Seen
  BY DEF Init, Seen, At, IdleThread
<1>2. TypeInv /\ Seen /\ [Next]_vars => Seen'
  BY SeenStep
<1>3. TypeInv /\ Seen /\ [Next]_vars => [locked_by # 0 => clash' \/ locked_by' \in {0, locked_by}]_vars
  BY TakesFreeLock
<1> QED
  BY <1>1, <1>2, <1>3, TypeInvHolds, PTL DEF Spec, NoTakeover

-----------------------------------------------------------------------------
(* A lock lasts its N-th part (srcp-gl.c, unlock_gl_bytime).                 *)
(*                                                                           *)
(* The invariant relates the seconds that are gone from the count with the   *)
(* calls of unlock_gl_bytime that were begun and the address the call is at. *)

\* The most that can be gone.
Limit == IF mpc = "read" /\ j = 1 THEN age * N + N - 1 ELSE age * N + j - 2

Counted == ~clash =>
    /\ lockduration <= asked
    /\ mpc = "store" => count = lockduration
    /\ mpc = "release" => lockduration = 0 /\ asked <= age * N + j - 1
    /\ lockduration > 0 => asked - lockduration <= Limit

LEMMA Product ==
    ASSUME NEW a \in Nat
    PROVE  0 * N = 0 /\ a * N \in Nat /\ (a + 1) * N = a * N + N
  BY AddrFacts

LEMMA CountedInit == Init => Counted
  BY DEF Init, Counted

LEMMA CountedTime == ASSUME TypeInv, Counted, unlock_gl_bytime PROVE Counted'
<1>1. /\ j \in 1 .. N /\ N \in Nat \ {0} /\ age \in Nat /\ lockduration \in Nat
      /\ asked \in Nat /\ count \in Nat
  BY AddrFacts DEF TypeInv, TypeOK, Addr
<1> DEFINE P == age * N
<1>2. P \in Nat /\ (age + 1) * N = P + N /\ 0 * N = 0
  BY <1>1, Product
<1>3. CASE ReadDuration
  <2>1. CASE lockduration > 0 /\ j = 1
    <3>1. age' = age + 1 /\ mpc' = "store" /\ count' = lockduration /\ mpc = "read"
          /\ UNCHANGED <<j, lockduration, asked, clash>>
      BY <1>3, <2>1 DEF ReadDuration
    <3>2. Limit' = P + N - 1
      BY <1>1, <1>2, <2>1, <3>1 DEF Limit
    <3>3. Limit = P + N - 1
      BY <2>1, <3>1 DEF Limit
    <3> QED
      BY <1>1, <3>1, <3>2, <3>3 DEF Counted
  <2>2. CASE lockduration > 0 /\ j # 1
    <3>1. age' = age /\ mpc' = "store" /\ count' = lockduration /\ mpc = "read"
          /\ UNCHANGED <<j, lockduration, asked, clash>>
      BY <1>3, <2>2 DEF ReadDuration
    <3>2. Limit' = Limit
      BY <2>2, <3>1 DEF Limit
    <3> QED
      BY <3>1, <3>2 DEF Counted
  <2>3. CASE ~(lockduration > 0)
    <3>1. mpc' = "read" /\ UNCHANGED <<lockduration, asked, clash>>
      BY <1>3, <2>3 DEF ReadDuration, NextGL
    <3> QED
      BY <2>3, <3>1 DEF Counted
  <2> QED
    BY <2>1, <2>2, <2>3
<1>4. CASE StoreDuration
  <2> SUFFICES ASSUME ~clash' PROVE Counted'
    BY DEF Counted
  <2>1. ~clash /\ mpc = "store" /\ UNCHANGED <<asked, age>> /\ lockduration' = count - 1
    BY <1>4 DEF StoreDuration
  <2>2. count = lockduration /\ count > 0 /\ lockduration' \in Nat
    BY <1>1, <2>1 DEF Counted, TypeInv, Stored
  <2>3. Limit = P + j - 2
    BY <2>1 DEF Limit
  <2>4. asked - lockduration' <= P + j - 1 /\ lockduration' <= asked
    BY <1>1, <1>2, <2>1, <2>2, <2>3 DEF Counted
  <2>5. CASE count = 1 /\ isInitializedGL(j)
    <3>1. mpc' = "release" /\ j' = j
      BY <1>4, <2>5 DEF StoreDuration
    <3>2. lockduration' = 0
      BY <2>1, <2>5
    <3> QED
      BY <1>1, <1>2, <2>1, <2>4, <3>1, <3>2 DEF Counted
  <2>6. CASE ~(count = 1 /\ isInitializedGL(j))
    <3>1. mpc' = "read" /\ j' = IF j = N THEN 1 ELSE j + 1
      BY <1>4, <2>6 DEF StoreDuration, NextGL
    <3>2. CASE j = N
      BY <1>1, <1>2, <2>1, <2>4, <3>1, <3>2 DEF Counted, Limit
    <3>3. CASE j # N
      BY <1>1, <1>2, <2>1, <2>4, <3>1, <3>3 DEF Counted, Limit
    <3> QED
      BY <3>2, <3>3
  <2> QED
    BY <2>5, <2>6
<1>5. CASE ReleaseByTime
  <2> SUFFICES ASSUME ~clash' PROVE Counted'
    BY DEF Counted
  <2>1. ~clash /\ mpc = "release" /\ mpc' = "read" /\ asked' = 0 /\ UNCHANGED lockduration
    BY <1>5 DEF ReleaseByTime, NextGL
  <2> QED
    BY <2>1 DEF Counted
<1> QED
  BY <1>3, <1>4, <1>5 DEF unlock_gl_bytime

LEMMA CountedStep == ASSUME TypeInv, Counted, [Next]_vars PROVE Counted'
<1>1. ASSUME UNCHANGED <<lockduration, asked, age, mpc, j, count>>, ~clash' => ~clash PROVE Counted'
  BY <1>1 DEF Counted, Limit
<1>2. CASE UNCHANGED vars
  BY <1>1, <1>2 DEF vars, lockVars, mainVars
<1>3. ASSUME NEW s \in Sessions, Request(s) \/ Step(s) PROVE Counted'
  <2>1. CASE LockGL(s) \/ ReleaseGL(s)
    BY <1>1, <2>1 DEF LockGL, ReleaseGL, mainVars
  <2>2. CASE LockDuration(s)
    <3> SUFFICES ASSUME ~clash' PROVE Counted'
      BY DEF Counted
    <3>1. mpc = "read" /\ UNCHANGED <<mpc, j, count>> /\ age' = 0
      BY <2>2 DEF LockDuration, Meets, mainVars
    <3>2. lockduration' = asked' /\ asked' \in Nat
      BY <2>2, LocoAssumption DEF LockDuration
    <3>3. j \in 1 .. N /\ N \in Nat \ {0}
      BY AddrFacts DEF TypeInv, TypeOK, Addr
    <3>4. age' * N = 0
      BY <3>1, Product
    <3>5. Limit' = IF j = 1 THEN 0 + N - 1 ELSE 0 + j - 2
      BY <3>1, <3>4 DEF Limit
    <3>6. Limit' \in Nat
      <4>1. CASE j = 1
        BY <3>3, <3>5, <4>1
      <4>2. CASE j # 1
        BY <3>3, <3>5, <4>2
      <4> QED
        BY <4>1, <4>2
    <3>7. asked' - lockduration' <= Limit' /\ lockduration' <= asked'
      <4>1. \A d, m \in Nat : d - d <= m /\ d <= d
        OBVIOUS
      <4> QED
        BY <3>2, <3>6, <4>1
    <3>8. mpc' = "read"
      BY <3>1
    <3> QED
      BY <3>7, <3>8 DEF Counted
  <2>3. CASE ~(LockGL(s) \/ LockDuration(s) \/ ReleaseGL(s))
    BY <1>1, <1>3, <2>3, AwayFromLock DEF Step, TypeInv, lockVars, mainVars
  <2> QED
    BY <2>1, <2>2, <2>3
<1>4. CASE Bus
  BY <1>1, <1>4 DEF Bus, TestGL, CopyGL, HandleGLCommand, CacheSetGL, lockVars, mainVars
<1>5. CASE unlock_gl_bytime
  BY <1>5, CountedTime
<1> QED
  BY <1>2, <1>3, <1>4, <1>5 DEF Next

\* The one lock of the bus is counted down once per address in each call: a lock
\* that was given for some seconds is released by time after an N-th part of them.
THEOREM LockLastsAShareHolds == Spec => []LockLastsAShare
<1>1. TypeInv /\ Counted => LockLastsAShare
  <2> SUFFICES ASSUME TypeInv, Counted, mpc = "release", ~clash PROVE (age + 1) * N > asked
    BY DEF LockLastsAShare
  <2>1. j \in 1 .. N /\ N \in Nat \ {0} /\ age \in Nat /\ asked \in Nat
    BY AddrFacts DEF TypeInv, TypeOK, Addr
  <2>2. asked <= age * N + j - 1
    BY DEF Counted
  <2> QED
    BY <2>1, <2>2, Product
<1>2. TypeInv /\ Counted /\ [Next]_vars => Counted'
  BY CountedStep
<1> QED
  BY <1>1, <1>2, CountedInit, TypeInvHolds, PTL DEF Spec

-----------------------------------------------------------------------------
(* The cache says what the decoder was told (srcp-gl.c, loopback.c).         *)
(*                                                                           *)
(* The invariant names what is still owed to an address whose cache and      *)
(* decoder differ: a stop that is queued, a command in the hands of the bus  *)
(* thread, the stop of an INIT, or the end of a TERM.  Where the stop was    *)
(* refused or an overrun lost it, the address is in unstopped.               *)

Queued(a) == \E i \in DOMAIN queue : queue[i] = Stop(a)

Owes(s) == th[s].pc \in {"initstop", "owed", "writestop", "clear"}

Owed(a) == \/ Queued(a)
           \/ l # <<>> /\ Head(l).id = a
           \/ \E s \in Sessions : Owes(s) /\ th[s].job.id = a

Agrees(a) == isInitializedGL(a) => glstate[a].speed = track[a]

\* What the bus thread has taken, the decoder was told.
Told == bpc = "cache" => track[Head(l).id] = Speed(Head(l))

\* What out++ gives up was copied, unless an overrun put it there: then it is lost.
Copied == bpc = "consume" =>
    \/ Head(l) = Head(queue)
    \/ \A a \in Addr : Head(queue) = Stop(a) => a \in unstopped

Settles == Told /\ Copied /\ \A a \in Addr : a \in unstopped \/ Agrees(a) \/ Owed(a)

LEMMA SettlesInit == Init => Settles
  BY DEF Init, Settles, Told, Copied, Agrees, isInitializedGL, Dead

\* A stop that is queued stays queued when another command is put behind it,
\* and so does what is put there, unless the ring is overrun.
LEMMA PutKeeps ==
    ASSUME TypeOK, InHand, Copied, NEW c \in Command, PutCommand(c), UNCHANGED <<bpc, l>>
    PROVE  /\ unstopped \subseteq unstopped'
           /\ \A a \in Addr : Queued(a) \/ c = Stop(a) => Queued(a)' \/ a \in unstopped'
           /\ Copied'
<1> DEFINE written == Append(queue, c)
           overrun == Len(queue) >= IF Reading THEN QUEUELEN ELSE QUEUELEN - 1
           lost == {a \in Addr : \E i \in DOMAIN written : written[i] = Stop(a)}
<1>1. /\ queue' = IF ~overrun THEN written ELSE IF Reading THEN <<c>> ELSE <<>>
      /\ unstopped' = IF ~overrun THEN unstopped ELSE unstopped \cup lost
  BY DEF PutCommand
<1>2. /\ DOMAIN written = 1 .. Len(queue) + 1 /\ Len(queue) \in Nat
      /\ written[Len(queue) + 1] = c /\ DOMAIN queue = 1 .. Len(queue)
      /\ \A i \in 1 .. Len(queue) : written[i] = queue[i]
  BY DEF TypeOK
<1>3. \A a \in Addr : Queued(a) \/ c = Stop(a) => \E i \in DOMAIN written : written[i] = Stop(a)
  <2> HIDE DEF written
  <2> QED
    BY <1>2 DEF Queued
<1>4. Reading => Head(written) = Head(queue)
  BY DEF InHand, TypeOK
<1> HIDE DEF written, overrun
<1>5. CASE ~overrun
  <2>1. queue' = written /\ unstopped' = unstopped
    BY <1>1, <1>5
  <2> QED
    BY <1>3, <1>4, <2>1 DEF Queued, Copied, Reading
<1>6. CASE overrun
  <2>1. unstopped' = unstopped \cup lost
    BY <1>1, <1>6
  <2>2. \A a \in Addr : c = Stop(a) => a \in lost
    BY <1>3
  <2>3. bpc = "consume" => Head(queue') = c
    BY <1>1, <1>6 DEF Reading
  <2> QED
    BY <1>3, <2>1, <2>2, <2>3 DEF Copied
<1> QED
  BY <1>5, <1>6

\* A step of session s, whose job is about address a: it is enough to look at
\* that thread and that address.
LEMMA SettlesBySession ==
    ASSUME Settles, NEW s \in Sessions, NEW a \in Addr,
           UNCHANGED <<bpc, l, track>>, unstopped \subseteq unstopped', Copied',
           \A t \in Sessions \ {s} : th'[t] = th[t],
           \A b \in Addr : Queued(b) => Queued(b)' \/ b \in unstopped',
           Owes(s) => th[s].job.id = a,
           \A b \in Addr \ {a} : glstate'[b] = glstate[b],
           \/ ~Owes(s) /\ glstate'[a] = glstate[a]
           \/ a \in unstopped' \/ Agrees(a)' \/ Owed(a)'
    PROVE  Settles'
<1> USE DEF Settles, Agrees, isInitializedGL
<1>1. Told'
  BY DEF Told
<1> SUFFICES ASSUME NEW b \in Addr PROVE b \in unstopped' \/ Agrees(b)' \/ Owed(b)'
  BY <1>1
<1>2. b \in unstopped \/ Agrees(b) \/ Owed(b)
  OBVIOUS
<1>3. CASE b = a /\ ~(~Owes(s) /\ glstate'[a] = glstate[a])
  BY <1>3
<1>4. CASE ~(b = a /\ ~(~Owes(s) /\ glstate'[a] = glstate[a]))
  <2>1. glstate'[b] = glstate[b]
    BY <1>4
  <2>2. \A t \in Sessions : Owes(t) /\ th[t].job.id = b => Owes(t)' /\ th'[t].job.id = b
    BY <1>4 DEF Owes
  <2> QED
    BY <1>2, <2>1, <2>2 DEF Owed
<1> QED
  BY <1>3, <1>4

LEMMA SettlesSession ==
    ASSUME TypeInv, Settles, NEW s \in Sessions, Request(s) \/ Step(s) PROVE Settles'
<1>0. TypeOK /\ InHand /\ th[s] \in Thread
  BY DEF TypeInv, TypeOK, Thread, Pcs
<1>1. PICK a \in Addr : a = th[s].job.id /\ Stop(a) \in Command
  BY <1>0, StopType DEF Thread, Command
<1>2. /\ th[s].job \in Command
      /\ glstate \in [Addr -> [state : {0, 1}, speed : {0, 1}]]
  BY <1>0 DEF Thread, TypeOK
<1> USE DEF At, cacheVars, busVars, Owes
<1>3. ASSUME UNCHANGED <<glstate, unstopped, queue, bpc, l, track>>, ~Owes(s),
             \A t \in Sessions \ {s} : th'[t] = th[t]
      PROVE  Settles'
  <2>1. Copied'
    BY <1>3 DEF Settles, Copied
  <2> QED
    BY <1>0, <1>1, <1>2, <1>3, <2>1, SettlesBySession DEF Queued
<1>4. ASSUME Initialise(s), UNCHANGED <<unstopped, queue, bpc, l, track>> PROVE Settles'
  <2>1. /\ th'[s].pc = "initstop" /\ th'[s].job = th[s].job
        /\ \A t \in Sessions \ {s} : th'[t] = th[t]
    BY <1>0, <1>1, <1>2, <1>4, InitialisePlace
  <2>2. Owed(a)'
    BY <1>0, <1>1, <1>2, <2>1 DEF Owed
  <2>3. \A b \in Addr \ {a} : glstate'[b] = glstate[b]
    BY <1>0, <1>1, <1>2, <1>4 DEF Initialise
  <2>4. Copied'
    BY <1>4 DEF Settles, Copied
  <2> QED
    BY <1>0, <1>1, <1>2, <1>4, <2>1, <2>2, <2>3, <2>4, SettlesBySession DEF Queued
<1>6. CASE Request(s)
  BY <1>0, <1>1, <1>2, <1>3, <1>6, BeginPlace
  DEF Request, SetGL, HandleInit, HandleTerm, SetLock, TermLock, Quit
<1>7. CASE EnqueueGL(s)
  <2>1. CASE Goto(s, "put") /\ UNCHANGED glstate
    <3>1. \A t \in Sessions \ {s} : th'[t] = th[t]
      BY <1>0, <2>1, GotoPlace DEF Pcs
    <3> QED
      BY <1>3, <1>7, <2>1, <3>1 DEF EnqueueGL
  <2>2. CASE Initialise(s)
    BY <1>4, <1>7, <2>2 DEF EnqueueGL
  <2> QED
    BY <1>7, <2>1, <2>2 DEF EnqueueGL
<1>8. CASE InitGL(s)
  BY <1>4, <1>8 DEF InitGL
<1>9. CASE InitStop(s)
  <2>1. CASE Goto(s, "owed") /\ UNCHANGED glstate
    <3>1. /\ th'[s].pc = "owed" /\ th'[s].job = th[s].job
          /\ \A t \in Sessions \ {s} : th'[t] = th[t]
      BY <1>0, <2>1, GotoPlace DEF Pcs
    <3>2. UNCHANGED <<glstate, unstopped, queue, bpc, l, track>> /\ Copied'
      BY <1>9, <2>1 DEF InitStop, Settles, Copied
    <3>3. Owed(a)'
      BY <1>1, <3>1 DEF Owed
    <3> QED
      BY <1>1, <3>1, <3>2, <3>3, SettlesBySession DEF Queued
  <2>2. CASE Initialise(s)
    BY <1>4, <1>9, <2>2 DEF InitStop
  <2> QED
    BY <1>9, <2>1, <2>2 DEF InitStop
<1>10. CASE OwedStop(s)
  <2>1. UNCHANGED <<glstate, queue, bpc, l, track>>
    BY <1>10 DEF OwedStop
  <2>2. CASE StopDone(s) /\ unstopped' = unstopped \cup {a}
    <3>1. \A t \in Sessions \ {s} : th'[t] = th[t]
      BY <1>0, <2>2, StopDonePlace
    <3>2. Copied'
      BY <2>1, <2>2 DEF Settles, Copied
    <3> QED
      BY <1>1, <2>1, <2>2, <3>1, <3>2, SettlesBySession DEF Queued
  <2>3. CASE Goto(s, "writestop") /\ UNCHANGED unstopped
    <3>1. /\ th'[s].pc = "writestop" /\ th'[s].job = th[s].job
          /\ \A t \in Sessions \ {s} : th'[t] = th[t]
      BY <1>0, <2>3, GotoPlace DEF Pcs
    <3>2. Copied'
      BY <2>1, <2>3 DEF Settles, Copied
    <3>3. Owed(a)'
      BY <1>1, <3>1 DEF Owed
    <3> QED
      BY <1>1, <2>1, <2>3, <3>1, <3>2, <3>3, SettlesBySession DEF Queued
  <2> QED
    BY <1>1, <1>10, <2>2, <2>3 DEF OwedStop
<1>11. CASE PutGL(s)
  <2>1. \E p \in {"idle", "brake", "write"} : Goto(s, p)
    BY <1>11 DEF PutGL, Return
  <2>2. \A t \in Sessions \ {s} : th'[t] = th[t]
    BY <1>0, <2>1, GotoPlace DEF Pcs
  <2> QED
    BY <1>3, <1>11, <2>2 DEF PutGL
<1>16. CASE WriteGL(s)
  <2>1. /\ UNCHANGED <<glstate, bpc, l, track>> /\ ~Owes(s)
        /\ PutCommand(th[s].job) /\ Goto(s, Return(s))
    BY <1>16 DEF WriteGL
  <2>2. \A t \in Sessions \ {s} : th'[t] = th[t]
    BY <1>0, <2>1, GotoPlace DEF Return, Pcs
  <2>3. /\ unstopped \subseteq unstopped' /\ Copied'
        /\ \A b \in Addr : Queued(b) => Queued(b)' \/ b \in unstopped'
    BY <1>0, <1>2, <2>1, PutKeeps DEF Settles
  <2> QED
    BY <1>1, <2>1, <2>2, <2>3, SettlesBySession
<1>17. CASE WriteStop(s)
  <2>1. /\ UNCHANGED <<glstate, bpc, l, track>>
        /\ PutCommand(Stop(a)) /\ StopDone(s)
    BY <1>1, <1>17 DEF WriteStop
  <2>2. \A t \in Sessions \ {s} : th'[t] = th[t]
    BY <1>0, <2>1, StopDonePlace
  <2>3. /\ unstopped \subseteq unstopped' /\ Copied'
        /\ \A b \in Addr : Queued(b) => Queued(b)' \/ b \in unstopped'
        /\ Queued(a)' \/ a \in unstopped'
    BY <1>0, <1>1, <2>1, PutKeeps DEF Settles
  <2>4. a \in unstopped' \/ Owed(a)'
    BY <2>3, Zenon DEF Owed
  <2> QED
    BY <1>1, <2>1, <2>2, <2>3, <2>4, SettlesBySession
<1>12. CASE TermGL(s)
  <2>1. \E p \in {"idle", "enqueue", "clear"} : Goto(s, p)
    BY <1>12 DEF TermGL
  <2>2. \A t \in Sessions \ {s} : th'[t] = th[t]
    BY <1>0, <1>1, <1>2, <2>1, GotoPlace DEF Pcs
  <2> QED
    BY <1>3, <1>12, <2>2 DEF TermGL
<1>13. CASE BrakeGL(s)
  <2>1. /\ th'[s].pc = "clear" /\ th'[s].job = th[s].job
        /\ \A t \in Sessions \ {s} : th'[t] = th[t]
    BY <1>0, <1>1, <1>2, <1>13, GotoPlace DEF BrakeGL, Pcs
  <2>2. Owed(a)'
    BY <1>0, <1>1, <1>2, <2>1 DEF Owed
  <2>3. \A b \in Addr \ {a} : glstate'[b] = glstate[b]
    BY <1>0, <1>1, <1>2, <1>13 DEF BrakeGL
  <2>4. UNCHANGED <<unstopped, queue, bpc, l, track>> /\ ~Owes(s)
    BY <1>13 DEF BrakeGL
  <2>5. Copied' /\ \A b \in Addr : Queued(b) => Queued(b)'
    BY <2>4 DEF Queued, Settles, Copied
  <2> QED
    BY <1>0, <1>1, <1>2, <2>1, <2>2, <2>3, <2>4, <2>5, SettlesBySession
<1>14. CASE ClearGL(s)
  <2>1. \A t \in Sessions \ {s} : th'[t] = th[t]
    BY <1>0, <1>1, <1>2, <1>14, GotoPlace DEF ClearGL, Pcs
  <2>2. glstate' = [glstate EXCEPT ![a] = Dead] /\ UNCHANGED <<unstopped, queue, bpc, l, track>>
    BY <1>1, <1>14 DEF ClearGL
  <2>3. Agrees(a)' /\ \A b \in Addr \ {a} : glstate'[b] = glstate[b]
    BY <1>0, <1>1, <1>2, <2>2 DEF Agrees, isInitializedGL, Dead
  <2>4. Copied' /\ \A b \in Addr : Queued(b) => Queued(b)'
    BY <2>2 DEF Queued, Settles, Copied
  <2> QED
    BY <1>0, <1>1, <1>2, <2>1, <2>2, <2>3, <2>4, SettlesBySession
<1>15. CASE LockGL(s) \/ LockDuration(s) \/ TestLock(s) \/ ReleaseGL(s) \/ UnlockBySession(s)
  <2>1. \/ \E p \in {"duration", "idle", "release", "term", "testlock"} : Goto(s, p)
        \/ NextAddress(s)
    BY <1>15 DEF LockGL, LockDuration, TestLock, ReleaseGL, UnlockBySession
  <2>2. \A t \in Sessions \ {s} : th'[t] = th[t]
    BY <1>0, <1>1, <1>2, <2>1, GotoPlace, NextAddressPlace DEF Pcs
  <2> QED
    BY <1>3, <1>15, <2>2 DEF LockGL, LockDuration, TestLock, ReleaseGL, UnlockBySession
<1> QED
  BY <1>6, <1>7, <1>8, <1>9, <1>10, <1>11, <1>12, <1>13, <1>14, <1>15, <1>16, <1>17 DEF Step

\* A command goes from the queue into the hands of the bus thread, and from
\* there into the cache: then cache and decoder agree.
LEMMA SettlesBus == ASSUME TypeInv, Settles, Bus PROVE Settles'
<1> USE DEF Settles, Agrees, isInitializedGL
<1>1. /\ queue \in Seq(Command) /\ l \in Seq(Command) /\ track \in [Addr -> {0, 1}]
      /\ glstate \in [Addr -> [state : {0, 1}, speed : {0, 1}]]
      /\ Reading => queue # <<>>
      /\ l = <<>> <=> bpc \in {"test", "copy"}
  BY DEF TypeInv, TypeOK, InHand
<1>2. l # <<>> => Head(l) \in Command /\ Head(l).id \in Addr
  <2>1. l # <<>> => Head(l) \in Command
    BY <1>1
  <2> QED
    BY <2>1, SpeedType
<1>3. \A a \in Addr : Stop(a).id = a
  BY DEF Stop
<1>4. CASE TestGL
  BY <1>1, <1>4 DEF TestGL, Told, Copied, Owed, Queued, Owes, cacheVars
<1>5. CASE CopyGL
  <2>1. l' = <<Head(queue)>> /\ l = <<>> /\ UNCHANGED <<cacheVars, queue, track, th>> /\ bpc' = "consume"
    BY <1>1, <1>5 DEF CopyGL
  <2>2. Told' /\ Copied'
    BY <2>1 DEF Told, Copied
  <2>3. \A b \in Addr : Owed(b) => Owed(b)'
    BY <2>1 DEF Owed, Owes, Queued
  <2> QED
    BY <2>1, <2>2, <2>3 DEF cacheVars
<1>6. CASE HandleGLCommand
  <2>1. PICK c \in Command : c = Head(l) /\ c.id \in Addr /\ l # <<>>
    BY <1>1, <1>2, <1>6 DEF HandleGLCommand
  <2>2. /\ track' = [track EXCEPT ![c.id] = Speed(c)] /\ UNCHANGED <<glstate, unstopped, th, l>>
        /\ bpc = "consume" /\ bpc' = "cache"
    BY <1>6, <2>1 DEF HandleGLCommand, cacheVars
  <2>3. Told' /\ Copied'
    BY <1>1, <2>1, <2>2 DEF Told, Copied
  <2>4. \A b \in Addr : Queued(b) => Queued(b)' \/ b = c.id \/ b \in unstopped
    <3> SUFFICES ASSUME NEW b \in Addr, NEW i \in DOMAIN queue, queue[i] = Stop(b), b # c.id,
                        b \notin unstopped
                 PROVE  Queued(b)'
      BY DEF Queued
    <3>1. queue' = Tail(queue) /\ queue # <<>> /\ i \in 1 .. Len(queue) /\ Head(queue) = queue[1]
      BY <1>1, <1>6 DEF HandleGLCommand, Reading
    <3>2. Head(queue) # Stop(b)
      BY <1>3, <2>1, <2>2 DEF Copied
    <3>3. i # 1
      BY <3>1, <3>2
    <3>4. i - 1 \in DOMAIN queue' /\ queue'[i - 1] = queue[i]
      BY <1>1, <3>1, <3>3
    <3> QED
      BY <3>4 DEF Queued
  <2>5. \A b \in Addr : Owed(b) => Owed(b)' \/ b \in unstopped'
    BY <2>1, <2>2, <2>4 DEF Owed, Owes
  <2>6. \A b \in Addr : Agrees(b) => Agrees(b)' \/ Owed(b)'
    <3> SUFFICES ASSUME NEW b \in Addr, Agrees(b), b # c.id PROVE Agrees(b)'
      BY <2>1, <2>2 DEF Owed
    <3> QED
      BY <1>1, <2>1, <2>2
  <2> QED
    BY <2>2, <2>3, <2>5, <2>6
<1>7. CASE CacheSetGL
  <2>1. PICK c \in Command : c = Head(l) /\ c.id \in Addr /\ l # <<>>
    BY <1>1, <1>2, <1>7 DEF CacheSetGL
  <2>2. /\ glstate' = [glstate EXCEPT ![c.id].speed = Speed(c)] /\ UNCHANGED <<track, queue, th>>
        /\ unstopped' = unstopped \ {c.id} /\ bpc = "cache" /\ bpc' = "test"
    BY <1>7, <2>1 DEF CacheSetGL
  <2>3. Told' /\ Copied' /\ track[c.id] = Speed(c)
    BY <2>1, <2>2 DEF Told, Copied
  <2>4. Agrees(c.id)'
    <3>1. glstate'[c.id].speed = Speed(c) /\ track'[c.id] = Speed(c)
      BY <1>1, <2>1, <2>2, <2>3
    <3> QED
      BY <3>1
  <2>5. \A b \in Addr \ {c.id} : Agrees(b) => Agrees(b)'
    BY <1>1, <2>1, <2>2
  <2>6. \A b \in Addr \ {c.id} : Owed(b) => Owed(b)'
    BY <2>1, <2>2 DEF Owed, Owes, Queued
  <2> QED
    BY <2>2, <2>3, <2>4, <2>5, <2>6
<1> QED
  BY <1>4, <1>5, <1>6, <1>7 DEF Bus

LEMMA SettlesStep == ASSUME TypeInv, Settles, [Next]_vars PROVE Settles'
<1>1. ASSUME UNCHANGED <<glstate, unstopped, queue, bpc, l, track, th>> PROVE Settles'
  BY <1>1 DEF Settles, Told, Copied, Agrees, Owed, Queued, Owes, isInitializedGL
<1>2. CASE UNCHANGED vars
  BY <1>1, <1>2 DEF vars, cacheVars, busVars
<1>3. CASE unlock_gl_bytime
  BY <1>1, <1>3
  DEF unlock_gl_bytime, ReadDuration, StoreDuration, ReleaseByTime, cacheVars, busVars
<1> QED
  BY <1>2, <1>3, SettlesSession, SettlesBus DEF Next

\* Once the commands are carried out, the cache that the clients see says what
\* the decoders were told, in whatever order INIT, TERM and SET of several
\* sessions met and whatever was lost in the ring, but for the addresses whose
\* INIT had its stop refused or lost and that were told nothing since.
THEOREM CacheMatchesTrackHolds == Spec => []CacheMatchesTrack
<1>1. TypeInv /\ Settles => CacheMatchesTrack
  BY DEF TypeInv, InHand, Settles, CacheMatchesTrack, Quiet, Owed, Queued, Owes, Agrees
<1>2. TypeInv /\ Settles /\ [Next]_vars => Settles'
  BY SettlesStep
<1> QED
  BY <1>1, <1>2, SettlesInit, TypeInvHolds, PTL DEF Spec
=============================================================================
