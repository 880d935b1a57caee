----------------------------- MODULE Locomotives -----------------------------
(* The GL device group of one bus (srcp-gl.c), with the commands of the      *)
(* sessions that reach it (srcp-command.c), the bus thread that carries the  *)
(* queued commands out (loopback.c) and the main thread that counts the      *)
(* locks down.                                                               *)
(*                                                                           *)
(* Nothing in srcp-gl.c but the write of a queue slot is under a mutex.  An  *)
(* action is therefore one look at the shared state with the decision taken  *)
(* on it, or one change of the shared state, and what the code read earlier  *)
(* can be stale when it acts.  Speed 0 or 1 stands for standing or moving.   *)
(*                                                                           *)
(* The queue is the ring buffer seen from the bus thread: the slots from the *)
(* read cursor to the write cursor, as a sequence.  Two sessions that pass   *)
(* the test for room together let the write cursor run onto the read cursor; *)
(* the full ring then reads as empty.                                        *)
EXTENDS Integers, Sequences

CONSTANTS Sessions,     \* client sessions; a session id is never 0
          N,            \* numberOfGl
          QUEUELEN,     \* slots of the command queue
          Durations,    \* lock durations that clients ask for, in seconds
          DefaultInit,  \* does the bus support protocol 'P', the default?
          MaxCommands   \* bound: commands and ends of sessions altogether

ASSUME LocoAssumption == /\ N \in Nat \ {0} /\ QUEUELEN \in Nat \ {0, 1}
                         /\ 0 \notin Sessions
                         /\ Durations \subseteq Nat /\ MaxCommands \in Nat
                         /\ DefaultInit \in BOOLEAN

VARIABLES glstate,      \* the cache: per address the state and the speed
          queue,        \* commands for the bus thread
          bpc,          \* bus thread: its place in dequeueNextGL and after it
          l,            \* bus thread: its copy of the command, until it is cached
          track,        \* external: the speed each decoder was last told
          locked_by,    \* the lock of the bus: a session or 0
          lockduration, \* seconds the lock has left, 0 for ever
          th,           \* per session thread: where it is, its local variables
          mpc, j, count,\* main thread: its place in unlock_gl_bytime
          left,         \* commands the sessions may still issue
          clash,        \* history: two threads met in the middle of lock changes
          unstopped,    \* history: addresses whose INIT had its stop refused, or
                        \* lost in the ring, and that were told nothing since
          asked, age    \* history: the lock duration asked for, seconds since

busVars  == <<queue, bpc, l, track>>
lockVars == <<locked_by, lockduration, clash, asked, age>>
mainVars == <<mpc, j, count>>
cacheVars == <<glstate, unstopped>>
vars == <<cacheVars, busVars, lockVars, mainVars, th, left>>

Addr == 1 .. N

Command == [id : Addr, speed : {0, 1}, direction : {1, 2}]

Dead == [state |-> 0, speed |-> 0]      \* a record set to all zero
Living == [state |-> 1, speed |-> 0]    \* a record as cacheInitGL leaves it

isInitializedGL(a) == glstate[a].state = 1

Stop(a) == [id |-> a, speed |-> 0, direction |-> 1]

\* dequeueNextGL between its test for a command and out++.
Reading == bpc \in {"copy", "consume"}

\* With all slots written the cursors are equal, as they are with none.
queue_len == IF Len(queue) = QUEUELEN THEN 0 ELSE Len(queue)

queue_isfull == queue_len >= QUEUELEN - 1

\* A session thread between two commands; "stops" counts the stops that a
\* nested INIT still owes.
IdleThread == [pc |-> "idle", cmd |-> "none", job |-> Stop(1), stops |-> 0]

Init == /\ glstate = [a \in Addr |-> Dead]
        /\ queue = <<>> /\ bpc = "test" /\ l = <<>>
        /\ track = [a \in Addr |-> 0]
        /\ locked_by = 0 /\ lockduration = 0
        /\ th = [s \in Sessions |-> IdleThread]
        /\ mpc = "read" /\ j = 1 /\ count = 0
        /\ left = MaxCommands
        /\ clash = FALSE /\ unstopped = {}
        /\ asked = 0 /\ age = 0

At(s, p) == th[s].pc = p

\* The thread of s goes on at p; what its handler held is dropped at the end.
Goto(s, p) == th' = [th EXCEPT ![s] = IF p = "idle" THEN IdleThread ELSE [@ EXCEPT !.pc = p]]

Begin(s, c, command, p) ==
    /\ At(s, "idle") /\ left > 0
    /\ left' = left - 1
    /\ th' = [th EXCEPT ![s] = IF p = "idle" THEN IdleThread
                               ELSE [pc |-> p, cmd |-> c, job |-> command, stops |-> 0]]

-----------------------------------------------------------------------------
(* SET, INIT and TERM look at the lock first.  cacheGetLockGL answers for an *)
(* initialised address only: the handlers of SET and INIT then keep their    *)
(* initial 0, the one of TERM an indeterminate value.                        *)

LockId(c, a) == IF isInitializedGL(a) THEN {locked_by}
                ELSE IF c = "term" THEN Sessions \cup {0} ELSE {0}

\* A client drives, or makes an emergency stop, direction 2, which disregards
\* the lock; driving with speed 0 is left to the stop that INIT enqueues.
SetGL(s) == \E command \in Command : \E lockid \in LockId("set", command.id) :
    /\ command.speed = 1 <=> command.direction = 1
    /\ Begin(s, "set", command,
             IF lockid \in {0, s} \/ command.direction = 2 THEN "enqueue" ELSE "idle")
    /\ UNCHANGED <<cacheVars, busVars, lockVars, mainVars>>

HandleInit(s) == \E a \in Addr : \E lockid \in LockId("init", a) :
    /\ Begin(s, "init", Stop(a), IF lockid \in {0, s} THEN "init" ELSE "idle")
    /\ UNCHANGED <<cacheVars, busVars, lockVars, mainVars>>

HandleTerm(s) == \E a \in Addr : \E lockid \in LockId("term", a) :
    /\ Begin(s, "term", [Stop(a) EXCEPT !.direction = 2],
             IF lockid = 0 THEN "term" ELSE IF lockid = s THEN "testlock" ELSE "idle")
    /\ UNCHANGED <<cacheVars, busVars, lockVars, mainVars>>

-----------------------------------------------------------------------------
(* enqueueGL and cacheInitGL. *)

\* Where enqueueGL returns to: cacheTermGL goes on with cacheSetGL.
Return(s) == IF th[s].cmd = "term" THEN "brake" ELSE "idle"

\* The write of a slot and in++, under the mutex; the test was made before.
\* When the cursors meet the ring reads as empty.  If the bus thread is about
\* to move its cursor on, the slots come back with out++, unless a session
\* takes the ring for empty and writes the slot that is being read.
PutCommand(c) ==
    LET written == Append(queue, c)
        overrun == Len(queue) >= IF Reading THEN QUEUELEN ELSE QUEUELEN - 1
    IN  /\ queue' = IF ~overrun THEN written ELSE IF Reading THEN <<c>> ELSE <<>>
        /\ unstopped' = IF ~overrun THEN unstopped
                        ELSE unstopped \cup {a \in Addr : \E i \in DOMAIN written :
                                                              written[i] = Stop(a)}

\* Initialise with a bug that CacheMatchesTrack has to show.
InitialiseOnly(s) ==
    /\ glstate' = [glstate EXCEPT ![th[s].job.id] = Living]
    /\ Goto(s, IF th[s].cmd = "init" THEN "idle" ELSE "put")

\* cacheInitGL fills the record, whatever it held, and owes a stop.
Initialise(s) ==
    /\ glstate' = [glstate EXCEPT ![th[s].job.id] = Living]
    /\ th' = [th EXCEPT ![s] = [@ EXCEPT !.pc = "initstop", !.stops = th[s].stops + 1]]

InitGL(s) == /\ At(s, "init")
             /\ Initialise(s)
             /\ UNCHANGED <<unstopped, busVars, lockVars, mainVars, left>>

\* An address that was never initialised gets a default INIT first, if the
\* bus supports the protocol that is the default.
Known(a) == isInitializedGL(a) \/ ~DefaultInit

EnqueueGL(s) ==
    /\ At(s, "enqueue")
    /\ IF Known(th[s].job.id) THEN Goto(s, "put") /\ UNCHANGED glstate
                              ELSE Initialise(s)
    /\ UNCHANGED <<unstopped, busVars, lockVars, mainVars, left>>

\* A full queue answers SRCP_TEMPORARILYPROHIBITED; the mutex comes after.
PutGL(s) == /\ At(s, "put")
            /\ Goto(s, IF queue_isfull THEN Return(s) ELSE "write")
            /\ UNCHANGED <<cacheVars, busVars, lockVars, mainVars, left>>

WriteGL(s) == /\ At(s, "write")
              /\ PutCommand(th[s].job)
              /\ Goto(s, Return(s))
              /\ UNCHANGED <<glstate, bpc, l, track, lockVars, mainVars, left>>

\* The stop of cacheInitGL.  The record can have been terminated again: then
\* enqueueGL, called for the stop, runs cacheInitGL once more, and each of the
\* two enqueues its stop.
InitStop(s) ==
    /\ At(s, "initstop")
    /\ IF Known(th[s].job.id) THEN Goto(s, "owed") /\ UNCHANGED glstate
                              ELSE Initialise(s)
    /\ UNCHANGED <<unstopped, busVars, lockVars, mainVars, left>>

\* Where a call of enqueueGL for a stop returns to.
StopDone(s) ==
    th' = [th EXCEPT ![s] = IF @.stops > 1 THEN [@ EXCEPT !.pc = "owed",
                                                          !.stops = th[s].stops - 1]
                            ELSE IF @.cmd = "init" THEN IdleThread
                            ELSE [@ EXCEPT !.pc = "put", !.stops = 0]]

\* cacheInitGL does not look at the answer.
OwedStop(s) ==
    /\ At(s, "owed")
    /\ IF queue_isfull THEN StopDone(s) /\ unstopped' = unstopped \cup {th[s].job.id}
                       ELSE Goto(s, "writestop") /\ UNCHANGED unstopped
    /\ UNCHANGED <<glstate, busVars, lockVars, mainVars, left>>

WriteStop(s) == /\ At(s, "writestop")
                /\ PutCommand(Stop(th[s].job.id))
                /\ StopDone(s)
                /\ UNCHANGED <<glstate, bpc, l, track, lockVars, mainVars, left>>

-----------------------------------------------------------------------------
(* cacheTermGL. *)

\* A locomotive that the cache says is moving is braked first.
TermGL(s) ==
    /\ At(s, "term")
    /\ LET gl == glstate[th[s].job.id]
       IN  Goto(s, IF gl.state # 1 THEN "idle"               \* SRCP_NODATA
                   ELSE IF gl.speed # 0 THEN "enqueue" ELSE "clear")
    /\ UNCHANGED <<cacheVars, busVars, lockVars, mainVars, left>>

\* cacheSetGL with the local copy of the record; state 2, "terminating", is
\* set in that copy alone and never reaches the cache.
BrakeGL(s) == /\ At(s, "brake")
              /\ glstate' = [glstate EXCEPT ![th[s].job.id].speed = 0]
              /\ Goto(s, "clear")
              /\ UNCHANGED <<unstopped, busVars, lockVars, mainVars, left>>

ClearGL(s) == /\ At(s, "clear")
              /\ glstate' = [glstate EXCEPT ![th[s].job.id] = Dead]
              /\ Goto(s, "idle")
              /\ UNCHANGED <<unstopped, busVars, lockVars, mainVars, left>>

-----------------------------------------------------------------------------
(* The lock: SET LOCK, TERM LOCK, TERM of one's own lock, end of a session.  *)

\* Between the look at the lock and the last change that follows from it.
Changing(s) == th[s].pc \in {"lock", "duration", "release"}

Meets(s) == mpc # "read" \/ \E t \in Sessions \ {s} : Changing(t)

\* SetLock with a bug that NoTakeover has to show.
SetLockAlways(s) == \E a \in Addr :
    /\ Begin(s, "lock", Stop(a), IF isInitializedGL(a) THEN "lock" ELSE "idle")
    /\ UNCHANGED <<cacheVars, busVars, lockVars, mainVars>>

SetLock(s) == \E a \in Addr :
    /\ Begin(s, "lock", Stop(a),
             IF isInitializedGL(a) /\ locked_by \in {0, s} THEN "lock" ELSE "idle")
    /\ UNCHANGED <<cacheVars, busVars, lockVars, mainVars>>

\* "has to use a semaphore, must be atomized!": the holder may have changed.
LockGL(s) == /\ At(s, "lock")
             /\ locked_by' = s
             /\ clash' = (clash \/ Meets(s))
             /\ Goto(s, "duration")
             /\ UNCHANGED <<cacheVars, busVars, lockduration, asked, age, mainVars, left>>

LockDuration(s) == /\ At(s, "duration")
                   /\ \E d \in Durations : lockduration' = d /\ asked' = d
                   /\ age' = 0
                   /\ clash' = (clash \/ Meets(s))
                   /\ Goto(s, "idle")
                   /\ UNCHANGED <<cacheVars, busVars, locked_by, mainVars, left>>

TermLock(s) == \E a \in Addr :
    /\ Begin(s, "unlock", Stop(a), "testlock")
    /\ UNCHANGED <<cacheVars, busVars, lockVars, mainVars>>

\* The next address of the loop in unlock_gl_bysessionid, or the thread's end.
NextAddress(s) ==
    th' = [th EXCEPT ![s] = IF @.job.id = N THEN [IdleThread EXCEPT !.pc = "gone"]
                            ELSE [@ EXCEPT !.pc = "bysession",
                                           !.job = Stop(th[s].job.id + 1)]]

\* cacheUnlockGL: without an initialised address it is SRCP_WRONGVALUE.
TestLock(s) ==
    /\ At(s, "testlock")
    /\ IF isInitializedGL(th[s].job.id) /\ locked_by \in {0, s} THEN Goto(s, "release")
       ELSE IF th[s].cmd = "quit" THEN NextAddress(s) ELSE Goto(s, "idle")
    /\ UNCHANGED <<cacheVars, busVars, lockVars, mainVars, left>>

ReleaseGL(s) ==
    /\ At(s, "release")
    /\ locked_by' = 0
    /\ clash' = (clash \/ Meets(s))
    /\ IF th[s].cmd = "quit" THEN NextAddress(s)
       ELSE Goto(s, IF th[s].cmd = "term" THEN "term" ELSE "idle")
    /\ UNCHANGED <<cacheVars, busVars, lockduration, asked, age, mainVars, left>>

\* unlock_gl_bysessionid, when the session's thread ends: address by address.
Quit(s) ==
    /\ Begin(s, "quit", Stop(1), "bysession")
    /\ UNCHANGED <<cacheVars, busVars, lockVars, mainVars>>

UnlockBySession(s) ==
    /\ At(s, "bysession")
    /\ IF locked_by = s THEN Goto(s, "testlock") ELSE NextAddress(s)
    /\ UNCHANGED <<cacheVars, busVars, lockVars, mainVars, left>>

-----------------------------------------------------------------------------
(* unlock_gl_bytime, which the main thread calls once per second: the one    *)
(* lock of the bus is counted down once for every address.  With j = 1 and   *)
(* mpc = "read" the second that ends here is still running.                  *)

NextGL == mpc' = "read" /\ j' = IF j = N THEN 1 ELSE j + 1

ReadDuration ==
    /\ mpc = "read"
    /\ age' = IF j = 1 /\ lockduration > 0 THEN age + 1 ELSE age
    /\ IF lockduration > 0 THEN mpc' = "store" /\ count' = lockduration /\ UNCHANGED j
                           ELSE NextGL /\ UNCHANGED count
    /\ UNCHANGED <<cacheVars, busVars, locked_by, lockduration, clash, asked, th, left>>

\* StoreDuration with a bug that LockLastsAShare has to show.
StoreDurationEarly ==
    /\ mpc = "store"
    /\ lockduration' = count - 1
    /\ count' = 0
    /\ clash' = (clash \/ \E s \in Sessions : Changing(s))
    /\ IF count = 2 /\ isInitializedGL(j) THEN mpc' = "release" /\ UNCHANGED j ELSE NextGL
    /\ UNCHANGED <<cacheVars, busVars, locked_by, asked, age, th, left>>

\* At the end of the count cacheUnlockGL follows; the holder is an argument
\* of the call, so whoever it is, it matches.
StoreDuration ==
    /\ mpc = "store"
    /\ lockduration' = count - 1
    /\ count' = 0
    /\ clash' = (clash \/ \E s \in Sessions : Changing(s))
    /\ IF count = 1 /\ isInitializedGL(j) THEN mpc' = "release" /\ UNCHANGED j ELSE NextGL
    /\ UNCHANGED <<cacheVars, busVars, locked_by, asked, age, th, left>>

ReleaseByTime ==
    /\ mpc = "release"
    /\ locked_by' = 0
    /\ clash' = (clash \/ \E s \in Sessions : Changing(s))
    /\ asked' = 0 /\ age' = 0
    /\ NextGL
    /\ UNCHANGED <<cacheVars, busVars, lockduration, count, th, left>>

unlock_gl_bytime == ReadDuration \/ StoreDuration \/ ReleaseByTime

-----------------------------------------------------------------------------
(* The bus thread: handle_gl_command of the loopback driver.  A driver with  *)
(* hardware tells the decoder before it updates the cache.  dequeueNextGL    *)
(* takes no mutex: it tests, copies the slot, and moves its cursor.          *)

Speed(c) == IF c.direction = 2 THEN 0 ELSE c.speed

TestGL == /\ bpc = "test" /\ queue_len # 0
          /\ bpc' = "copy"
          /\ UNCHANGED <<cacheVars, queue, l, track, lockVars, mainVars, th, left>>

CopyGL == /\ bpc = "copy"
          /\ l' = <<Head(queue)>>
          /\ bpc' = "consume"
          /\ UNCHANGED <<cacheVars, queue, track, lockVars, mainVars, th, left>>

HandleGLCommand == /\ bpc = "consume"
                   /\ queue' = Tail(queue)
                   /\ track' = [track EXCEPT ![Head(l).id] = Speed(Head(l))]
                   /\ bpc' = "cache"
                   /\ UNCHANGED <<cacheVars, l, lockVars, mainVars, th, left>>

\* cacheSetGL does not ask whether the address is still initialised.
CacheSetGL == /\ bpc = "cache"
              /\ glstate' = [glstate EXCEPT ![Head(l).id].speed = Speed(Head(l))]
              /\ unstopped' = unstopped \ {Head(l).id}
              /\ l' = <<>>
              /\ bpc' = "test"
              /\ UNCHANGED <<queue, track, lockVars, mainVars, th, left>>

Bus == TestGL \/ CopyGL \/ HandleGLCommand \/ CacheSetGL

Request(s) == SetGL(s) \/ HandleInit(s) \/ HandleTerm(s) \/ SetLock(s) \/ TermLock(s) \/ Quit(s)

Step(s) == \/ EnqueueGL(s) \/ PutGL(s) \/ WriteGL(s)
           \/ InitGL(s) \/ InitStop(s) \/ OwedStop(s) \/ WriteStop(s)
           \/ TermGL(s) \/ BrakeGL(s) \/ ClearGL(s)
           \/ LockGL(s) \/ LockDuration(s) \/ TestLock(s) \/ ReleaseGL(s)
           \/ UnlockBySession(s)

Next == Bus \/ unlock_gl_bytime \/ \E s \in Sessions : Request(s) \/ Step(s)

Spec == Init /\ [][Next]_vars

-----------------------------------------------------------------------------
(* Properties. *)

\* Type invariant.  State 2, "terminating" in srcp-gl.h, is never stored.
TypeOK ==
    /\ glstate \in [Addr -> [state : {0, 1}, speed : {0, 1}]]
    /\ queue \in Seq(Command) /\ Len(queue) <= QUEUELEN
    /\ Len(queue) = QUEUELEN => Reading
    /\ bpc \in {"test", "copy", "consume", "cache"}
    /\ l \in Seq(Command) /\ Len(l) <= 1
    /\ track \in [Addr -> {0, 1}]
    /\ locked_by \in Sessions \cup {0}
    /\ lockduration \in Nat
    /\ th \in [Sessions -> [pc : {"idle", "enqueue", "put", "write", "initstop", "owed", "writestop", "init", "term",
                                  "brake", "clear", "lock", "duration", "testlock", "release",
                                  "bysession", "gone"},
                            cmd : {"none", "set", "init", "term", "lock", "unlock", "quit"},
                            job : Command, stops : Nat]]
    /\ mpc \in {"read", "store", "release"} /\ j \in Addr /\ count \in Nat
    /\ left \in 0 .. MaxCommands
    /\ clash \in BOOLEAN /\ unstopped \subseteq Addr
    /\ asked \in Nat /\ age \in Nat

\* Whatever INIT, TERM, SET and the bus thread did to the record of a living
\* locomotive, in whatever order: once the commands are carried out, the cache
\* that every client sees says what the decoder was told.  What can break this
\* is a stop of INIT that found the queue full, or that an overrun lost, until
\* the next command of that address.
Quiet == /\ queue = <<>> /\ bpc = "test"
         /\ \A s \in Sessions : th[s].pc \in {"idle", "gone"}

CacheMatchesTrack == Quiet => \A a \in Addr \ unstopped :
    isInitializedGL(a) => glstate[a].speed = track[a]

\* A lock passes from one session to another only over the state "free", as
\* long as no two threads met between the look at the lock and its change.
NoTakeover ==
    [][locked_by # 0 => clash' \/ locked_by' \in {0, locked_by}]_vars

\* The main thread counts the lock of the bus down once per address in each
\* call of unlock_gl_bytime: all a client can rely on is that its lock sees the
\* N-th part of the calls it asked for, the call under way included.
LockLastsAShare == mpc = "release" /\ locked_by # 0 /\ ~clash => (age + 1) * N > asked
=============================================================================
