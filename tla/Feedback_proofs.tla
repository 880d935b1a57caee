--------------------------- MODULE Feedback_proofs ----------------------------
(* Proofs about feedback, for any number of contacts, sessions and SET FB    *)
(* commands, every min_time and every length of the queue of resets; and     *)
(* about the Selectrix driver, which reads feedback modules by itself, for   *)
(* every set of configurations and any number of modules, commands, events   *)
(* and polls.                                                                *)
EXTENDS Feedback, Selectrix, SequenceTheorems, TLAPS

\* Where a thread is in updateFB, or carries a reset out; and where the bus
\* thread is with the queue of resets.
Works == {"fall", "change", "enqueue", "write", "rise", "set", "info", "send0", "send1", "reset"}
Pcs == Works \cup {"idle", "copy", "look", "drop", "unqueue"}

Thread == [pc : Pcs, port : Ports \cup {NoPort}, age : 0 .. min_time]

-----------------------------------------------------------------------------
(* The inductive invariant.  It says what a thread in the middle of updateFB *)
(* or check_reset_fb still owes to its port, if it has that port to itself.  *)

Active(t, p) == th[t].pc \notin {"idle", "copy", "look", "drop"} /\ th[t].port = p

\* A thread at work is at work on a port.
Working == \A t \in Threads : th[t].pc \notin {"idle", "copy"} => th[t].port \in Ports

\* The first reset is about to leave the queue.
Leaving == th[Bus].pc \in {"drop", "unqueue"}

Queued(p) == \E i \in DOMAIN reset_queue : reset_queue[i].port = p /\ (Leaving => i # 1)

\* What the bus thread has copied is the first reset still, or an overrun put
\* another one there: that one's port is forgotten or has queued a reset since.
Copied == \/ reset_queue[1].port \in forgotten \cup {th[Bus].port}
          \/ \E i \in DOMAIN reset_queue : i # 1 /\ reset_queue[i].port = reset_queue[1].port

ReadInv == (Reading => reset_queue # <<>>) /\ (At(Bus, "look") => Copied)

\* What holds of a port on which no thread is active.
Quiet(p) == /\ informed[p] = fbstate[p].state
            /\ p \notin forgotten /\ reported[p] = 0 /\ fbstate[p].state = 1 =>
                 fbstate[p].change = -1 /\ Queued(p)

\* What holds of a port that thread t has to itself.
Doing(t, p) ==
    /\ th[t].pc \notin {"info", "send0", "send1"} => informed[p] = fbstate[p].state
    /\ th[t].pc \in {"rise", "set"} => reported[p] = 1
    /\ th[t].pc \in {"enqueue", "write"} => fbstate[p].change = -1
    /\ At(t, "info") => reported[p] = 1 \/ fbstate[p].state = 0
    /\ At(t, "send1") => fbstate[p].state = 1 /\ reported[p] = 1
    /\ At(t, "send0") => fbstate[p].state = 0

PortInv(p) ==
    /\ \A t, u \in Threads : Active(t, p) /\ Active(u, p) => t = u
    /\ ~Busy(p) => Quiet(p)
    /\ \A t \in Threads : Active(t, p) => Doing(t, p)

AllPorts == \A p \in Ports : p \notin clash => PortInv(p)

IInv == TypeOK /\ Working /\ ReadInv /\ AllPorts

-----------------------------------------------------------------------------
(* What a step does to the threads. *)

LEMMA BusIsThread == Bus \in Threads /\ Sessions \subseteq Threads
  BY DEF Threads

LEMMA MinTimeType == ASSUME TypeOK PROVE min_time \in Nat
  BY FeedbackAssumption DEF TypeOK

LEMMA ThreadTypes == ASSUME TypeOK PROVE th \in [Threads -> Thread] /\ IdleThread \in Thread
  BY MinTimeType DEF TypeOK, Thread, Pcs, Works, IdleThread

\* Thread t is all that changes; it is at c next.
Moves(t, c) ==
    /\ th' \in [Threads -> Thread]
    /\ th'[t].pc = c
    /\ \A u \in Threads \ {t} : th'[u] = th[u]

LEMMA GotoMoves ==
    ASSUME TypeOK, NEW t \in Threads, NEW c \in Pcs, Goto(t, c)
    PROVE  Moves(t, c) /\ (c # "idle" => th'[t].port = th[t].port)
<1>1. th \in [Threads -> Thread] /\ IdleThread \in Thread
  BY ThreadTypes
<1>2. CASE c = "idle"
  BY <1>1, <1>2 DEF Goto, Moves, IdleThread
<1>3. CASE c # "idle"
  <2>1. th' = [th EXCEPT ![t] = [th[t] EXCEPT !.pc = c]]
    BY <1>1, <1>3 DEF Goto
  <2>2. [th[t] EXCEPT !.pc = c] \in Thread
    BY <1>1 DEF Thread
  <2>3. th'[t] = [th[t] EXCEPT !.pc = c]
    BY <1>1, <2>1
  <2>4. th'[t].pc = c /\ th'[t].port = th[t].port
    BY <1>1, <2>3 DEF Thread
  <2> QED
    BY <1>1, <2>1, <2>2, <2>4 DEF Moves
<1> QED
  BY <1>2, <1>3

LEMMA StartMoves ==
    ASSUME TypeOK, NEW t \in Threads, NEW p \in Ports, NEW c \in Pcs, Start(t, p, c)
    PROVE  /\ th[t].pc = "idle" /\ Moves(t, c) /\ (c # "idle" => th'[t].port = p)
           /\ clash' \in SUBSET Ports
           /\ clash \subseteq clash' /\ (Busy(p) => p \in clash')
<1>1. th \in [Threads -> Thread] /\ IdleThread \in Thread /\ min_time \in Nat
  BY ThreadTypes, MinTimeType
<1>2. clash' \in SUBSET Ports /\ clash \subseteq clash' /\ (Busy(p) => p \in clash')
  <2>1. CASE Busy(p)
    BY <2>1 DEF Start, TypeOK
  <2>2. CASE ~Busy(p)
    BY <2>2 DEF Start, TypeOK
  <2> QED
    BY <2>1, <2>2
<1>3. CASE c = "idle"
  BY <1>1, <1>2, <1>3 DEF Start, Moves, IdleThread, At
<1>4. CASE c # "idle"
  <2> DEFINE r == [pc |-> c, port |-> p, age |-> 0]
  <2>1. th' = [th EXCEPT ![t] = r] /\ th[t].pc = "idle"
    BY <1>4 DEF Start, At
  <2>2. r \in Thread
    BY <1>1 DEF Thread
  <2> QED
    BY <1>1, <1>2, <2>1, <2>2 DEF Moves
<1> QED
  BY <1>3, <1>4

-----------------------------------------------------------------------------
(* Frames: a port on which the step does not work, and one on which it does. *)

LEMMA Elsewhere ==
    ASSUME NEW t \in Threads, NEW p \in Ports, PortInv(p),
           ~Active(t, p), ~Active(t, p)',
           \A u \in Threads \ {t} : th'[u] = th[u],
           fbstate'[p] = fbstate[p], informed'[p] = informed[p], reported'[p] = reported[p],
           Quiet(p) => Quiet(p)'
    PROVE  PortInv(p)'
<1>1. \A u \in Threads : Active(u, p)' <=> Active(u, p)
  BY DEF Active, At
<1>2. Busy(p)' <=> Busy(p)
  BY <1>1 DEF Busy, Active, At
<1>3. \A u \in Threads : Active(u, p)' /\ Doing(u, p) => Doing(u, p)'
  BY DEF Doing, Active, At
<1> QED
  BY <1>1, <1>2, <1>3 DEF PortInv

LEMMA Here ==
    ASSUME NEW t \in Threads, NEW p \in Ports,
           \A u \in Threads \ {t} : ~Active(u, p) /\ th'[u] = th[u],
           th'[t].pc \in {"idle"} \cup Works \cup {"unqueue"},
           th'[t].pc = "idle" => Quiet(p)',
           th'[t].pc # "idle" => Active(t, p)' /\ Doing(t, p)'
    PROVE  PortInv(p)'
<1>1. \A u \in Threads \ {t} : ~Active(u, p)'
  BY DEF Active, At
<1>2. CASE th'[t].pc = "idle"
  BY <1>1, <1>2 DEF PortInv, Active, At
<1>3. CASE th'[t].pc # "idle"
  BY <1>1, <1>3 DEF PortInv, Active, Busy, At
<1> QED
  BY <1>2, <1>3

-----------------------------------------------------------------------------
(* updateFB, and a reset that is carried out. *)

\* Where the thread goes, and what it leaves of its port.
LEMMA UpdateMoves ==
    ASSUME TypeOK, Working, NEW t \in Threads, updateFB(t) \/ (t = Bus /\ Reset)
    PROVE  /\ th[t].pc \in Works /\ th[t].port \in Ports
           /\ \E c \in Works \cup {"idle"} :
                Moves(t, c) /\ (c # "idle" => th'[t].port = th[t].port)
           /\ \A p \in Ports \ {th[t].port} :
                fbstate'[p] = fbstate[p] /\ informed'[p] = informed[p]
           /\ UNCHANGED <<min_time, contact, turn, reported, clash, left>>
<1>0. th[t].pc \in Works /\ \E c \in Works \cup {"idle"} : Goto(t, c)
  <2>1. CASE Info(t)
    BY <2>1 DEF Info, Works, At
  <2>2. CASE Rise(t)
    <3>1. Goto(t, "idle") \/ Goto(t, "set")
      BY <2>2 DEF Rise
    <3> QED
      BY <2>2, <3>1 DEF Rise, Works, At
  <2>3. CASE Fall(t) \/ Change(t) \/ WaitForRoom(t) \/ Set(t) \/ Send(t)
    BY <2>3 DEF Fall, Change, WaitForRoom, Set, Send, Works, At
  <2>4. CASE Enqueue(t)
    BY <2>4 DEF Enqueue, Works, At
  <2>5. CASE t = Bus /\ Reset
    BY <2>5 DEF Reset, Works, At
  <2> QED
    BY <2>1, <2>2, <2>3, <2>4, <2>5, Zenon DEF updateFB
<1>1. th[t].port \in Ports
  BY <1>0 DEF Working, Works
<1>2. \E c \in Works \cup {"idle"} : Moves(t, c) /\ (c # "idle" => th'[t].port = th[t].port)
  BY <1>0, GotoMoves DEF Pcs, Works
<1>3. \A p \in Ports \ {th[t].port} : fbstate'[p] = fbstate[p] /\ informed'[p] = informed[p]
  BY <1>1 DEF TypeOK, updateFB, Fall, Change, WaitForRoom, Enqueue, Rise, Set, Info, Send,
              Reset, portVars
<1>4. UNCHANGED <<min_time, contact, turn, reported, clash, left>>
  BY DEF updateFB, Fall, Change, WaitForRoom, Enqueue, Rise, Set, Info, Send, Reset, portVars
<1> QED
  BY <1>0, <1>1, <1>2, <1>3, <1>4

\* Only Enqueue is at the queue.
LEMMA QueueStays ==
    ASSUME NEW t \in Threads, updateFB(t) \/ (t = Bus /\ Reset), ~Enqueue(t)
    PROVE  UNCHANGED resetVars
  BY DEF updateFB, Fall, Change, WaitForRoom, Rise, Set, Info, Send, Reset, resetVars

\* A thread that goes on with updateFB leaves the bus thread's reading alone.
LEMMA BusReads ==
    ASSUME NEW t \in Threads, th[t].pc \in Works \cup {"idle"}, th'[t].pc \in Works \cup {"idle"},
           \A u \in Threads \ {t} : th'[u] = th[u]
    PROVE  /\ Reading' <=> Reading
           /\ Leaving' <=> Leaving
           /\ At(Bus, "look")' => At(Bus, "look") /\ th'[Bus] = th[Bus]
<1>1. CASE t = Bus
  BY <1>1 DEF Reading, Leaving, At, Works
<1>2. CASE t # Bus
  BY <1>2, BusIsThread DEF Reading, Leaving, At
<1> QED
  BY <1>1, <1>2

ResetType == [port : Ports, age : 0 .. min_time]

\* The reset that is written follows those before it, or the ring overruns.
LEMMA EnqueueWays ==
    ASSUME TypeOK, Working, ReadInv, NEW t \in Threads, Enqueue(t)
    PROVE  LET r == [port |-> th[t].port, age |-> th[t].age]
           IN  /\ r \in ResetType /\ r.port = th[t].port
               /\ \/ /\ reset_queue' = Append(reset_queue, r)
                     /\ forgotten' = forgotten \ {th[t].port}
                     /\ Len(reset_queue) < IF Reading THEN QUEUELENGTH_FB
                                                       ELSE QUEUELENGTH_FB - 1
                  \/ /\ forgotten' = forgotten \cup PortsIn(Append(reset_queue, r))
                     /\ reset_queue' = IF Reading THEN <<r>> ELSE <<>>
<1> DEFINE r == [port |-> th[t].port, age |-> th[t].age]
           written == Append(reset_queue, r)
<1>1. r \in ResetType /\ r.port = th[t].port
  BY ThreadTypes DEF Thread, Working, Enqueue, At, ResetType
<1>2. reset_queue \in Seq(ResetType)
  BY DEF TypeOK, ResetType
<1>3. written[Len(written)] = r
  BY <1>1, <1>2
<1>4. Len(reset_queue) \in Nat /\ QUEUELENGTH_FB \in Nat
  BY <1>2, FeedbackAssumption
<1> DEFINE limit == IF Reading THEN QUEUELENGTH_FB ELSE QUEUELENGTH_FB - 1
<1>5. CASE Len(reset_queue) >= limit
  BY <1>1, <1>3, <1>5 DEF Enqueue
<1>6. CASE ~(Len(reset_queue) >= limit)
  <2>1. Len(reset_queue) < limit
    BY <1>4, <1>6
  <2> QED
    BY <1>1, <1>6, <2>1 DEF Enqueue
<1> QED
  BY <1>5, <1>6

\* What is waiting stays, but for what the overrun makes forgotten.
LEMMA EnqueueKeeps ==
    ASSUME TypeOK, Working, ReadInv, NEW t \in Threads, Enqueue(t), Reading' <=> Reading,
           Leaving' <=> Leaving, At(Bus, "look")' => At(Bus, "look") /\ th'[Bus] = th[Bus]
    PROVE  /\ reset_queue' \in Seq(ResetType) /\ Len(reset_queue') <= QUEUELENGTH_FB
           /\ Len(reset_queue') = QUEUELENGTH_FB => Reading
           /\ forgotten' \in SUBSET Ports
           /\ ReadInv'
           /\ \A p \in Ports : p \notin forgotten' =>
                /\ Queued(p) \/ p = th[t].port => Queued(p)'
                /\ p = th[t].port \/ p \notin forgotten
<1> DEFINE r == [port |-> th[t].port, age |-> th[t].age]
<1>1. /\ r \in ResetType /\ r.port = th[t].port
      /\ \/ /\ reset_queue' = Append(reset_queue, r)
            /\ forgotten' = forgotten \ {th[t].port}
            /\ Len(reset_queue) < IF Reading THEN QUEUELENGTH_FB ELSE QUEUELENGTH_FB - 1
         \/ /\ forgotten' = forgotten \cup PortsIn(Append(reset_queue, r))
            /\ reset_queue' = IF Reading THEN <<r>> ELSE <<>>
  BY EnqueueWays
<1>2. reset_queue \in Seq(ResetType) /\ Len(reset_queue) \in Nat /\ forgotten \in SUBSET Ports
  BY DEF TypeOK, ResetType
<1>3. QUEUELENGTH_FB \in Nat /\ QUEUELENGTH_FB > 1 /\ th[t].port \in Ports
  BY <1>1, FeedbackAssumption DEF ResetType
<1>4. Leaving => Reading
  BY DEF Leaving, Reading
<1> HIDE DEF r
<1>5. CASE /\ reset_queue' = Append(reset_queue, r)
           /\ forgotten' = forgotten \ {th[t].port}
           /\ Len(reset_queue) < IF Reading THEN QUEUELENGTH_FB ELSE QUEUELENGTH_FB - 1
  <2>1. /\ \A i \in DOMAIN reset_queue : i \in DOMAIN reset_queue' /\ reset_queue'[i] = reset_queue[i]
        /\ Len(reset_queue) + 1 \in DOMAIN reset_queue'
        /\ reset_queue'[Len(reset_queue) + 1] = r
        /\ reset_queue' \in Seq(ResetType) /\ Len(reset_queue') = Len(reset_queue) + 1
        /\ reset_queue # <<>> => 1 \in DOMAIN reset_queue /\ Len(reset_queue) + 1 # 1
    BY <1>1, <1>2, <1>5
  <2>2. /\ Len(reset_queue') <= QUEUELENGTH_FB
        /\ Len(reset_queue') = QUEUELENGTH_FB => Reading
    BY <1>2, <1>3, <1>5, <2>1
  <2>3. reset_queue' # <<>>
    BY <2>1
  <2>4. ASSUME At(Bus, "look")' PROVE Copied'
    <3>1. Reading /\ At(Bus, "look") /\ th'[Bus] = th[Bus]
      BY <2>4 DEF Reading, At
    <3>2. reset_queue # <<>> /\ Copied
      BY <3>1 DEF ReadInv
    <3>3. reset_queue'[1] = reset_queue[1]
      BY <2>1, <3>2
    <3>4. CASE reset_queue[1].port = th[t].port
      BY <1>1, <2>1, <3>2, <3>3, <3>4 DEF Copied
    <3>5. CASE reset_queue[1].port # th[t].port
      BY <1>5, <2>1, <3>1, <3>2, <3>3, <3>5 DEF Copied
    <3> QED
      BY <3>4, <3>5
  <2>5. ASSUME NEW p \in Ports, p \notin forgotten'
        PROVE  /\ Queued(p) \/ p = th[t].port => Queued(p)'
               /\ p = th[t].port \/ p \notin forgotten
    <3>1. p = th[t].port \/ p \notin forgotten
      BY <1>5, <2>5
    <3>2. Queued(p) => Queued(p)'
      BY <2>1 DEF Queued
    <3>3. p = th[t].port => Queued(p)'
      BY <1>1, <1>4, <2>1 DEF Queued, ReadInv
    <3> QED
      BY <3>1, <3>2, <3>3
  <2> QED
    BY <1>2, <1>5, <2>1, <2>2, <2>3, <2>4, <2>5 DEF ReadInv
<1>6. CASE /\ forgotten' = forgotten \cup PortsIn(Append(reset_queue, r))
           /\ reset_queue' = IF Reading THEN <<r>> ELSE <<>>
  <2>1. Append(reset_queue, r) \in Seq(ResetType)
    BY <1>1, <1>2
  <2>2. \A i \in DOMAIN Append(reset_queue, r) : Append(reset_queue, r)[i] \in ResetType
    BY <2>1
  <2>3. PortsIn(Append(reset_queue, r)) \subseteq Ports
    BY <2>2 DEF PortsIn, ResetType
  <2>4. th[t].port \in forgotten'
    <3>1. Len(reset_queue) + 1 \in DOMAIN Append(reset_queue, r)
          /\ Append(reset_queue, r)[Len(reset_queue) + 1] = r
      BY <1>1, <1>2
    <3> QED
      BY <1>1, <1>6, <3>1 DEF PortsIn
  <2>5. ASSUME NEW p \in Ports, Queued(p) PROVE p \in forgotten'
    <3>1. PICK i \in DOMAIN reset_queue : reset_queue[i].port = p
      BY <2>5 DEF Queued
    <3>2. i \in DOMAIN Append(reset_queue, r) /\ Append(reset_queue, r)[i] = reset_queue[i]
      BY <1>1, <1>2, <3>1
    <3> QED
      BY <1>6, <3>1, <3>2 DEF PortsIn
  <2>6. /\ reset_queue' \in Seq(ResetType) /\ Len(reset_queue') <= 1
        /\ Reading => reset_queue' # <<>> /\ reset_queue'[1] = r
    BY <1>1, <1>6
  <2>7. At(Bus, "look")' => Copied'
    BY <1>1, <2>4, <2>6 DEF Reading, At, Copied
  <2>8. Len(reset_queue') \in Nat
    BY <2>6
  <2>9. Len(reset_queue') < QUEUELENGTH_FB
    BY <1>3, <2>6, <2>8
  <2> QED
    BY <1>2, <1>3, <1>6, <2>3, <2>4, <2>5, <2>6, <2>7, <2>8, <2>9 DEF ReadInv
<1> QED
  BY <1>1, <1>5, <1>6

LEMMA UpdateType ==
    ASSUME TypeOK, Working, ReadInv, NEW t \in Threads, updateFB(t) \/ (t = Bus /\ Reset)
    PROVE  TypeOK' /\ Working' /\ ReadInv'
<1> DEFINE p == th[t].port
<1>1. /\ p \in Ports /\ th' \in [Threads -> Thread]
      /\ th[t].pc \in Works /\ th'[t].pc \in Works \cup {"idle"}
      /\ \A u \in Threads \ {t} : th'[u] = th[u]
      /\ th'[t].pc # "idle" => th'[t].port = p
      /\ UNCHANGED <<min_time, contact, turn, reported, clash, left>>
  BY UpdateMoves DEF Moves
<1>2. fbstate' \in [Ports -> [state : {0, 1}, change : {-1, 0}]]
  <2> USE <1>1 DEF TypeOK
  <2>1. CASE Fall(t) \/ Set(t) \/ (t = Bus /\ Reset)
    <3>1. \E v \in {0, 1} : fbstate' = [fbstate EXCEPT ![p] = [state |-> v, change |-> 0]]
      BY <2>1 DEF Fall, Set, Reset
    <3> QED
      BY <3>1
  <2>2. CASE Change(t)
    BY <2>2 DEF Change
  <2>3. CASE Rise(t)
    <3>1. fbstate' = fbstate \/ fbstate' = [fbstate EXCEPT ![p].change = 0]
      BY <2>3 DEF Rise
    <3> QED
      BY <3>1
  <2>4. CASE WaitForRoom(t) \/ Enqueue(t) \/ Info(t) \/ Send(t)
    BY <2>4 DEF WaitForRoom, Enqueue, Info, Send, portVars
  <2> QED
    BY <2>1, <2>2, <2>3, <2>4, Zenon DEF updateFB
<1>3. informed' \in [Ports -> {0, 1}]
  BY <1>1 DEF TypeOK, updateFB, Fall, Change, WaitForRoom, Enqueue, Rise, Set, Info, Send,
              Reset, portVars
<1>4. /\ Reading' <=> Reading
      /\ Leaving' <=> Leaving
      /\ At(Bus, "look")' => At(Bus, "look") /\ th'[Bus] = th[Bus]
  BY <1>1, BusReads
<1>5. /\ reset_queue' \in Seq(ResetType) /\ Len(reset_queue') <= QUEUELENGTH_FB
      /\ Len(reset_queue') = QUEUELENGTH_FB => Reading
      /\ forgotten' \in SUBSET Ports
      /\ ReadInv'
  <2>1. CASE Enqueue(t)
    BY <1>4, <2>1, EnqueueKeeps
  <2>2. CASE ~Enqueue(t)
    <3>1. UNCHANGED <<reset_queue, forgotten>>
      BY <2>2, QueueStays DEF resetVars
    <3>2. ReadInv'
      BY <1>4, <3>1 DEF ReadInv, Copied
    <3> QED
      BY <3>1, <3>2 DEF TypeOK, ResetType
  <2> QED
    BY <2>1, <2>2
<1>6. Working'
  BY <1>1 DEF Working, At, Works
<1>7. th' \in [Threads -> Thread]' /\ Thread' = Thread /\ ResetType' = ResetType
  BY <1>1 DEF Thread, ResetType
<1>8. th' \in [Threads -> [pc : {"idle", "fall", "change", "enqueue", "write", "rise", "set",
                               "info", "send0", "send1", "copy", "look", "drop", "unqueue",
                               "reset"},
                         port : Ports \cup {NoPort}, age : 0 .. min_time]]
  BY <1>1 DEF Thread, Pcs, Works
<1> QED
  BY <1>1, <1>2, <1>3, <1>4, <1>5, <1>6, <1>8 DEF TypeOK, ResetType

LEMMA UpdateInv ==
    ASSUME TypeOK, Working, ReadInv, AllPorts, NEW t \in Threads,
           updateFB(t) \/ (t = Bus /\ Reset)
    PROVE  AllPorts'
<1> SUFFICES ASSUME NEW p \in Ports, p \notin clash PROVE PortInv(p)'
  BY UpdateMoves DEF AllPorts
<1>1. PortInv(p)
  BY DEF AllPorts
<1>2. /\ th[t].pc \in Works /\ \A u \in Threads \ {t} : th'[u] = th[u]
      /\ th'[t].pc \in Works \cup {"idle"}
      /\ th'[t].pc # "idle" => th'[t].port = th[t].port
      /\ reported' = reported
  BY UpdateMoves DEF Moves
<1>0. /\ Reading' <=> Reading
      /\ Leaving' <=> Leaving
      /\ At(Bus, "look")' => At(Bus, "look") /\ th'[Bus] = th[Bus]
  BY <1>2, BusReads
<1>3. CASE p # th[t].port
  <2>2. fbstate'[p] = fbstate[p] /\ informed'[p] = informed[p]
    BY <1>3, UpdateMoves
  <2>1. Quiet(p) => Quiet(p)'
    <3>1. CASE Enqueue(t)
      <4>1. p \notin forgotten' => p \notin forgotten /\ (Queued(p) => Queued(p)')
        BY <1>0, <1>3, <3>1, EnqueueKeeps
      <4> QED
        BY <1>2, <2>2, <4>1 DEF Quiet
    <3>2. CASE ~Enqueue(t)
      <4>1. reset_queue' = reset_queue /\ forgotten' = forgotten
        BY <3>2, QueueStays DEF resetVars
      <4>2. Queued(p) => Queued(p)'
        BY <1>0, <4>1 DEF Queued
      <4> QED
        BY <1>2, <2>2, <4>1, <4>2 DEF Quiet
    <3> QED
      BY <3>1, <3>2
  <2>3. ~Active(t, p) /\ ~Active(t, p)'
    BY <1>2, <1>3 DEF Active, Works
  <2> QED
    BY <1>1, <1>2, <2>1, <2>2, <2>3, Elsewhere
<1>4. CASE p = th[t].port
  <2>1. Active(t, p) /\ Doing(t, p)
    BY <1>1, <1>2, <1>4 DEF PortInv, Active, Works
  <2>2. \A u \in Threads \ {t} : ~Active(u, p) /\ th'[u] = th[u]
    BY <1>1, <1>2, <2>1 DEF PortInv
  <2>3. th'[t].pc # "idle" => Active(t, p)'
    BY <1>2, <1>4 DEF Active, Works
  <2>4. Moves(t, th'[t].pc) /\ th'[t].pc \in Pcs
    BY UpdateMoves DEF Moves, Pcs, Works
  <2> DEFINE Owed == /\ th'[t].pc = "idle" => Quiet(p)'
                     /\ th'[t].pc # "idle" => Doing(t, p)'
  <2> SUFFICES Owed
    BY <1>2, <2>2, <2>3, Here
  <2> USE <1>4 DEF At
  <2>5. CASE Fall(t)
    <3>1. th'[t].pc = "info"
      BY <2>5, GotoMoves DEF Fall, Moves, Pcs, Works
    <3>2. fbstate'[p].state = 0
      BY <2>5 DEF Fall, TypeOK
    <3> QED
      BY <3>1, <3>2 DEF Doing
  <2>6. CASE Change(t)
    <3>1. th'[t].pc = "enqueue" /\ th[t].pc = "change"
      BY <2>6, GotoMoves DEF Change, Moves, Pcs, Works
    <3>2. fbstate'[p].change = -1 /\ fbstate'[p].state = fbstate[p].state /\ informed' = informed
      BY <2>6 DEF Change, TypeOK
    <3> QED
      BY <2>1, <3>1, <3>2 DEF Doing
  <2>7. CASE Enqueue(t)
    <3>1. th'[t].pc = "idle" /\ th[t].pc = "write" /\ UNCHANGED <<fbstate, informed>>
      BY <2>7, GotoMoves DEF Enqueue, Moves, Pcs, Works, portVars
    <3>2. p \notin forgotten' => Queued(p)'
      BY <1>0, <2>7, EnqueueKeeps
    <3> QED
      BY <1>2, <2>1, <3>1, <3>2 DEF Doing, Quiet
  <2>13. CASE WaitForRoom(t)
    <3>1. th'[t].pc = "write" /\ th[t].pc = "enqueue" /\ UNCHANGED <<fbstate, informed>>
      BY <2>13, GotoMoves DEF WaitForRoom, Moves, Pcs, Works, portVars
    <3> QED
      BY <1>2, <2>1, <3>1 DEF Doing
  <2>8. CASE Rise(t)
    <3>1. th[t].pc = "rise" /\ informed' = informed
      BY <2>8 DEF Rise
    <3>2. fbstate'[p].state = fbstate[p].state
      BY <2>8 DEF Rise, TypeOK
    <3>3. th'[t].pc \in {"idle", "set"}
      <4>1. Goto(t, "idle") \/ Goto(t, "set")
        BY <2>8 DEF Rise
      <4> QED
        BY <4>1, GotoMoves DEF Moves, Pcs, Works
    <3>4. reported'[p] = 1 /\ informed'[p] = fbstate'[p].state
      BY <1>2, <2>1, <3>1, <3>2 DEF Doing
    <3> QED
      BY <3>3, <3>4 DEF Doing, Quiet
  <2>9. CASE Set(t)
    <3>1. th'[t].pc = "info" /\ th[t].pc = "set"
      BY <2>9, GotoMoves DEF Set, Moves, Pcs, Works
    <3> QED
      BY <1>2, <2>1, <3>1 DEF Doing
  <2>10. CASE Info(t)
    <3>1. th[t].pc = "info" /\ UNCHANGED <<fbstate, informed>>
      BY <2>10 DEF Info, portVars
    <3>2. CASE fbstate[p].state = 1
      <4>1. th'[t].pc = "send1"
        BY <2>10, <3>2, GotoMoves DEF Info, Moves, Pcs, Works
      <4> QED
        BY <1>2, <2>1, <3>1, <3>2, <4>1 DEF Doing
    <3>3. CASE fbstate[p].state # 1
      <4>1. th'[t].pc = "send0" /\ fbstate[p].state = 0
        BY <2>10, <3>3, GotoMoves DEF Info, Moves, Pcs, Works, TypeOK
      <4> QED
        BY <3>1, <4>1 DEF Doing
    <3> QED
      BY <3>2, <3>3
  <2>11. CASE Send(t)
    <3>1. th'[t].pc = "idle" /\ th[t].pc \in {"send0", "send1"} /\ fbstate' = fbstate
      BY <2>11, GotoMoves DEF Send, Moves, Pcs, Works
    <3>2. informed'[p] = IF th[t].pc = "send1" THEN 1 ELSE 0
      BY <2>11 DEF Send, TypeOK
    <3> QED
      BY <1>2, <2>1, <3>1, <3>2 DEF Doing, Quiet
  <2>12. CASE t = Bus /\ Reset
    <3>1. th'[t].pc = "info"
      BY <2>12, GotoMoves, BusIsThread DEF Reset, Moves, Pcs, Works
    <3>2. fbstate'[p].state = 0
      BY <2>12 DEF Reset, TypeOK
    <3> QED
      BY <3>1, <3>2 DEF Doing
  <2> HIDE DEF Owed
  <2> QED
    BY <2>5, <2>6, <2>7, <2>8, <2>9, <2>10, <2>11, <2>12, <2>13, Zenon DEF updateFB
<1> QED
  BY <1>3, <1>4

-----------------------------------------------------------------------------
(* A value is given to updateFB. *)

LEMMA ReportMoves ==
    ASSUME TypeOK, NEW t \in Threads, NEW p \in Ports, NEW value \in {0, 1}, Report(t, p, value)
    PROVE  \E c \in Pcs :
             /\ th[t].pc = "idle" /\ Moves(t, c) /\ (c # "idle" => th'[t].port = p)
             /\ clash' \in SUBSET Ports
             /\ clash \subseteq clash' /\ (Busy(p) => p \in clash')
             /\ c = "idle" => fbstate[p].state = value
             /\ c \in {"idle", "rise", "fall", "change"}
             /\ c = "rise" => value = 1
<1> DEFINE c == IF fbstate[p].state = value THEN "idle"
                ELSE IF value = 1 THEN "rise"
                ELSE IF min_time = 0 THEN "fall" ELSE "change"
<1>1. Start(t, p, c)
  BY Zenon DEF Report
<1>2. c \in Pcs /\ c \in {"idle", "rise", "fall", "change"} /\ (c = "rise" => value = 1)
      /\ (c = "idle" => fbstate[p].state = value)
  BY DEF Pcs, Works
<1> HIDE DEF c
<1> QED
  BY <1>1, <1>2, StartMoves

LEMMA ReportType ==
    ASSUME TypeOK, Working, ReadInv, NEW t \in Threads, NEW p \in Ports, NEW value \in {0, 1},
           Report(t, p, value), UNCHANGED <<min_time, contact, portVars, resetVars>>,
           turn' \in {"poll", "check"}, left' \in 0 .. MaxSets
    PROVE  TypeOK' /\ Working' /\ ReadInv'
<1>1. /\ th' \in [Threads -> Thread] /\ clash' \in SUBSET Ports
      /\ \A u \in Threads \ {t} : th'[u] = th[u]
      /\ th[t].pc = "idle" /\ th'[t].pc \in Works \cup {"idle"}
      /\ th'[t].pc # "idle" => th'[t].port = p
  BY ReportMoves DEF Moves, Works
<1>2. reported' \in [Ports -> {0, 1}]
  BY DEF Report, TypeOK
<1>3. Working'
  BY <1>1 DEF Working
<1>4. /\ Reading' <=> Reading
      /\ At(Bus, "look")' => At(Bus, "look") /\ th'[Bus] = th[Bus]
  BY <1>1, BusReads
<1>5. ReadInv'
  BY <1>4 DEF ReadInv, Copied, resetVars
<1> QED
  BY <1>1, <1>2, <1>3, <1>4, <1>5 DEF TypeOK, portVars, resetVars, Thread, Pcs, Works

LEMMA ReportInv ==
    ASSUME TypeOK, AllPorts, NEW t \in Threads, NEW q \in Ports, NEW value \in {0, 1},
           Report(t, q, value), UNCHANGED <<min_time, contact, portVars, resetVars>>
    PROVE  AllPorts'
<1> SUFFICES ASSUME NEW p \in Ports, p \notin clash' PROVE PortInv(p)'
  BY DEF AllPorts
<1>1. PICK c \in Pcs :
        /\ th[t].pc = "idle" /\ Moves(t, c) /\ (c # "idle" => th'[t].port = q)
        /\ clash \subseteq clash' /\ (Busy(q) => q \in clash')
        /\ c = "idle" => fbstate[q].state = value
        /\ c \in {"idle", "rise", "fall", "change"}
        /\ c = "rise" => value = 1
  BY ReportMoves
<1>2. PortInv(p)
  BY <1>1 DEF AllPorts
<1>3. \A u \in Threads \ {t} : th'[u] = th[u]
  BY <1>1 DEF Moves
<1>7. Leaving' <=> Leaving
  BY <1>1, <1>3, BusReads DEF Moves, Works
<1>4. /\ fbstate' = fbstate /\ informed' = informed /\ forgotten' = forgotten
      /\ Queued(p) => Queued(p)'
  BY <1>7 DEF portVars, resetVars, Queued
<1>5. CASE p # q
  <2>1. reported'[p] = reported[p]
    BY <1>5 DEF Report, TypeOK
  <2>2. ~Active(t, p) /\ ~Active(t, p)'
    BY <1>1, <1>5 DEF Active, At, Moves
  <2>3. Quiet(p) => Quiet(p)'
    BY <1>4, <2>1 DEF Quiet
  <2> QED
    BY <1>2, <1>3, <1>4, <2>1, <2>2, <2>3, Elsewhere
<1>6. CASE p = q
  <2>1. ~Busy(p)
    BY <1>1, <1>6
  <2>2. Quiet(p) /\ \A u \in Threads : ~Active(u, p)
    BY <1>2, <2>1 DEF PortInv, Busy, Active
  <2>3. reported'[p] = value
    BY <1>6 DEF Report, TypeOK
  <2>4. th'[t].pc = c
    BY <1>1 DEF Moves
  <2>5. th'[t].pc = "idle" => Quiet(p)'
    BY <1>1, <1>4, <1>6, <2>2, <2>3, <2>4 DEF Quiet
  <2>6. th'[t].pc # "idle" => Active(t, p)' /\ Doing(t, p)'
    BY <1>1, <1>4, <1>6, <2>2, <2>3, <2>4 DEF Quiet, Doing, Active, At
  <2> QED
    BY <1>1, <1>3, <2>2, <2>4, <2>5, <2>6, Here DEF Works
<1> QED
  BY <1>5, <1>6

-----------------------------------------------------------------------------
(* check_reset_fb. *)

LEMMA HeadTail ==
    ASSUME NEW S, NEW q \in Seq(S), q # <<>>
    PROVE  /\ Head(q) \in S /\ Tail(q) \in Seq(S)
           /\ Len(q) \in Nat \ {0} /\ Len(Tail(q)) = Len(q) - 1
           /\ Head(q) = q[1]
           /\ \A i \in 1 .. Len(q) : i # 1 => i - 1 \in DOMAIN Tail(q) /\ Tail(q)[i - 1] = q[i]
  OBVIOUS

LEMMA ResetTypes ==
    ASSUME TypeOK
    PROVE  /\ reset_queue \in Seq(ResetType) /\ Len(reset_queue) \in Nat
           /\ \A i \in DOMAIN reset_queue : reset_queue[i].port \in Ports
           /\ reset_queue # <<>> => /\ Head(reset_queue) \in ResetType
                                   /\ Head(reset_queue) = reset_queue[1]
                                   /\ 1 \in DOMAIN reset_queue
<1>1. reset_queue \in Seq(ResetType)
  BY DEF TypeOK, ResetType
<1>2. \A i \in DOMAIN reset_queue : reset_queue[i] \in ResetType
  BY <1>1
<1> QED
  BY <1>1, <1>2 DEF ResetType

\* The rest of the invariant's types, when the threads keep theirs.
LEMMA TypeNext ==
    ASSUME TypeOK, UNCHANGED <<min_time, contact, fbstate, informed, reported, left>>,
           th' \in [Threads -> Thread], turn' \in {"poll", "check"},
           reset_queue' \in Seq(ResetType), Len(reset_queue') <= QUEUELENGTH_FB,
           Len(reset_queue') = QUEUELENGTH_FB => Reading',
           clash' \in SUBSET Ports, forgotten' \in SUBSET Ports
    PROVE  TypeOK'
<1>1. th' \in [Threads -> [pc : {"idle", "fall", "change", "enqueue", "write", "rise", "set",
                               "info", "send0", "send1", "copy", "look", "drop", "unqueue",
                               "reset"},
                         port : Ports \cup {NoPort}, age : 0 .. min_time]]
  BY DEF Thread, Pcs, Works
<1> QED
  BY <1>1 DEF TypeOK, ResetType

\* As long as the bus thread only looks, it works on no port.
Looks == {"idle", "copy", "look", "drop"}

LEMMA LooksOnly ==
    ASSUME AllPorts, NEW c \in Looks, Moves(Bus, c), th[Bus].pc \in Looks,
           UNCHANGED <<fbstate, informed, reported, clash>>,
           \A p \in Ports : Quiet(p) => Quiet(p)'
    PROVE  AllPorts'
<1> SUFFICES ASSUME NEW p \in Ports, p \notin clash PROVE PortInv(p)'
  BY DEF AllPorts
<1>1. PortInv(p)
  BY DEF AllPorts
<1>2. ~Active(Bus, p) /\ ~Active(Bus, p)'
  BY DEF Active, Looks, Moves
<1> QED
  BY <1>1, <1>2, Elsewhere, BusIsThread DEF Moves

LEMMA TestStep ==
    ASSUME TypeOK, Working, ReadInv, AllPorts, TestNext
    PROVE  TypeOK' /\ Working' /\ ReadInv' /\ AllPorts'
<1>0. UNCHANGED <<min_time, contact, fbstate, informed, reported, left, reset_queue, forgotten,
                  clash>>
  BY DEF TestNext, portVars, resetVars
<1>1. /\ reset_queue' \in Seq(ResetType) /\ Len(reset_queue) \in Nat
      /\ Len(reset_queue) <= QUEUELENGTH_FB
      /\ Len(reset_queue) # QUEUELENGTH_FB
  BY <1>0, ResetTypes DEF TypeOK, TestNext, Reading, At
<1>2. CASE queueLengthFB = 0
  <2>1. th' = th /\ turn' = "poll"
    BY <1>2 DEF TestNext
  <2> QED
    BY <1>0, <2>1 DEF TypeOK, Working, ReadInv, Copied, AllPorts, PortInv, Active, Busy, Quiet,
                      Doing, Queued, Leaving, Reading, At
<1>3. CASE queueLengthFB # 0
  <2>1. Goto(Bus, "copy") /\ turn' = turn /\ th[Bus].pc = "idle"
    BY <1>3 DEF TestNext, At
  <2>2. Moves(Bus, "copy")
    BY <2>1, GotoMoves, BusIsThread DEF Pcs
  <2>3. reset_queue # <<>>
    BY <1>1, <1>3 DEF queueLengthFB
  <2>4. TypeOK'
    BY <1>0, <1>1, <2>1, <2>2, TypeNext DEF Moves, TypeOK
  <2>5. Working' /\ ReadInv'
    BY <1>0, <2>2, <2>3 DEF Working, ReadInv, Moves, At
  <2>6. ~Leaving /\ ~Leaving'
    BY <2>1, <2>2 DEF Leaving, Moves
  <2>7. \A p \in Ports : Quiet(p) => Quiet(p)'
    BY <1>0, <2>6 DEF Quiet, Queued
  <2> QED
    BY <1>0, <2>1, <2>2, <2>4, <2>5, <2>7, LooksOnly DEF Looks
<1> QED
  BY <1>2, <1>3

LEMMA CopyStep ==
    ASSUME TypeOK, Working, ReadInv, AllPorts, CopyNext
    PROVE  TypeOK' /\ Working' /\ ReadInv' /\ AllPorts'
<1>0. /\ UNCHANGED <<min_time, contact, fbstate, informed, reported, left, reset_queue,
                     forgotten, clash, turn>>
      /\ th[Bus].pc = "copy"
  BY DEF CopyNext, portVars, resetVars, At
<1>1. reset_queue # <<>>
  BY <1>0 DEF ReadInv, Reading
<1> DEFINE r == [pc |-> "look", port |-> Head(reset_queue).port, age |-> Head(reset_queue).age]
<1>2. r \in Thread /\ r.port = reset_queue[1].port /\ r.port \in Ports /\ r.pc = "look"
  BY <1>1, ResetTypes DEF ResetType, Thread, Pcs
<1>3. th' = [th EXCEPT ![Bus] = r] /\ th \in [Threads -> Thread]
  BY ThreadTypes DEF CopyNext
<1> HIDE DEF r
<1>4. Moves(Bus, "look") /\ th'[Bus] = r
  BY <1>2, <1>3, BusIsThread DEF Moves
<1>5. Reading' /\ ~Leaving /\ ~Leaving'
  BY <1>0, <1>2, <1>4 DEF Reading, Leaving
<1>6. TypeOK'
  BY <1>0, <1>4, <1>5, ResetTypes, TypeNext DEF Moves, TypeOK
<1>7. Working'
  BY <1>2, <1>4 DEF Working, Moves
<1>8. ReadInv'
  BY <1>0, <1>1, <1>2, <1>4 DEF ReadInv, Copied
<1>9. \A p \in Ports : Quiet(p) => Quiet(p)'
  BY <1>0, <1>5 DEF Quiet, Queued
<1> QED
  BY <1>0, <1>4, <1>6, <1>7, <1>8, <1>9, LooksOnly DEF Looks

\* The ports of the resets that an overrun put where the cursors meet.
LEMMA BreakStep ==
    ASSUME TypeOK, Working, ReadInv, AllPorts, th[Bus].pc = "look", Break,
           UNCHANGED <<min_time, contact, portVars, reported, left>>
    PROVE  TypeOK' /\ Working' /\ ReadInv' /\ AllPorts'
<1>0. UNCHANGED <<fbstate, informed, clash>> /\ turn' = "poll" /\ Goto(Bus, "idle")
  BY DEF Break, portVars
<1>1. Moves(Bus, "idle")
  BY <1>0, GotoMoves, BusIsThread DEF Pcs
<1>2. /\ reset_queue' \in Seq(ResetType) /\ Len(reset_queue') < QUEUELENGTH_FB
      /\ forgotten' \in SUBSET Ports
      /\ \A p \in Ports : Quiet(p) => Quiet(p)'
  <2>1. reset_queue \in Seq(ResetType) /\ Len(reset_queue) \in Nat
        /\ Len(reset_queue) <= QUEUELENGTH_FB /\ QUEUELENGTH_FB > 0
    BY ResetTypes, FeedbackAssumption DEF TypeOK
  <2>2. ~Leaving /\ ~Leaving'
    BY <1>1 DEF Leaving, Moves
  <2>3. CASE Len(reset_queue) = QUEUELENGTH_FB
    <3>1. reset_queue' = <<>> /\ forgotten' = forgotten \cup PortsIn(reset_queue)
      BY <2>3 DEF Break
    <3>2. PortsIn(reset_queue) \subseteq Ports
      BY ResetTypes DEF PortsIn
    <3>3. \A p \in Ports : p \notin forgotten' => p \notin forgotten /\ ~Queued(p)
      BY <3>1 DEF PortsIn, Queued
    <3>4. \A p \in Ports : Quiet(p) => Quiet(p)'
      BY <1>0, <3>3 DEF Quiet
    <3> QED
      BY <2>1, <3>1, <3>2, <3>4 DEF TypeOK
  <2>4. CASE Len(reset_queue) # QUEUELENGTH_FB
    <3>1. UNCHANGED <<reset_queue, forgotten>>
      BY <2>4 DEF Break
    <3>2. \A p \in Ports : Quiet(p) => Quiet(p)'
      BY <1>0, <2>2, <3>1 DEF Quiet, Queued
    <3> QED
      <4>1. Len(reset_queue') < QUEUELENGTH_FB
        BY <2>1, <2>4, <3>1, FeedbackAssumption
      <4> QED
        BY <2>1, <3>1, <3>2, <4>1 DEF TypeOK
  <2> QED
    BY <2>3, <2>4
<1>3. TypeOK'
  <2>1. Len(reset_queue') \in Nat /\ QUEUELENGTH_FB \in Nat
    BY <1>2, FeedbackAssumption
  <2>2. Len(reset_queue') <= QUEUELENGTH_FB /\ Len(reset_queue') # QUEUELENGTH_FB
    BY <1>2, <2>1
  <2> QED
    BY <1>0, <1>1, <1>2, <2>2, TypeNext DEF Moves, TypeOK, portVars
<1>4. Working' /\ ReadInv'
  BY <1>1 DEF Working, ReadInv, Reading, Moves, At
<1> QED
  BY <1>0, <1>1, <1>2, <1>3, <1>4, LooksOnly DEF Looks

\* The reset of a port with no change pending is not the one that port waits for.
LEMMA DropStep ==
    ASSUME TypeOK, Working, ReadInv, AllPorts, th[Bus].pc = "look", Goto(Bus, "drop"),
           fbstate[th[Bus].port].change = 0,
           UNCHANGED <<min_time, contact, portVars, reported, left, turn, resetVars, clash>>
    PROVE  TypeOK' /\ Working' /\ ReadInv' /\ AllPorts'
<1>0. UNCHANGED <<fbstate, informed, reset_queue, forgotten>>
  BY DEF portVars, resetVars
<1>1. Moves(Bus, "drop") /\ th'[Bus].port = th[Bus].port
  BY GotoMoves, BusIsThread DEF Pcs
<1>2. reset_queue # <<>> /\ Copied
  BY DEF ReadInv, Reading, At
<1>3. Reading' /\ ~Leaving /\ Leaving'
  BY <1>1 DEF Reading, Leaving, Moves
<1>4. TypeOK'
  BY <1>0, <1>1, <1>3, ResetTypes, TypeNext DEF Moves, TypeOK
<1>5. Working' /\ ReadInv'
  BY <1>0, <1>1, <1>2, BusIsThread DEF Working, ReadInv, Moves, At
<1>6. ASSUME NEW p \in Ports, Quiet(p) PROVE Quiet(p)'
  <2> SUFFICES ASSUME p \notin forgotten, reported[p] = 0, fbstate[p].state = 1
               PROVE  Queued(p)'
    BY <1>0, <1>6 DEF Quiet
  <2>1. fbstate[p].change = -1 /\ \E i \in DOMAIN reset_queue : reset_queue[i].port = p
    BY <1>6 DEF Quiet, Queued
  <2>2. p # th[Bus].port
    BY <2>1
  <2>3. \E i \in DOMAIN reset_queue : i # 1 /\ reset_queue[i].port = p
    BY <1>2, <2>1, <2>2 DEF Copied
  <2> QED
    BY <1>0, <2>3 DEF Queued
<1> QED
  BY <1>0, <1>1, <1>4, <1>5, <1>6, LooksOnly DEF Looks

\* A due reset makes the bus thread work on its port.
LEMMA DueStep ==
    ASSUME TypeOK, Working, ReadInv, AllPorts, th[Bus].pc = "look", Due(th[Bus].port),
           UNCHANGED <<min_time, contact, portVars, reported, left>>
    PROVE  TypeOK' /\ Working' /\ ReadInv' /\ AllPorts'
<1> DEFINE q == th[Bus].port
<1>0. UNCHANGED <<fbstate, informed, reset_queue, forgotten, turn>> /\ Goto(Bus, "unqueue")
  BY DEF Due, portVars, resetVars
<1>1. Moves(Bus, "unqueue") /\ th'[Bus].port = q /\ q \in Ports
  BY <1>0, GotoMoves, BusIsThread DEF Pcs, Working
<1>2. reset_queue # <<>> /\ Copied
  BY DEF ReadInv, Reading, At
<1>3. Reading' /\ ~Leaving /\ Leaving'
  BY <1>1 DEF Reading, Leaving, Moves
<1>8. clash' \in SUBSET Ports /\ clash \subseteq clash' /\ (Busy(q) => q \in clash')
  <2>1. CASE Busy(q)
    BY <1>1, <2>1 DEF Due, TypeOK
  <2>2. CASE ~Busy(q)
    BY <2>2 DEF Due, TypeOK
  <2> QED
    BY <2>1, <2>2
<1>4. TypeOK'
  BY <1>0, <1>1, <1>3, <1>8, ResetTypes, TypeNext DEF Moves, TypeOK, portVars
<1>5. Working' /\ ReadInv'
  BY <1>0, <1>1, <1>2, BusIsThread DEF Working, ReadInv, Moves, At
<1>6. ASSUME NEW p \in Ports, p \notin clash' PROVE PortInv(p)'
  <2>1. PortInv(p)
    BY <1>6, <1>8 DEF AllPorts
  <2>2. \A u \in Threads \ {Bus} : th'[u] = th[u]
    BY <1>1 DEF Moves
  <2>3. CASE p # q
    <3>1. ~Active(Bus, p) /\ ~Active(Bus, p)'
      BY <1>1, <2>3 DEF Active
    <3>2. ASSUME p \notin forgotten, Queued(p) PROVE Queued(p)'
      <4>1. \E i \in DOMAIN reset_queue : reset_queue[i].port = p
        BY <3>2 DEF Queued
      <4>2. \E i \in DOMAIN reset_queue : i # 1 /\ reset_queue[i].port = p
        BY <1>2, <2>3, <3>2, <4>1 DEF Copied
      <4> QED
        BY <1>0, <4>2 DEF Queued
    <3>3. Quiet(p) => Quiet(p)'
      BY <1>0, <3>2 DEF Quiet
    <3> QED
      BY <1>0, <2>1, <2>2, <3>1, <3>3, Elsewhere, BusIsThread
  <2>4. CASE p = q
    <3>1. ~Busy(p)
      BY <1>6, <1>8, <2>4
    <3>2. Quiet(p) /\ \A u \in Threads : ~Active(u, p)
      BY <2>1, <3>1 DEF PortInv, Busy, Active
    <3>3. th'[Bus].pc = "unqueue"
      BY <1>1 DEF Moves
    <3>4. Active(Bus, p)' /\ Doing(Bus, p)'
      BY <1>0, <1>1, <2>4, <3>2, <3>3 DEF Active, Doing, Quiet, At
    <3> QED
      BY <2>2, <3>2, <3>3, <3>4, Here, BusIsThread
  <2> QED
    BY <2>3, <2>4
<1> QED
  BY <1>4, <1>5, <1>6 DEF AllPorts

LEMMA UnqueueStep ==
    ASSUME TypeOK, Working, ReadInv, AllPorts, Unqueue
    PROVE  TypeOK' /\ Working' /\ ReadInv' /\ AllPorts'
<1>0. /\ UNCHANGED <<min_time, contact, fbstate, informed, reported, left, forgotten, clash,
                     turn>>
      /\ th[Bus].pc \in {"drop", "unqueue"}
      /\ reset_queue' = Tail(reset_queue)
  BY DEF Unqueue, portVars
<1>1. reset_queue # <<>>
  BY <1>0 DEF ReadInv, Reading
<1>2. /\ reset_queue' \in Seq(ResetType) /\ Len(reset_queue) \in Nat
      /\ Len(reset_queue') = Len(reset_queue) - 1
      /\ \A i \in 1 .. Len(reset_queue) : i # 1 =>
           i - 1 \in DOMAIN reset_queue' /\ reset_queue'[i - 1] = reset_queue[i]
      /\ DOMAIN reset_queue = 1 .. Len(reset_queue)
  BY <1>0, <1>1, HeadTail, ResetTypes
<1>3. Len(reset_queue') < QUEUELENGTH_FB /\ Len(reset_queue') \in Nat
  BY <1>2, FeedbackAssumption DEF TypeOK
<1>4. Leaving
  BY <1>0 DEF Leaving
<1>5. ASSUME ~Leaving', NEW p \in Ports, Queued(p) PROVE Queued(p)'
  <2>1. PICK i \in 1 .. Len(reset_queue) : i # 1 /\ reset_queue[i].port = p
    BY <1>2, <1>4, <1>5 DEF Queued
  <2>2. i - 1 \in DOMAIN reset_queue' /\ reset_queue'[i - 1].port = p
    BY <1>2, <2>1
  <2> QED
    BY <1>5, <2>2 DEF Queued
<1>6. ASSUME NEW c \in Pcs, Moves(Bus, c), c \in {"idle", "reset"}, th'[Bus].port \in Ports \/ c = "idle"
      PROVE  TypeOK' /\ Working' /\ ReadInv' /\ ~Leaving'
  <2>1. Len(reset_queue') <= QUEUELENGTH_FB /\ Len(reset_queue') # QUEUELENGTH_FB
    BY <1>3, FeedbackAssumption
  <2>2. TypeOK'
    BY <1>0, <1>2, <1>6, <2>1, TypeNext DEF Moves, TypeOK
  <2>3. Working' /\ ReadInv' /\ ~Leaving'
    BY <1>6 DEF Working, ReadInv, Reading, Leaving, Moves, At
  <2> QED
    BY <2>2, <2>3
<1>7. CASE th[Bus].pc = "drop"
  <2>1. Goto(Bus, "idle")
    BY <1>7 DEF Unqueue, At
  <2>2. Moves(Bus, "idle")
    BY <2>1, GotoMoves, BusIsThread DEF Pcs
  <2>3. TypeOK' /\ Working' /\ ReadInv' /\ ~Leaving'
    BY <1>6, <2>2 DEF Pcs
  <2>4. \A p \in Ports : Quiet(p) => Quiet(p)'
    BY <1>0, <1>5, <2>3 DEF Quiet
  <2> QED
    BY <1>0, <1>7, <2>2, <2>3, <2>4, LooksOnly DEF Looks
<1>8. CASE th[Bus].pc = "unqueue"
  <2>1. Goto(Bus, "reset")
    BY <1>8 DEF Unqueue, At
  <2>2. Moves(Bus, "reset") /\ th'[Bus].port = th[Bus].port /\ th[Bus].port \in Ports
    BY <1>8, <2>1, GotoMoves, BusIsThread DEF Pcs, Works, Working
  <2>3. TypeOK' /\ Working' /\ ReadInv' /\ ~Leaving'
    BY <1>6, <2>2 DEF Pcs, Works
  <2>4. ASSUME NEW p \in Ports, p \notin clash PROVE PortInv(p)'
    <3>1. PortInv(p)
      BY <2>4 DEF AllPorts
    <3>2. th'[Bus].pc = "reset" /\ \A u \in Threads \ {Bus} : th'[u] = th[u]
      BY <2>2 DEF Moves
    <3>3. CASE p # th[Bus].port
      <4>1. ~Active(Bus, p) /\ ~Active(Bus, p)'
        BY <2>2, <3>3 DEF Active
      <4>2. Quiet(p) => Quiet(p)'
        BY <1>0, <1>5, <2>3 DEF Quiet
      <4> QED
        BY <1>0, <3>1, <3>2, <4>1, <4>2, Elsewhere, BusIsThread
    <3>4. CASE p = th[Bus].port
      <4>1. Active(Bus, p) /\ Doing(Bus, p)
        BY <1>8, <3>1, <3>4, BusIsThread DEF PortInv, Active
      <4>2. \A u \in Threads \ {Bus} : ~Active(u, p)
        BY <3>1, <4>1, BusIsThread DEF PortInv
      <4>3. Active(Bus, p)' /\ Doing(Bus, p)'
        BY <1>0, <1>8, <2>2, <3>2, <3>4, <4>1 DEF Active, Doing, At
      <4> QED
        BY <3>2, <4>2, <4>3, Here, BusIsThread DEF Works
    <3> QED
      BY <3>3, <3>4
  <2> QED
    BY <1>0, <2>3, <2>4 DEF AllPorts
<1> QED
  BY <1>0, <1>7, <1>8

LEMMA LookStep ==
    ASSUME TypeOK, Working, ReadInv, AllPorts, Look
    PROVE  TypeOK' /\ Working' /\ ReadInv' /\ AllPorts'
<1>0. th[Bus].pc = "look" /\ UNCHANGED <<min_time, contact, portVars, reported, left>>
  BY DEF Look, At
<1>1. CASE fbstate[th[Bus].port].change = 0
  <2>1. Goto(Bus, "drop") /\ UNCHANGED <<turn, resetVars, clash>>
    BY <1>1, Zenon DEF Look
  <2> QED
    BY <1>0, <1>1, <2>1, DropStep
<1>2. CASE fbstate[th[Bus].port].change # 0 /\ th[Bus].age < min_time
  BY <1>0, <1>2, BreakStep DEF Look
<1>3. CASE fbstate[th[Bus].port].change # 0 /\ ~(th[Bus].age < min_time)
  BY <1>0, <1>3, DueStep DEF Look
<1> QED
  BY <1>1, <1>2, <1>3

-----------------------------------------------------------------------------
(* Time, the contacts, and nothing at all. *)

LEMMA TickMoves ==
    ASSUME TypeOK, Tick
    PROVE  /\ th' \in [Threads -> Thread]
           /\ \A t \in Threads : th'[t].pc = th[t].pc /\ th'[t].port = th[t].port
           /\ reset_queue' \in Seq([port : Ports, age : 0 .. min_time])
           /\ Len(reset_queue') = Len(reset_queue)
           /\ DOMAIN reset_queue' = DOMAIN reset_queue
           /\ \A i \in DOMAIN reset_queue : reset_queue'[i].port = reset_queue[i].port
<1>1. th \in [Threads -> Thread] /\ min_time \in Nat
  BY ThreadTypes, MinTimeType
<1>2. \A a \in 0 .. min_time : Older(a) \in 0 .. min_time
  BY <1>1 DEF Older
<1>3. /\ th' \in [Threads -> Thread]
      /\ \A t \in Threads : th'[t].pc = th[t].pc /\ th'[t].port = th[t].port
  <2>1. \A t \in Threads : [th[t] EXCEPT !.age = Older(@)] \in Thread
    BY <1>1, <1>2 DEF Thread
  <2>2. th' = [t \in Threads |-> IF th[t].pc \in {"change", "enqueue", "write", "look"}
                                   THEN [th[t] EXCEPT !.age = Older(@)] ELSE th[t]]
    BY DEF Tick
  <2>3. \A t \in Threads : /\ [th[t] EXCEPT !.age = Older(@)].pc = th[t].pc
                            /\ [th[t] EXCEPT !.age = Older(@)].port = th[t].port
    BY <1>1 DEF Thread
  <2> QED
    BY <1>1, <2>1, <2>2, <2>3
<1>4. reset_queue \in Seq([port : Ports, age : 0 .. min_time])
  BY DEF TypeOK
<1>5. \A i \in DOMAIN reset_queue :
        /\ [reset_queue[i] EXCEPT !.age = Older(@)] \in [port : Ports, age : 0 .. min_time]
        /\ [reset_queue[i] EXCEPT !.age = Older(@)].port = reset_queue[i].port
  <2> SUFFICES ASSUME NEW i \in DOMAIN reset_queue
               PROVE  /\ [reset_queue[i] EXCEPT !.age = Older(@)]
                           \in [port : Ports, age : 0 .. min_time]
                      /\ [reset_queue[i] EXCEPT !.age = Older(@)].port = reset_queue[i].port
    OBVIOUS
  <2>0. reset_queue[i] \in [port : Ports, age : 0 .. min_time]
    <3> DEFINE S == [port : Ports, age : 0 .. min_time]
    <3>1. reset_queue \in Seq(S)
      BY <1>4
    <3> HIDE DEF S
    <3>2. reset_queue[i] \in S
      BY <3>1
    <3> QED
      BY <3>2 DEF S
  <2>1. PICK r \in [port : Ports, age : 0 .. min_time] : r = reset_queue[i]
    BY <2>0
  <2>2. Older(r.age) \in 0 .. min_time
    BY <1>2
  <2>3. [r EXCEPT !.age = Older(r.age)] \in [port : Ports, age : 0 .. min_time]
        /\ [r EXCEPT !.age = Older(r.age)].port = r.port
    BY <2>2
  <2> QED
    BY <2>1, <2>3
<1>6. reset_queue' = [i \in DOMAIN reset_queue |-> [reset_queue[i] EXCEPT !.age = Older(@)]]
  BY DEF Tick
<1>7. DOMAIN reset_queue = 1 .. Len(reset_queue) /\ Len(reset_queue) \in Nat
  BY <1>4
<1> QED
  BY <1>3, <1>5, <1>6, <1>7

LEMMA TickInv ==
    ASSUME TypeOK, Working, ReadInv, AllPorts, Tick
    PROVE  TypeOK' /\ Working' /\ ReadInv' /\ AllPorts'
<1>0. forgotten' = forgotten /\ (Reading' <=> Reading) /\ (Leaving' <=> Leaving)
  BY TickMoves, BusIsThread DEF Tick, Reading, Leaving
<1>1. /\ fbstate' = fbstate /\ informed' = informed /\ reported' = reported /\ clash' = clash
      /\ UNCHANGED <<min_time, contact, turn, left>>
  BY DEF Tick, portVars
<1>2. \A t \in Threads : th'[t].pc = th[t].pc /\ th'[t].port = th[t].port
  BY TickMoves
<1>3. TypeOK'
  <2>1. /\ th' \in [Threads -> Thread] /\ Len(reset_queue') = Len(reset_queue)
        /\ reset_queue' \in Seq(ResetType)
    BY TickMoves DEF ResetType
  <2> QED
    BY <1>0, <1>1, <2>1, TypeNext DEF TypeOK
<1>4. Working'
  BY <1>2 DEF Working
<1>8. ReadInv'
  <2>1. /\ \A i \in DOMAIN reset_queue : reset_queue'[i].port = reset_queue[i].port
        /\ DOMAIN reset_queue' = DOMAIN reset_queue
        /\ Len(reset_queue') = Len(reset_queue)
    BY TickMoves
  <2>2. reset_queue # <<>> => reset_queue' # <<>> /\ 1 \in DOMAIN reset_queue
    BY <2>1, ResetTypes
  <2> QED
    BY <1>0, <1>2, <2>1, <2>2, BusIsThread DEF ReadInv, Copied, Reading, At
<1>5. \A p \in Ports : Queued(p) => Queued(p)'
  BY <1>0, TickMoves DEF Queued
<1>6. ASSUME NEW p \in Ports, PortInv(p) PROVE PortInv(p)'
  <2>1. \A t \in Threads : (Active(t, p)' <=> Active(t, p)) /\ (Doing(t, p) => Doing(t, p)')
    BY <1>1, <1>2 DEF Active, Doing, At
  <2>2. Quiet(p) => Quiet(p)'
    BY <1>0, <1>1, <1>5 DEF Quiet
  <2>3. Busy(p)' <=> Busy(p)
    BY <1>2 DEF Busy, At
  <2> QED
    BY <1>6, <2>1, <2>2, <2>3 DEF PortInv
<1>7. AllPorts'
  BY <1>1, <1>6 DEF AllPorts
<1> QED
  BY <1>3, <1>4, <1>7, <1>8

LEMMA RestInv ==
    ASSUME TypeOK, Working, ReadInv, AllPorts, ContactChanges \/ UNCHANGED vars
    PROVE  TypeOK' /\ Working' /\ ReadInv' /\ AllPorts'
<1>1. /\ fbstate' = fbstate /\ informed' = informed /\ reported' = reported /\ clash' = clash
      /\ th' = th /\ reset_queue' = reset_queue /\ forgotten' = forgotten
      /\ UNCHANGED <<min_time, turn, left>>
  BY DEF ContactChanges, vars, portVars, resetVars
<1>2. contact' \in [Ports -> {0, 1}]
  BY DEF ContactChanges, vars, TypeOK
<1> QED
  BY <1>1, <1>2
  DEF TypeOK, Working, ReadInv, Copied, Reading, Leaving, AllPorts, PortInv, Active, Busy, Quiet,
      Doing, Queued, At

-----------------------------------------------------------------------------
(* The theorems. *)

LEMMA InvInit == Init => IInv
<1> SUFFICES ASSUME Init PROVE IInv
  OBVIOUS
<1>0. min_time \in Nat
  BY FeedbackAssumption DEF Init
<1>1. /\ contact \in [Ports -> {0, 1}] /\ informed \in [Ports -> {0, 1}]
      /\ reported \in [Ports -> {0, 1}]
      /\ fbstate \in [Ports -> [state : {0, 1}, change : {-1, 0}]]
  BY DEF Init
<1>2. th \in [Threads -> Thread]
  BY <1>0 DEF Init, Thread, Pcs, Works, IdleThread
<1>3. reset_queue \in Seq([port : Ports, age : 0 .. min_time]) /\ Len(reset_queue) = 0
  BY DEF Init
<1>4. TypeOK
  BY <1>1, <1>2, <1>3, FeedbackAssumption DEF Init, TypeOK, Thread, Pcs, Works
<1>5. \A t \in Threads : At(t, "idle")
  BY DEF Init, IdleThread, At
<1>6. \A p \in Ports : Quiet(p)
  <2> SUFFICES ASSUME NEW p \in Ports PROVE Quiet(p)
    OBVIOUS
  <2>1. fbstate[p] = [state |-> 0, change |-> 0] /\ informed[p] = 0
    BY DEF Init
  <2> QED
    BY <2>1 DEF Quiet
<1> QED
  BY <1>4, <1>5, <1>6, BusIsThread
  DEF IInv, Working, ReadInv, Reading, AllPorts, PortInv, Active, At

LEMMA InvStep == IInv /\ [Next]_vars => IInv'
<1> SUFFICES ASSUME IInv, [Next]_vars PROVE IInv'
  OBVIOUS
<1> USE DEF IInv
<1>1. CASE ReadContact
  <2>1. PICK p \in Ports :
          /\ turn' = "check" /\ Report(Bus, p, contact[p])
          /\ UNCHANGED <<min_time, contact, portVars, resetVars, left>>
    BY <1>1 DEF ReadContact
  <2>2. contact[p] \in {0, 1} /\ left' \in 0 .. MaxSets
    BY <2>1 DEF TypeOK
  <2> QED
    BY <2>1, <2>2, ReportType, ReportInv, BusIsThread
<1>2. ASSUME NEW s \in Sessions, SetFB(s) PROVE IInv'
  <2>1. PICK p \in Ports, value \in {0, 1} :
          /\ left > 0 /\ left' = left - 1
          /\ Report(s, p, value)
          /\ UNCHANGED <<min_time, contact, portVars, resetVars, turn>>
    BY <1>2 DEF SetFB
  <2>2. left' \in 0 .. MaxSets /\ turn' \in {"poll", "check"}
    BY <2>1, FeedbackAssumption DEF TypeOK
  <2> QED
    BY <2>1, <2>2, ReportType, ReportInv, BusIsThread
<1>3. CASE check_reset_fb
  <2>1. CASE Reset
    BY <2>1, UpdateType, UpdateInv, BusIsThread
  <2> QED
    BY <1>3, <2>1, TestStep, CopyStep, LookStep, UnqueueStep DEF check_reset_fb
<1>5. ASSUME NEW t \in Threads, updateFB(t) PROVE IInv'
  BY <1>5, UpdateType, UpdateInv
<1>6. CASE Tick
  BY <1>6, TickInv
<1>7. CASE ContactChanges \/ UNCHANGED vars
  BY <1>7, RestInv
<1> QED
  BY <1>1, <1>2, <1>3, <1>5, <1>6, <1>7, BusIsThread DEF Next, BusThread

LEMMA InvHolds == Spec => []IInv
  BY InvInit, InvStep, PTL DEF Spec

\* Every variable has its type: updateFB, queue_reset_fb and check_reset_fb,
\* srcp-fb.c 113-245 and 371-427.
THEOREM TypeCorrect == Spec => []TypeOK
<1>1. IInv => TypeOK
  BY DEF IInv
<1> QED
  BY <1>1, InvHolds, PTL

\* Between two calls of updateFB, on a port no two threads were active on at
\* once, the last INFO message says what GET FB says: updateFB and
\* check_reset_fb, srcp-fb.c 166-245 and 371-427, which read and write outside one lock.
THEOREM InfoHolds == Spec => []InfoIsState
<1>1. IInv => InfoIsState
  BY DEF IInv, AllPorts, PortInv, Quiet, Settled, InfoIsState
<1> QED
  BY <1>1, InvHolds, PTL

\* On such a port no opened contact is forgotten but by an overrun of the queue:
\* while it still reads 1, its reset waits in the queue and will not be dropped
\* (queue_reset_fb, with its test at 118 outside the mutex taken at 125, and
\* check_reset_fb, srcp-fb.c 47-163 and 371-427).
THEOREM ResetHolds == Spec => []ResetWaits
<1>1. IInv => ResetWaits
  BY DEF IInv, AllPorts, PortInv, Quiet, Queued, Settled, ResetWaits
<1> QED
  BY <1>1, InvHolds, PTL

-----------------------------------------------------------------------------
(* The Selectrix driver. *)

\* Only the timer thread lets a module be read.
PollInv == treg # -1 \/ state \in {1, 2} \/ bpc = "fb_state" \/ todo.op = "fb" => Polls

Sending == {"select", "load", "store", "send"}

\* A step of the programming that is under way has not been taken from the list.
ProgInv ==
    /\ todo.op = "ask" => prog # <<>> /\ bpc \in Sending
    /\ bpc \in {"sm_ask", "sm_state", "sm_wait", "sm_read"} => prog # <<>>

\* SXflags say which bus is selected, but between the change of the one and
\* that of the other; then the bus of the command is.
Chosen ==
    /\ todo.op = "conf" => todo.bus = 0
    /\ bpc \in {"load", "store", "send"} => selected = todo.bus
    /\ bpc \notin {"load", "store"} => (flags.rtbs <=> selected = 1)

ChosenInv == ~torn => Chosen

\* Nothing is programmed.
NoProgramming ==
    /\ sm = 0 /\ prog = <<>> /\ todo.op # "ask"
    /\ state \in {0, 1, 2} /\ treg \in {-1, 0, 1, 2}
    /\ todo.op = "fb" => bpc \in {"fb_state"} \cup Sending
    /\ bpc = "fb_state" => todo.op = "fb"

\* A command to read a module or a reply is under way.
Asking == todo.op = "fb" \/ wire # <<>> \/ rx # <<>> \/ hpc = "act"

\* While modules are polled at most one of them is asked, the current one, and
\* while it is, its reply is awaited; what the timer thread read as 0 is still 0.
Polled ==
    /\ treg = 0 => state = 0
    /\ Asking => IF bpc = "fb_state" THEN state = 1 ELSE state = 2
    /\ todo.op = "fb" => wire = <<>> /\ rx = <<>> /\ hpc # "act" /\ todo.arg = cur
    /\ wire # <<>> => Len(wire) = 1 /\ rx = <<>> /\ hpc # "act" /\ wire[1].of = cur
    /\ rx # <<>> => Len(rx) = 1 /\ hpc # "act" /\ rx[1].of = cur
    /\ hpc = "act" => hbyte.of = cur
    /\ rx # <<>> => sigio \/ hpc \in {"load", "store", "read"}

\* What has been reported, from the byte the handler holds to the last sent.
Held == IF hpc = "act" THEN <<hbyte>> ELSE <<>>
Reported == Held \o rx \o wire

\* Addresses and data come in turns, each address with its data.
InPairs(s) == \A i \in DOMAIN s :
    \/ /\ s[i].kind = "address" /\ s[i].is = s[i].of /\ s[i].of \in Modules
       /\ i + 1 \in DOMAIN s /\ s[i + 1].kind = "data" /\ s[i + 1].of = s[i].of
    \/ /\ s[i].kind = "data"
       /\ i + 1 \in DOMAIN s => s[i + 1].kind = "address"

\* SXflags say which half comes next; data are those of the current module.
InStep(s) ==
    /\ InPairs(s)
    /\ s = <<>> => flags.adr
    /\ s # <<>> => (flags.adr <=> s[1].kind = "address")
    /\ s # <<>> /\ ~flags.adr => s[1].of = cur

ModuleInv ==
    /\ ~armed => hpc = "idle"
    /\ ~stray => NoProgramming
    /\ ~stray /\ ~mode.auto /\ armed => Polled
    /\ ~stray /\ mode.auto /\ ~torn => InStep(Reported)

-----------------------------------------------------------------------------
(* Types. *)

LEMMA SelectrixConstants ==
    ASSUME SelectrixTypeOK
    PROVE  /\ mode \in Mode /\ mode.fb \in Nat /\ mode.auto \in BOOLEAN /\ mode.dbl \in BOOLEAN
           /\ RespondLimit \in Nat /\ MaxEvents \in Nat /\ QueueLimit \in Nat /\ BufferLimit \in Nat
           /\ 0 \in Buses /\ Buses \subseteq {0, 1}
           /\ \A n \in Modules : BusOf(n) \in Buses
  BY ModesAssumption, ModuleBusAssumption, LimitsAssumption
  DEF SelectrixTypeOK, Mode, Buses, Modules, BusOf

\* Which steps change what.
LEMMA WhoChanges ==
    ASSUME [SelectrixNext]_selectrixVars
    PROVE  /\ mode' = mode
           /\ UNCHANGED <<state, cur>> \/ BusStep \/ BusAwaits \/ TimerActs \/ HandlerActs
           /\ UNCHANGED <<gl, ga, sm>> \/ (\E b \in Buses : EnqueueGL(b))
                 \/ (\E b \in Buses : EnqueueGA(b)) \/ EnqueueSM \/ BusSM \/ BusGL \/ BusGA
           /\ UNCHANGED <<flags, breg, hreg>> \/ BusLoad \/ BusStore \/ HandlerLoads
                 \/ HandlerStores \/ HandlerActs
           /\ UNCHANGED <<todo, prog>> \/ BusPower \/ BusSend \/ BusConfigure \/ BusSM
                 \/ BusAsk \/ BusRead \/ BusGL \/ BusGA \/ BusFetch
           /\ UNCHANGED <<wire, rx, hbyte>> \/ BusSend \/ BusRead \/ Arrives \/ Loses
                 \/ (\E k, d \in Modules \cup {0} : Reports(k, d)) \/ HandlerReads
                 \/ HandlerActs
           /\ UNCHANGED <<treg, resp, selected>> \/ BusSelect \/ BusSend \/ BusConfigure
                 \/ TimerReads \/ TimerActs
           /\ events' = events \/ (\E b \in Buses : EnqueueGL(b))
                 \/ (\E b \in Buses : EnqueueGA(b)) \/ EnqueueSM
                 \/ (\E on \in BOOLEAN : SetPowerState(on)) \/ Loses
                 \/ (\E k, d \in Modules \cup {0} : Reports(k, d))
<1> USE DEF busVars, timerVars, hndVars, queueVars, powerVars, lineVars, devVars, history, BusRest
<1>1. CASE \E b \in Buses : EnqueueGL(b)
  BY <1>1 DEF EnqueueGL, Resume, Event, BusRest
<1>2. CASE \E b \in Buses : EnqueueGA(b)
  BY <1>2 DEF EnqueueGA, Resume, Event, BusRest
<1>3. CASE EnqueueSM
  BY <1>3 DEF EnqueueSM, Event
<1>4. CASE \E on \in BOOLEAN : SetPowerState(on)
  BY <1>4 DEF SetPowerState, Event
<1>5. CASE SetPowerFlag
  BY <1>5 DEF SetPowerFlag, Resume, BusRest
<1>6. CASE BusPower
  BY <1>6 DEF BusPower, SendTask
<1>7. CASE BusSelect
  BY <1>7 DEF BusSelect, BusRest
<1>8. CASE BusLoad
  BY <1>8 DEF BusLoad
<1>9. CASE BusStore
  BY <1>9 DEF BusStore
<1>10. CASE BusSend
  BY <1>10 DEF BusSend
<1>11. CASE BusConfigure
  BY <1>11 DEF BusConfigure
<1>12. CASE BusTold
  BY <1>12 DEF BusTold, BusRest
<1>13. CASE BusSM
  BY <1>13 DEF BusSM
<1>14. CASE BusAsk
  BY <1>14 DEF BusAsk, SendTask
<1>15. CASE BusStep
  BY <1>15 DEF BusStep, BusRest
<1>16. CASE BusWait
  BY <1>16 DEF BusWait, BusRest
<1>17. CASE BusRead
  BY <1>17 DEF BusRead
<1>18. CASE BusGL
  BY <1>18 DEF BusGL, SendTask
<1>19. CASE BusGA
  BY <1>19 DEF BusGA, SendTask
<1>20. CASE BusFetch
  BY <1>20 DEF BusFetch
<1>21. CASE BusAwaits
  BY <1>21 DEF BusAwaits, BusRest
<1>22. CASE BusEnd
  BY <1>22 DEF BusEnd, BusRest
<1>23. CASE TimerReads
  BY <1>23 DEF TimerReads
<1>24. CASE TimerActs
  BY <1>24 DEF TimerActs, Resume, BusRest
<1>25. CASE Arrives
  BY <1>25 DEF Arrives
<1>26. CASE Loses
  BY <1>26 DEF Loses, Event
<1>27. CASE \E k, d \in Modules \cup {0} : Reports(k, d)
  BY <1>27 DEF Reports, Event
<1>28. CASE HandlerStarts
  BY <1>28 DEF HandlerStarts
<1>29. CASE HandlerLoads
  BY <1>29 DEF HandlerLoads
<1>30. CASE HandlerStores
  BY <1>30 DEF HandlerStores
<1>31. CASE HandlerReads
  BY <1>31 DEF HandlerReads
<1>32. CASE HandlerActs
  BY <1>32 DEF HandlerActs, TakeReply, CountStep, TakeReport, Discard
<1>33. CASE UNCHANGED selectrixVars
  BY <1>33 DEF selectrixVars
<1> QED
  BY <1>1, <1>2, <1>3, <1>4, <1>5, <1>6, <1>7, <1>8, <1>9, <1>10, <1>11, <1>12, <1>13, <1>14,
     <1>15, <1>16, <1>17, <1>18, <1>19, <1>20, <1>21, <1>22, <1>23, <1>24, <1>25, <1>26, <1>27,
     <1>28, <1>29, <1>30, <1>31, <1>32, <1>33
  DEF SelectrixNext, thr_commandSelectrix, Timer, Handler

\* The parts of SelectrixTypeOK.
SettingType == state \in {0, 1, 2} \cup 10 .. 15
               /\ cur \in 1 .. mode.fb \cup {IF mode.auto THEN mode.fb + 1 ELSE 1}
QueueType == gl \in Seq(Buses) /\ ga \in Seq(Buses) /\ sm \in Nat
FlagType == flags \in Flags /\ breg \in Flags /\ hreg \in Flags
TaskType == /\ todo \in [op : {"none", "power", "conf", "gl", "ga", "ask", "fb"},
                         bus : Buses, arg : Nat]
            /\ prog \in Seq({10, 12, 14})
ByteType == wire \in Seq(Byte) /\ rx \in Seq(Byte) /\ hbyte \in Byte
OtherType == /\ treg \in {-1, 0, 1, 2} \cup 10 .. 15 /\ resp \in 0 .. RespondLimit
             /\ selected \in Buses /\ events \in 0 .. MaxEvents
PlaceType == bpc \in BusPcs /\ hpc \in {"idle", "load", "store", "read", "act"}
SwitchType == /\ power \in BOOLEAN /\ changed \in BOOLEAN /\ setting \in BOOLEAN
              /\ did \in BOOLEAN /\ sigio \in BOOLEAN /\ armed \in BOOLEAN
              /\ track \in BOOLEAN /\ torn \in BOOLEAN /\ stray \in BOOLEAN

LEMMA SelectrixParts ==
    SelectrixTypeOK <=> /\ mode \in Modes
                        /\ SettingType /\ QueueType /\ FlagType /\ TaskType
                        /\ ByteType /\ OtherType /\ PlaceType /\ SwitchType
  BY DEF SelectrixTypeOK, SettingType, QueueType, FlagType, TaskType, ByteType, OtherType,
         PlaceType, SwitchType

LEMMA ProgramTypes == \A p \in Programs : p \in Seq({10, 12, 14}) /\ p # <<>>
<1>1. <<10, 10, 12, 12>> \in Seq({10, 12, 14}) /\ <<10, 10, 14>> \in Seq({10, 12, 14})
  OBVIOUS
<1>2. Len(<<10, 10, 12, 12>>) = 4 /\ Len(<<10, 10, 14>>) = 3 /\ Len(<<>>) = 0
  OBVIOUS
<1>3. <<10, 10, 12, 12>> # <<>> /\ <<10, 10, 14>> # <<>>
  BY <1>2
<1> QED
  BY <1>1, <1>3 DEF Programs

LEMMA BusesStay == mode' = mode => Buses' = Buses
  BY DEF Buses

LEMMA PollsStay == mode' = mode => (Polls' <=> Polls)
  BY DEF Polls

LEMMA SettingStep ==
    ASSUME SelectrixTypeOK, PollInv, ProgInv, [SelectrixNext]_selectrixVars PROVE SettingType'
<1> USE SelectrixConstants, SelectrixParts, BusesStay DEF SettingType
<1>0. mode' = mode
  BY WhoChanges
<1>1. CASE BusStep
  <2>1. prog \in Seq({10, 12, 14}) /\ prog # <<>>
    BY <1>1 DEF BusStep, ProgInv, TaskType
  <2>2. Head(prog) \in {10, 12, 14}
    BY <2>1, HeadTailProperties
  <2> QED
    BY <1>0, <2>2, <1>1 DEF BusStep, BusRest
<1>2. CASE BusAwaits
  BY <1>0, <1>2 DEF BusAwaits, BusRest
<1>3. CASE TimerActs
  <2>1. state' \in {state, 0, 1} /\ cur' \in {cur, 1}
    BY <1>3 DEF TimerActs
  <2>2. 1 \in 1 .. mode.fb \cup {IF mode.auto THEN mode.fb + 1 ELSE 1}
    OBVIOUS
  <2> QED
    BY <1>0, <2>1, <2>2
<1>4. CASE HandlerActs
  <2>2. CASE TakeReply
    <3>1. state' = 0 /\ cur' = IF cur >= mode.fb THEN 1 ELSE cur + 1
      BY <2>2 DEF TakeReply
    <3>2. CASE cur >= mode.fb
      BY <1>0, <3>1, <3>2
    <3>3. CASE ~(cur >= mode.fb)
      BY <1>0, <3>1, <3>3
    <3> QED
      BY <3>2, <3>3
  <2>3. CASE TakeReport
    <3>1. cur' \in {cur, mode.fb + 1} \cup Modules /\ mode.auto /\ UNCHANGED state
      BY <2>3, Zenon DEF TakeReport
    <3> QED
      BY <1>0, <3>1 DEF Modules
  <2>4. CASE CountStep
    BY <1>0, <2>4 DEF CountStep
  <2>5. CASE Discard
    <3>1. state' = 0 /\ cur' = 1
      BY <2>5 DEF Discard
    <3> QED
      BY <1>0, <3>1
  <2> QED
    BY <1>4, <2>2, <2>3, <2>4, <2>5 DEF HandlerActs
<1>5. CASE UNCHANGED <<state, cur>>
  BY <1>0, <1>5
<1> QED
  BY <1>1, <1>2, <1>3, <1>4, <1>5, WhoChanges

LEMMA QueueStep ==
    ASSUME SelectrixTypeOK, PollInv, ProgInv, [SelectrixNext]_selectrixVars PROVE QueueType'
<1> USE SelectrixConstants, SelectrixParts, BusesStay DEF QueueType, queueVars
<1>0. mode' = mode
  BY WhoChanges
<1>1. CASE \E b \in Buses : EnqueueGL(b)
  BY <1>0, <1>1 DEF EnqueueGL, Resume, Event, BusRest
<1>2. CASE \E b \in Buses : EnqueueGA(b)
  BY <1>0, <1>2 DEF EnqueueGA, Resume, Event, BusRest
<1>3. CASE EnqueueSM
  BY <1>0, <1>3 DEF EnqueueSM, Event
<1>4. CASE BusSM
  BY <1>0, <1>4 DEF BusSM
<1>5. CASE BusGL
  <2>1. CASE gl = <<>>
    BY <1>0, <2>1, <1>5 DEF BusGL
  <2>2. CASE gl # <<>>
    <3>1. Tail(gl) \in Seq(Buses)
      BY <2>2, HeadTailProperties
    <3> QED
      BY <1>0, <2>2, <3>1, <1>5 DEF BusGL
  <2> QED
    BY <2>1, <2>2
<1>6. CASE BusGA
  <2>1. CASE ga = <<>>
    BY <1>0, <2>1, <1>6 DEF BusGA
  <2>2. CASE ga # <<>>
    <3>1. Tail(ga) \in Seq(Buses)
      BY <2>2, HeadTailProperties
    <3> QED
      BY <1>0, <2>2, <3>1, <1>6 DEF BusGA
  <2> QED
    BY <2>1, <2>2
<1>7. CASE UNCHANGED <<gl, ga, sm>>
  BY <1>0, <1>7
<1> QED
  BY <1>1, <1>2, <1>3, <1>4, <1>5, <1>6, <1>7, WhoChanges

LEMMA FlagStep ==
    ASSUME SelectrixTypeOK, PollInv, ProgInv, [SelectrixNext]_selectrixVars PROVE FlagType'
<1> USE SelectrixConstants, SelectrixParts, BusesStay DEF FlagType, busVars, hndVars, BusRest
<1>0. mode' = mode
  BY WhoChanges
<1>1. CASE BusLoad
  BY <1>0, <1>1 DEF BusLoad, Flags
<1>2. CASE BusStore
  BY <1>0, <1>2 DEF BusStore, Flags
<1>3. CASE HandlerLoads
  BY <1>0, <1>3 DEF HandlerLoads, Flags
<1>4. CASE HandlerStores
  BY <1>0, <1>4 DEF HandlerStores, Flags
<1>5. CASE HandlerActs
  BY <1>0, <1>5 DEF HandlerActs, TakeReply, CountStep, TakeReport, Discard, Flags, SettingType
<1>6. CASE UNCHANGED <<flags, breg, hreg>>
  BY <1>0, <1>6
<1> QED
  BY <1>1, <1>2, <1>3, <1>4, <1>5, <1>6, WhoChanges

LEMMA TaskStep ==
    ASSUME SelectrixTypeOK, PollInv, ProgInv, [SelectrixNext]_selectrixVars PROVE TaskType'
<1> USE SelectrixConstants, SelectrixParts, BusesStay DEF TaskType, busVars, BusRest
<1>0. mode' = mode
  BY WhoChanges
<1>1. CASE BusPower
  BY <1>0, <1>1 DEF BusPower, SendTask
<1>2. CASE BusSend
  BY <1>0, <1>2 DEF BusSend, NoTask
<1>3. CASE BusConfigure
  BY <1>0, <1>3 DEF BusConfigure
<1>4. CASE BusSM
  <2>1. UNCHANGED todo /\ (prog' = prog \/ prog' \in Programs)
    BY <1>4 DEF BusSM
  <2>2. prog' \in Seq({10, 12, 14})
    BY <2>1, ProgramTypes
  <2> QED
    BY <1>0, <2>1, <2>2
<1>5. CASE BusAsk
  BY <1>0, <1>5 DEF BusAsk, SendTask
<1>6. CASE BusRead
  <2>1. prog \in Seq({10, 12, 14}) /\ prog # <<>>
    BY <1>6 DEF BusRead, ProgInv, TaskType
  <2>2. Tail(prog) \in Seq({10, 12, 14})
    BY <2>1, HeadTailProperties
  <2>3. UNCHANGED todo /\ prog' \in {Tail(prog), <<>>, prog}
    BY <1>6 DEF BusRead
  <2>4. <<>> \in Seq({10, 12, 14})
    OBVIOUS
  <2>5. prog' \in Seq({10, 12, 14})
    BY <2>1, <2>2, <2>3, <2>4
  <2> QED
    BY <1>0, <2>3, <2>5
<1>7. CASE BusGL
  BY <1>0, <1>7 DEF BusGL, SendTask, QueueType
<1>8. CASE BusGA
  BY <1>0, <1>8 DEF BusGA, SendTask, QueueType
<1>9. CASE BusFetch
  <2>1. CASE mode.fb > 0 /\ state = 1
    <3>1. cur \in Modules
      BY <2>1 DEF SettingType, PollInv, Polls, Modules
    <3>2. BusOf(cur) \in Buses /\ cur \in Nat
      BY <3>1, SelectrixConstants DEF Modules
    <3>3. todo' = [op |-> "fb", bus |-> BusOf(cur), arg |-> cur] /\ UNCHANGED prog
      BY <2>1, <1>9 DEF BusFetch
    <3> QED
      BY <1>0, <3>2, <3>3
  <2>2. CASE ~(mode.fb > 0 /\ state = 1)
    BY <1>0, <2>2, <1>9 DEF BusFetch
  <2> QED
    BY <2>1, <2>2
<1>10. CASE UNCHANGED <<todo, prog>>
  BY <1>0, <1>10
<1> QED
  BY <1>1, <1>2, <1>3, <1>4, <1>5, <1>6, <1>7, <1>8, <1>9, <1>10, WhoChanges

LEMMA ByteStep ==
    ASSUME SelectrixTypeOK, PollInv, ProgInv, [SelectrixNext]_selectrixVars PROVE ByteType'
<1> USE SelectrixConstants, SelectrixParts, BusesStay DEF ByteType, hndVars, lineVars
<1>0. mode' = mode
  BY WhoChanges
<1>1. CASE BusSend
  <2> DEFINE b == [kind |-> "reply", of |-> todo.arg, is |-> 0]
  <2>1. b \in Byte /\ NoByte \in Byte
    BY DEF Byte, NoByte, TaskType
  <2>2. UNCHANGED <<rx, hbyte>> /\ wire' \in {wire, Append(wire, b), Append(wire, NoByte)}
    BY <1>1 DEF BusSend
  <2> HIDE DEF b
  <2>3. Append(wire, b) \in Seq(Byte) /\ Append(wire, NoByte) \in Seq(Byte)
    BY <2>1
  <2> QED
    BY <2>2, <2>3
<1>2. CASE BusRead
  BY <1>0, <1>2 DEF BusRead
<1>3. CASE Arrives
  BY <1>0, <1>3 DEF Arrives
<1>4. CASE Loses
  BY <1>0, <1>4 DEF Loses, Event
<1>5. CASE \E k, d \in Modules \cup {0} : Reports(k, d)
  <2> PICK k, d \in Modules \cup {0} : Reports(k, d)
    BY <1>5
  <2> DEFINE pair == <<[kind |-> "address", of |-> k, is |-> k],
                       [kind |-> "data", of |-> k, is |-> d]>>
  <2>1. k \in Nat /\ d \in Nat
    BY DEF Modules
  <2>2. pair \in Seq(Byte)
    BY <2>1 DEF Byte
  <2>3. wire' = wire \o pair /\ UNCHANGED <<rx, hbyte>>
    BY DEF Reports
  <2> QED
    BY <2>2, <2>3, ConcatProperties
<1>6. CASE HandlerReads
  BY <1>0, <1>6 DEF HandlerReads
<1>7. CASE HandlerActs
  BY <1>0, <1>7 DEF HandlerActs, TakeReply, CountStep, TakeReport, Discard, NoByte, Byte
<1>8. CASE UNCHANGED <<wire, rx, hbyte>>
  BY <1>0, <1>8
<1> QED
  BY <1>1, <1>2, <1>3, <1>4, <1>5, <1>6, <1>7, <1>8, WhoChanges

LEMMA OtherStep ==
    ASSUME SelectrixTypeOK, PollInv, ProgInv, [SelectrixNext]_selectrixVars PROVE OtherType'
<1> USE SelectrixConstants, SelectrixParts, BusesStay DEF OtherType, timerVars, devVars
<1>0. mode' = mode
  BY WhoChanges
<1>1. CASE \E b \in Buses : EnqueueGL(b)
  BY <1>0, <1>1 DEF EnqueueGL, Resume, Event, BusRest
<1>2. CASE \E b \in Buses : EnqueueGA(b)
  BY <1>0, <1>2 DEF EnqueueGA, Resume, Event, BusRest
<1>3. CASE EnqueueSM
  BY <1>0, <1>3 DEF EnqueueSM, Event
<1>4. CASE \E on \in BOOLEAN : SetPowerState(on)
  BY <1>0, <1>4 DEF SetPowerState, Event
<1>5. CASE BusSelect
  BY <1>0, <1>5 DEF BusSelect, BusRest, TaskType
<1>6. CASE BusSend
  BY <1>0, <1>6 DEF BusSend
<1>7. CASE BusConfigure
  <2>1. CASE mode.dbl /\ flags.rtbs
    BY <1>0, <2>1, <1>7 DEF BusConfigure, Buses
  <2>2. CASE ~(mode.dbl /\ flags.rtbs)
    BY <1>0, <2>2, <1>7 DEF BusConfigure
  <2> QED
    BY <2>1, <2>2
<1>8. CASE TimerReads
  BY <1>0, <1>8 DEF TimerReads, SettingType
<1>9. CASE TimerActs
  <2>1. treg' = -1 /\ UNCHANGED <<selected, events>>
    BY <1>9 DEF TimerActs
  <2>2. CASE treg \in {1, 2} /\ (~Overdue \/ resp < RespondLimit) /\ Overdue
    BY <1>0, <2>1, <2>2, <1>9 DEF TimerActs
  <2>3. CASE ~(treg \in {1, 2} /\ (~Overdue \/ resp < RespondLimit) /\ Overdue)
    <3>1. resp' \in {resp, 0}
      BY <2>3, <1>9 DEF TimerActs
    <3> QED
      BY <1>0, <2>1, <3>1
  <2> QED
    BY <2>2, <2>3
<1>10. CASE Loses
  BY <1>0, <1>10 DEF Loses, Event
<1>11. CASE \E k, d \in Modules \cup {0} : Reports(k, d)
  BY <1>0, <1>11 DEF Reports, Event
<1>12. CASE UNCHANGED <<treg, resp, selected, events>>
  BY <1>0, <1>12
<1> QED
  BY <1>1, <1>2, <1>3, <1>4, <1>5, <1>6, <1>7, <1>8, <1>9, <1>10, <1>11, <1>12, WhoChanges

LEMMA PlaceStep ==
    ASSUME SelectrixTypeOK, [SelectrixNext]_selectrixVars PROVE PlaceType'
<1> USE DEF SelectrixTypeOK, PlaceType, BusPcs, busVars, timerVars, hndVars, queueVars, powerVars,
   lineVars, devVars, history, BusRest
<1>1. CASE \E b \in Buses : EnqueueGL(b)
  BY <1>1 DEF EnqueueGL, Resume, Event, BusRest
<1>2. CASE \E b \in Buses : EnqueueGA(b)
  BY <1>2 DEF EnqueueGA, Resume, Event, BusRest
<1>3. CASE EnqueueSM
  BY <1>3 DEF EnqueueSM, Event
<1>4. CASE \E on \in BOOLEAN : SetPowerState(on)
  BY <1>4 DEF SetPowerState, Event
<1>5. CASE SetPowerFlag
  BY <1>5 DEF SetPowerFlag, Resume, BusRest
<1>6. CASE BusPower
  BY <1>6 DEF BusPower, SendTask
<1>7. CASE BusSelect
  BY <1>7 DEF BusSelect, BusRest
<1>8. CASE BusLoad
  BY <1>8 DEF BusLoad
<1>9. CASE BusStore
  BY <1>9 DEF BusStore
<1>10. CASE BusSend
  BY <1>10 DEF BusSend
<1>11. CASE BusConfigure
  BY <1>11 DEF BusConfigure
<1>12. CASE BusTold
  BY <1>12 DEF BusTold, BusRest
<1>13. CASE BusSM
  BY <1>13 DEF BusSM
<1>14. CASE BusAsk
  BY <1>14 DEF BusAsk, SendTask
<1>15. CASE BusStep
  BY <1>15 DEF BusStep, BusRest
<1>16. CASE BusWait
  BY <1>16 DEF BusWait, BusRest
<1>17. CASE BusRead
  BY <1>17 DEF BusRead
<1>18. CASE BusGL
  BY <1>18 DEF BusGL, SendTask
<1>19. CASE BusGA
  BY <1>19 DEF BusGA, SendTask
<1>20. CASE BusFetch
  BY <1>20 DEF BusFetch
<1>21. CASE BusAwaits
  BY <1>21 DEF BusAwaits, BusRest
<1>22. CASE BusEnd
  BY <1>22 DEF BusEnd, BusRest
<1>23. CASE TimerReads
  BY <1>23 DEF TimerReads
<1>24. CASE TimerActs
  BY <1>24 DEF TimerActs, Resume, BusRest
<1>25. CASE Arrives
  BY <1>25 DEF Arrives
<1>26. CASE Loses
  BY <1>26 DEF Loses, Event
<1>27. CASE \E k, d \in Modules \cup {0} : Reports(k, d)
  BY <1>27 DEF Reports, Event
<1>28. CASE HandlerStarts
  BY <1>28 DEF HandlerStarts
<1>29. CASE HandlerLoads
  BY <1>29 DEF HandlerLoads
<1>30. CASE HandlerStores
  BY <1>30 DEF HandlerStores
<1>31. CASE HandlerReads
  BY <1>31 DEF HandlerReads
<1>32. CASE HandlerActs
  BY <1>32 DEF HandlerActs, TakeReply, CountStep, TakeReport, Discard
<1>33. CASE UNCHANGED selectrixVars
  BY <1>33 DEF selectrixVars
<1> QED
  BY <1>1, <1>2, <1>3, <1>4, <1>5, <1>6, <1>7, <1>8, <1>9, <1>10, <1>11, <1>12, <1>13, <1>14,
     <1>15, <1>16, <1>17, <1>18, <1>19, <1>20, <1>21, <1>22, <1>23, <1>24, <1>25, <1>26, <1>27,
     <1>28, <1>29, <1>30, <1>31, <1>32, <1>33
  DEF SelectrixNext, thr_commandSelectrix, Timer, Handler

LEMMA SwitchStep ==
    ASSUME SelectrixTypeOK, [SelectrixNext]_selectrixVars PROVE SwitchType'
<1> USE DEF SelectrixTypeOK, SwitchType, busVars, timerVars, hndVars, queueVars, powerVars,
   lineVars, devVars, history, BusRest
<1>1. CASE \E b \in Buses : EnqueueGL(b)
  BY <1>1, Zenon DEF EnqueueGL, Resume, Event, BusRest
<1>2. CASE \E b \in Buses : EnqueueGA(b)
  BY <1>2, Zenon DEF EnqueueGA, Resume, Event, BusRest
<1>3. CASE EnqueueSM
  BY <1>3, Zenon DEF EnqueueSM, Event
<1>4. CASE \E on \in BOOLEAN : SetPowerState(on)
  BY <1>4, Zenon DEF SetPowerState, Event
<1>5. CASE SetPowerFlag
  BY <1>5, Zenon DEF SetPowerFlag, Resume, BusRest
<1>6. CASE BusPower
  BY <1>6, Zenon DEF BusPower, SendTask
<1>7. CASE BusSelect
  BY <1>7, Zenon DEF BusSelect, BusRest
<1>8. CASE BusLoad
  BY <1>8, Zenon DEF BusLoad
<1>9. CASE BusStore
  BY <1>9, Zenon DEF BusStore
<1>10. CASE BusSend
  BY <1>10, Zenon DEF BusSend
<1>11. CASE BusConfigure
  BY <1>11, Zenon DEF BusConfigure
<1>12. CASE BusTold
  BY <1>12, Zenon DEF BusTold, BusRest
<1>13. CASE BusSM
  BY <1>13, Zenon DEF BusSM
<1>14. CASE BusAsk
  BY <1>14, Zenon DEF BusAsk, SendTask
<1>15. CASE BusStep
  BY <1>15, Zenon DEF BusStep, BusRest
<1>16. CASE BusWait
  BY <1>16, Zenon DEF BusWait, BusRest
<1>17. CASE BusRead
  BY <1>17, Zenon DEF BusRead
<1>18. CASE BusGL
  BY <1>18, Zenon DEF BusGL, SendTask
<1>19. CASE BusGA
  BY <1>19, Zenon DEF BusGA, SendTask
<1>20. CASE BusFetch
  BY <1>20, Zenon DEF BusFetch
<1>21. CASE BusAwaits
  BY <1>21, Zenon DEF BusAwaits, BusRest
<1>22. CASE BusEnd
  BY <1>22, Zenon DEF BusEnd, BusRest
<1>23. CASE TimerReads
  BY <1>23, Zenon DEF TimerReads
<1>24. CASE TimerActs
  BY <1>24, Zenon DEF TimerActs, Resume, BusRest
<1>25. CASE Arrives
  BY <1>25, Zenon DEF Arrives
<1>26. CASE Loses
  BY <1>26, Zenon DEF Loses, Event
<1>27. CASE \E k, d \in Modules \cup {0} : Reports(k, d)
  BY <1>27, Zenon DEF Reports, Event
<1>28. CASE HandlerStarts
  BY <1>28, Zenon DEF HandlerStarts
<1>29. CASE HandlerLoads
  BY <1>29, Zenon DEF HandlerLoads
<1>30. CASE HandlerStores
  BY <1>30, Zenon DEF HandlerStores
<1>31. CASE HandlerReads
  BY <1>31, Zenon DEF HandlerReads
<1>32. CASE HandlerActs
  BY <1>32, Zenon DEF HandlerActs, TakeReply, CountStep, TakeReport, Discard
<1>33. CASE UNCHANGED selectrixVars
  BY <1>33, Zenon DEF selectrixVars
<1> QED
  BY <1>1, <1>2, <1>3, <1>4, <1>5, <1>6, <1>7, <1>8, <1>9, <1>10, <1>11, <1>12, <1>13, <1>14,
     <1>15, <1>16, <1>17, <1>18, <1>19, <1>20, <1>21, <1>22, <1>23, <1>24, <1>25, <1>26, <1>27,
     <1>28, <1>29, <1>30, <1>31, <1>32, <1>33
  DEF SelectrixNext, thr_commandSelectrix, Timer, Handler

-----------------------------------------------------------------------------
(* Who may poll and who programs, together with the types. *)

LEMMA SelectrixTypeStep ==
    ASSUME SelectrixTypeOK, PollInv, ProgInv, [SelectrixNext]_selectrixVars PROVE SelectrixTypeOK'
<1>1. (mode \in Modes)'
  BY WhoChanges DEF SelectrixTypeOK
<1>2. /\ SettingType' /\ QueueType' /\ FlagType' /\ TaskType'
      /\ ByteType' /\ OtherType' /\ PlaceType' /\ SwitchType'
  BY SettingStep, QueueStep, FlagStep, TaskStep, ByteStep, OtherStep, PlaceStep, SwitchStep
<1> QED
  BY <1>1, <1>2 DEF SelectrixTypeOK, SettingType, QueueType, FlagType, TaskType, ByteType,
     OtherType, PlaceType, SwitchType

LEMMA SelectrixTypeInit == SelectrixInit => SelectrixTypeOK /\ PollInv /\ ProgInv
<1> SUFFICES ASSUME SelectrixInit PROVE SelectrixTypeOK /\ PollInv /\ ProgInv
  OBVIOUS
<1>1. mode \in Mode /\ mode.fb \in Nat
  BY ModesAssumption DEF SelectrixInit, Mode
<1>2. SettingType /\ OtherType
  BY <1>1, LimitsAssumption DEF SelectrixInit, SettingType, OtherType, Buses
<1>3. QueueType /\ TaskType /\ ByteType /\ PlaceType
  BY DEF SelectrixInit, QueueType, TaskType, ByteType, PlaceType, NoTask, NoByte, Byte, BusPcs,
     Buses
<1>4. FlagType /\ SwitchType
  <2>1. mode.auto \in BOOLEAN
    BY <1>1 DEF Mode
  <2> QED
    BY <2>1, Zenon DEF SelectrixInit, FlagType, SwitchType, Flags
<1>5. SelectrixTypeOK
  BY <1>2, <1>3, <1>4 DEF SelectrixInit, SelectrixTypeOK, SettingType, QueueType, FlagType,
     TaskType, ByteType, OtherType, PlaceType, SwitchType
<1> QED
  BY <1>5 DEF SelectrixInit, PollInv, ProgInv, NoTask

LEMMA PollStep ==
    ASSUME SelectrixTypeOK, PollInv, ProgInv, [SelectrixNext]_selectrixVars PROVE PollInv'
<1>0. Polls' <=> Polls
  BY WhoChanges, PollsStay
<1> USE SelectrixParts DEF PollInv, busVars, timerVars, hndVars, queueVars, powerVars, lineVars,
   devVars, history, BusRest
<1>1. CASE \E b \in Buses : EnqueueGL(b)
  BY <1>1, <1>0 DEF EnqueueGL, Resume, Event, BusRest
<1>2. CASE \E b \in Buses : EnqueueGA(b)
  BY <1>2, <1>0 DEF EnqueueGA, Resume, Event, BusRest
<1>3. CASE EnqueueSM
  BY <1>3, <1>0 DEF EnqueueSM, Event
<1>4. CASE \E on \in BOOLEAN : SetPowerState(on)
  BY <1>4, <1>0 DEF SetPowerState, Event
<1>5. CASE SetPowerFlag
  BY <1>5, <1>0 DEF SetPowerFlag, Resume, BusRest
<1>6. CASE BusPower
  BY <1>6, <1>0 DEF BusPower, SendTask
<1>7. CASE BusSelect
  BY <1>7, <1>0 DEF BusSelect, BusRest
<1>8. CASE BusLoad
  BY <1>8, <1>0 DEF BusLoad
<1>9. CASE BusStore
  BY <1>9, <1>0 DEF BusStore
<1>10. CASE BusSend
  BY <1>10, <1>0 DEF BusSend, NoTask
<1>11. CASE BusConfigure
  BY <1>11, <1>0 DEF BusConfigure
<1>12. CASE BusTold
  BY <1>12, <1>0 DEF BusTold, BusRest
<1>13. CASE BusSM
  BY <1>13, <1>0 DEF BusSM
<1>14. CASE BusAsk
  BY <1>14, <1>0 DEF BusAsk, SendTask
<1>15. CASE BusStep
  <2>1. prog \in Seq({10, 12, 14}) /\ prog # <<>>
    BY <1>15 DEF BusStep, ProgInv, TaskType
  <2>2. Head(prog) \in {10, 12, 14}
    BY <2>1, HeadTailProperties
  <2> QED
    BY <1>0, <2>2, <1>15 DEF BusStep, BusRest
<1>16. CASE BusWait
  BY <1>16, <1>0 DEF BusWait, BusRest
<1>17. CASE BusRead
  BY <1>17, <1>0 DEF BusRead
<1>18. CASE BusGL
  BY <1>18, <1>0 DEF BusGL, SendTask
<1>19. CASE BusGA
  BY <1>19, <1>0 DEF BusGA, SendTask
<1>20. CASE BusFetch
  BY <1>20, <1>0 DEF BusFetch, Polls
<1>21. CASE BusAwaits
  BY <1>21, <1>0 DEF BusAwaits, BusRest
<1>22. CASE BusEnd
  BY <1>22, <1>0 DEF BusEnd, BusRest
<1>23. CASE TimerReads
  BY <1>23, <1>0 DEF TimerReads
<1>24. CASE TimerActs
  BY <1>24, <1>0 DEF TimerActs, Resume, BusRest
<1>25. CASE Arrives
  BY <1>25, <1>0 DEF Arrives
<1>26. CASE Loses
  BY <1>26, <1>0 DEF Loses, Event
<1>27. CASE \E k, d \in Modules \cup {0} : Reports(k, d)
  BY <1>27, <1>0 DEF Reports, Event
<1>28. CASE HandlerStarts
  BY <1>28, <1>0 DEF HandlerStarts
<1>29. CASE HandlerLoads
  BY <1>29, <1>0 DEF HandlerLoads
<1>30. CASE HandlerStores
  BY <1>30, <1>0 DEF HandlerStores
<1>31. CASE HandlerReads
  BY <1>31, <1>0 DEF HandlerReads
<1>32. CASE HandlerActs
  BY <1>32, <1>0 DEF HandlerActs, TakeReply, CountStep, TakeReport, Discard
<1>33. CASE UNCHANGED selectrixVars
  BY <1>33, <1>0 DEF selectrixVars
<1> QED
  BY <1>1, <1>2, <1>3, <1>4, <1>5, <1>6, <1>7, <1>8, <1>9, <1>10, <1>11, <1>12, <1>13, <1>14,
     <1>15, <1>16, <1>17, <1>18, <1>19, <1>20, <1>21, <1>22, <1>23, <1>24, <1>25, <1>26, <1>27,
     <1>28, <1>29, <1>30, <1>31, <1>32, <1>33
  DEF SelectrixNext, thr_commandSelectrix, Timer, Handler

LEMMA ProgStep ==
    ASSUME SelectrixTypeOK, ProgInv, [SelectrixNext]_selectrixVars PROVE ProgInv'
<1> USE DEF SelectrixTypeOK, ProgInv, Sending, busVars, timerVars, hndVars, queueVars, powerVars,
   lineVars, devVars, history, BusRest
<1>1. CASE \E b \in Buses : EnqueueGL(b)
  BY <1>1 DEF EnqueueGL, Resume, Event, BusRest
<1>2. CASE \E b \in Buses : EnqueueGA(b)
  BY <1>2 DEF EnqueueGA, Resume, Event, BusRest
<1>3. CASE EnqueueSM
  BY <1>3 DEF EnqueueSM, Event
<1>4. CASE \E on \in BOOLEAN : SetPowerState(on)
  BY <1>4 DEF SetPowerState, Event
<1>5. CASE SetPowerFlag
  BY <1>5 DEF SetPowerFlag, Resume, BusRest
<1>6. CASE BusPower
  BY <1>6 DEF BusPower, SendTask
<1>7. CASE BusSelect
  BY <1>7 DEF BusSelect, BusRest
<1>8. CASE BusLoad
  BY <1>8 DEF BusLoad
<1>9. CASE BusStore
  BY <1>9 DEF BusStore
<1>10. CASE BusSend
  BY <1>10 DEF BusSend, NoTask
<1>11. CASE BusConfigure
  BY <1>11 DEF BusConfigure
<1>12. CASE BusTold
  BY <1>12 DEF BusTold, BusRest
<1>13. CASE BusSM
  <2>1. CASE ~power /\ sm > 0
    BY <2>1, <1>13, ProgramTypes DEF BusSM
  <2>2. CASE ~(~power /\ sm > 0)
    BY <2>2, <1>13 DEF BusSM
  <2> QED
    BY <2>1, <2>2
<1>14. CASE BusAsk
  BY <1>14 DEF BusAsk, SendTask
<1>15. CASE BusStep
  BY <1>15 DEF BusStep, BusRest
<1>16. CASE BusWait
  BY <1>16 DEF BusWait, BusRest
<1>17. CASE BusRead
  BY <1>17 DEF BusRead
<1>18. CASE BusGL
  BY <1>18 DEF BusGL, SendTask
<1>19. CASE BusGA
  BY <1>19 DEF BusGA, SendTask
<1>20. CASE BusFetch
  BY <1>20 DEF BusFetch
<1>21. CASE BusAwaits
  BY <1>21 DEF BusAwaits, BusRest
<1>22. CASE BusEnd
  BY <1>22 DEF BusEnd, BusRest
<1>23. CASE TimerReads
  BY <1>23 DEF TimerReads
<1>24. CASE TimerActs
  BY <1>24 DEF TimerActs, Resume, BusRest
<1>25. CASE Arrives
  BY <1>25 DEF Arrives
<1>26. CASE Loses
  BY <1>26 DEF Loses, Event
<1>27. CASE \E k, d \in Modules \cup {0} : Reports(k, d)
  BY <1>27 DEF Reports, Event
<1>28. CASE HandlerStarts
  BY <1>28 DEF HandlerStarts
<1>29. CASE HandlerLoads
  BY <1>29 DEF HandlerLoads
<1>30. CASE HandlerStores
  BY <1>30 DEF HandlerStores
<1>31. CASE HandlerReads
  BY <1>31 DEF HandlerReads
<1>32. CASE HandlerActs
  BY <1>32 DEF HandlerActs, TakeReply, CountStep, TakeReport, Discard
<1>33. CASE UNCHANGED selectrixVars
  BY <1>33 DEF selectrixVars
<1> QED
  BY <1>1, <1>2, <1>3, <1>4, <1>5, <1>6, <1>7, <1>8, <1>9, <1>10, <1>11, <1>12, <1>13, <1>14,
     <1>15, <1>16, <1>17, <1>18, <1>19, <1>20, <1>21, <1>22, <1>23, <1>24, <1>25, <1>26, <1>27,
     <1>28, <1>29, <1>30, <1>31, <1>32, <1>33
  DEF SelectrixNext, thr_commandSelectrix, Timer, Handler

\* Every variable of the driver keeps its type; the part with content is that the
\* module selected last is one of those that are configured.
THEOREM SelectrixTypes == SelectrixSpec => []SelectrixTypeOK
<1>1. SelectrixInit => SelectrixTypeOK /\ PollInv /\ ProgInv
  BY SelectrixTypeInit
<1>2. SelectrixTypeOK /\ PollInv /\ ProgInv /\ [SelectrixNext]_selectrixVars
        => (SelectrixTypeOK /\ PollInv /\ ProgInv)'
  BY SelectrixTypeStep, PollStep, ProgStep
<1> QED
  BY <1>1, <1>2, PTL DEF SelectrixSpec

-----------------------------------------------------------------------------
(* The bus that is selected. *)

LEMMA ChosenStep ==
    ASSUME SelectrixTypeOK, ProgInv, ChosenInv, [SelectrixNext]_selectrixVars PROVE ChosenInv'
<1>0. /\ selected \in {0, 1} /\ todo.bus \in {0, 1}
      /\ ~mode.dbl => selected = 0 /\ todo.bus = 0
  BY SelectrixConstants DEF SelectrixTypeOK, Buses
<1> USE DEF ChosenInv, Chosen, busVars, timerVars, hndVars, queueVars, powerVars, lineVars,
   devVars, history, BusRest
<1>1. CASE \E b \in Buses : EnqueueGL(b)
  BY <1>1, <1>0 DEF EnqueueGL, Resume, Event, BusRest
<1>2. CASE \E b \in Buses : EnqueueGA(b)
  BY <1>2, <1>0 DEF EnqueueGA, Resume, Event, BusRest
<1>3. CASE EnqueueSM
  BY <1>3, <1>0 DEF EnqueueSM, Event
<1>4. CASE \E on \in BOOLEAN : SetPowerState(on)
  BY <1>4, <1>0 DEF SetPowerState, Event
<1>5. CASE SetPowerFlag
  BY <1>5, <1>0 DEF SetPowerFlag, Resume, BusRest
<1>6. CASE BusPower
  BY <1>6, <1>0 DEF BusPower, SendTask
<1>7. CASE BusSelect
  BY <1>7, <1>0 DEF BusSelect, BusRest
<1>8. CASE BusLoad
  BY <1>8, <1>0 DEF BusLoad
<1>9. CASE BusStore
  <2>1. flags'.rtbs <=> todo.bus = 1
    BY <1>9 DEF BusStore, SelectrixTypeOK, Flags
  <2> QED
    BY <1>0, <2>1, <1>9 DEF BusStore
<1>10. CASE BusSend
  BY <1>10, <1>0 DEF BusSend, NoTask
<1>11. CASE BusConfigure
  BY <1>11, <1>0 DEF BusConfigure
<1>12. CASE BusTold
  BY <1>12, <1>0 DEF BusTold, BusRest
<1>13. CASE BusSM
  BY <1>13, <1>0 DEF BusSM
<1>14. CASE BusAsk
  BY <1>14, <1>0 DEF BusAsk, SendTask
<1>15. CASE BusStep
  BY <1>15, <1>0 DEF BusStep, BusRest
<1>16. CASE BusWait
  BY <1>16, <1>0 DEF BusWait, BusRest
<1>17. CASE BusRead
  BY <1>17, <1>0 DEF BusRead
<1>18. CASE BusGL
  BY <1>18, <1>0 DEF BusGL, SendTask
<1>19. CASE BusGA
  BY <1>19, <1>0 DEF BusGA, SendTask
<1>20. CASE BusFetch
  BY <1>20, <1>0 DEF BusFetch
<1>21. CASE BusAwaits
  BY <1>21, <1>0 DEF BusAwaits, BusRest
<1>22. CASE BusEnd
  BY <1>22, <1>0 DEF BusEnd, BusRest
<1>23. CASE TimerReads
  BY <1>23, <1>0 DEF TimerReads
<1>24. CASE TimerActs
  BY <1>24, <1>0 DEF TimerActs, Resume, BusRest
<1>25. CASE Arrives
  BY <1>25, <1>0 DEF Arrives
<1>26. CASE Loses
  BY <1>26, <1>0 DEF Loses, Event
<1>27. CASE \E k, d \in Modules \cup {0} : Reports(k, d)
  BY <1>27, <1>0 DEF Reports, Event
<1>28. CASE HandlerStarts
  BY <1>28, <1>0 DEF HandlerStarts
<1>29. CASE HandlerLoads
  BY <1>29, <1>0 DEF HandlerLoads
<1>30. CASE HandlerStores
  BY <1>30, <1>0 DEF HandlerStores
<1>31. CASE HandlerReads
  BY <1>31, <1>0 DEF HandlerReads
<1>32. CASE HandlerActs
  <2>1. flags'.rtbs <=> flags.rtbs
    BY <1>32 DEF HandlerActs, TakeReply, CountStep, TakeReport, Discard, SelectrixTypeOK, Flags
  <2> QED
    BY <1>0, <2>1, <1>32 DEF HandlerActs
<1>33. CASE UNCHANGED selectrixVars
  BY <1>33, <1>0 DEF selectrixVars
<1> QED
  BY <1>1, <1>2, <1>3, <1>4, <1>5, <1>6, <1>7, <1>8, <1>9, <1>10, <1>11, <1>12, <1>13, <1>14,
     <1>15, <1>16, <1>17, <1>18, <1>19, <1>20, <1>21, <1>22, <1>23, <1>24, <1>25, <1>26, <1>27,
     <1>28, <1>29, <1>30, <1>31, <1>32, <1>33
  DEF SelectrixNext, thr_commandSelectrix, Timer, Handler

-----------------------------------------------------------------------------
(* The module a byte is from. *)

LEMMA ArmedStep ==
    ASSUME SelectrixTypeOK, ~armed => hpc = "idle", [SelectrixNext]_selectrixVars
    PROVE  (~armed => hpc = "idle")'
<1> USE DEF busVars, timerVars, hndVars, queueVars, powerVars, lineVars, devVars, history, BusRest
<1>1. CASE \E b \in Buses : EnqueueGL(b)
  BY <1>1 DEF EnqueueGL, Resume, Event, BusRest
<1>2. CASE \E b \in Buses : EnqueueGA(b)
  BY <1>2 DEF EnqueueGA, Resume, Event, BusRest
<1>3. CASE EnqueueSM
  BY <1>3 DEF EnqueueSM, Event
<1>4. CASE \E on \in BOOLEAN : SetPowerState(on)
  BY <1>4 DEF SetPowerState, Event
<1>5. CASE SetPowerFlag
  BY <1>5 DEF SetPowerFlag, Resume, BusRest
<1>6. CASE BusPower
  BY <1>6 DEF BusPower, SendTask
<1>7. CASE BusSelect
  BY <1>7 DEF BusSelect, BusRest
<1>8. CASE BusLoad
  BY <1>8 DEF BusLoad
<1>9. CASE BusStore
  BY <1>9 DEF BusStore
<1>10. CASE BusSend
  BY <1>10 DEF BusSend
<1>11. CASE BusConfigure
  BY <1>11 DEF BusConfigure
<1>12. CASE BusTold
  BY <1>12 DEF BusTold, BusRest
<1>13. CASE BusSM
  BY <1>13 DEF BusSM
<1>14. CASE BusAsk
  BY <1>14 DEF BusAsk, SendTask
<1>15. CASE BusStep
  BY <1>15 DEF BusStep, BusRest
<1>16. CASE BusWait
  BY <1>16 DEF BusWait, BusRest
<1>17. CASE BusRead
  BY <1>17 DEF BusRead
<1>18. CASE BusGL
  BY <1>18 DEF BusGL, SendTask
<1>19. CASE BusGA
  BY <1>19 DEF BusGA, SendTask
<1>20. CASE BusFetch
  BY <1>20 DEF BusFetch
<1>21. CASE BusAwaits
  BY <1>21 DEF BusAwaits, BusRest
<1>22. CASE BusEnd
  BY <1>22 DEF BusEnd, BusRest
<1>23. CASE TimerReads
  BY <1>23 DEF TimerReads
<1>24. CASE TimerActs
  BY <1>24 DEF TimerActs, Resume, BusRest
<1>25. CASE Arrives
  BY <1>25 DEF Arrives
<1>26. CASE Loses
  BY <1>26 DEF Loses, Event
<1>27. CASE \E k, d \in Modules \cup {0} : Reports(k, d)
  BY <1>27 DEF Reports, Event
<1>28. CASE HandlerStarts
  BY <1>28 DEF HandlerStarts
<1>29. CASE HandlerLoads
  BY <1>29 DEF HandlerLoads
<1>30. CASE HandlerStores
  BY <1>30 DEF HandlerStores
<1>31. CASE HandlerReads
  BY <1>31 DEF HandlerReads
<1>32. CASE HandlerActs
  BY <1>32 DEF HandlerActs, TakeReply, CountStep, TakeReport, Discard
<1>33. CASE UNCHANGED selectrixVars
  BY <1>33 DEF selectrixVars
<1> QED
  BY <1>1, <1>2, <1>3, <1>4, <1>5, <1>6, <1>7, <1>8, <1>9, <1>10, <1>11, <1>12, <1>13, <1>14,
     <1>15, <1>16, <1>17, <1>18, <1>19, <1>20, <1>21, <1>22, <1>23, <1>24, <1>25, <1>26, <1>27,
     <1>28, <1>29, <1>30, <1>31, <1>32, <1>33
  DEF SelectrixNext, thr_commandSelectrix, Timer, Handler

LEMMA NoProgrammingStep ==
    ASSUME SelectrixTypeOK, ProgInv, ~stray => NoProgramming, [SelectrixNext]_selectrixVars
    PROVE  (~stray => NoProgramming)'
<1> USE DEF NoProgramming, ProgInv, Sending, busVars, timerVars, hndVars, queueVars, powerVars,
   lineVars, devVars, history, BusRest
<1>1. CASE \E b \in Buses : EnqueueGL(b)
  BY <1>1 DEF EnqueueGL, Resume, Event, BusRest
<1>2. CASE \E b \in Buses : EnqueueGA(b)
  BY <1>2 DEF EnqueueGA, Resume, Event, BusRest
<1>3. CASE EnqueueSM
  BY <1>3 DEF EnqueueSM, Event
<1>4. CASE \E on \in BOOLEAN : SetPowerState(on)
  BY <1>4 DEF SetPowerState, Event
<1>5. CASE SetPowerFlag
  BY <1>5 DEF SetPowerFlag, Resume, BusRest
<1>6. CASE BusPower
  BY <1>6 DEF BusPower, SendTask
<1>7. CASE BusSelect
  BY <1>7 DEF BusSelect, BusRest
<1>8. CASE BusLoad
  BY <1>8 DEF BusLoad
<1>9. CASE BusStore
  BY <1>9 DEF BusStore
<1>10. CASE BusSend
  BY <1>10 DEF BusSend, NoTask
<1>11. CASE BusConfigure
  BY <1>11 DEF BusConfigure
<1>12. CASE BusTold
  BY <1>12 DEF BusTold, BusRest
<1>13. CASE BusSM
  BY <1>13 DEF BusSM
<1>14. CASE BusAsk
  BY <1>14 DEF BusAsk, SendTask
<1>15. CASE BusStep
  BY <1>15 DEF BusStep, BusRest
<1>16. CASE BusWait
  BY <1>16 DEF BusWait, BusRest
<1>17. CASE BusRead
  BY <1>17 DEF BusRead
<1>18. CASE BusGL
  BY <1>18 DEF BusGL, SendTask
<1>19. CASE BusGA
  BY <1>19 DEF BusGA, SendTask
<1>20. CASE BusFetch
  BY <1>20 DEF BusFetch
<1>21. CASE BusAwaits
  BY <1>21 DEF BusAwaits, BusRest
<1>22. CASE BusEnd
  BY <1>22 DEF BusEnd, BusRest
<1>23. CASE TimerReads
  BY <1>23 DEF TimerReads
<1>24. CASE TimerActs
  BY <1>24 DEF TimerActs, Resume, BusRest
<1>25. CASE Arrives
  BY <1>25 DEF Arrives
<1>26. CASE Loses
  BY <1>26 DEF Loses, Event
<1>27. CASE \E k, d \in Modules \cup {0} : Reports(k, d)
  BY <1>27 DEF Reports, Event
<1>28. CASE HandlerStarts
  BY <1>28 DEF HandlerStarts
<1>29. CASE HandlerLoads
  BY <1>29 DEF HandlerLoads
<1>30. CASE HandlerStores
  BY <1>30 DEF HandlerStores
<1>31. CASE HandlerReads
  BY <1>31 DEF HandlerReads
<1>32. CASE HandlerActs
  BY <1>32 DEF HandlerActs, TakeReply, CountStep, TakeReport, Discard
<1>33. CASE UNCHANGED selectrixVars
  BY <1>33 DEF selectrixVars
<1> QED
  BY <1>1, <1>2, <1>3, <1>4, <1>5, <1>6, <1>7, <1>8, <1>9, <1>10, <1>11, <1>12, <1>13, <1>14,
     <1>15, <1>16, <1>17, <1>18, <1>19, <1>20, <1>21, <1>22, <1>23, <1>24, <1>25, <1>26, <1>27,
     <1>28, <1>29, <1>30, <1>31, <1>32, <1>33
  DEF SelectrixNext, thr_commandSelectrix, Timer, Handler

\* No more bytes are read once the port is lost; what has gone astray stays so.
LEMMA HistoryStep ==
    ASSUME SelectrixTypeOK, [SelectrixNext]_selectrixVars
    PROVE  (armed' => armed) /\ (torn => torn') /\ (stray => stray')
<1> USE DEF busVars, timerVars, hndVars, queueVars, powerVars, lineVars, devVars, history, BusRest
<1>1. CASE \E b \in Buses : EnqueueGL(b)
  BY <1>1 DEF EnqueueGL, Resume, Event, BusRest
<1>2. CASE \E b \in Buses : EnqueueGA(b)
  BY <1>2 DEF EnqueueGA, Resume, Event, BusRest
<1>3. CASE EnqueueSM
  BY <1>3 DEF EnqueueSM, Event
<1>4. CASE \E on \in BOOLEAN : SetPowerState(on)
  BY <1>4 DEF SetPowerState, Event
<1>5. CASE SetPowerFlag
  BY <1>5 DEF SetPowerFlag, Resume, BusRest
<1>6. CASE BusPower
  BY <1>6 DEF BusPower, SendTask
<1>7. CASE BusSelect
  BY <1>7 DEF BusSelect, BusRest
<1>8. CASE BusLoad
  BY <1>8 DEF BusLoad
<1>9. CASE BusStore
  BY <1>9 DEF BusStore
<1>10. CASE BusSend
  BY <1>10 DEF BusSend
<1>11. CASE BusConfigure
  BY <1>11 DEF BusConfigure
<1>12. CASE BusTold
  BY <1>12 DEF BusTold, BusRest
<1>13. CASE BusSM
  BY <1>13 DEF BusSM
<1>14. CASE BusAsk
  BY <1>14 DEF BusAsk, SendTask
<1>15. CASE BusStep
  BY <1>15 DEF BusStep, BusRest
<1>16. CASE BusWait
  BY <1>16 DEF BusWait, BusRest
<1>17. CASE BusRead
  BY <1>17 DEF BusRead
<1>18. CASE BusGL
  BY <1>18 DEF BusGL, SendTask
<1>19. CASE BusGA
  BY <1>19 DEF BusGA, SendTask
<1>20. CASE BusFetch
  BY <1>20 DEF BusFetch
<1>21. CASE BusAwaits
  BY <1>21 DEF BusAwaits, BusRest
<1>22. CASE BusEnd
  BY <1>22 DEF BusEnd, BusRest
<1>23. CASE TimerReads
  BY <1>23 DEF TimerReads
<1>24. CASE TimerActs
  BY <1>24 DEF TimerActs, Resume, BusRest
<1>25. CASE Arrives
  BY <1>25 DEF Arrives
<1>26. CASE Loses
  BY <1>26 DEF Loses, Event
<1>27. CASE \E k, d \in Modules \cup {0} : Reports(k, d)
  <2> PICK k \in Modules \cup {0}, d \in Modules \cup {0} : Reports(k, d)
    BY <1>27
  <2>1. UNCHANGED <<armed, torn>> /\ stray' = (stray \/ k = 0)
    BY DEF Reports
  <2> QED
    BY <2>1, Zenon
<1>28. CASE HandlerStarts
  BY <1>28 DEF HandlerStarts
<1>29. CASE HandlerLoads
  BY <1>29 DEF HandlerLoads
<1>30. CASE HandlerStores
  BY <1>30 DEF HandlerStores
<1>31. CASE HandlerReads
  BY <1>31 DEF HandlerReads
<1>32. CASE HandlerActs
  BY <1>32 DEF HandlerActs, TakeReply, CountStep, TakeReport, Discard
<1>33. CASE UNCHANGED selectrixVars
  BY <1>33 DEF selectrixVars
<1> QED
  BY <1>1, <1>2, <1>3, <1>4, <1>5, <1>6, <1>7, <1>8, <1>9, <1>10, <1>11, <1>12, <1>13, <1>14,
     <1>15, <1>16, <1>17, <1>18, <1>19, <1>20, <1>21, <1>22, <1>23, <1>24, <1>25, <1>26, <1>27,
     <1>28, <1>29, <1>30, <1>31, <1>32, <1>33
  DEF SelectrixNext, thr_commandSelectrix, Timer, Handler

\* A sequence of one byte, when it is taken and when it is added.
LEMMA OneByte ==
    ASSUME NEW s \in Seq(Byte), Len(s) = 1
    PROVE  s # <<>> /\ Head(s) = s[1] /\ Tail(s) = <<>>
<1>1. s # <<>>
  BY EmptySeq
<1>2. Tail(s) \in Seq(Byte) /\ Len(Tail(s)) = 0
  BY <1>1, HeadTailProperties
<1>3. Tail(s) = <<>>
  <2> DEFINE t == Tail(s)
  <2>1. t \in Seq(Byte) /\ Len(t) = 0
    BY <1>2
  <2> HIDE DEF t
  <2>2. t = <<>>
    BY <2>1, EmptySeq
  <2> QED
    BY <2>2 DEF t
<1>4. Head(s) = s[1]
  BY <1>1
<1> QED
  BY <1>1, <1>3, <1>4

LEMMA AddByte ==
    ASSUME NEW e
    PROVE  Append(<<>>, e) # <<>> /\ Len(Append(<<>>, e)) = 1 /\ Append(<<>>, e)[1] = e
<1>1. Len(Append(<<>>, e)) = 1 /\ Append(<<>>, e)[1] = e /\ Len(<<>>) = 0
  OBVIOUS
<1> QED
  BY <1>1

\* At most one reply is under way: the timer gives up only when none is.
LEMMA PolledStep ==
    ASSUME SelectrixTypeOK, PollInv, ProgInv, ModuleInv, [SelectrixNext]_selectrixVars
    PROVE  (~stray /\ ~mode.auto /\ armed => Polled)'
<1> SUFFICES ASSUME ~stray', ~mode.auto', armed' PROVE Polled'
  OBVIOUS
<1>a. ~stray /\ ~mode.auto /\ armed
  BY HistoryStep, WhoChanges
<1>b. /\ NoProgramming /\ Polled
      /\ treg \in {-1, 0, 1, 2} \cup 10 .. 15
      /\ wire \in Seq(Byte) /\ rx \in Seq(Byte)
      /\ Len(wire) \in Nat /\ Len(rx) \in Nat
      /\ wire = <<>> <=> Len(wire) = 0
      /\ rx = <<>> <=> Len(rx) = 0
  BY <1>a, EmptySeq DEF ModuleInv, SelectrixTypeOK
<1> USE DEF NoProgramming, ProgInv, Polled, Asking, Sending, busVars, timerVars, hndVars,
   queueVars, powerVars, lineVars, devVars, history, BusRest
<1>1. CASE \E b \in Buses : EnqueueGL(b)
  BY <1>1, <1>a, <1>b DEF EnqueueGL, Resume, Event, BusRest
<1>2. CASE \E b \in Buses : EnqueueGA(b)
  BY <1>2, <1>a, <1>b DEF EnqueueGA, Resume, Event, BusRest
<1>3. CASE EnqueueSM
  BY <1>3, <1>a, <1>b DEF EnqueueSM, Event
<1>4. CASE \E on \in BOOLEAN : SetPowerState(on)
  BY <1>4, <1>a, <1>b DEF SetPowerState, Event
<1>5. CASE SetPowerFlag
  BY <1>5, <1>a, <1>b DEF SetPowerFlag, Resume, BusRest
<1>6. CASE BusPower
  BY <1>6, <1>a, <1>b DEF BusPower, SendTask
<1>7. CASE BusSelect
  BY <1>7, <1>a, <1>b DEF BusSelect, BusRest
<1>8. CASE BusLoad
  BY <1>8, <1>a, <1>b DEF BusLoad
<1>9. CASE BusStore
  BY <1>9, <1>a, <1>b DEF BusStore
<1>10. CASE BusSend
  <2>1. CASE todo.op = "fb"
    <3>1. wire = <<>> /\ rx = <<>> /\ hpc # "act" /\ state = 2
      BY <1>b, <2>1, <1>10 DEF BusSend, Sending
    <3>2. /\ wire' # <<>> /\ Len(wire') = 1 /\ wire'[1].of = cur /\ todo'.op # "fb" /\ bpc' = "end"
          /\ UNCHANGED <<state, cur, rx, hbyte, hpc, sigio, treg>>
      BY <1>b, <2>1, <3>1, AddByte, <1>10 DEF BusSend, NoTask
    <3> QED
      BY <3>1, <3>2, <1>b
  <2>2. CASE todo.op # "fb"
    <3>1. /\ wire' = wire /\ todo'.op # "fb" /\ bpc' # "fb_state" /\ bpc # "fb_state"
          /\ UNCHANGED <<state, cur, rx, hbyte, hpc, sigio, treg>>
      BY <2>2, <1>b, <1>10 DEF BusSend, NoTask
    <3> QED
      BY <1>b, <2>2, <3>1
  <2> QED
    BY <2>1, <2>2
<1>11. CASE BusConfigure
  BY <1>11, <1>a, <1>b DEF BusConfigure
<1>12. CASE BusTold
  BY <1>12, <1>a, <1>b DEF BusTold, BusRest
<1>13. CASE BusSM
  BY <1>13, <1>a, <1>b DEF BusSM
<1>14. CASE BusAsk
  BY <1>14, <1>a, <1>b DEF BusAsk, SendTask
<1>15. CASE BusStep
  BY <1>15, <1>a, <1>b DEF BusStep, BusRest
<1>16. CASE BusWait
  BY <1>16, <1>a, <1>b DEF BusWait, BusRest
<1>17. CASE BusRead
  BY <1>b, <1>17 DEF BusRead
<1>18. CASE BusGL
  BY <1>18, <1>a, <1>b DEF BusGL, SendTask
<1>19. CASE BusGA
  BY <1>19, <1>a, <1>b DEF BusGA, SendTask
<1>20. CASE BusFetch
  BY <1>20, <1>a, <1>b DEF BusFetch
<1>21. CASE BusAwaits
  BY <1>21, <1>a, <1>b DEF BusAwaits, BusRest
<1>22. CASE BusEnd
  BY <1>22, <1>a, <1>b DEF BusEnd, BusRest
<1>23. CASE TimerReads
  BY <1>b, <1>23 DEF TimerReads
<1>24. CASE TimerActs
  <2>1. CASE treg = 0
    <3>1. state' = 1 /\ UNCHANGED cur
      BY <2>1, <1>24 DEF TimerActs
    <3> QED
      BY <1>b, <2>1, <3>1, <1>24 DEF TimerActs, Resume
  <2>2. CASE treg # 0 /\ UNCHANGED <<state, cur>>
    BY <1>b, <2>2, <1>24 DEF TimerActs, Resume
  <2>3. CASE treg # 0 /\ ~UNCHANGED <<state, cur>>
    <3>1. Overdue \/ treg \notin {1, 2}
      BY <2>3, <1>24 DEF TimerActs
    <3> QED
      BY <1>a, <1>b, <2>3, <3>1, <1>24 DEF TimerActs, Overdue, UnderWay
  <2> QED
    BY <2>1, <2>2, <2>3
<1>25. CASE Arrives
  <2>1. wire # <<>> /\ rx = <<>> /\ hpc # "act" /\ todo.op # "fb" /\ Len(wire) = 1
    BY <1>b, <1>25 DEF Arrives
  <2>2. /\ wire' = Tail(wire) /\ sigio' /\ (rx' = rx \/ rx' = Append(rx, Head(wire)))
        /\ UNCHANGED <<state, cur, hbyte, hpc, treg, todo, bpc>>
    BY <1>25 DEF Arrives
  <2>3. wire' = <<>> /\ Head(wire) = wire[1]
    BY <1>b, <2>1, <2>2, OneByte
  <2> DEFINE r == Append(<<>>, wire[1])
  <2>4. rx' = <<>> \/ rx' = r
    BY <2>1, <2>2, <2>3
  <2>5. r # <<>> /\ Len(r) = 1 /\ r[1] = wire[1]
    BY AddByte
  <2> HIDE DEF r
  <2>6. rx' = <<>> \/ (rx' # <<>> /\ Len(rx') = 1 /\ rx'[1] = wire[1])
    BY <2>4, <2>5
  <2> QED
    BY <1>b, <2>1, <2>2, <2>3, <2>6
<1>26. CASE Loses
  <2>1. wire # <<>> /\ Len(wire) = 1 /\ rx = <<>> /\ hpc # "act" /\ todo.op # "fb"
    BY <1>b, <1>26 DEF Loses
  <2>2. wire' = <<>>
    BY <1>b, <2>1, OneByte, <1>26 DEF Loses
  <2> QED
    BY <1>b, <2>1, <2>2, <1>26 DEF Loses
<1>27. CASE \E k, d \in Modules \cup {0} : Reports(k, d)
  BY <1>b, <1>27 DEF Reports
<1>28. CASE HandlerStarts
  BY <1>28, <1>a, <1>b DEF HandlerStarts
<1>29. CASE HandlerLoads
  BY <1>29, <1>a, <1>b DEF HandlerLoads
<1>30. CASE HandlerStores
  BY <1>30, <1>a, <1>b DEF HandlerStores
<1>31. CASE HandlerReads
  <2>1. rx # <<>> /\ Len(rx) = 1 /\ wire = <<>> /\ hpc = "read" /\ todo.op # "fb"
    BY <1>b, <1>31 DEF HandlerReads
  <2>2. rx' = <<>> /\ hbyte' = rx[1] /\ hpc' = "act"
    BY <1>b, <2>1, OneByte, <1>31 DEF HandlerReads
  <2> QED
    BY <1>b, <2>1, <2>2, <1>31 DEF HandlerReads
<1>32. CASE HandlerActs
  <2>1. hpc = "act" /\ rx = <<>> /\ wire = <<>> /\ todo.op # "fb" /\ state = 2
    BY <1>b, <1>32 DEF HandlerActs
  <2>2. state' = 0 /\ hpc' = "idle"
    BY <2>1, <1>32 DEF HandlerActs, TakeReply, CountStep, TakeReport, Discard
  <2> QED
    BY <1>b, <2>1, <2>2, <1>32 DEF HandlerActs
<1>33. CASE UNCHANGED selectrixVars
  BY <1>33, <1>a, <1>b DEF selectrixVars
<1> QED
  BY <1>1, <1>2, <1>3, <1>4, <1>5, <1>6, <1>7, <1>8, <1>9, <1>10, <1>11, <1>12, <1>13, <1>14,
     <1>15, <1>16, <1>17, <1>18, <1>19, <1>20, <1>21, <1>22, <1>23, <1>24, <1>25, <1>26, <1>27,
     <1>28, <1>29, <1>30, <1>31, <1>32, <1>33
  DEF SelectrixNext, thr_commandSelectrix, Timer, Handler

-----------------------------------------------------------------------------
(* The bytes that are reported, in pairs. *)

\* A byte that goes from the front of one sequence to the end of another.
LEMMA PassedOn ==
    ASSUME NEW r \in Seq(Byte), NEW w \in Seq(Byte), w # <<>>
    PROVE  Append(r, Head(w)) \o Tail(w) = r \o w
<1> DEFINE a == Append(r, Head(w))
           t == Tail(w)
<1>1. /\ a \in Seq(Byte) /\ Len(a) = Len(r) + 1 /\ a[Len(r) + 1] = w[1]
      /\ \A i \in 1 .. Len(r) : a[i] = r[i]
  OBVIOUS
<1>2. /\ t \in Seq(Byte) /\ Len(t) = Len(w) - 1
      /\ \A i \in 1 .. Len(t) : t[i] = w[i + 1]
  BY HeadTailProperties
<1> HIDE DEF a, t
<1>3. Len(r) \in Nat /\ Len(w) \in Nat \ {0}
  BY EmptySeq, LenProperties
<1>4. /\ a \o t \in Seq(Byte) /\ Len(a \o t) = Len(a) + Len(t)
      /\ \A i \in 1 .. Len(a) + Len(t) : (a \o t)[i] = IF i <= Len(a) THEN a[i] ELSE t[i - Len(a)]
  BY <1>1, <1>2, ConcatProperties
<1>5. /\ r \o w \in Seq(Byte) /\ Len(r \o w) = Len(r) + Len(w)
      /\ \A i \in 1 .. Len(r) + Len(w) : (r \o w)[i] = IF i <= Len(r) THEN r[i] ELSE w[i - Len(r)]
  BY ConcatProperties
<1>6. ASSUME NEW i \in 1 .. Len(a \o t) PROVE (a \o t)[i] = (r \o w)[i]
  <2>1. i \in 1 .. Len(r) + Len(w)
    BY <1>1, <1>2, <1>3, <1>4
  <2>2. CASE i <= Len(r)
    BY <1>1, <1>2, <1>3, <1>4, <1>5, <2>1, <2>2
  <2>3. CASE i = Len(r) + 1
    BY <1>1, <1>2, <1>3, <1>4, <1>5, <2>1, <2>3
  <2>4. CASE i > Len(r) + 1
    <3>1. (a \o t)[i] = t[i - Len(a)] /\ i - Len(a) \in 1 .. Len(t)
      BY <1>1, <1>2, <1>3, <1>4, <2>1, <2>4
    <3>2. t[i - Len(a)] = w[i - Len(a) + 1] /\ i - Len(a) + 1 = i - Len(r)
      BY <1>1, <1>2, <1>3, <2>1, <3>1
    <3>3. (r \o w)[i] = w[i - Len(r)]
      BY <1>3, <1>5, <2>1, <2>4
    <3> QED
      BY <3>1, <3>2, <3>3
  <2> QED
    BY <1>3, <2>1, <2>2, <2>3, <2>4
<1>7. Len(a \o t) = Len(r \o w)
  BY <1>1, <1>2, <1>3, <1>4, <1>5
<1>8. a \o t = r \o w
  BY <1>4, <1>5, <1>6, <1>7, SeqEqual
<1> QED
  BY <1>8 DEF a, t

\* What is left when the first byte is taken.
LEMMA FirstTaken ==
    ASSUME NEW b \in Byte, NEW s \in Seq(Byte), InPairs(<<b>> \o s)
    PROVE  /\ InPairs(s)
           /\ b.kind = "address" =>
                /\ b.is = b.of /\ b.of \in Modules
                /\ s # <<>> /\ s[1].kind = "data" /\ s[1].of = b.of
           /\ b.kind # "address" => s = <<>> \/ s[1].kind = "address"
<1> DEFINE t == <<b>> \o s
<1>1. <<b>> \in Seq(Byte) /\ Len(<<b>>) = 1 /\ <<b>>[1] = b
  OBVIOUS
<1>2. Len(s) \in Nat /\ DOMAIN s = 1 .. Len(s) /\ (s = <<>> <=> Len(s) = 0)
  BY EmptySeq, LenProperties
<1>3. /\ t \in Seq(Byte) /\ Len(t) = 1 + Len(s) /\ DOMAIN t = 1 .. 1 + Len(s)
      /\ \A i \in 1 .. 1 + Len(s) : t[i] = IF i <= 1 THEN b ELSE s[i - 1]
  BY <1>1, <1>2, ConcatProperties, LenProperties
<1> HIDE DEF t
<1>4. t[1] = b /\ \A i \in 1 .. Len(s) : t[i + 1] = s[i]
  BY <1>2, <1>3
<1>5. ASSUME NEW i \in DOMAIN t
      PROVE  \/ /\ t[i].kind = "address" /\ t[i].is = t[i].of /\ t[i].of \in Modules
                /\ i + 1 \in DOMAIN t /\ t[i + 1].kind = "data" /\ t[i + 1].of = t[i].of
             \/ /\ t[i].kind = "data"
                /\ i + 1 \in DOMAIN t => t[i + 1].kind = "address"
  BY DEF InPairs, t
<1>6. ASSUME NEW i \in DOMAIN s
      PROVE  \/ /\ s[i].kind = "address" /\ s[i].is = s[i].of /\ s[i].of \in Modules
                /\ i + 1 \in DOMAIN s /\ s[i + 1].kind = "data" /\ s[i + 1].of = s[i].of
             \/ /\ s[i].kind = "data"
                /\ i + 1 \in DOMAIN s => s[i + 1].kind = "address"
  <2>1. i + 1 \in DOMAIN t /\ t[i + 1] = s[i]
    BY <1>2, <1>3, <1>4
  <2>2. i + 2 \in DOMAIN t <=> i + 1 \in DOMAIN s
    BY <1>2, <1>3
  <2>3. i + 1 \in DOMAIN s => t[i + 2] = s[i + 1]
    BY <1>2, <1>4
  <2>4. (i + 1) + 1 = i + 2
    BY <1>2
  <2> QED
    BY <1>5, <2>1, <2>2, <2>3, <2>4
<1>7. 1 \in DOMAIN t /\ (2 \in DOMAIN t <=> s # <<>>) /\ (s # <<>> => t[2] = s[1])
  BY <1>2, <1>3, <1>4
<1> QED
  BY <1>4, <1>5, <1>6, <1>7 DEF InPairs

\* What there is when a report is added.
LEMMA ReportAdded ==
    ASSUME NEW s \in Seq(Byte), InPairs(s), NEW a \in Byte, NEW d \in Byte,
           a.kind = "address", a.is = a.of, a.of \in Modules, d.kind = "data", d.of = a.of
    PROVE  InPairs(s \o <<a, d>>) /\ (s \o <<a, d>>)[1] = IF s = <<>> THEN a ELSE s[1]
<1> DEFINE t == s \o <<a, d>>
<1>1. /\ <<a, d>> \in Seq(Byte) /\ Len(<<a, d>>) = 2
      /\ <<a, d>>[1] = a /\ <<a, d>>[2] = d
  OBVIOUS
<1>2. Len(s) \in Nat /\ DOMAIN s = 1 .. Len(s) /\ (s = <<>> <=> Len(s) = 0)
  BY EmptySeq, LenProperties
<1>3. /\ t \in Seq(Byte) /\ Len(t) = Len(s) + 2 /\ DOMAIN t = 1 .. Len(s) + 2
      /\ \A i \in 1 .. Len(s) + 2 : t[i] = IF i <= Len(s) THEN s[i] ELSE <<a, d>>[i - Len(s)]
  BY <1>1, <1>2, ConcatProperties, LenProperties
<1> HIDE DEF t
<1>4. /\ \A i \in DOMAIN s : i \in DOMAIN t /\ t[i] = s[i]
      /\ t[Len(s) + 1] = a /\ t[Len(s) + 2] = d
  BY <1>1, <1>2, <1>3
<1>5. ASSUME NEW i \in DOMAIN t
      PROVE  \/ /\ t[i].kind = "address" /\ t[i].is = t[i].of /\ t[i].of \in Modules
                /\ i + 1 \in DOMAIN t /\ t[i + 1].kind = "data" /\ t[i + 1].of = t[i].of
             \/ /\ t[i].kind = "data"
                /\ i + 1 \in DOMAIN t => t[i + 1].kind = "address"
  <2>1. CASE i \in DOMAIN s /\ i + 1 \in DOMAIN s
    BY <1>4, <2>1 DEF InPairs
  <2>2. CASE i = Len(s) /\ i \in DOMAIN s
    <3>1. s[i].kind = "data"
      BY <1>2, <2>2 DEF InPairs
    <3> QED
      BY <1>4, <2>2, <3>1
  <2>3. CASE i = Len(s) + 1
    <3>1. i + 1 = Len(s) + 2 /\ i + 1 \in DOMAIN t
      BY <1>2, <1>3, <2>3
    <3> QED
      BY <1>4, <2>3, <3>1
  <2>4. CASE i = Len(s) + 2
    <3>1. i + 1 \notin DOMAIN t
      BY <1>2, <1>3, <2>4
    <3> QED
      BY <1>4, <2>4, <3>1
  <2> QED
    BY <1>2, <1>3, <2>1, <2>2, <2>3, <2>4
<1>6. t[1] = IF s = <<>> THEN a ELSE s[1]
  BY <1>2, <1>4
<1> QED
  BY <1>5, <1>6 DEF InPairs, t

-----------------------------------------------------------------------------
(* Reports and the handler. *)

LEMMA ReportedType ==
    ASSUME SelectrixTypeOK
    PROVE  /\ rx \in Seq(Byte) /\ wire \in Seq(Byte) /\ hbyte \in Byte
           /\ Held \in Seq(Byte) /\ Reported \in Seq(Byte)
           /\ Reported = Held \o (rx \o wire)
<1>1. rx \in Seq(Byte) /\ wire \in Seq(Byte) /\ hbyte \in Byte
  BY DEF SelectrixTypeOK
<1>2. <<hbyte>> \in Seq(Byte) /\ <<>> \in Seq(Byte)
  BY <1>1
<1>3. Held \in Seq(Byte)
  BY <1>2 DEF Held
<1>4. Held \o rx \in Seq(Byte)
  BY <1>1, <1>3, ConcatProperties
<1>5. Reported \in Seq(Byte) /\ Reported = Held \o (rx \o wire)
  BY <1>1, <1>3, <1>4, ConcatProperties, ConcatAssociative DEF Reported
<1> QED
  BY <1>1, <1>3, <1>5

\* Neither what is reported nor what is expected changes.
Unnoticed == Reported' = Reported /\ (flags'.adr <=> flags.adr) /\ cur' = cur

LEMMA ArrivesUnnoticed ==
    ASSUME SelectrixTypeOK, ~stray', mode.auto, Arrives PROVE Unnoticed
<1>1. wire # <<>> /\ rx' = Append(rx, Head(wire)) /\ wire' = Tail(wire)
  <2>1. ~(Len(rx) >= BufferLimit)
    BY DEF Arrives
  <2>2. Len(rx) < BufferLimit
    BY <2>1, ReportedType, SelectrixConstants, LenProperties
  <2> QED
    BY <2>2 DEF Arrives
<1>2. rx' \o wire' = rx \o wire
  BY <1>1, ReportedType, PassedOn
<1>3. Head(wire) \in Byte /\ rx' \in Seq(Byte) /\ wire' \in Seq(Byte)
  BY <1>1, ReportedType, HeadTailProperties
<1>4. Held' = Held /\ UNCHANGED <<flags, cur>>
  BY DEF Arrives, Held, hndVars
<1>5. Reported' = Held' \o (rx' \o wire')
  <2>1. Reported' = (Held' \o rx') \o wire' /\ Held' \in Seq(Byte)
    BY <1>4, ReportedType DEF Reported
  <2> QED
    BY <1>3, <2>1, ConcatAssociative
<1> QED
  BY <1>2, <1>4, <1>5, ReportedType DEF Unnoticed

LEMMA HandlerReadsUnnoticed ==
    ASSUME SelectrixTypeOK, HandlerReads PROVE Unnoticed
<1>1. /\ rx # <<>> /\ rx' = Tail(rx) /\ hbyte' = Head(rx) /\ hpc = "read" /\ hpc' = "act"
      /\ UNCHANGED <<wire, flags, cur>>
  BY DEF HandlerReads
<1>2. Held = <<>> /\ Held' = Append(<<>>, Head(rx))
  BY <1>1 DEF Held
<1>3. Held' \o rx' = Held \o rx
  BY <1>1, <1>2, ReportedType, PassedOn
<1> QED
  BY <1>1, <1>3 DEF Unnoticed, Reported

LEMMA UnnoticedStep ==
    ASSUME SelectrixTypeOK, InStep(Reported), mode' = mode, Unnoticed
    PROVE  InStep(Reported)'
<1>1. Modules' = Modules
  BY DEF Modules
<1> HIDE DEF Reported
<1> QED
  BY <1>1 DEF InStep, InPairs, Unnoticed

\* The byte the handler holds is the one that is expected.
LEMMA ExpectedByte ==
    ASSUME SelectrixTypeOK, InStep(Reported), hpc = "act"
    PROVE  /\ InPairs(<<hbyte>> \o (rx \o wire)) /\ rx \o wire \in Seq(Byte)
           /\ flags.adr <=> hbyte.kind = "address"
           /\ ~flags.adr => hbyte.kind = "data" /\ hbyte.of = cur
<1>1. Held = <<hbyte>> /\ rx \o wire \in Seq(Byte)
  BY ReportedType, ConcatProperties DEF Held
<1>2. Reported = <<hbyte>> \o (rx \o wire)
  BY <1>1, ReportedType
<1>3. <<hbyte>> \in Seq(Byte) /\ Len(<<hbyte>>) = 1 /\ <<hbyte>>[1] = hbyte
  BY ReportedType
<1>4. Reported # <<>> /\ Reported[1] = hbyte /\ 1 \in DOMAIN Reported
  <2>1. Len(Reported) = 1 + Len(rx \o wire) /\ Len(rx \o wire) \in Nat
    BY <1>1, <1>2, <1>3, ConcatProperties, LenProperties
  <2>2. Reported[1] = hbyte
    BY <1>1, <1>2, <1>3, <2>1, ConcatProperties
  <2> QED
    BY <2>1, <2>2, ReportedType, EmptySeq, LenProperties
<1> HIDE DEF Reported
<1>5. hbyte.kind = "address" \/ hbyte.kind = "data"
  BY <1>4 DEF InStep, InPairs
<1> QED
  BY <1>1, <1>2, <1>4, <1>5 DEF InStep

LEMMA HandlerActsInStep ==
    ASSUME SelectrixTypeOK, PollInv, NoProgramming, mode.auto, InStep(Reported), HandlerActs
    PROVE  InStep(Reported)'
<1> DEFINE s == rx \o wire
<1>1. hpc = "act" /\ hpc' = "idle" /\ UNCHANGED <<mode, rx, wire>>
  BY DEF HandlerActs, lineVars
<1>2. state \notin {1, 2} /\ state \notin {10, 12, 14}
  BY DEF PollInv, Polls, NoProgramming
<1>3. TakeReport
  BY <1>2 DEF HandlerActs, TakeReply, CountStep, Discard
<1>4. /\ InPairs(s)
      /\ hbyte.kind = "address" =>
           /\ hbyte.is = hbyte.of /\ hbyte.of \in Modules
           /\ s # <<>> /\ s[1].kind = "data" /\ s[1].of = hbyte.of
      /\ hbyte.kind # "address" => s = <<>> \/ s[1].kind = "address"
  BY <1>1, ExpectedByte, FirstTaken, ReportedType
<1>5. flags.adr <=> hbyte.kind = "address"
  BY <1>1, ExpectedByte
<1>6. Held' = <<>> /\ s' = s
  BY <1>1 DEF Held
<1>7. Reported' = s
  <2>1. <<>> \o rx = rx
    BY ReportedType, ConcatEmptySeq
  <2> QED
    BY <1>1, <1>6, <2>1 DEF Reported
<1>8. Modules' = Modules /\ flags \in Flags
  BY <1>1 DEF Modules, SelectrixTypeOK
<1> HIDE DEF s, Reported
<1>9. CASE hbyte.kind = "address"
  <2>1. cur' = hbyte.of /\ ~flags'.adr
    BY <1>3, <1>4, <1>5, <1>8, <1>9 DEF TakeReport, Flags
  <2> QED
    BY <1>4, <1>7, <1>8, <1>9, <2>1 DEF InStep, InPairs
<1>10. CASE hbyte.kind # "address"
  <2>1. flags'.adr
    BY <1>3, <1>5, <1>8, <1>10 DEF TakeReport, Flags
  <2> QED
    BY <1>4, <1>7, <1>8, <1>10, <2>1 DEF InStep, InPairs
<1> QED
  BY <1>9, <1>10

LEMMA ReportsInStep ==
    ASSUME SelectrixTypeOK, InStep(Reported), NEW k \in Modules \cup {0},
           NEW d \in Modules \cup {0}, Reports(k, d), ~stray'
    PROVE  InStep(Reported)'
<1> DEFINE a == [kind |-> "address", of |-> k, is |-> k]
           b == [kind |-> "data", of |-> k, is |-> d]
<1>1. k \in Modules /\ k \in Nat /\ d \in Nat
  <2>1. k # 0
    BY DEF Reports
  <2> QED
    BY <2>1 DEF Modules
<1>2. /\ a \in Byte /\ b \in Byte /\ a.kind = "address" /\ a.is = a.of /\ a.of \in Modules
      /\ b.kind = "data" /\ b.of = a.of
  BY <1>1 DEF Byte
<1>3. wire' = wire \o <<a, b>> /\ UNCHANGED <<mode, rx, hpc, hbyte, flags, cur>>
  BY DEF Reports, hndVars
<1> HIDE DEF a, b
<1>4. <<a, b>> \in Seq(Byte) /\ Held' = Held
  BY <1>2, <1>3 DEF Held
<1>5. Held \o rx \in Seq(Byte)
  BY ReportedType, ConcatProperties
<1>6. Reported' = Reported \o <<a, b>>
  BY <1>3, <1>4, <1>5, ReportedType, ConcatAssociative DEF Reported
<1>7. /\ InPairs(Reported \o <<a, b>>)
      /\ (Reported \o <<a, b>>)[1] = IF Reported = <<>> THEN a ELSE Reported[1]
  BY <1>2, ReportedType, ReportAdded DEF InStep
<1>8. Reported' # <<>>
  <2>1. Len(Reported \o <<a, b>>) = Len(Reported) + 2 /\ Len(Reported) \in Nat
    BY <1>4, ReportedType, ConcatProperties, LenProperties
  <2> QED
    BY <1>6, <2>1
<1>9. Modules' = Modules
  BY <1>3 DEF Modules
<1> HIDE DEF Reported
<1>10. InPairs(Reported)'
  BY <1>6, <1>7, <1>9 DEF InPairs
<1> QED
  BY <1>2, <1>3, <1>6, <1>7, <1>8, <1>10 DEF InStep

\* Where changes are reported, the interface owes no replies.
LEMMA NoReplies ==
    ASSUME SelectrixTypeOK, InStep(Reported), wire # <<>> PROVE Head(wire).kind # "reply"
<1>1. Held \o rx \in Seq(Byte)
  BY ReportedType, ConcatProperties
<1> DEFINE h == Held \o rx
<1>2. Len(h) \in Nat /\ Len(wire) \in Nat \ {0}
  BY <1>1, ReportedType, EmptySeq, LenProperties
<1>3. Reported = h \o wire
  BY DEF Reported
<1> HIDE DEF h, Reported
<1>4. Len(h) + 1 \in DOMAIN Reported /\ Reported[Len(h) + 1] = wire[1]
  <2>1. h \in Seq(Byte)
    BY <1>1 DEF h
  <2> QED
    BY <1>2, <1>3, <2>1, ReportedType, ConcatProperties, LenProperties
<1>5. wire[1].kind \in {"address", "data"}
  BY <1>4 DEF InStep, InPairs
<1> QED
  BY <1>5, ReportedType

\* No byte is taken for the wrong half, unless one was dropped or is not a module's.
LEMMA InStepStep ==
    ASSUME SelectrixTypeOK, PollInv, ProgInv, ModuleInv, [SelectrixNext]_selectrixVars
    PROVE  (~stray /\ mode.auto /\ ~torn => InStep(Reported))'
<1> SUFFICES ASSUME ~stray', mode.auto', ~torn' PROVE InStep(Reported)'
  OBVIOUS
<1>a. /\ ~stray /\ mode.auto /\ ~torn
      /\ NoProgramming /\ InStep(Reported)
  BY HistoryStep, WhoChanges DEF ModuleInv
<1>b. /\ treg = -1 /\ todo.op \notin {"fb", "ask"}
      /\ prog = <<>>
  BY <1>a DEF PollInv, Polls, NoProgramming
<1>c. Unnoticed => InStep(Reported)'
  BY <1>a, UnnoticedStep, WhoChanges
<1> HIDE DEF PollInv, ProgInv
<1> USE DEF Unnoticed, Reported, Held, busVars, timerVars, hndVars, queueVars, powerVars, lineVars,
   devVars, history, BusRest
<1>1. CASE \E b \in Buses : EnqueueGL(b)
  BY <1>1, <1>c DEF EnqueueGL, Resume, Event, BusRest
<1>2. CASE \E b \in Buses : EnqueueGA(b)
  BY <1>2, <1>c DEF EnqueueGA, Resume, Event, BusRest
<1>3. CASE EnqueueSM
  BY <1>3, <1>c DEF EnqueueSM, Event
<1>4. CASE \E on \in BOOLEAN : SetPowerState(on)
  BY <1>4, <1>c DEF SetPowerState, Event
<1>5. CASE SetPowerFlag
  BY <1>5, <1>c DEF SetPowerFlag, Resume, BusRest
<1>6. CASE BusPower
  BY <1>6, <1>c DEF BusPower, SendTask
<1>7. CASE BusSelect
  BY <1>7, <1>c DEF BusSelect, BusRest
<1>8. CASE BusLoad
  BY <1>8, <1>c DEF BusLoad
<1>9. CASE BusStore
  <2>1. flags = breg /\ flags \in Flags
    BY <1>9 DEF BusStore, SelectrixTypeOK
  <2>2. flags'.adr <=> flags.adr
    BY <2>1, <1>9 DEF BusStore, Flags
  <2> QED
    BY <1>c, <2>2, <1>9 DEF BusStore
<1>10. CASE BusSend
  <2>1. todo.op \notin {"fb", "ask"}
    BY <1>a, <1>b
  <2> QED
    BY <1>c, <2>1, <1>10 DEF BusSend
<1>11. CASE BusConfigure
  BY <1>11, <1>c DEF BusConfigure
<1>12. CASE BusTold
  BY <1>12, <1>c DEF BusTold, BusRest
<1>13. CASE BusSM
  BY <1>13, <1>c DEF BusSM
<1>14. CASE BusAsk
  BY <1>14, <1>c DEF BusAsk, SendTask
<1>15. CASE BusStep
  BY <1>c, <1>15 DEF BusStep, BusRest
<1>16. CASE BusWait
  BY <1>16, <1>c DEF BusWait, BusRest
<1>17. CASE BusRead
  BY <1>a, <1>b, <1>17 DEF BusRead, ProgInv
<1>18. CASE BusGL
  BY <1>18, <1>c DEF BusGL, SendTask
<1>19. CASE BusGA
  BY <1>19, <1>c DEF BusGA, SendTask
<1>20. CASE BusFetch
  BY <1>20, <1>c DEF BusFetch
<1>21. CASE BusAwaits
  BY <1>21, <1>c DEF BusAwaits, BusRest
<1>22. CASE BusEnd
  BY <1>22, <1>c DEF BusEnd, BusRest
<1>23. CASE TimerReads
  BY <1>23, <1>c DEF TimerReads
<1>24. CASE TimerActs
  BY <1>b, <1>24 DEF TimerActs
<1>25. CASE Arrives
  BY <1>a, <1>c, <1>25, ArrivesUnnoticed
<1>26. CASE Loses
  <2>1. wire # <<>> /\ Head(wire).kind = "reply"
    BY <1>26 DEF Loses
  <2> QED
    BY <1>a, <2>1, NoReplies
<1>27. CASE \E k, d \in Modules \cup {0} : Reports(k, d)
  BY <1>a, <1>27, ReportsInStep
<1>28. CASE HandlerStarts
  BY <1>28, <1>c DEF HandlerStarts
<1>29. CASE HandlerLoads
  BY <1>29, <1>c DEF HandlerLoads
<1>30. CASE HandlerStores
  <2>1. flags' = flags
    BY <1>30 DEF HandlerStores
  <2> QED
    BY <1>c, <2>1, <1>30 DEF HandlerStores
<1>31. CASE HandlerReads
  BY <1>c, <1>31, HandlerReadsUnnoticed
<1>32. CASE HandlerActs
  BY <1>a, <1>32, HandlerActsInStep
<1>33. CASE UNCHANGED selectrixVars
  BY <1>33, <1>c DEF selectrixVars
<1> QED
  BY <1>1, <1>2, <1>3, <1>4, <1>5, <1>6, <1>7, <1>8, <1>9, <1>10, <1>11, <1>12, <1>13, <1>14,
     <1>15, <1>16, <1>17, <1>18, <1>19, <1>20, <1>21, <1>22, <1>23, <1>24, <1>25, <1>26, <1>27,
     <1>28, <1>29, <1>30, <1>31, <1>32, <1>33
  DEF SelectrixNext, thr_commandSelectrix, Timer, Handler

LEMMA ModuleStep ==
    ASSUME SelectrixTypeOK, PollInv, ProgInv, ModuleInv, [SelectrixNext]_selectrixVars
    PROVE  ModuleInv'
<1>1. (~armed => hpc = "idle")' /\ (~stray => NoProgramming)'
  BY ArmedStep, NoProgrammingStep DEF ModuleInv
<1> QED
  BY <1>1, PolledStep, InStepStep DEF ModuleInv

LEMMA DriverInit == SelectrixInit => ChosenInv /\ ModuleInv
<1> SUFFICES ASSUME SelectrixInit PROVE ChosenInv /\ ModuleInv
  OBVIOUS
<1>1. ChosenInv
  BY DEF SelectrixInit, ChosenInv, Chosen, NoTask
<1>2. NoProgramming /\ Polled /\ armed
  BY DEF SelectrixInit, NoProgramming, Polled, Asking, NoTask, Sending
<1>3. mode.auto => InStep(Reported)
  <2>1. SelectrixTypeOK
    BY SelectrixTypeInit
  <2>2. Reported = <<>>
    <3>1. Held = <<>> /\ rx = <<>> /\ wire = <<>>
      BY DEF SelectrixInit, Held
    <3> QED
      BY <3>1, EmptySeq, ConcatEmptySeq DEF Reported
  <2>3. mode.auto => flags.adr
    BY DEF SelectrixInit
  <2> QED
    BY <2>2, <2>3 DEF InStep, InPairs
<1> QED
  BY <1>1, <1>2, <1>3 DEF ModuleInv

SelectrixInv == SelectrixTypeOK /\ PollInv /\ ProgInv /\ ChosenInv /\ ModuleInv

\* What selRautenhaus, thr_feedbackSelectrix and sig_processSelectrix keep to.
THEOREM SelectrixInvariant == SelectrixSpec => []SelectrixInv
<1>1. SelectrixInit => SelectrixInv
  BY SelectrixTypeInit, DriverInit DEF SelectrixInv
<1>2. SelectrixInv /\ [SelectrixNext]_selectrixVars => SelectrixInv'
  BY SelectrixTypeStep, PollStep, ProgStep, ChosenStep, ModuleStep DEF SelectrixInv
<1> QED
  BY <1>1, <1>2, PTL DEF SelectrixSpec

\* selRautenhaus selects the bus of every command, unless SXflags were torn.
THEOREM RightBusHolds == SelectrixSpec => RightBus
<1>1. SelectrixInv => (bpc = "send" /\ bpc' # "send" /\ ~torn => selected = todo.bus)
  BY DEF SelectrixInv, ChosenInv, Chosen
<1> QED
  BY <1>1, SelectrixInvariant, PTL DEF RightBus

\* sig_processSelectrix sets the contacts of the module that has answered or has
\* been reported, whatever replies and signals are lost.
THEOREM RightModuleHolds == SelectrixSpec => RightModule
<1>1. ASSUME SelectrixInv, hpc = "act", ~torn, ~stray
      PROVE  /\ state = 2 => hbyte.of = cur
             /\ mode.auto /\ state = 0 /\ ~flags.adr => hbyte.kind = "data" /\ hbyte.of = cur
  <2>1. armed /\ SelectrixTypeOK
    BY <1>1 DEF SelectrixInv, ModuleInv
  <2>2. CASE mode.auto
    <3>1. state # 2
      BY <1>1, <2>2 DEF SelectrixInv, PollInv, Polls
    <3>2. InStep(Reported)
      BY <1>1, <2>2 DEF SelectrixInv, ModuleInv
    <3> QED
      BY <1>1, <2>1, <3>1, <3>2, ExpectedByte
  <2>3. CASE ~mode.auto
    BY <1>1, <2>1, <2>3 DEF SelectrixInv, ModuleInv, Polled
  <2> QED
    BY <2>2, <2>3
<1>2. SelectrixInv => (hpc = "act" /\ hpc' = "idle" /\ ~torn /\ ~stray =>
        /\ state = 2 => hbyte.of = cur
        /\ mode.auto /\ state = 0 /\ ~flags.adr => hbyte.kind = "data" /\ hbyte.of = cur)
  BY <1>1
<1> QED
  BY <1>2, SelectrixInvariant, PTL DEF RightModule

=============================================================================
