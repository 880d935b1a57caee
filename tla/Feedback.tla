------------------------------- MODULE Feedback -------------------------------
(* The FB device group of one bus (srcp-fb.c): what the bus thread reads of  *)
(* the contacts, or a session sets, becomes the state of a port; a contact   *)
(* that opens is believed only min_time later, until then the reset waits in *)
(* a queue that the bus thread looks through in each turn of its loop.       *)
(*                                                                           *)
(* updateFB is called by the bus thread and, for SET FB, by session threads. *)
(* It reads outside queue_mutex_fb and writes inside, so a read and a write  *)
(* are actions of their own.  Times count in units of the clock.             *)
(*                                                                           *)
(* The reset queue is a ring buffer, here the slots from the read cursor to  *)
(* the write cursor as a sequence.  Its test for room is outside its mutex:  *)
(* two threads that pass it together let the write cursor run onto the read  *)
(* cursor, and the full ring reads as empty.                                 *)
EXTENDS Integers, Sequences

CONSTANTS Ports, NoPort,    \* feedback contacts; none of them
          Bus, Sessions,    \* the threads that call updateFB
          MinTimes,         \* configurations: 0, or the min_time of the driver
          QUEUELENGTH_FB,   \* slots of the reset queue
          MaxSets           \* bound: SET FB commands altogether

ASSUME FeedbackAssumption == /\ Bus \notin Sessions /\ NoPort \notin Ports
                             /\ MinTimes \subseteq Nat /\ MinTimes # {}
                             /\ QUEUELENGTH_FB \in Nat \ {0, 1} /\ MaxSets \in Nat

VARIABLES min_time,     \* configured once
          contact,      \* external: is the contact closed (1) or open (0)?
          fbstate,      \* per port: state and change
          reset_queue,  \* resets that wait, with their age
          turn,         \* bus thread: reads contacts or looks at the resets next
          th,           \* per thread: where it is in updateFB or check_reset_fb
          informed,     \* per port: the state in the last INFO message
          reported,     \* history: per port the value last given to updateFB
          clash,        \* history: ports on which two threads were active at once
          forgotten,    \* history: ports whose waiting reset an overrun of the ring
                        \* lost, and that queued none since
          left          \* SET FB commands still to come

portVars == <<fbstate, informed>>
resetVars == <<reset_queue, forgotten>>
vars == <<min_time, contact, portVars, resetVars, turn, th, reported, clash, left>>

Threads == Sessions \cup {Bus}

IdleThread == [pc |-> "idle", port |-> NoPort, age |-> 0]

Init == /\ min_time \in MinTimes
        /\ contact = [p \in Ports |-> 0]
        /\ fbstate = [p \in Ports |-> [state |-> 0, change |-> 0]]
        /\ reset_queue = <<>>
        /\ turn = "poll"
        /\ th = [t \in Threads |-> IdleThread]
        /\ informed = [p \in Ports |-> 0]
        /\ reported = [p \in Ports |-> 0]
        /\ clash = {} /\ forgotten = {}
        /\ left = MaxSets

At(t, c) == th[t].pc = c

Goto(t, c) == th' = [th EXCEPT ![t] = IF c = "idle" THEN IdleThread ELSE [@ EXCEPT !.pc = c]]

\* In check_reset_fb, between the test for a reset and the end of unqueueNextFB.
Reading == th[Bus].pc \in {"copy", "look", "drop", "unqueue"}

\* With all slots written the cursors are equal, as they are with none.
queueLengthFB == IF Len(reset_queue) = QUEUELENGTH_FB THEN 0 ELSE Len(reset_queue)

queueIsFullFB == queueLengthFB >= QUEUELENGTH_FB - 1

\* Whoever only looks whether a reset is due does not act on its port yet.
Busy(p) == \E t \in Threads : th[t].pc \notin {"idle", "copy", "look", "drop"} /\ th[t].port = p

\* Thread t takes up port p.
Start(t, p, c) == /\ At(t, "idle")
                  /\ th' = [th EXCEPT ![t] = IF c = "idle" THEN IdleThread
                                             ELSE [pc |-> c, port |-> p, age |-> 0]]
                  /\ clash' = IF Busy(p) THEN clash \cup {p} ELSE clash

-----------------------------------------------------------------------------
(* updateFB. *)

\* A value that is the port's state already changes nothing.
Report(t, p, value) ==
    /\ reported' = [reported EXCEPT ![p] = value]
    /\ Start(t, p, IF fbstate[p].state = value THEN "idle"
                   ELSE IF value = 1 THEN "rise"
                   ELSE IF min_time = 0 THEN "fall" ELSE "change")

\* The bus thread reads a module: setFBmodul calls updateFB for every contact.
ReadContact == \E p \in Ports :
    /\ turn = "poll" /\ turn' = "check"
    /\ Report(Bus, p, contact[p])
    /\ UNCHANGED <<min_time, contact, portVars, resetVars, left>>

SetFB(s) == \E p \in Ports, value \in {0, 1} :
    /\ left > 0 /\ left' = left - 1
    /\ Report(s, p, value)
    /\ UNCHANGED <<min_time, contact, portVars, resetVars, turn>>

\* min_time 0: the state is reset at once, without the mutex.
Fall(t) == /\ At(t, "fall")
           /\ fbstate' = [fbstate EXCEPT ![th[t].port] = [state |-> 0, change |-> 0]]
           /\ Goto(t, "info")
           /\ UNCHANGED <<min_time, contact, informed, resetVars, turn, reported, clash, left>>

Change(t) == /\ At(t, "change")
             /\ fbstate' = [fbstate EXCEPT ![th[t].port].change = -1]
             /\ Goto(t, "enqueue")
             /\ UNCHANGED <<min_time, contact, informed, resetVars, turn, reported, clash, left>>

\* queue_reset_fb sleeps and looks again as long as the queue is full.
WaitForRoom(t) == /\ At(t, "enqueue")
                  /\ ~queueIsFullFB
                  /\ Goto(t, "write")
                  /\ UNCHANGED <<min_time, contact, portVars, resetVars, turn, reported, clash, left>>

PortsIn(resets) == {resets[i].port : i \in DOMAIN resets}

\* The write of a slot and in++, under the mutex.  When the cursors meet the
\* ring reads as empty; if check_reset_fb is about to move its cursor on, the
\* slots come back with out++, unless a thread takes the ring for empty and
\* writes the slot that is being read.
Enqueue(t) ==
    LET written == Append(reset_queue, [port |-> th[t].port, age |-> th[t].age])
        overrun == Len(reset_queue) >= IF Reading THEN QUEUELENGTH_FB ELSE QUEUELENGTH_FB - 1
    IN  /\ At(t, "write")
        /\ reset_queue' = IF ~overrun THEN written
                          ELSE IF Reading THEN <<written[Len(written)]>> ELSE <<>>
        /\ forgotten' = IF overrun THEN forgotten \cup PortsIn(written)
                                   ELSE forgotten \ {th[t].port}
        /\ Goto(t, "idle")
        /\ UNCHANGED <<min_time, contact, portVars, turn, reported, clash, left>>

\* A reset that waits is called off.
Rise(t) == LET p == th[t].port IN
    /\ At(t, "rise")
    /\ IF fbstate[p].change < 0
         THEN fbstate' = [fbstate EXCEPT ![p].change = 0] /\ Goto(t, "idle")
         ELSE Goto(t, "set") /\ UNCHANGED fbstate
    /\ UNCHANGED <<min_time, contact, informed, resetVars, turn, reported, clash, left>>

Set(t) == /\ At(t, "set")
          /\ fbstate' = [fbstate EXCEPT ![th[t].port] = [state |-> 1, change |-> 0]]
          /\ Goto(t, "info")
          /\ UNCHANGED <<min_time, contact, informed, resetVars, turn, reported, clash, left>>

\* enqueueInfoFB reads the state, and then sends what it has read.
Info(t) == /\ At(t, "info")
           /\ Goto(t, IF fbstate[th[t].port].state = 1 THEN "send1" ELSE "send0")
           /\ UNCHANGED <<min_time, contact, portVars, resetVars, turn, reported, clash, left>>

Send(t) == /\ th[t].pc \in {"send0", "send1"}
           /\ informed' = [informed EXCEPT ![th[t].port] = IF At(t, "send1") THEN 1 ELSE 0]
           /\ Goto(t, "idle")
           /\ UNCHANGED <<min_time, contact, fbstate, resetVars, turn, reported, clash, left>>

-----------------------------------------------------------------------------
(* check_reset_fb, which the bus thread calls in each turn of its loop. *)

\* getNextFB tests without the mutex, and copies the slot with it.
TestNext ==
    /\ turn = "check" /\ At(Bus, "idle")
    /\ IF queueLengthFB = 0 THEN turn' = "poll" /\ UNCHANGED th
                            ELSE Goto(Bus, "copy") /\ UNCHANGED turn
    /\ UNCHANGED <<min_time, contact, portVars, resetVars, reported, clash, left>>

CopyNext ==
    /\ At(Bus, "copy")
    /\ th' = [th EXCEPT ![Bus] = [pc |-> "look", port |-> Head(reset_queue).port,
                                  age |-> Head(reset_queue).age]]
    /\ UNCHANGED <<min_time, contact, portVars, resetVars, turn, reported, clash, left>>

\* The loop ends here: what overran the ring meanwhile is lost.
Break ==
    LET overrun == Len(reset_queue) = QUEUELENGTH_FB
    IN  /\ turn' = "poll"
        /\ Goto(Bus, "idle")
        /\ reset_queue' = IF overrun THEN <<>> ELSE reset_queue
        /\ forgotten' = IF overrun THEN forgotten \cup PortsIn(reset_queue) ELSE forgotten
        /\ UNCHANGED clash

Due(p) == /\ Goto(Bus, "unqueue")
          /\ clash' = IF Busy(p) THEN clash \cup {p} ELSE clash
          /\ UNCHANGED <<turn, resetVars>>

\* Look with a bug that OffArrives has to show.
LookKeeps ==
    /\ At(Bus, "look")
    /\ IF fbstate[th[Bus].port].change = 0 \/ th[Bus].age < min_time
         THEN Break ELSE Due(th[Bus].port)
    /\ UNCHANGED <<min_time, contact, portVars, reported, left>>

\* A reset whose port has no change pending is dropped, one that is too young
\* ends the loop, one that is old enough leaves the queue and is carried out.
Look ==
    /\ At(Bus, "look")
    /\ IF fbstate[th[Bus].port].change = 0
         THEN Goto(Bus, "drop") /\ UNCHANGED <<turn, resetVars, clash>>
       ELSE IF th[Bus].age < min_time THEN Break
       ELSE Due(th[Bus].port)
    /\ UNCHANGED <<min_time, contact, portVars, reported, left>>

\* unqueueNextFB.
Unqueue ==
    /\ th[Bus].pc \in {"drop", "unqueue"}
    /\ reset_queue' = Tail(reset_queue)
    /\ Goto(Bus, IF At(Bus, "drop") THEN "idle" ELSE "reset")
    /\ UNCHANGED <<min_time, contact, portVars, forgotten, turn, reported, clash, left>>

\* Reset with a bug that InfoIsState has to show.
ResetSilently ==
    /\ At(Bus, "reset")
    /\ fbstate' = [fbstate EXCEPT ![th[Bus].port] = [state |-> 0, change |-> 0]]
    /\ Goto(Bus, "idle")
    /\ UNCHANGED <<min_time, contact, informed, resetVars, turn, reported, clash, left>>

Reset == /\ At(Bus, "reset")
         /\ fbstate' = [fbstate EXCEPT ![th[Bus].port] = [state |-> 0, change |-> 0]]
         /\ Goto(Bus, "info")
         /\ UNCHANGED <<min_time, contact, informed, resetVars, turn, reported, clash, left>>

-----------------------------------------------------------------------------
(* The contacts and the clock. *)

ContactChanges == \E p \in Ports :
    /\ contact' = [contact EXCEPT ![p] = 1 - @]
    /\ UNCHANGED <<min_time, portVars, resetVars, turn, th, reported, clash, left>>

\* Ages beyond min_time need not be told apart.
Older(age) == IF age < min_time THEN age + 1 ELSE age

Tick == /\ reset_queue' = [i \in DOMAIN reset_queue |->
                             [reset_queue[i] EXCEPT !.age = Older(@)]]
        /\ th' = [t \in Threads |-> IF th[t].pc \in {"change", "enqueue", "write", "look"}
                                      THEN [th[t] EXCEPT !.age = Older(@)] ELSE th[t]]
        /\ UNCHANGED <<min_time, contact, portVars, forgotten, turn, reported, clash, left>>

updateFB(t) == \/ Fall(t) \/ Change(t) \/ WaitForRoom(t) \/ Enqueue(t) \/ Rise(t) \/ Set(t)
               \/ Info(t) \/ Send(t)

check_reset_fb == TestNext \/ CopyNext \/ Look \/ Unqueue \/ Reset

BusThread == ReadContact \/ check_reset_fb \/ updateFB(Bus)

Next == \/ BusThread
        \/ \E s \in Sessions : SetFB(s) \/ updateFB(s)
        \/ ContactChanges
        \/ Tick

Spec == Init /\ [][Next]_vars

\* The bus thread turns its loop for ever, time passes, and a session in the
\* middle of updateFB goes on.  The contacts are free to stay as they are.
FairSpec == /\ Spec /\ WF_vars(BusThread) /\ WF_vars(Tick)
            /\ \A s \in Sessions : WF_vars(updateFB(s))

-----------------------------------------------------------------------------
(* Properties. *)

\* Type invariant.
TypeOK ==
    /\ min_time \in MinTimes
    /\ contact \in [Ports -> {0, 1}]
    /\ fbstate \in [Ports -> [state : {0, 1}, change : {-1, 0}]]
    /\ reset_queue \in Seq([port : Ports, age : 0 .. min_time])
    /\ Len(reset_queue) <= QUEUELENGTH_FB
    /\ Len(reset_queue) = QUEUELENGTH_FB => Reading
    /\ turn \in {"poll", "check"}
    /\ th \in [Threads -> [pc : {"idle", "fall", "change", "enqueue", "write", "rise", "set",
                                 "info", "send0", "send1", "copy", "look", "drop", "unqueue",
                                 "reset"},
                           port : Ports \cup {NoPort}, age : 0 .. min_time]]
    /\ informed \in [Ports -> {0, 1}]
    /\ reported \in [Ports -> {0, 1}]
    /\ clash \in SUBSET Ports /\ forgotten \in SUBSET Ports
    /\ left \in 0 .. MaxSets

\* Between two calls, on a port no two threads were active on at once, ...
Settled(p) == ~Busy(p) /\ p \notin clash

\* ... the last INFO message says what GET says,
InfoIsState == \A p \in Ports : Settled(p) => informed[p] = fbstate[p].state

\* ... and an opened contact whose port still reads 1 has a reset waiting,
\* however often the bus thread reported it open: nothing but an overrun of the
\* queue makes the server forget it, and then the next report is not forgotten.
ResetWaits == \A p \in Ports \ forgotten :
    Settled(p) /\ reported[p] = 0 /\ fbstate[p].state = 1 =>
        /\ fbstate[p].change = -1
        /\ \E i \in DOMAIN reset_queue : reset_queue[i].port = p

\* A port whose contact is reported open and not closed again reads 0 in the
\* end, unless a thread waits in queue_reset_fb for room: if that is the bus
\* thread, it waits for the room that only it could make.
OffArrives == \A p \in Ports :
    reported[p] = 0 ~> \/ fbstate[p].state = 0 \/ reported[p] = 1
                       \/ p \in clash \cup forgotten
                       \/ queueIsFullFB /\ \E t \in Threads : At(t, "enqueue")
=============================================================================
