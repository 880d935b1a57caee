------------------------ MODULE ServiceDrivers_proofs -------------------------
(* Proofs about service mode and its two drivers, for any number of sessions *)
(* and calls, every length of the SM queue, every set of values of a CV, and *)
(* any number of changes of the power and of locomotive commands.            *)
EXTENDS ServiceDrivers, TLAPS

Pcs == {"idle", "lock", "isfull", "publish", "wait", "asleep", "unlock"}

Thread == [pc : Pcs, op : {"GET", "SET", "VERIFY", "INIT"}, value : Values,
           status : {"OK", "PROHIBITED", "TIMEOUT"}, result : Result,
           mixed : BOOLEAN, own : Result]

-----------------------------------------------------------------------------
(* The inductive invariant: who holds cb_mutex is where the code holds it.   *)

HoldsMutex(s) == th[s].pc \in {"isfull", "publish", "wait", "unlock"}

\* One thread at a time is between session_lock_wait and session_unlock_wait,
\* and a session on cb_cond has given the mutex up (srcp-session.c 535-613).
Mutex ==
    /\ \A x \in cb_mutex, y \in cb_mutex : x = y
    /\ \A s \in Sessions : HoldsMutex(s) <=> s \in cb_mutex
    /\ Bus \in cb_mutex <=> rpc \in {"data", "broadcast", "unlock"}
    /\ \A s \in sleeping : At(s, "asleep")

\* What wakes a session that waits or is about to.
Due(s) == IF th[s].status = "OK" THEN Owed(s) ELSE Pending

AllDue == \A s \in Sessions : At(s, "wait") \/ s \in sleeping => Due(s)

\* A session that is alone with the programming track during its call: its
\* command is the only one, and once that is carried out cb_data is its result,
\* until the session has read it.
Alone(s) == ~th[s].mixed /\ th[s].pc # "idle"

Mine(s) == \/ /\ queue = <<>> /\ smtmp # <<>> /\ Head(smtmp).from = s
              /\ rpc \in {"lock", "data"}
           \/ smtmp = <<>> /\ Len(queue) = 1 /\ Head(queue).from = s

Empty == queue = <<>> /\ smtmp = <<>>

OwnOf(s) ==
    /\ \A t \in Sessions \ {s} : th[t].pc = "idle"
    /\ th[s].pc \in {"lock", "isfull", "publish"} => Empty
    /\ th[s].pc = "wait" => Mine(s)
    /\ s \in sleeping =>
         Mine(s) \/ (rpc = "broadcast" /\ queue = <<>> /\ cb_data = th[s].own)
    /\ th[s].pc = "asleep" /\ s \notin sleeping => Empty /\ cb_data = th[s].own
    /\ th[s].pc = "unlock" => Empty /\ th[s].result = th[s].own

AllOwn == \A s \in Sessions : Alone(s) => OwnOf(s)

IInv == TypeOK /\ Mutex /\ NoOverrun /\ AllDue /\ AllOwn

-----------------------------------------------------------------------------
(* Type correctness. *)

LEMMA CommandType == \A c \in Command : c.from \in Sessions /\ c.value \in Values
  BY DEF Command

LEMMA HeadIn == ASSUME NEW S, NEW q \in Seq(S), Len(q) = 1 PROVE Head(q) \in S /\ q # <<>>
  OBVIOUS

LEMMA TypeInit == Init => TypeOK
<1> SUFFICES ASSUME Init PROVE TypeOK
  OBVIOUS
<1>1. Len(queue) = 0 /\ Len(smtmp) = 0 /\ queue \in Seq(Command) /\ smtmp \in Seq(Command)
  BY DEF Init
<1>2. 0 \in Values /\ 0 \in Result
  BY ServiceAssumption DEF Result
<1>3. th \in [Sessions -> [pc : Pcs, op : {"GET", "SET", "VERIFY", "INIT"}, value : Values,
                           status : {"OK", "PROHIBITED", "TIMEOUT"}, result : Result,
                           mixed : BOOLEAN, own : Result]]
  BY <1>2 DEF Init, NoCall, Pcs
<1> QED
  BY <1>1, <1>2, <1>3, ServiceAssumption DEF Init, TypeOK, Pcs

\* NoOverrun keeps the queue below its length (enqueueSM, srcp-sm.c 158-216).
LEMMA SessionType ==
    ASSUME TypeOK, NoOverrun, NEW s \in Sessions, infoSM(s) \/ Wake(s) PROVE TypeOK'
<1> USE DEF TypeOK, At
<1>1. CASE Lock(s)
  BY <1>1 DEF Lock
<1>2. CASE TestFull(s)
  <2>1. PICK p \in {"wait", "publish"}, status \in {"PROHIBITED", "OK"} :
          th' = [th EXCEPT ![s] = [th[s] EXCEPT !.pc = p, !.status = status]]
    <3>1. CASE queue_isfull
      BY <1>2, <3>1 DEF TestFull
    <3>2. CASE ~queue_isfull
      BY <1>2, <3>2 DEF TestFull
    <3> QED
      BY <3>1, <3>2
  <2>2. th \in [Sessions -> Thread]
    BY DEF Thread, Pcs
  <2>3. [th[s] EXCEPT !.pc = p, !.status = status] \in Thread
    BY <2>2 DEF Thread, Pcs
  <2>4. th' \in [Sessions -> Thread]
    BY <2>1, <2>2, <2>3
  <2> QED
    BY <1>2, <2>4 DEF TestFull, Thread, Pcs
<1>3. CASE Publish(s)
  <2> DEFINE c == [from |-> s, op |-> th[s].op, value |-> th[s].value]
  <2>1. c \in Command
    BY DEF Command
  <2>2. queue' \in Seq(Command) /\ Len(queue') = Len(queue) + 1
    BY <1>3, <2>1 DEF Publish
  <2>3. Len(queue') < QUEUELEN
    BY <1>3, <2>2, ServiceAssumption DEF Publish, NoOverrun, queue_isfull
  <2> QED
    BY <1>3, <2>2, <2>3 DEF Publish
<1>4. CASE Wait(s)
  BY <1>4 DEF Wait
<1>5. CASE Answer(s)
  <2>1. th' \in [Sessions -> Thread]
    <3>1. th \in [Sessions -> Thread] /\ cb_data \in Result
      BY DEF Thread, Pcs
    <3>2. [th[s] EXCEPT !.pc = "unlock", !.result = cb_data] \in Thread
      BY <3>1 DEF Thread, Pcs
    <3>3. th' = [th EXCEPT ![s] = [th[s] EXCEPT !.pc = "unlock", !.result = cb_data]]
      BY <1>5, <3>1 DEF Answer
    <3> QED
      BY <3>1, <3>2, <3>3
  <2> QED
    BY <1>5, <2>1 DEF Answer, Thread, Pcs
<1>6. CASE Unlock(s)
  <2>1. NoCall \in [pc : {"idle"}, op : {"GET"}, value : Values, status : {"OK"},
                    result : Result, mixed : BOOLEAN, own : Result]
    BY ServiceAssumption DEF NoCall, Result
  <2> QED
    BY <1>6, <2>1 DEF Unlock
<1>7. CASE Wake(s)
  BY <1>7 DEF Wake
<1> QED
  BY <1>1, <1>2, <1>3, <1>4, <1>5, <1>6, <1>7 DEF infoSM

\* What a new call of infoSM changes: the thread's record, and the histories.
LEMMA CallThread ==
    ASSUME TypeOK, NEW s \in Sessions, Call(s)
    PROVE  /\ th[s].pc = "idle" /\ th'[s].pc = "lock" /\ th'[s].status = "OK"
           /\ th'[s] \in Thread
           /\ th'[s].mixed = (Pending \/ \E t \in Sessions \ {s} : ~At(t, "idle"))
           /\ \A t \in Sessions \ {s} :
                /\ th'[t] \in Thread
                /\ th'[t].pc = th[t].pc /\ th'[t].status = th[t].status
                /\ th'[t].result = th[t].result /\ th'[t].own = th[t].own
                /\ ~th'[t].mixed => ~th[t].mixed /\ At(t, "idle")
           /\ th' = [t \in Sessions |-> th'[t]]
           /\ left' \in 0 .. MaxCommands
           /\ UNCHANGED <<queue, cv, cb_mutex, sleeping, cb_data, rpc, smtmp>>
<1> DEFINE Others == {t \in Sessions \ {s} : ~At(t, "idle")}
<1> DEFINE B == Pending \/ Others # {}
<1> DEFINE M(t) == th[t].mixed \/ t \in Others
<1>1. PICK op \in {"GET", "SET", "VERIFY", "INIT"}, v \in Values :
         /\ th' = [t \in Sessions |->
                IF t = s THEN [NoCall EXCEPT !.pc = "lock", !.op = op, !.value = v, !.mixed = B]
                ELSE [th[t] EXCEPT !.mixed = M(t)]]
         /\ left > 0 /\ left' = left - 1
         /\ th[s].pc = "idle"
         /\ UNCHANGED <<queue, cv, cb_mutex, sleeping, cb_data, rpc, smtmp>>
  BY Zenon DEF Call, At
<1>2. 0 \in Values /\ 0 \in Result
  BY ServiceAssumption DEF Result
<1>3. B \in BOOLEAN /\ \A t \in Sessions : M(t) \in BOOLEAN
  OBVIOUS
<1>4. \A t \in Sessions \ {s} : ~M(t) => ~th[t].mixed /\ At(t, "idle")
  OBVIOUS
<1>5. B = (Pending \/ \E t \in Sessions \ {s} : ~At(t, "idle"))
  OBVIOUS
<1>6. left' \in 0 .. MaxCommands
  <2>1. left > 0 /\ left' = left - 1
    BY <1>1, Zenon
  <2> QED
    BY <2>1, ServiceAssumption DEF TypeOK
<1>7. th \in [Sessions -> Thread]
  BY DEF TypeOK, Thread, Pcs
<1> HIDE DEF Others, B, M
<1>8. /\ th'[s].pc = "lock" /\ th'[s].status = "OK" /\ th'[s] \in Thread /\ th'[s].mixed = B
  BY <1>1, <1>2, <1>3 DEF NoCall, Thread, Pcs
<1>9. ASSUME NEW t \in Sessions \ {s}
      PROVE  /\ th'[t] \in Thread
             /\ th'[t].pc = th[t].pc /\ th'[t].status = th[t].status
             /\ th'[t].result = th[t].result /\ th'[t].own = th[t].own
             /\ th'[t].mixed = M(t)
  <2>1. th'[t] = [th[t] EXCEPT !.mixed = M(t)]
    BY <1>1
  <2>2. th[t] \in Thread
    BY <1>7
  <2>3. M(t) \in BOOLEAN
    BY <1>3
  <2> QED
    BY <2>1, <2>2, <2>3 DEF Thread
<1>10. th' = [t \in Sessions |-> th'[t]]
  BY <1>1
<1>11. ASSUME NEW t \in Sessions \ {s}, ~th'[t].mixed PROVE ~th[t].mixed /\ At(t, "idle")
  BY <1>11, <1>9, <1>4, Zenon
<1> QED
  BY <1>1, <1>5, <1>6, <1>8, <1>9, <1>10, <1>11, Zenon

LEMMA CallType == ASSUME TypeOK, NEW s \in Sessions, Call(s) PROVE TypeOK'
<1>1. th' \in [Sessions -> Thread]
  <2>1. \A t \in Sessions : th'[t] \in Thread
    BY CallThread
  <2> QED
    BY <2>1, CallThread
<1>2. left' \in 0 .. MaxCommands /\ UNCHANGED <<queue, cv, cb_mutex, sleeping, cb_data, rpc, smtmp>>
  BY CallThread, Zenon
<1> QED
  BY <1>1, <1>2 DEF TypeOK, Thread, Pcs

LEMMA BusType == ASSUME TypeOK, handle_sm_command PROVE TypeOK'
<1> USE DEF TypeOK
<1>1. CASE Take
  <2>1. Head(queue) \in Command /\ Tail(queue) \in Seq(Command) /\ Len(Tail(queue)) < QUEUELEN
    BY <1>1, ServiceAssumption DEF Take
  <2>2. smtmp' \in Seq(Command) /\ Len(smtmp') = 1
    BY <1>1, <2>1 DEF Take
  <2> QED
    BY <1>1, <2>1, <2>2 DEF Take
<1>2. CASE LockBus
  BY <1>2 DEF LockBus
<1>3. CASE Execute
  <2>0. Len(smtmp) = 1 /\ smtmp \in Seq(Command)
    BY <1>3 DEF Execute
  <2>1. Head(smtmp) \in Command
    BY <2>0, HeadIn
  <2>2. Head(smtmp).from \in Sessions /\ Head(smtmp).value \in Values
    BY <2>1, CommandType
  <2>3. ResultOf(Head(smtmp)) \in Result
    BY <2>2 DEF ResultOf, Result
  <2> QED
    BY <1>3, <2>2, <2>3 DEF Execute
<1>4. CASE Broadcast
  BY <1>4 DEF Broadcast
<1>5. CASE UnlockBus
  BY <1>5 DEF UnlockBus
<1> QED
  BY <1>1, <1>2, <1>3, <1>4, <1>5 DEF handle_sm_command

-----------------------------------------------------------------------------
(* The mutex. *)

LEMMA MutexInit == Init => Mutex
  BY ServiceAssumption DEF Init, Mutex, HoldsMutex, At, NoCall

LEMMA SessionMutex ==
    ASSUME TypeOK, Mutex, NEW s \in Sessions, Call(s) \/ infoSM(s) \/ Wake(s) PROVE Mutex'
<1> USE ServiceAssumption DEF TypeOK, Mutex, HoldsMutex, At
<1>1. CASE Call(s)
  <2>1. UNCHANGED <<cb_mutex, sleeping, rpc>>
    BY <1>1 DEF Call
  <2>2. th[s].pc = "idle" /\ th'[s].pc = "lock"
    BY <1>1, CallThread, Zenon
  <2>3. \A t \in Sessions \ {s} : th'[t].pc = th[t].pc
    BY <1>1, CallThread
  <2> QED
    BY <2>1, <2>2, <2>3
<1>2. CASE Lock(s)
  BY <1>2 DEF Lock
<1>3. CASE TestFull(s)
  BY <1>3 DEF TestFull
<1>4. CASE Publish(s)
  BY <1>4 DEF Publish
<1>5. CASE Wait(s)
  BY <1>5 DEF Wait
<1>6. CASE Answer(s)
  BY <1>6 DEF Answer
<1>7. CASE Unlock(s)
  BY <1>7 DEF Unlock, NoCall
<1>8. CASE Wake(s)
  BY <1>8 DEF Wake
<1> QED
  BY <1>1, <1>2, <1>3, <1>4, <1>5, <1>6, <1>7, <1>8 DEF infoSM

LEMMA BusMutex == ASSUME TypeOK, Mutex, handle_sm_command PROVE Mutex'
<1> USE ServiceAssumption DEF TypeOK, Mutex, HoldsMutex, At
<1>1. CASE Take
  BY <1>1 DEF Take
<1>2. CASE LockBus
  BY <1>2 DEF LockBus
<1>3. CASE Execute
  BY <1>3 DEF Execute
<1>4. CASE Broadcast
  BY <1>4 DEF Broadcast
<1>5. CASE UnlockBus
  BY <1>5 DEF UnlockBus
<1> QED
  BY <1>1, <1>2, <1>3, <1>4, <1>5 DEF handle_sm_command

-----------------------------------------------------------------------------
(* Room in the queue: between the test and the write nobody else writes. *)

LEMMA RoomStep == ASSUME TypeOK, Mutex, NoOverrun, [Next]_vars PROVE NoOverrun'
<1> USE DEF NoOverrun, queue_isfull, TypeOK, At
<1>1. ASSUME NEW s \in Sessions, Publish(s) PROVE NoOverrun'
  BY <1>1 DEF Publish, Mutex, HoldsMutex
<1>2. CASE Take
  <2>1. Len(queue') = Len(queue) - 1
    BY <1>2 DEF Take
  <2> QED
    BY <1>2, <2>1, ServiceAssumption DEF Take
<1>3. CASE Execute
  BY <1>3 DEF Execute
<1>4. CASE LockBus \/ Broadcast \/ UnlockBus
  BY <1>4 DEF LockBus, Broadcast, UnlockBus
<1>5. ASSUME NEW s \in Sessions, TestFull(s) PROVE NoOverrun'
  BY <1>5 DEF TestFull
<1>6. ASSUME NEW s \in Sessions, Call(s) PROVE NoOverrun'
  BY <1>6, CallThread
<1>7. ASSUME NEW s \in Sessions, Lock(s) \/ Wait(s) \/ Answer(s) \/ Unlock(s) \/ Wake(s)
      PROVE NoOverrun'
  BY <1>7 DEF Lock, Wait, Answer, Unlock, Wake, NoCall
<1>8. CASE UNCHANGED vars
  BY <1>8 DEF vars
<1> QED
  BY <1>1, <1>2, <1>3, <1>4, <1>5, <1>6, <1>7, <1>8 DEF Next, handle_sm_command, infoSM

-----------------------------------------------------------------------------
(* Wake-ups. *)

\* A command stays due when one is appended, and when the bus thread takes the
\* first of the queue.
LEMMA AppendDue ==
    ASSUME TypeOK, NEW s \in Sessions, NEW t \in Sessions, Publish(t)
    PROVE Pending' /\ (Owed(s) => Owed(s)') /\ Owed(t)'
<1> DEFINE c == [from |-> t, op |-> th[t].op, value |-> th[t].value]
<1>1. c \in Command
  BY DEF TypeOK, Command
<1>2. /\ queue' \in Seq(Command) /\ Len(queue') = Len(queue) + 1
      /\ \A i \in DOMAIN queue : queue'[i] = queue[i] /\ i \in DOMAIN queue'
      /\ queue'[Len(queue) + 1] = c /\ Len(queue) + 1 \in DOMAIN queue'
      /\ smtmp' = smtmp
  BY <1>1 DEF Publish, TypeOK
<1>3. queue' # <<>>
  BY <1>2 DEF TypeOK
<1>4. Owed(t)'
  BY <1>2 DEF Owed
<1>5. Owed(s) => Owed(s)'
  BY <1>2 DEF Owed
<1> QED
  BY <1>3, <1>4, <1>5 DEF Pending

LEMMA TakeDue == ASSUME TypeOK, NEW s \in Sessions, Take
                 PROVE Pending' /\ (Owed(s) => Owed(s)')
<1>1. /\ queue # <<>> /\ smtmp = <<>> /\ smtmp' = <<Head(queue)>> /\ Head(smtmp') = Head(queue)
      /\ smtmp' # <<>> /\ queue' = Tail(queue)
  BY DEF Take, TypeOK
<1>2. Pending'
  BY <1>1 DEF Pending
<1>3. ASSUME NEW i \in DOMAIN queue, queue[i].from = s PROVE Owed(s)'
  <2>1. CASE i = 1
    BY <1>1, <1>3, <2>1 DEF Owed, TypeOK
  <2>2. CASE i # 1
    <3>1. i - 1 \in DOMAIN queue' /\ queue'[i - 1] = queue[i]
      BY <1>1, <2>2 DEF TypeOK
    <3> QED
      BY <3>1, <1>3 DEF Owed
  <2> QED
    BY <2>1, <2>2
<1> QED
  BY <1>1, <1>2, <1>3 DEF Owed

LEMMA DueStep == ASSUME TypeOK, Mutex, AllDue, [Next]_vars PROVE AllDue'
<1> USE DEF AllDue, TypeOK, At, Due
<1> DEFINE Same == /\ queue' = queue /\ smtmp' = smtmp
<1>0. ASSUME Same PROVE (Pending <=> Pending') /\ \A s \in Sessions : Owed(s) <=> Owed(s)'
  BY <1>0 DEF Pending, Owed
<1>1. ASSUME NEW t \in Sessions, Publish(t) PROVE AllDue'
  BY <1>1, AppendDue DEF Publish
<1>2. CASE Take
  BY <1>2, TakeDue DEF Take
<1>3. CASE Execute
  <2>1. Same
    BY <1>3 DEF Execute
  <2> QED
    BY <1>3, <1>0, <2>1 DEF Execute
<1>4. CASE LockBus \/ UnlockBus
  BY <1>4, <1>0 DEF LockBus, UnlockBus
<1>5. CASE Broadcast
  <2>1. sleeping' = {} /\ th' = th
    BY <1>5 DEF Broadcast
  <2>2. \A s \in Sessions : th[s].pc # "wait"
    BY <1>5, ServiceAssumption DEF Broadcast, Mutex, HoldsMutex
  <2> QED
    BY <2>1, <2>2
<1>6. ASSUME NEW s \in Sessions, TestFull(s) PROVE AllDue'
  <2>1. Same
    BY <1>6 DEF TestFull
  <2>2. queue_isfull => Pending
    BY ServiceAssumption DEF queue_isfull, Pending
  <2>3. th'[s].pc = "wait" => queue_isfull /\ th'[s].status = "PROHIBITED"
    BY <1>6 DEF TestFull
  <2>4. s \notin sleeping
    BY <1>6 DEF TestFull, Mutex
  <2> QED
    BY <1>6, <1>0, <2>1, <2>2, <2>3, <2>4 DEF TestFull
<1>7. ASSUME NEW s \in Sessions, Call(s) PROVE AllDue'
  <2>1. \A t \in Sessions : th'[t].pc = "wait" => th[t].pc = "wait" /\ t # s
    BY <1>7, CallThread
  <2>2. \A t \in Sessions : t # s => th'[t].status = th[t].status
    BY <1>7, CallThread
  <2>3. s \notin sleeping /\ sleeping' = sleeping /\ Same
    BY <1>7, CallThread DEF Mutex
  <2> QED
    BY <1>0, <2>1, <2>2, <2>3
<1>8. ASSUME NEW s \in Sessions, Lock(s) \/ Wait(s) \/ Answer(s) \/ Unlock(s) PROVE AllDue'
  <2>1. Same /\ \A t \in Sessions \ {s} : th'[t] = th[t]
    BY <1>8 DEF Lock, Wait, Answer, Unlock
  <2>2. \/ th[s].pc = "wait" /\ th'[s].status = th[s].status
        \/ th'[s].pc # "wait" /\ s \notin sleeping'
    BY <1>8 DEF Lock, Wait, Answer, Unlock, NoCall, Mutex
  <2>3. sleeping' \subseteq sleeping \cup {s}
    BY <1>8 DEF Lock, Wait, Answer, Unlock
  <2> QED
    BY <1>0, <2>1, <2>2, <2>3
<1>9. ASSUME NEW s \in Sessions, Wake(s) PROVE AllDue'
  <2>1. th[s].pc = "asleep"
    BY <1>9 DEF Wake, Mutex
  <2> QED
    BY <1>9, <1>0, <2>1 DEF Wake
<1>10. CASE UNCHANGED vars
  BY <1>10, <1>0 DEF vars
<1> QED
  BY <1>1, <1>2, <1>3, <1>4, <1>5, <1>6, <1>7, <1>8, <1>9, <1>10
  DEF Next, handle_sm_command, infoSM

-----------------------------------------------------------------------------
(* The answer is the session's own. *)

\* A step of session t changes the record of t alone.
LEMMA OnlyOwnThread ==
    ASSUME TypeOK, NEW t \in Sessions, infoSM(t) \/ Wake(t)
    PROVE  \A s \in Sessions \ {t} : th'[s] = th[s]
  BY DEF TypeOK, infoSM, Lock, TestFull, Publish, Wait, Answer, Unlock, Wake

\* The session that is alone takes a step.
LEMMA OwnMove ==
    ASSUME TypeOK, Mutex, NEW s \in Sessions, Alone(s) => OwnOf(s), Alone(s)',
           infoSM(s) \/ Wake(s)
    PROVE  OwnOf(s)'
<1> USE DEF TypeOK, At, Alone, OwnOf
<1>0. \A t \in Sessions \ {s} : th'[t] = th[t]
  BY OnlyOwnThread
<1>1. CASE Lock(s)
  BY <1>1, <1>0 DEF Lock, Empty, Mutex
<1>2. CASE TestFull(s)
  <2>1. th[s].pc = "isfull" /\ ~th[s].mixed
    BY <1>2 DEF TestFull
  <2>2. Empty /\ ~queue_isfull
    BY <2>1, ServiceAssumption DEF Empty, queue_isfull
  <2>3. th'[s].pc = "publish" /\ s \notin sleeping
    BY <1>2, <2>2 DEF TestFull, Mutex
  <2> QED
    BY <1>2, <1>0, <2>1, <2>2, <2>3 DEF TestFull, Empty
<1>3. CASE Publish(s)
  <2>1. th[s].pc = "publish" /\ ~th[s].mixed /\ th'[s].pc = "wait" /\ s \notin sleeping
    BY <1>3 DEF Publish, Mutex
  <2>2. Empty
    BY <2>1
  <2> DEFINE c == [from |-> s, op |-> th[s].op, value |-> th[s].value]
  <2>3. queue' = <<c>> /\ smtmp' = <<>>
    BY <1>3, <2>2 DEF Publish, Empty
  <2>4. Len(queue') = 1 /\ Head(queue') = c /\ c.from = s
    BY <2>3
  <2>5. Mine(s)'
    BY <2>3, <2>4 DEF Mine
  <2> QED
    BY <1>3, <1>0, <2>1, <2>5 DEF Publish
<1>4. CASE Wait(s)
  <2>1. th[s].pc = "wait" /\ ~th[s].mixed /\ th'[s].pc = "asleep" /\ s \in sleeping'
    BY <1>4 DEF Wait
  <2>2. Mine(s)'
    BY <1>4, <2>1 DEF Wait, Mine
  <2> QED
    BY <1>0, <2>1, <2>2
<1>5. CASE Answer(s)
  <2>1. /\ th[s].pc = "asleep" /\ s \notin sleeping /\ ~th[s].mixed /\ th'[s].pc = "unlock"
        /\ th'[s].result = cb_data /\ th'[s].own = th[s].own
    BY <1>5 DEF Answer
  <2> QED
    BY <1>5, <1>0, <2>1 DEF Answer, Empty
<1>6. CASE Unlock(s)
  BY <1>6 DEF Unlock, NoCall
<1>7. CASE Wake(s)
  BY <1>7 DEF Wake
<1> QED
  BY <1>1, <1>2, <1>3, <1>4, <1>5, <1>6, <1>7 DEF infoSM

\* The bus thread takes a step.
LEMMA OwnBus ==
    ASSUME TypeOK, Mutex, AllOwn, NEW s \in Sessions, Alone(s)', handle_sm_command
    PROVE  OwnOf(s)'
<1> USE DEF TypeOK, Alone
<1>0. ASSUME th' = th PROVE OwnOf(s)
  BY <1>0 DEF AllOwn
<1>1. CASE Take
  <2>1. OwnOf(s) /\ queue # <<>> /\ smtmp = <<>> /\ rpc = "test" /\ rpc' = "lock"
    BY <1>0, <1>1 DEF Take
  <2>2. Mine(s) => queue' = <<>> /\ smtmp' # <<>> /\ Head(smtmp').from = s
    BY <1>1, <2>1 DEF Take, Mine
  <2>3. Mine(s) => Mine(s)'
    BY <2>1, <2>2 DEF Mine
  <2> QED
    BY <1>1, <2>1, <2>3 DEF OwnOf, Take, Empty
<1>2. CASE LockBus
  BY <1>0, <1>2 DEF OwnOf, LockBus, Empty, Mine
<1>3. CASE Execute
  <2> DEFINE c == Head(smtmp)
  <2>1. rpc = "data" /\ Len(smtmp) = 1 /\ smtmp # <<>> /\ c \in Command /\ rpc' = "broadcast"
    BY <1>3, HeadIn DEF Execute
  <2>2. c.from \in Sessions
    BY <2>1, CommandType
  <2>3. /\ \A t \in Sessions : th'[t].pc = th[t].pc /\ th'[t].mixed = th[t].mixed
        /\ th'[c.from].own = cb_data'
        /\ queue' = queue /\ sleeping' = sleeping
    BY <1>3, <2>2 DEF Execute
  <2>4. OwnOf(s) /\ ~th[s].mixed /\ th[s].pc # "idle"
    BY <2>3 DEF AllOwn
  <2>5. th[s].pc \notin {"wait", "isfull", "publish", "lock", "unlock"}
    BY <2>1, <2>4, ServiceAssumption DEF OwnOf, Mutex, HoldsMutex, Empty
  <2>6. th[s].pc = "asleep" /\ s \in sleeping /\ Mine(s)
    BY <2>1, <2>4, <2>5 DEF OwnOf, Empty
  <2>7. c.from = s /\ queue = <<>>
    BY <2>1, <2>6 DEF Mine
  <2> QED
    BY <2>1, <2>3, <2>4, <2>6, <2>7 DEF OwnOf
<1>4. CASE Broadcast
  <2>0. th' = th /\ rpc = "broadcast"
    BY <1>4 DEF Broadcast
  <2>1. OwnOf(s) /\ ~th[s].mixed /\ th[s].pc # "idle" /\ smtmp # <<>>
    <3>1. Len(smtmp) = 1
      BY <2>0
    <3>2. ~th[s].mixed /\ th[s].pc # "idle"
      BY <2>0
    <3>3. OwnOf(s)
      BY <1>0, <2>0
    <3>4. smtmp # <<>>
      BY <3>1, HeadIn
    <3> HIDE DEF OwnOf, TypeOK
    <3> QED
      BY <3>2, <3>3, <3>4
  <2>2. th[s].pc = "asleep"
    <3>1. ~HoldsMutex(s)
      BY <2>0, ServiceAssumption DEF Mutex
    <3>2. th[s].pc # "lock"
      BY <2>1 DEF OwnOf, Empty
    <3>3. th[s].pc \in Pcs
      BY DEF Pcs
    <3> QED
      BY <2>1, <3>1, <3>2, <3>3 DEF HoldsMutex, Pcs
  <2>3. queue = <<>> /\ cb_data = th[s].own
    BY <2>0, <2>1, <2>2 DEF OwnOf, Mine, Empty
  <2> QED
    BY <1>4, <2>0, <2>1, <2>2, <2>3 DEF OwnOf, Broadcast, Empty
<1>5. CASE UnlockBus
  BY <1>0, <1>5 DEF OwnOf, UnlockBus, Empty, Mine
<1> QED
  BY <1>1, <1>2, <1>3, <1>4, <1>5 DEF handle_sm_command

LEMMA OwnStep == ASSUME TypeOK, Mutex, AllOwn, [Next]_vars PROVE AllOwn'
<1> SUFFICES ASSUME NEW s \in Sessions, Alone(s)' PROVE OwnOf(s)'
  BY DEF AllOwn
<1>1. ASSUME Call(s) PROVE OwnOf(s)'
  <2>1. ~Pending /\ \A t \in Sessions \ {s} : th[t].pc = "idle"
    BY <1>1, CallThread DEF Alone, At
  <2>2. \A t \in Sessions \ {s} : th'[t].pc = "idle"
    BY <1>1, <2>1, CallThread
  <2>3. th'[s].pc = "lock" /\ s \notin sleeping /\ sleeping' = sleeping
    BY <1>1, CallThread DEF Mutex, At
  <2>4. Empty'
    BY <1>1, <2>1, CallThread DEF Empty, Pending
  <2> QED
    BY <2>2, <2>3, <2>4 DEF OwnOf
<1>2. ASSUME NEW t \in Sessions \ {s}, Call(t) PROVE OwnOf(s)'
  <2>1. th'[s].pc = th[s].pc /\ (~th'[s].mixed => ~th[s].mixed /\ At(s, "idle"))
    BY <1>2, CallThread
  <2> QED
    BY <2>1 DEF Alone, At
<1>3. ASSUME infoSM(s) \/ Wake(s) PROVE OwnOf(s)'
  BY <1>3, OwnMove DEF AllOwn
<1>4. ASSUME NEW t \in Sessions \ {s}, infoSM(t) \/ Wake(t) PROVE OwnOf(s)'
  <2>1. th'[s] = th[s]
    BY <1>4, OnlyOwnThread
  <2>2. th[t].pc = "idle"
    BY <2>1 DEF AllOwn, OwnOf, Alone
  <2> QED
    BY <1>4, <2>2
    DEF infoSM, Lock, TestFull, Publish, Wait, Answer, Unlock, Wake, At, Mutex
<1>5. CASE handle_sm_command
  BY <1>5, OwnBus
<1>6. CASE UNCHANGED vars
  BY <1>6 DEF vars, AllOwn, OwnOf, Alone, Mine, Empty
<1> QED
  BY <1>1, <1>2, <1>3, <1>4, <1>5, <1>6 DEF Next

-----------------------------------------------------------------------------
(* The invariant and what follows from it. *)

LEMMA InvInit == Init => IInv
<1> SUFFICES ASSUME Init PROVE IInv
  OBVIOUS
<1>1. TypeOK /\ Mutex
  BY TypeInit, MutexInit
<1>2. \A s \in Sessions : th[s].pc = "idle" /\ s \notin sleeping
  BY DEF Init, NoCall
<1> QED
  BY <1>1, <1>2 DEF IInv, NoOverrun, AllDue, AllOwn, Alone, At

LEMMA InvStep == IInv /\ [Next]_vars => IInv'
<1> SUFFICES ASSUME IInv, [Next]_vars PROVE IInv'
  OBVIOUS
<1> USE DEF IInv
<1>1. TypeOK'
  <2>1. CASE handle_sm_command
    BY <2>1, BusType
  <2>2. ASSUME NEW s \in Sessions, Call(s) PROVE TypeOK'
    BY <2>2, CallType
  <2>3. ASSUME NEW s \in Sessions, infoSM(s) \/ Wake(s) PROVE TypeOK'
    BY <2>3, SessionType
  <2>4. CASE UNCHANGED vars
    BY <2>4 DEF vars, TypeOK
  <2> QED
    BY <2>1, <2>2, <2>3, <2>4 DEF Next
<1>2. Mutex'
  <2>1. CASE handle_sm_command
    BY <2>1, BusMutex
  <2>2. ASSUME NEW s \in Sessions, Call(s) \/ infoSM(s) \/ Wake(s) PROVE Mutex'
    BY <2>2, SessionMutex
  <2>3. CASE UNCHANGED vars
    BY <2>3 DEF vars, Mutex, HoldsMutex, At
  <2> QED
    BY <2>1, <2>2, <2>3 DEF Next
<1>3. NoOverrun' /\ AllDue' /\ AllOwn'
  BY RoomStep, DueStep, OwnStep
<1> QED
  BY <1>1, <1>2, <1>3

LEMMA InvHolds == Spec => []IInv
  BY InvInit, InvStep, PTL DEF Spec

\* Every variable has its type: infoSM, srcp-sm.c 280-346, handle_sm_command,
\* loopback.c 206-356.
THEOREM TypeCorrect == Spec => []TypeOK
<1>1. IInv => TypeOK
  BY DEF IInv
<1> QED
  BY <1>1, InvHolds, PTL

\* No session writes into a full SM queue, although queue_isfull is tested
\* without queue_mutex (srcp-sm.c 158-216): cb_mutex is held over both.
THEOREM RoomHolds == Spec => []NoOverrun
<1>1. IInv => NoOverrun
  BY DEF IInv
<1> QED
  BY <1>1, InvHolds, PTL

\* A session that sleeps on cb_cond has its command still before it, to be
\* carried out and announced; a refused one has another's: no wake-up is lost
\* (session_condt_wait and session_endwait, srcp-session.c 565-613).
THEOREM WakeUpHolds == Spec => []NoLostWakeup
<1>1. IInv => NoLostWakeup
  BY DEF IInv, AllDue, Due, NoLostWakeup, TypeOK
<1> QED
  BY <1>1, InvHolds, PTL

\* A session that had the programming track for itself during its call gets the
\* result of its own command out of cb_data, which the bus has once
\* (srcp-session.c 565-613).
THEOREM OwnAnswerHolds == Spec => []OwnAnswer
<1>1. IInv => OwnAnswer
  BY DEF IInv, AllOwn, Alone, OwnOf, OwnAnswer, At
<1> QED
  BY <1>1, InvHolds, PTL

-----------------------------------------------------------------------------
(* The inductive invariant: whenever the server takes the power for on while *)
(* the box is stopped, knows nothing else and is not asked to switch it on,  *)
(* the bus thread is on its way to find out.                                 *)

Stops == {"off", "short"}
StopTold == Stops \cap events # {}

\* The server would be wrong to send the power it has.
Undone == power /\ ~asked /\ ~boxPower /\ ~StopTold

\* What the thread does next, until it has the power off (check_status_IB).
FindsOut ==
  \/ rpc \in {"short", "short_off", "status", "off", "set_off"}
  \/ rpc = "loco" /\ Stops \cap ev # {}

\* The places of a change of the power that is being carried out.
Telling == {"tell", "told", "refused", "announce"}

BoxTypes ==
  /\ power \in BOOLEAN /\ boxPower \in BOOLEAN /\ asked \in BOOLEAN /\ changed \in BOOLEAN
  /\ emergency_on_ib \in 0..2
  /\ ret \in {"power", "sm"}

\* A stop of the box that is not announced yet (1), and one that is (2): the
\* power is off unless a client has set it meanwhile.
Emergency ==
  /\ emergency_on_ib = 1 => changed /\ (power => asked) /\ rpc \notin Telling
  /\ emergency_on_ib = 2 => (power => asked) \/ rpc \in {"told", "refused"}

\* Between XStatus and setPower the box may be switched off, which is an event.
FoundOn == rpc \in {"on", "set_on"} => boxPower \/ StopTold

Wakes == Undone => rpc = "refused" \/ (emergency_on_ib = 0 /\ FindsOut)

BoxInv == BoxTypes /\ Emergency /\ FoundOn /\ Wakes

stopVars == <<power, changed, emergency_on_ib, asked, boxPower, events, rpc, ret, ev>>

-----------------------------------------------------------------------------
LEMMA Initially == I!Init => BoxInv
  BY DEF I!Init, I!InitDriver, BoxInv, BoxTypes, Emergency, FoundOn, Wakes, Undone, Telling

LEMMA Stutters == BoxInv /\ UNCHANGED stopVars => BoxInv'
  BY DEF BoxInv, BoxTypes, Emergency, FoundOn, Wakes, Undone, StopTold, FindsOut, stopVars

\* Programming does not touch the power.
LEMMA ProgramElsewhere == ASSUME NEW s \in Sessions, I!Program(s) PROVE UNCHANGED stopVars
  <1>1. UNCHANGED <<I!powerVars, I!boxVars, ret, ev>>
    BY DEF I!Program
  <1>2. UNCHANGED rpc
    BY DEF I!Program, I!infoSM, I!Publish, I!SM!Lock, I!SM!TestFull, I!SM!Wait, I!SM!Answer, I!SM!Unlock,
           I!SM!Wake, I!SM!Call
  <1> QED BY <1>1, <1>2 DEF I!powerVars, I!boxVars, stopVars

LEMMA GLElsewhere ==
  ASSUME I!InitGL \/ I!TermGL \/ \E v \in I!Setting : I!SetGL(v) PROVE UNCHANGED stopVars
  BY DEF I!InitGL, I!TermGL, I!SetGL, I!powerVars, I!boxVars, I!busVars, I!smVars, stopVars

-----------------------------------------------------------------------------
(* The steps that matter: clients, the box, and the bus thread's. *)

LEMMA Clients ==
  ASSUME BoxInv, I!SetPowerFlag \/ \E on \in BOOLEAN : I!SetPowerState(on) PROVE BoxInv'
  <1>1. CASE I!SetPowerFlag
    BY <1>1 DEF I!SetPowerFlag, BoxInv, BoxTypes, Emergency, FoundOn, Wakes, Undone, StopTold, FindsOut,
                Telling, I!boxVars, I!busVars
  <1>2. ASSUME NEW on \in BOOLEAN, I!SetPowerState(on) PROVE BoxInv'
    BY <1>2 DEF I!SetPowerState, BoxInv, BoxTypes, Emergency, FoundOn, Wakes, Undone, StopTold, FindsOut,
                Telling, I!boxVars, I!busVars
  <1> QED BY <1>1, <1>2

LEMMA AtTheBox ==
  ASSUME BoxInv, I!SwitchesOff \/ I!SwitchesOn \/ I!Drives \/ I!Programmed PROVE BoxInv'
  <1> USE DEF BoxInv, BoxTypes, Emergency, FoundOn, Wakes, Undone, StopTold, FindsOut, Telling, Stops,
              I!powerVars, I!busVars
  <1>1. CASE I!SwitchesOff BY <1>1 DEF I!SwitchesOff
  <1>2. CASE I!SwitchesOn BY <1>2 DEF I!SwitchesOn
  <1>3. CASE I!Drives BY <1>3 DEF I!Drives
  <1>4. CASE I!Programmed BY <1>4 DEF I!Programmed, I!boxVars
  <1> QED BY <1>1, <1>2, <1>3, <1>4

LEMMA BusThread == ASSUME BoxInv, I!thr_sendrec_IB PROVE BoxInv'
  <1> USE DEF BoxInv, BoxTypes, Emergency, FoundOn, Wakes, Undone, StopTold, FindsOut, Telling, Stops,
              I!powerVars, I!boxVars
  <1>1. CASE I!BusPower
    <2>1. UNCHANGED <<boxPower, events, ev>> /\ rpc = "power"
      BY <1>1 DEF I!BusPower
    <2>2. CASE UNCHANGED I!powerVars /\ I!Gate
      BY <2>1, <2>2 DEF I!Gate
    <2>3. CASE /\ emergency_on_ib' = 2 /\ power' = FALSE /\ asked' = FALSE
               /\ rpc' = "announce" /\ UNCHANGED <<ret, changed, setting, missed>>
      <3>1. BoxTypes'
        <4>1. emergency_on_ib' \in 0..2 BY <2>3
        <4> QED BY <2>1, <2>3, <4>1, Zenon
      <3>2. Emergency' /\ FoundOn' /\ Wakes' BY <2>3
      <3> QED BY <3>1, <3>2
    <2>4. CASE rpc' = "poll" /\ ret' = "power" /\ UNCHANGED I!powerVars
      BY <2>1, <2>4
    <2>5. CASE /\ emergency_on_ib # 1 /\ rpc' = "tell"
               /\ UNCHANGED <<ret, I!powerVars>>
      BY <2>1, <2>5
    <2> QED BY <1>1, <2>2, <2>3, <2>4, <2>5, Zenon DEF I!BusPower
  <1>2. CASE I!BusTell BY <1>2 DEF I!BusTell
  <1>3. CASE I!BusTold
    <2>1. CASE rpc = "told" BY <1>3, <2>1 DEF I!BusTold
    <2>2. CASE rpc = "refused" BY <1>3, <2>2 DEF I!BusTold
    <2> QED BY <1>3, <2>1, <2>2 DEF I!BusTold
  <1>4. CASE I!Announce BY <1>4 DEF I!Announce, I!Gate
  <1>5. CASE I!SendGL BY <1>5 DEF I!SendGL
  <1>6. CASE I!SendFunctions BY <1>6 DEF I!SendFunctions
  <1>7. CASE I!Poll BY <1>7 DEF I!Poll, I!ThenShort, I!ThenStatus, I!ThenPT
  <1>8. CASE I!CheckGL BY <1>8 DEF I!CheckGL, I!ThenShort, I!ThenStatus, I!ThenPT
  <1>9. CASE I!CheckShort BY <1>9 DEF I!CheckShort, I!ThenStatus, I!ThenPT
  <1>10. CASE I!AskStatus BY <1>10 DEF I!AskStatus
  <1>11. CASE I!Judge BY <1>11 DEF I!Judge, I!ThenPT
  <1>12. CASE I!BusSetsPower
    <2>1. rpc' \in {"status", "pt", "power", "sm"} /\ UNCHANGED <<ret, ev, boxPower, events>>
      BY <1>12 DEF I!BusSetsPower, I!ThenStatus, I!ThenPT
    <2>2. CASE power' = FALSE /\ changed' = TRUE /\ emergency_on_ib' = 1 /\ asked' = FALSE
      <3>1. rpc' \notin Telling \cup {"on", "set_on"} /\ ret' = ret
        BY <2>1
      <3>2. BoxTypes'
        <4>1. emergency_on_ib' \in 0..2 BY <2>2
        <4> QED BY <2>1, <2>2, <4>1, Zenon
      <3>3. Emergency' /\ FoundOn' /\ Wakes' BY <2>2, <3>1
      <3> QED BY <3>2, <3>3
    <2>3. CASE rpc = "set_on" /\ I!Sets(TRUE, 0)
      <3>1. power' = TRUE /\ changed' = TRUE /\ emergency_on_ib' = 0 /\ asked' = FALSE
        BY <2>3 DEF I!Sets
      <3>2. boxPower' \/ StopTold' BY <2>1, <2>3
      <3>3. BoxTypes'
        <4>1. emergency_on_ib' \in 0..2 BY <3>1
        <4> QED BY <2>1, <3>1, <4>1, Zenon
      <3>4. rpc' \notin {"on", "set_on"} /\ rpc = "set_on" BY <2>1, <2>3
      <3>5. Wakes' BY <3>1, <3>2
      <3> QED BY <3>1, <3>2, <3>3, <3>4, <3>5
    <2> QED BY <1>12, <2>2, <2>3 DEF I!BusSetsPower, I!Sets
  <1>13. CASE I!CheckPT BY <1>13 DEF I!CheckPT
  <1>14. CASE I!SendSM BY <1>14 DEF I!SendSM
  <1>15. CASE I!Broadcast BY <1>15 DEF I!Broadcast
  <1>16. CASE I!EndWait BY <1>16 DEF I!EndWait
  <1> QED
    BY <1>1, <1>2, <1>3, <1>4, <1>5, <1>6, <1>7, <1>8, <1>9, <1>10, <1>11, <1>12, <1>13, <1>14,
       <1>15, <1>16 DEF I!thr_sendrec_IB

\* A behavior is about one driver; the loopback driver has no Intellibox.
DriverInv == driver = "IB" => BoxInv

LEMMA Starts == InitEither => DriverInv
  BY Initially DEF InitEither, DriverInv

LEMMA IntelliboxSteps == ASSUME BoxInv, I!Next PROVE BoxInv'
  <1>1. CASE I!SetPowerFlag \/ \E on \in BOOLEAN : I!SetPowerState(on) BY <1>1, Clients
  <1>2. CASE I!InitGL \/ I!TermGL \/ \E v \in I!Setting : I!SetGL(v)
    BY <1>2, GLElsewhere, Stutters
  <1>3. CASE \E s \in Sessions : I!Program(s) BY <1>3, ProgramElsewhere, Stutters
  <1>4. CASE I!thr_sendrec_IB BY <1>4, BusThread
  <1>5. CASE I!SwitchesOff \/ I!SwitchesOn \/ I!Drives \/ I!Programmed BY <1>5, AtTheBox
  <1> QED BY <1>1, <1>2, <1>3, <1>4, <1>5 DEF I!Next

LEMMA Steps == DriverInv /\ [NextEither]_all => DriverInv'
  <1> SUFFICES ASSUME DriverInv, [NextEither]_all, driver' = "IB" PROVE BoxInv'
    BY DEF DriverInv
  <1>1. CASE UNCHANGED all
    <2>1. UNCHANGED stopVars /\ driver = "IB" BY <1>1 DEF all, own, vars, stopVars
    <2> QED BY <2>1, Stutters DEF DriverInv
  <1>2. CASE NextEither
    <2>1. driver = "IB" /\ I!Next
      BY <1>2 DEF NextEither, Loopback, Intellibox
    <2> QED BY <2>1, IntelliboxSteps DEF DriverInv
  <1> QED BY <1>1, <1>2

\* The box changes only at BusTell and by the people.
LEMMA SwitchedOn ==
  ASSUME BoxInv, I!Next, rpc = "tell", rpc' = "told", ~boxPower, boxPower'
  PROVE  asked \/ {"off", "short"} \cap events # {}
  <1> USE DEF BoxInv, FoundOn, Wakes, Undone, StopTold, FindsOut, Stops, BoxTypes
  <1>1. I!thr_sendrec_IB
    <2>1. ~UNCHANGED rpc
      OBVIOUS
    <2> QED
      BY <2>1, ProgramElsewhere DEF I!Next, I!SetPowerState, I!SetPowerFlag, I!InitGL,
        I!TermGL, I!SetGL, I!SwitchesOff, I!SwitchesOn, I!Drives, I!Programmed, I!busVars,
        stopVars
  <1>2. I!BusTell
    BY <1>1 DEF I!thr_sendrec_IB, I!BusPower, I!BusTold, I!Announce, I!SendGL,
      I!SendFunctions, I!Poll, I!CheckGL, I!CheckShort, I!AskStatus, I!Judge,
      I!BusSetsPower, I!CheckPT, I!SendSM, I!Broadcast, I!EndWait
  <1>3. power
    BY <1>2 DEF I!BusTell
  <1> QED BY <1>3

\* The bus thread of the loopback driver does not tell a box anything.
LEMMA LoopbackTellsNothing ==
  ASSUME Next, rpc = "tell" PROVE rpc' # "told"
  BY DEF Next, handle_sm_command, Take, LockBus, Execute, Broadcast, UnlockBus, infoSM, Lock,
    TestFull, Publish, Wait, Answer, Unlock, Call, Wake

LEMMA Switched ==
  ASSUME DriverInv, [NextEither]_all, rpc = "tell", rpc' = "told", ~boxPower, boxPower'
  PROVE  asked \/ {"off", "short"} \cap events # {}
  <1>1. NextEither
    BY DEF all, vars
  <1>2. driver = "IB" /\ I!Next
    BY <1>1, LoopbackTellsNothing DEF NextEither, Loopback, Intellibox
  <1> QED BY <1>2, SwitchedOn DEF DriverInv

-----------------------------------------------------------------------------
\* While the server takes the power for on although the box is stopped and no
\* client asks for it, the bus thread of the Intellibox is on its way to find that
\* out: see BoxInv.
THEOREM PowerInvariant == SpecEither => []DriverInv
  BY Starts, Steps, PTL DEF SpecEither

\* The server does not undo a stop at the box by itself: send_command_power_IB
\* switches a box on only if a client has asked for it, or if the box has not
\* told of its stop yet.
THEOREM StopHoldsAlways == SpecEither => StopHolds
  <1>1. DriverInv /\ [NextEither]_all
          => [rpc = "tell" /\ rpc' = "told" /\ ~boxPower /\ boxPower'
                => asked \/ {"off", "short"} \cap events # {}]_(I!vars)
    BY Switched
  <1> QED BY <1>1, PowerInvariant, PTL DEF SpecEither, StopHolds, I!StopHolds
=============================================================================
