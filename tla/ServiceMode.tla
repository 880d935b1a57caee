----------------------------- MODULE ServiceMode ------------------------------
(* The SM device group of one bus: a session programs or reads the decoder   *)
(* on the programming track and waits for the answer.  infoSM (srcp-sm.c)    *)
(* enqueues the command and sleeps on cb_cond under cb_mutex                 *)
(* (srcp-session.c); the bus thread (loopback.c; selectrix.c does the same)  *)
(* carries the command out, stores the result in cb_data, which the bus has  *)
(* once, and wakes every session that sleeps.                                *)
(*                                                                           *)
(* queue_isfull is tested outside queue_mutex here as in CommandQueue, but   *)
(* inside cb_mutex; NoOverrun shows that the queue may then be a sequence.   *)
(* One CV with few values stands for the memory of the decoder.              *)
EXTENDS Integers, Sequences

CONSTANTS Sessions,     \* client sessions
          Bus,          \* the bus thread, as a holder of cb_mutex
          Values,       \* values of the CV
          QUEUELEN,     \* slots of the SM queue
          MaxCommands   \* bound: calls of infoSM altogether

ASSUME ServiceAssumption == /\ Bus \notin Sessions
                            /\ Values \subseteq Nat /\ 0 \in Values
                            /\ QUEUELEN \in Nat \ {0, 1} /\ MaxCommands \in Nat

VARIABLES queue,        \* commands not yet taken by the bus thread
          cv,           \* the CV of the decoder
          cb_mutex,     \* who holds cb_mutex: nobody or one
          sleeping,     \* sessions that sleep on cb_cond
          cb_data,      \* the result of the last command
          rpc, smtmp,   \* bus thread: where it is, the command it has taken
          th,           \* per session thread: where it is, its call of infoSM
          left          \* calls the sessions may still make

vars == <<queue, cv, cb_mutex, sleeping, cb_data, rpc, smtmp, th, left>>

\* A command knows its session here, which it does not in the code: that is
\* why a session cannot tell an answer that is not its own.
Command == [from : Sessions, op : {"GET", "SET", "VERIFY", "INIT"}, value : Values]

Result == Values \cup {-1}

NoCall == [pc |-> "idle", op |-> "GET", value |-> 0, status |-> "OK", result |-> 0,
           mixed |-> FALSE, own |-> 0]

Init == /\ queue = <<>> /\ cv = 0
        /\ cb_mutex = {} /\ sleeping = {} /\ cb_data = 0
        /\ rpc = "test" /\ smtmp = <<>>
        /\ th = [s \in Sessions |-> NoCall]
        /\ left = MaxCommands

At(s, p) == th[s].pc = p

queue_isfull == Len(queue) >= QUEUELEN - 1

Pending == queue # <<>> \/ smtmp # <<>>

-----------------------------------------------------------------------------
(* infoSM, called by SET, GET, VERIFY, INIT and TERM SM.  INIT stands for    *)
(* TERM too: the loopback driver carries out neither and answers both.       *)

\* History "mixed": another session, or an earlier command, was about during
\* the call, or the session woke without an answer.
Call(s) == \E op \in {"GET", "SET", "VERIFY", "INIT"}, v \in Values :
    LET Others == {t \in Sessions \ {s} : ~At(t, "idle")} IN
    /\ At(s, "idle") /\ left > 0
    /\ op \in {"GET", "INIT"} => v = 0
    /\ left' = left - 1
    /\ th' = [t \in Sessions |->
                IF t = s THEN [NoCall EXCEPT !.pc = "lock", !.op = op, !.value = v,
                                             !.mixed = Pending \/ Others # {}]
                ELSE [th[t] EXCEPT !.mixed = @ \/ t \in Others]]
    /\ UNCHANGED <<queue, cv, cb_mutex, sleeping, cb_data, rpc, smtmp>>

\* session_lock_wait.
Lock(s) == /\ At(s, "lock")
           /\ cb_mutex = {}
           /\ cb_mutex' = {s}
           /\ th' = [th EXCEPT ![s].pc = "isfull"]
           /\ UNCHANGED <<queue, cv, sleeping, cb_data, rpc, smtmp, left>>

\* enqueueSM: the status is kept, but the session waits in any case.
TestFull(s) ==
    /\ At(s, "isfull")
    /\ th' = [th EXCEPT ![s].pc = IF queue_isfull THEN "wait" ELSE "publish",
                        ![s].status = IF queue_isfull THEN "PROHIBITED" ELSE "OK"]
    /\ UNCHANGED <<queue, cv, cb_mutex, sleeping, cb_data, rpc, smtmp, left>>

Publish(s) ==
    /\ At(s, "publish")
    /\ queue' = Append(queue, [from |-> s, op |-> th[s].op, value |-> th[s].value])
    /\ th' = [th EXCEPT ![s].pc = "wait"]
    /\ UNCHANGED <<cv, cb_mutex, sleeping, cb_data, rpc, smtmp, left>>

\* session_condt_wait: the mutex is given up and the session sleeps, at once.
Wait(s) == /\ At(s, "wait")
           /\ cb_mutex' = {}
           /\ sleeping' = sleeping \cup {s}
           /\ th' = [th EXCEPT ![s].pc = "asleep"]
           /\ UNCHANGED <<queue, cv, cb_data, rpc, smtmp, left>>

\* pthread_cond_timedwait may also return because 90 seconds are over, or for
\* no reason: nothing is tested after it.
Wake(s) == \E status \in {th[s].status, "TIMEOUT"} :
    /\ s \in sleeping
    /\ sleeping' = sleeping \ {s}
    /\ th' = [th EXCEPT ![s].status = status, ![s].mixed = TRUE]
    /\ UNCHANGED <<queue, cv, cb_mutex, cb_data, rpc, smtmp, left>>

\* It returns with the mutex, and *value = cb_data.
Answer(s) == /\ At(s, "asleep") /\ s \notin sleeping
             /\ cb_mutex = {}
             /\ cb_mutex' = {s}
             /\ th' = [th EXCEPT ![s].pc = "unlock", ![s].result = cb_data]
             /\ UNCHANGED <<queue, cv, sleeping, cb_data, rpc, smtmp, left>>

\* session_unlock_wait; the client gets its reply.
Unlock(s) == /\ At(s, "unlock")
             /\ cb_mutex' = {}
             /\ th' = [th EXCEPT ![s] = NoCall]
             /\ UNCHANGED <<queue, cv, sleeping, cb_data, rpc, smtmp, left>>

-----------------------------------------------------------------------------
(* handle_sm_command, called by the bus thread in its loop. *)

\* dequeueNextSM, before the bus thread asks for cb_mutex.
Take == /\ rpc = "test" /\ queue # <<>>
        /\ smtmp' = <<Head(queue)>> /\ queue' = Tail(queue)
        /\ rpc' = "lock"
        /\ UNCHANGED <<cv, cb_mutex, sleeping, cb_data, th, left>>

LockBus == /\ rpc = "lock"
           /\ cb_mutex = {}
           /\ cb_mutex' = {Bus}
           /\ rpc' = "data"
           /\ UNCHANGED <<queue, cv, sleeping, cb_data, smtmp, th, left>>

ResultOf(c) == CASE c.op = "GET" -> cv
                 [] c.op = "VERIFY" /\ c.value # cv -> -1
                 [] OTHER -> c.value

\* The command is carried out; session_endwait stores the result.
Execute ==
    /\ rpc = "data"
    /\ LET c == Head(smtmp) IN
       /\ cv' = IF c.op = "SET" THEN c.value ELSE cv
       /\ cb_data' = ResultOf(c)
       /\ th' = [th EXCEPT ![c.from].own = ResultOf(c)]
    /\ rpc' = "broadcast"
    /\ UNCHANGED <<queue, cb_mutex, sleeping, smtmp, left>>

\* Broadcast with a bug that LoopbackReturns has to show.
Signal == /\ rpc = "broadcast"
          /\ \E t \in Sessions : (t \in sleeping \/ sleeping = {}) /\ sleeping' = sleeping \ {t}
          /\ rpc' = "unlock" /\ smtmp' = <<>>
          /\ UNCHANGED <<queue, cv, cb_mutex, cb_data, th, left>>

\* pthread_cond_broadcast in session_endwait.
Broadcast == /\ rpc = "broadcast"
             /\ sleeping' = {}
             /\ rpc' = "unlock" /\ smtmp' = <<>>
             /\ UNCHANGED <<queue, cv, cb_mutex, cb_data, th, left>>

UnlockBus == /\ rpc = "unlock"
             /\ cb_mutex' = {}
             /\ rpc' = "test"
             /\ UNCHANGED <<queue, cv, sleeping, cb_data, smtmp, th, left>>

handle_sm_command == Take \/ LockBus \/ Execute \/ Broadcast \/ UnlockBus

infoSM(s) == Lock(s) \/ TestFull(s) \/ Publish(s) \/ Wait(s) \/ Answer(s) \/ Unlock(s)

Next == handle_sm_command \/ \E s \in Sessions : Call(s) \/ infoSM(s) \/ Wake(s)

Spec == Init /\ [][Next]_vars

\* The bus thread polls, a thread that can go on does so, and nobody keeps
\* cb_mutex for ever; the calls are bounded, so everyone gets it in the end.
\* The time-out of 90 seconds is not counted on.
FairSpec == Spec /\ WF_vars(handle_sm_command) /\ \A s \in Sessions : WF_vars(infoSM(s))

-----------------------------------------------------------------------------
(* Properties. *)

\* Type invariant.
TypeOK ==
    /\ queue \in Seq(Command) /\ Len(queue) < QUEUELEN /\ cv \in Values
    /\ cb_mutex \in SUBSET (Sessions \cup {Bus})
    /\ sleeping \in SUBSET Sessions
    /\ cb_data \in Result
    /\ rpc \in {"test", "lock", "data", "broadcast", "unlock"}
    /\ smtmp \in Seq(Command) /\ Len(smtmp) = IF rpc \in {"test", "unlock"} THEN 0 ELSE 1
    /\ th \in [Sessions -> [pc : {"idle", "lock", "isfull", "publish", "wait", "asleep", "unlock"},
                            op : {"GET", "SET", "VERIFY", "INIT"}, value : Values,
                            status : {"OK", "PROHIBITED", "TIMEOUT"}, result : Result,
                            mixed : BOOLEAN, own : Result]]
    /\ left \in 0 .. MaxCommands

\* No session writes into a full queue, although the test for a full queue is
\* made outside queue_mutex: cb_mutex is held over both.
NoOverrun == \A s \in Sessions : At(s, "publish") => ~queue_isfull

\* No wake-up is lost: while a session sleeps whose command was accepted, that
\* command is still to be carried out and announced; while one sleeps whose
\* command was refused, another command is.
Owed(s) == (smtmp # <<>> /\ Head(smtmp).from = s) \/ \E i \in DOMAIN queue : queue[i].from = s

NoLostWakeup == \A s \in sleeping :
    IF th[s].status = "OK" THEN Owed(s) ELSE Pending

\* A session that has the programming track for itself during its call gets
\* the result of its own command.
OwnAnswer == \A s \in Sessions :
    At(s, "unlock") /\ ~th[s].mixed => th[s].result = th[s].own

\* Every call of infoSM returns by an answer; nobody needs the 90 seconds.
CallReturns == \A s \in Sessions : ~At(s, "idle") ~> At(s, "idle")
=============================================================================
