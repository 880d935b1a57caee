---------------------------- MODULE CommandQueue -----------------------------
(* The command queue of one device group of one bus: the ring buffer queue[],*)
(* its cursors in[] and out[] and its mutex queue_mutex[], as srcp-gl.c has  *)
(* them.  srcp-ga.c and srcp-sm.c hold the same code with another QUEUELEN.  *)
(*                                                                           *)
(* Every session is a thread that may call enqueueGL; the bus thread is the  *)
(* only caller of dequeueNextGL.  One action is one access to the shared     *)
(* state, so everything the mutex does not cover interleaves: the test       *)
(* queue_isfull is made before the mutex is taken, and the reader never      *)
(* takes the mutex at all.  A cursor that was incremented and not yet set    *)
(* back to 0 reads as QUEUELEN for a moment; it compares with the other      *)
(* cursor as 0 does, so the increment and the wrap are one step.             *)
EXTENDS Integers, Sequences, FiniteSets

CONSTANTS Sessions,     \* the threads that enqueue
          Commands,     \* the commands they enqueue
          NoCommand,    \* content of a slot never written
          QUEUELEN      \* slots of the ring buffer

ASSUME QueueAssumption == /\ QUEUELEN \in Nat \ {0, 1}
                          /\ IsFiniteSet(Sessions)
                          /\ NoCommand \notin Commands

VARIABLES queue,        \* the slots
          in,           \* write cursor
          out,          \* read cursor
          queue_mutex,  \* the sessions that hold the mutex: none or one
          pc,           \* where each session is in enqueueGL
          cmd,          \* the command each session enqueues
          rpc,          \* where the bus thread is in dequeueNextGL
          l,            \* the caller's copy of the slot that was read
          overrun       \* history: the write cursor once ran onto out

vars == <<queue, in, out, queue_mutex, pc, cmd, rpc, l, overrun>>

Slots == 0 .. QUEUELEN - 1

Wrap(i) == IF i >= QUEUELEN THEN i - QUEUELEN ELSE i

queue_len == IF in >= out THEN in - out ELSE QUEUELEN + in - out

queue_isfull == queue_len >= QUEUELEN - 1

queue_isempty == in = out

Init == /\ queue = [i \in Slots |-> NoCommand]
        /\ in = 0 /\ out = 0
        /\ queue_mutex = {}
        /\ pc = [s \in Sessions |-> "idle"]
        /\ cmd = [s \in Sessions |-> NoCommand]
        /\ rpc = "test"
        /\ l = NoCommand
        /\ overrun = FALSE

-----------------------------------------------------------------------------
(* enqueueGL, for an address that is valid and initialised. *)

Call(s, c) == /\ pc[s] = "idle"
              /\ pc' = [pc EXCEPT ![s] = "isfull"]
              /\ cmd' = [cmd EXCEPT ![s] = c]
              /\ UNCHANGED <<queue, in, out, queue_mutex, rpc, l, overrun>>

\* A full queue answers SRCP_TEMPORARILYPROHIBITED.
TestFull(s) == /\ pc[s] = "isfull"
               /\ pc' = [pc EXCEPT ![s] = IF queue_isfull THEN "idle" ELSE "lock"]
               /\ UNCHANGED <<queue, in, out, queue_mutex, cmd, rpc, l, overrun>>

LockQueue(s) == /\ pc[s] = "lock"
                /\ queue_mutex = {}
                /\ queue_mutex' = {s}
                /\ pc' = [pc EXCEPT ![s] = "write"]
                /\ UNCHANGED <<queue, in, out, cmd, rpc, l, overrun>>

\* WriteSlot with a bug that FifoUntilOverrun has to show.
WriteNextSlot(s) == /\ pc[s] = "write"
                    /\ queue' = [queue EXCEPT ![Wrap(in + 1)] = cmd[s]]
                    /\ pc' = [pc EXCEPT ![s] = "publish"]
                    /\ UNCHANGED <<in, out, queue_mutex, cmd, rpc, l, overrun>>

WriteSlot(s) == /\ pc[s] = "write"
                /\ queue' = [queue EXCEPT ![in] = cmd[s]]
                /\ pc' = [pc EXCEPT ![s] = "publish"]
                /\ UNCHANGED <<in, out, queue_mutex, cmd, rpc, l, overrun>>

\* in++ and its wrap to 0.
Publish(s) == /\ pc[s] = "publish"
              /\ in' = Wrap(in + 1)
              /\ overrun' = (overrun \/ in' = out)
              /\ pc' = [pc EXCEPT ![s] = "unlock"]
              /\ UNCHANGED <<queue, out, queue_mutex, cmd, rpc, l>>

UnlockQueue(s) == /\ pc[s] = "unlock"
                  /\ queue_mutex' = {}
                  /\ pc' = [pc EXCEPT ![s] = "idle"]
                  /\ UNCHANGED <<queue, in, out, cmd, rpc, l, overrun>>

-----------------------------------------------------------------------------
(* dequeueNextGL, called by the bus thread in its loop. *)

\* TestEmpty with a bug that CopyUndisturbed has to show.
TestNothing == /\ rpc = "test"
               /\ rpc' = "copy"
               /\ UNCHANGED <<queue, in, out, queue_mutex, pc, cmd, l, overrun>>

\* TestEmpty with a bug that Delivered has to show.
TestSingle == /\ rpc = "test"
              /\ queue_len > 1
              /\ rpc' = "copy"
              /\ UNCHANGED <<queue, in, out, queue_mutex, pc, cmd, l, overrun>>

TestEmpty == /\ rpc = "test"
             /\ ~queue_isempty
             /\ rpc' = "copy"
             /\ UNCHANGED <<queue, in, out, queue_mutex, pc, cmd, l, overrun>>

CopySlot == /\ rpc = "copy"
            /\ l' = queue[out]
            /\ rpc' = "consume"
            /\ UNCHANGED <<queue, in, out, queue_mutex, pc, cmd, overrun>>

\* out++ and its wrap to 0.
Consume == /\ rpc = "consume"
           /\ out' = Wrap(out + 1)
           /\ rpc' = "test"
           /\ UNCHANGED <<queue, in, queue_mutex, pc, cmd, l, overrun>>

enqueueGL(s) == \/ \E c \in Commands : Call(s, c)
                \/ TestFull(s)
                \/ LockQueue(s)
                \/ WriteSlot(s)
                \/ Publish(s)
                \/ UnlockQueue(s)

dequeueNextGL == TestEmpty \/ CopySlot \/ Consume

Next == dequeueNextGL \/ \E s \in Sessions : enqueueGL(s)

\* The bus thread polls its queue for ever.  Nothing forces a client to send,
\* and a session inside enqueueGL needs no fairness for the properties below.
Fairness == WF_vars(dequeueNextGL)

Spec == Init /\ [][Next]_vars

FairSpec == Spec /\ Fairness

-----------------------------------------------------------------------------
(* Properties. *)

\* Type invariant: the cursors stay inside the buffer, whatever the sessions do.
TypeOK == /\ queue \in [Slots -> Commands \cup {NoCommand}]
          /\ in \in Slots /\ out \in Slots
          /\ queue_mutex \in SUBSET Sessions
          /\ pc \in [Sessions -> {"idle", "isfull", "lock", "write", "publish", "unlock"}]
          /\ cmd \in [Sessions -> Commands \cup {NoCommand}]
          /\ rpc \in {"test", "copy", "consume"}
          /\ l \in Commands \cup {NoCommand}
          /\ overrun \in BOOLEAN

\* The sessions whose queue_isfull test passed and that have yet to publish.
Admitted == {s \in Sessions : pc[s] \in {"lock", "write", "publish"}}

\* How far the unlocked queue_isfull test can be off: with n sessions, the
\* commands that wait or are admitted exceed the QUEUELEN - 1 usable slots by
\* at most n - 1.  With one session they never do, so it cannot overrun.
QueueBound == ~overrun =>
    queue_len + Cardinality(Admitted) <= QUEUELEN - 2 + Cardinality(Sessions)

\* What the buffer holds, oldest first.  The bus thread has taken a slot as
\* soon as it has copied it: from CopySlot to Consume it waits no longer.
Taken == IF rpc = "consume" THEN 1 ELSE 0

Waiting == [i \in 1 .. queue_len - Taken |-> queue[Wrap(out + Taken + i - 1)]]

Fifo == INSTANCE CommandFifo WITH Capacity <- QUEUELEN - 1,
                                  pending <- Waiting, taken <- l

\* Until the buffer is overrun, no command is lost, duplicated or reordered,
\* however many sessions enqueue and wherever the bus thread is.
FifoUntilOverrun ==
    Fifo!Init /\ [][overrun' \/ Fifo!Next]_<<Waiting, l>>

\* PROGRAMMING-HOWTO section 8: "The queues are simple first-in-first-out
\* queues".  Without the condition this is so for a single session, not for two
\* that pass queue_isfull together.
FifoQueue == Fifo!Spec

\* Sessions write only the slot the write cursor points at; while the bus
\* thread reads, which it does without the mutex, that is another slot.
CopyUndisturbed == rpc # "test" /\ ~overrun => in # out

\* The slot a session publishes holds that session's own command: two sessions
\* that enqueue at the same time never mix or overwrite their slots.
SlotWritten == \A s \in Sessions : pc[s] = "publish" => queue[in] = cmd[s]

\* A command that was published is taken by the bus thread in the end, unless
\* the buffer was overrun: later commands cannot starve or hide it.
Delivered == \A c \in Commands :
    (\E i \in DOMAIN Waiting : Waiting[i] = c) ~> (l = c \/ overrun)
=============================================================================
