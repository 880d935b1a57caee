---------------------------- MODULE Server_proofs ----------------------------
(* Proofs about two parts of the server: the ring buffers of the device      *)
(* groups, for every set of sessions, every set of commands and every length *)
(* of the buffer, and the sessions themselves with their INFO messages, for  *)
(* every set of connections, every size of the pipes and any number of       *)
(* changes.  The names of the sessions' own operators and of what is proved  *)
(* about them do not meet those of the queues.                               *)
EXTENDS CommandQueue, Sessions, FiniteSetTheorems, SequenceTheorems, TLAPS

-----------------------------------------------------------------------------
(* Type correctness. *)

LEMMA WrapSlot == \A i \in Slots : Wrap(i + 1) \in Slots
  BY QueueAssumption DEF Slots, Wrap

LEMMA TypeInit == Init => TypeOK
<1>1. 0 \in Slots
  BY QueueAssumption DEF Slots
<1> QED
  BY <1>1 DEF Init, TypeOK

LEMMA TypeStep == TypeOK /\ [Next]_vars => TypeOK'
<1> SUFFICES ASSUME TypeOK, [Next]_vars PROVE TypeOK'
  OBVIOUS
<1> USE DEF TypeOK
<1>1. ASSUME NEW s \in Sessions, enqueueGL(s) PROVE TypeOK'
  <2>1. ASSUME NEW c \in Commands, Call(s, c) PROVE TypeOK'
    BY <2>1 DEF Call
  <2>2. CASE TestFull(s)
    BY <2>2 DEF TestFull
  <2>3. CASE LockQueue(s)
    BY <2>3 DEF LockQueue
  <2>4. CASE WriteSlot(s)
    BY <2>4 DEF WriteSlot
  <2>5. CASE Publish(s)
    BY <2>5, WrapSlot DEF Publish
  <2>6. CASE UnlockQueue(s)
    BY <2>6 DEF UnlockQueue
  <2> QED
    BY <1>1, <2>1, <2>2, <2>3, <2>4, <2>5, <2>6 DEF enqueueGL
<1>2. CASE TestEmpty
  BY <1>2 DEF TestEmpty
<1>3. CASE CopySlot
  BY <1>3 DEF CopySlot
<1>4. CASE Consume
  BY <1>4, WrapSlot DEF Consume
<1>5. CASE UNCHANGED vars
  BY <1>5 DEF vars
<1> QED
  BY <1>1, <1>2, <1>3, <1>4, <1>5 DEF Next, dequeueNextGL

\* The cursors never leave the buffer, whatever interleaves.
THEOREM TypeCorrect == Spec => []TypeOK
  BY TypeInit, TypeStep, PTL DEF Spec

-----------------------------------------------------------------------------
(* The bound on the commands that wait or are admitted.                      *)
(*                                                                           *)
(* QueueBound alone is not inductive: Consume could take a command out of an *)
(* empty buffer, whose length would then read as QUEUELEN - 1.  So the       *)
(* invariant adds that the bus thread reads only while something waits.      *)

BoundInv == TypeOK /\ QueueBound /\ CopyUndisturbed

LEMMA LengthFacts ==
    TypeOK => /\ queue_len \in 0 .. QUEUELEN - 1
              /\ in = out <=> queue_len = 0
  BY QueueAssumption DEF TypeOK, Slots, queue_len

LEMMA AdmittedFinite ==
    /\ IsFiniteSet(Admitted)
    /\ Cardinality(Admitted) \in Nat
    /\ Cardinality(Admitted) <= Cardinality(Sessions)
    /\ Cardinality(Sessions) \in Nat
<1>1. Admitted \in SUBSET Sessions
  BY DEF Admitted
<1>2. IsFiniteSet(Sessions)
  BY QueueAssumption
<1> QED
  BY <1>1, <1>2, FS_Subset, FS_CardinalityType

\* What publishing does to the length of the queue.
LEMMA PublishLength ==
    ASSUME TypeOK, in' = Wrap(in + 1), out' = out
    PROVE  IF queue_len = QUEUELEN - 1 THEN in' = out
                                       ELSE in' # out /\ queue_len' = queue_len + 1
  BY QueueAssumption DEF TypeOK, Slots, queue_len, Wrap

\* What consuming does to the length of the queue.
LEMMA ConsumeLength ==
    ASSUME TypeOK, in # out, out' = Wrap(out + 1), in' = in
    PROVE  queue_len' = queue_len - 1
  BY QueueAssumption DEF TypeOK, Slots, queue_len, Wrap

LEMMA BoundStep == BoundInv /\ [Next]_vars => BoundInv'
<1> SUFFICES ASSUME BoundInv, [Next]_vars PROVE BoundInv'
  OBVIOUS
<1>1. TypeOK /\ TypeOK'
  BY TypeStep DEF BoundInv
<1>2. /\ queue_len \in 0 .. QUEUELEN - 1 /\ queue_len' \in 0 .. QUEUELEN - 1
      /\ in = out <=> queue_len = 0
  <2>1. (TypeOK => queue_len \in 0 .. QUEUELEN - 1)'
    BY LengthFacts, PTL
  <2> QED
    BY <1>1, <2>1, LengthFacts
<1>3. /\ Cardinality(Admitted) \in Nat /\ Cardinality(Admitted') \in Nat
      /\ Cardinality(Admitted') <= Cardinality(Sessions)
      /\ Cardinality(Sessions) \in Nat
      /\ IsFiniteSet(Admitted) 
  <2>1. (/\ Cardinality(Admitted) \in Nat
         /\ Cardinality(Admitted) <= Cardinality(Sessions))'
    BY AdmittedFinite, PTL
  <2> QED
    BY <2>1, AdmittedFinite
<1>4. QUEUELEN \in Nat /\ QUEUELEN > 1
  BY QueueAssumption
<1>5. CASE UNCHANGED <<in, out, overrun>> /\ Admitted' \subseteq Admitted /\ (rpc' = rpc \/ TestEmpty)
  \* Nothing moves, and nobody is admitted.
  <2>1. queue_len' = queue_len
    BY <1>5 DEF queue_len
  <2>2. Cardinality(Admitted') <= Cardinality(Admitted)
    BY <1>3, <1>5, FS_Subset
  <2>3. QueueBound'
    BY <1>2, <1>3, <1>4, <1>5, <2>1, <2>2 DEF BoundInv, QueueBound
  <2>4. CopyUndisturbed'
    BY <1>5 DEF BoundInv, CopyUndisturbed, TestEmpty, queue_isempty
  <2> QED
    BY <1>1, <2>3, <2>4 DEF BoundInv
<1>6. ASSUME NEW s \in Sessions, TestFull(s), ~queue_isfull PROVE BoundInv'
  \* At most QUEUELEN - 2 commands wait and at most all sessions are admitted.
  <2>1. queue_len' = queue_len /\ UNCHANGED <<in, out, rpc, overrun>>
    BY <1>6 DEF TestFull, queue_len
  <2>2. QueueBound'
    BY <1>2, <1>3, <1>4, <1>6, <2>1 DEF QueueBound, queue_isfull
  <2>3. CopyUndisturbed'
    BY <2>1 DEF BoundInv, CopyUndisturbed
  <2> QED
    BY <1>1, <2>2, <2>3 DEF BoundInv
<1>7. ASSUME NEW s \in Sessions, Publish(s) PROVE BoundInv'
  \* One command more waits, one session less is admitted.
  <2>1. CASE overrun'
    BY <1>1, <2>1 DEF BoundInv, QueueBound, CopyUndisturbed
  <2>2. CASE ~overrun'
    <3>1. ~overrun /\ in' # out /\ queue_len' = queue_len + 1 /\ UNCHANGED <<out, rpc>>
      BY <1>1, <1>7, <2>2, PublishLength DEF Publish
    <3>2. s \in Admitted /\ Admitted' = Admitted \ {s}
      BY <1>1, <1>7 DEF Publish, Admitted, TypeOK
    <3>3. Cardinality(Admitted') = Cardinality(Admitted) - 1
      BY <1>3, <3>2, FS_RemoveElement
    <3>4. QueueBound'
      BY <1>2, <1>3, <1>4, <3>1, <3>3 DEF BoundInv, QueueBound
    <3>5. CopyUndisturbed'
      BY <3>1 DEF CopyUndisturbed
    <3> QED
      BY <1>1, <3>4, <3>5 DEF BoundInv
  <2> QED
    BY <2>1, <2>2
<1>8. CASE Consume
  <2>1. UNCHANGED <<in, pc, overrun>> /\ rpc' = "test" /\ rpc = "consume"
        /\ out' = Wrap(out + 1)
    BY <1>8 DEF Consume
  <2>2. Admitted' = Admitted
    BY <2>1 DEF Admitted
  <2>3. ASSUME ~overrun PROVE queue_len' = queue_len - 1
    BY <1>1, <2>1, <2>3, ConsumeLength DEF BoundInv, CopyUndisturbed
  <2>4. QueueBound'
    BY <1>2, <1>3, <1>4, <2>1, <2>2, <2>3 DEF BoundInv, QueueBound
  <2>5. CopyUndisturbed'
    BY <2>1 DEF CopyUndisturbed
  <2> QED
    BY <1>1, <2>4, <2>5 DEF BoundInv
<1>9. CASE CopySlot
  <2>1. UNCHANGED <<in, out, pc, overrun>> /\ rpc = "copy"
    BY <1>9 DEF CopySlot
  <2>2. Admitted' = Admitted /\ queue_len' = queue_len
    BY <2>1 DEF Admitted, queue_len
  <2> QED
    BY <1>1, <2>1, <2>2 DEF BoundInv, QueueBound, CopyUndisturbed
<1>10. CASE TestEmpty
  <2>1. UNCHANGED <<in, out, pc, overrun>>
    BY <1>10 DEF TestEmpty
  <2> QED
    BY <1>5, <1>10, <2>1 DEF Admitted
<1>11. CASE UNCHANGED vars
  BY <1>5, <1>11 DEF vars, Admitted
<1>12. ASSUME NEW s \in Sessions, enqueueGL(s) PROVE BoundInv'
  <2>1. ASSUME NEW c \in Commands, Call(s, c) PROVE BoundInv'
    BY <1>1, <1>5, <2>1 DEF Call, Admitted, TypeOK
  <2>2. CASE TestFull(s)
    BY <1>1, <1>5, <1>6, <2>2 DEF TestFull, Admitted, TypeOK
  <2>3. CASE LockQueue(s)
    BY <1>1, <1>5, <2>3 DEF LockQueue, Admitted, TypeOK
  <2>4. CASE WriteSlot(s)
    BY <1>1, <1>5, <2>4 DEF WriteSlot, Admitted, TypeOK
  <2>5. CASE Publish(s)
    BY <1>7, <2>5
  <2>6. CASE UnlockQueue(s)
    BY <1>1, <1>5, <2>6 DEF UnlockQueue, Admitted, TypeOK
  <2> QED
    BY <1>12, <2>1, <2>2, <2>3, <2>4, <2>5, <2>6 DEF enqueueGL
<1> QED
  BY <1>8, <1>9, <1>10, <1>11, <1>12 DEF Next, dequeueNextGL

LEMMA BoundInit == Init => BoundInv
<1> SUFFICES ASSUME Init PROVE BoundInv
  OBVIOUS
<1>1. TypeOK
  BY TypeInit
<1>2. queue_len = 0
  BY DEF Init, queue_len
<1>3. Admitted = {}
  BY DEF Init, Admitted
<1>4. Cardinality(Admitted) = 0 /\ Cardinality(Sessions) \in Nat
  BY <1>3, FS_EmptySet, AdmittedFinite
<1> QED
  BY <1>1, <1>2, <1>4, QueueAssumption DEF BoundInv, QueueBound, CopyUndisturbed, Init

\* However many sessions enqueue, the unlocked test of srcp-gl.c:115 lets at
\* most one command per session in excess of the first into the buffer.
THEOREM BoundHolds == Spec => []QueueBound
<1>1. BoundInv => QueueBound
  BY DEF BoundInv
<1> QED
  BY <1>1, BoundInit, BoundStep, PTL DEF Spec

-----------------------------------------------------------------------------
(* The ring buffer implements the first-in-first-out queue until it is       *)
(* overrun.  The mutex matters here: a session that publishes a slot must    *)
(* have written it itself (SlotWritten), which needs that no other session   *)
(* is between LockQueue and UnlockQueue (MutexHeld).                         *)

MutexHeld == \A s \in Sessions :
    pc[s] \in {"write", "publish", "unlock"} => queue_mutex = {s}

CommandGiven == \A s \in Sessions : pc[s] # "idle" => cmd[s] \in Commands

FifoInv == BoundInv /\ MutexHeld /\ SlotWritten /\ CommandGiven

Contents == Commands \cup {NoCommand}

LEMMA FifoInvInit == Init => FifoInv
<1> SUFFICES ASSUME Init PROVE FifoInv
  OBVIOUS
<1>1. BoundInv
  BY BoundInit
<1>2. \A s \in Sessions : pc[s] = "idle"
  BY DEF Init
<1> QED
  BY <1>1, <1>2 DEF FifoInv, MutexHeld, SlotWritten, CommandGiven

LEMMA FifoInvStep == FifoInv /\ [Next]_vars => FifoInv'
<1> SUFFICES ASSUME FifoInv, [Next]_vars PROVE FifoInv'
  OBVIOUS
<1>1. BoundInv'
  BY BoundStep DEF FifoInv
<1>2. TypeOK
  BY DEF FifoInv, BoundInv
<1> USE <1>2 DEF FifoInv, TypeOK, MutexHeld, SlotWritten, CommandGiven
<1>3. ASSUME NEW s \in Sessions, enqueueGL(s)
      PROVE  MutexHeld' /\ SlotWritten' /\ CommandGiven'
  <2>1. ASSUME NEW c \in Commands, Call(s, c)
        PROVE  MutexHeld' /\ SlotWritten' /\ CommandGiven'
    BY <2>1 DEF Call
  <2>2. CASE TestFull(s)
    BY <2>2 DEF TestFull
  <2>3. CASE LockQueue(s)
    BY <2>3 DEF LockQueue
  <2>4. CASE WriteSlot(s)
    BY <2>4 DEF WriteSlot
  <2>5. CASE Publish(s)
    BY <2>5 DEF Publish
  <2>6. CASE UnlockQueue(s)
    BY <2>6 DEF UnlockQueue
  <2> QED
    BY <1>3, <2>1, <2>2, <2>3, <2>4, <2>5, <2>6 DEF enqueueGL
<1>4. dequeueNextGL => MutexHeld' /\ SlotWritten' /\ CommandGiven'
  BY DEF dequeueNextGL, TestEmpty, CopySlot, Consume
<1>5. UNCHANGED vars => MutexHeld' /\ SlotWritten' /\ CommandGiven'
  BY DEF vars
<1> QED
  BY <1>1, <1>3, <1>4, <1>5 DEF Next

\* The contents as a sequence.
LEMMA WaitingSeq ==
    TypeOK /\ CopyUndisturbed /\ ~overrun =>
        /\ Waiting \in Seq(Contents)
        /\ Len(Waiting) = queue_len - Taken
        /\ queue_len - Taken \in Nat
<1> SUFFICES ASSUME TypeOK, CopyUndisturbed, ~overrun
             PROVE  /\ Waiting \in Seq(Contents)
                    /\ Len(Waiting) = queue_len - Taken
                    /\ queue_len - Taken \in Nat
  OBVIOUS
<1>1. queue_len - Taken \in Nat
  BY LengthFacts DEF CopyUndisturbed, Taken
<1>2. \A i \in 1 .. queue_len - Taken : Wrap(out + Taken + i - 1) \in Slots
  BY <1>1, LengthFacts, QueueAssumption DEF TypeOK, Slots, Wrap, Taken
<1>3. Waiting \in [1 .. queue_len - Taken -> Contents]
  BY <1>2 DEF Waiting, TypeOK, Contents
<1>4. Waiting \in Seq(Contents)
  BY <1>1, <1>3, SeqDef
<1>5. Len(Waiting) \in Nat /\ DOMAIN Waiting = 1 .. Len(Waiting)
  BY <1>4, LenProperties
<1>6. 1 .. Len(Waiting) = 1 .. queue_len - Taken
  BY <1>3, <1>5
<1> QED
  BY <1>1, <1>4, <1>5, <1>6

\* A step keeps the contents, appends to them or takes their first element.
LEMMA FifoStep ==
    ASSUME FifoInv, FifoInv', [Next]_vars, ~overrun'
    PROVE  Fifo!Next \/ UNCHANGED <<Waiting, l>>
<1>1. TypeOK /\ TypeOK' /\ CopyUndisturbed /\ CopyUndisturbed'
  BY DEF FifoInv, BoundInv
<1>2. ~overrun
  BY DEF Next, dequeueNextGL, enqueueGL, Call, TestFull, LockQueue, WriteSlot, Publish,
         UnlockQueue, TestEmpty, CopySlot, Consume, vars
<1>3. /\ Waiting \in Seq(Contents) /\ Waiting' \in Seq(Contents)
      /\ Len(Waiting) = queue_len - Taken /\ Len(Waiting') = queue_len' - Taken'
      /\ queue_len - Taken \in Nat /\ queue_len' - Taken' \in Nat
  <2>1. (TypeOK /\ CopyUndisturbed /\ ~overrun =>
            /\ Waiting \in Seq(Contents)
            /\ Len(Waiting) = queue_len - Taken
            /\ queue_len - Taken \in Nat)'
    BY WaitingSeq, PTL
  <2> QED
    BY <1>1, <1>2, <2>1, WaitingSeq DEF Contents
<1>4. queue_len \in 0 .. QUEUELEN - 1 /\ (in = out <=> queue_len = 0)
  BY <1>1, LengthFacts
<1>5. QUEUELEN \in Nat /\ QUEUELEN > 1
  BY QueueAssumption
<1>6. ASSUME UNCHANGED <<queue, in, out, rpc, l>> PROVE UNCHANGED <<Waiting, l>>
  BY <1>6 DEF Waiting, queue_len, Taken
<1>7. ASSUME NEW s \in Sessions, WriteSlot(s) PROVE UNCHANGED <<Waiting, l>>
  \* The slot that is written is not among those that wait.
  <2>1. UNCHANGED <<in, out, rpc, l>> /\ queue' = [queue EXCEPT ![in] = cmd[s]]
    BY <1>7 DEF WriteSlot
  <2>2. queue_len' = queue_len /\ Taken' = Taken
    BY <2>1 DEF queue_len, Taken
  <2>3. \A i \in 1 .. queue_len - Taken :
            /\ Wrap(out + Taken + i - 1) \in Slots
            /\ Wrap(out + Taken + i - 1) # in
    BY <1>1, <1>4, <1>5 DEF queue_len, Wrap, Taken, TypeOK, Slots
  <2>4. \A i \in 1 .. queue_len - Taken :
            queue'[Wrap(out + Taken + i - 1)] = queue[Wrap(out + Taken + i - 1)]
    BY <1>1, <2>1, <2>3 DEF TypeOK
  <2>5. Waiting' = [i \in 1 .. queue_len - Taken |-> queue'[Wrap(out + Taken + i - 1)]]
    BY <2>1, <2>2 DEF Waiting
  <2> QED
    BY <2>1, <2>4, <2>5 DEF Waiting
<1>8. ASSUME NEW s \in Sessions, Publish(s) PROVE Fifo!Put(cmd[s]) /\ cmd[s] \in Commands
  <2>1. /\ UNCHANGED <<queue, out, rpc, l, cmd>> /\ in' = Wrap(in + 1)
        /\ queue[in] = cmd[s] /\ cmd[s] \in Commands
    BY <1>8 DEF Publish, FifoInv, SlotWritten, CommandGiven
  <2>2. in' # out
    BY <1>8 DEF Publish
  <2>3. queue_len' = queue_len + 1 /\ queue_len # QUEUELEN - 1 /\ Taken' = Taken
    BY <1>1, <2>1, <2>2, PublishLength DEF Taken
  <2>4. Len(Waiting) < QUEUELEN - 1
    BY <1>3, <1>4, <1>5, <2>3 DEF Taken
  <2>5. /\ Append(Waiting, cmd[s]) \in Seq(Contents)
        /\ Len(Append(Waiting, cmd[s])) = Len(Waiting) + 1
        /\ \A i \in 1 .. Len(Waiting) : Append(Waiting, cmd[s])[i] = Waiting[i]
        /\ Append(Waiting, cmd[s])[Len(Waiting) + 1] = cmd[s]
    BY <1>3, <2>1, AppendProperties DEF Contents
  <2>6. Len(Waiting') = Len(Waiting) + 1
    BY <1>3, <1>4, <2>3 DEF Taken
  <2>7. ASSUME NEW i \in 1 .. Len(Waiting') PROVE Waiting'[i] = Append(Waiting, cmd[s])[i]
    <3>1. Waiting'[i] = queue[Wrap(out + Taken + i - 1)]
      BY <1>3, <2>1, <2>3 DEF Waiting
    <3>2. CASE i \in 1 .. Len(Waiting)
      BY <1>3, <2>5, <3>1, <3>2 DEF Waiting
    <3>3. CASE i = Len(Waiting) + 1
      <4>1. Wrap(out + Taken + i - 1) = in
        BY <1>1, <1>3, <1>4, <1>5, <3>3 DEF queue_len, Wrap, Taken, TypeOK, Slots
      <4> QED
        BY <2>1, <2>5, <3>1, <3>3, <4>1
    <3> QED
      BY <1>3, <2>6, <3>2, <3>3
  <2>8. Waiting' = Append(Waiting, cmd[s])
    BY <1>3, <2>5, <2>6, <2>7, SeqEqual
  <2> QED
    BY <2>1, <2>4, <2>8 DEF Fifo!Put
<1>9. CASE CopySlot
  <2>1. UNCHANGED <<queue, in, out>> /\ rpc = "copy" /\ rpc' = "consume" /\ l' = queue[out]
    BY <1>9 DEF CopySlot
  <2>2. queue_len' = queue_len /\ Taken = 0 /\ Taken' = 1 /\ queue_len > 0
    BY <1>1, <1>2, <1>4, <2>1 DEF queue_len, Taken, CopyUndisturbed
  <2>3. Waiting # <<>>
    BY <1>3, <1>4, <2>2, EmptySeq
  <2>4. Head(Waiting) = queue[out]
    <3>1. Head(Waiting) = Waiting[1]
      BY <1>3, <2>3
    <3>2. Waiting[1] = queue[Wrap(out + 0 + 1 - 1)]
      BY <1>3, <1>4, <2>2 DEF Waiting
    <3> QED
      BY <1>1, <1>5, <3>1, <3>2 DEF Wrap, TypeOK, Slots
  <2>5. /\ Tail(Waiting) \in Seq(Contents)
        /\ Len(Tail(Waiting)) = Len(Waiting) - 1
        /\ \A i \in 1 .. Len(Tail(Waiting)) : Tail(Waiting)[i] = Waiting[i + 1]
    BY <1>3, <2>3, HeadTailProperties
  <2>6. Len(Waiting') = Len(Tail(Waiting))
    BY <1>3, <1>4, <2>2, <2>5
  <2>7. ASSUME NEW i \in 1 .. Len(Waiting') PROVE Waiting'[i] = Tail(Waiting)[i]
    <3>1. Waiting'[i] = queue[Wrap(out + 1 + i - 1)]
      BY <1>3, <2>1, <2>2 DEF Waiting
    <3>2. Waiting[i + 1] = queue[Wrap(out + 0 + (i + 1) - 1)]
      BY <1>3, <2>2, <2>6 DEF Waiting
    <3>3. out + 1 + i - 1 = out + 0 + (i + 1) - 1
      BY <1>1 DEF TypeOK, Slots
    <3> QED
      BY <2>5, <2>6, <3>1, <3>2, <3>3
  <2>8. Waiting' = Tail(Waiting)
    BY <1>3, <2>5, <2>6, <2>7, SeqEqual
  <2> QED
    BY <2>1, <2>3, <2>4, <2>8 DEF Fifo!Next, Fifo!Take
<1>10. CASE Consume
  \* The slot was taken when it was copied; now the read cursor follows.
  <2>1. /\ UNCHANGED <<queue, in, l>> /\ rpc = "consume" /\ rpc' = "test"
        /\ out' = Wrap(out + 1)
    BY <1>10 DEF Consume
  <2>2. queue_len' = queue_len - 1 /\ Taken = 1 /\ Taken' = 0
    BY <1>1, <1>2, <2>1, ConsumeLength DEF Taken, CopyUndisturbed
  <2>3. \A i \in 1 .. queue_len - 1 : Wrap(out' + 0 + i - 1) = Wrap(out + 1 + i - 1)
    BY <1>1, <1>4, <1>5, <2>1 DEF Wrap, TypeOK, Slots
  <2>4. Waiting = [i \in 1 .. queue_len - 1 |-> queue[Wrap(out + 1 + i - 1)]]
    BY <2>2 DEF Waiting
  <2>5. Waiting' = [i \in 1 .. queue_len - 1 |-> queue[Wrap(out' + 0 + i - 1)]]
    BY <1>4, <2>1, <2>2 DEF Waiting
  <2> QED
    BY <2>1, <2>3, <2>4, <2>5
<1>11. ASSUME NEW s \in Sessions, enqueueGL(s) PROVE Fifo!Next \/ UNCHANGED <<Waiting, l>>
  <2>1. ASSUME NEW c \in Commands, Call(s, c) PROVE UNCHANGED <<Waiting, l>>
    BY <1>6, <2>1 DEF Call
  <2>2. CASE TestFull(s)
    BY <1>6, <2>2 DEF TestFull
  <2>3. CASE LockQueue(s)
    BY <1>6, <2>3 DEF LockQueue
  <2>4. CASE UnlockQueue(s)
    BY <1>6, <2>4 DEF UnlockQueue
  <2>5. CASE Publish(s)
    BY <1>8, <2>5 DEF Fifo!Next
  <2> QED
    BY <1>7, <1>11, <2>1, <2>2, <2>3, <2>4, <2>5 DEF enqueueGL
<1>12. CASE TestEmpty
  <2>1. UNCHANGED <<queue, in, out, l>> /\ Taken' = Taken
    BY <1>12 DEF TestEmpty, Taken
  <2> QED
    BY <2>1 DEF Waiting, queue_len
<1>13. CASE UNCHANGED vars
  BY <1>6, <1>13 DEF vars
<1> QED
  BY <1>9, <1>10, <1>11, <1>12, <1>13 DEF Next, dequeueNextGL

LEMMA FifoInit == Init => Fifo!Init
<1> SUFFICES ASSUME Init PROVE Fifo!Init
  OBVIOUS
<1>1. queue_len - Taken = 0
  BY DEF Init, queue_len, Taken
<1>2. Waiting \in [1 .. 0 -> Contents] /\ Waiting \in Seq(Contents)
  <2>1. TypeOK /\ CopyUndisturbed /\ ~overrun
    BY TypeInit DEF Init, CopyUndisturbed
  <2> QED
    BY <1>1, <2>1, WaitingSeq, LenProperties
<1>3. Waiting = <<>>
  BY <1>2
<1> QED
  BY <1>3 DEF Init, Fifo!Init

\* Without an overrun the queue is first-in-first-out: what PROGRAMMING-HOWTO
\* promises holds for any number of sessions as long as no write cursor runs
\* onto the read cursor.
THEOREM FifoHolds == Spec => FifoUntilOverrun
<1>1. FifoInv /\ FifoInv' /\ [Next]_vars => [overrun' \/ Fifo!Next]_<<Waiting, l>>
  BY FifoStep
<1> QED
  BY <1>1, FifoInit, FifoInvInit, FifoInvStep, PTL DEF Spec, FifoUntilOverrun

\* What a session publishes is its own command, however many sessions enqueue:
\* the mutex does protect the write of a slot.
THEOREM SlotHolds == Spec => []SlotWritten
<1>1. FifoInv => SlotWritten
  BY DEF FifoInv
<1> QED
  BY <1>1, FifoInvInit, FifoInvStep, PTL DEF Spec

\* The bus thread, which reads without the mutex, never meets a session that
\* writes the same slot, as long as the buffer is not overrun.
THEOREM CopyHolds == Spec => []CopyUndisturbed
<1>1. BoundInv => CopyUndisturbed
  BY DEF BoundInv
<1> QED
  BY <1>1, BoundInit, BoundStep, PTL DEF Spec

\* One session alone cannot overrun the buffer: with one session the promise
\* holds without any condition.
THEOREM OneSessionFifo ==
    ASSUME Cardinality(Sessions) = 1
    PROVE  Spec => FifoQueue
<1>1. Init => ~overrun
  BY DEF Init
<1>2. FifoInv /\ ~overrun /\ [Next]_vars => ~overrun'
  <2> SUFFICES ASSUME FifoInv, ~overrun, [Next]_vars PROVE ~overrun'
    OBVIOUS
  <2>1. ASSUME NEW s \in Sessions, Publish(s) PROVE ~overrun'
    <3>1. TypeOK /\ s \in Admitted
      BY <2>1 DEF FifoInv, BoundInv, Publish, Admitted
    <3>2. Cardinality(Admitted) # 0
      BY <3>1, FS_EmptySet, AdmittedFinite
    <3>3. queue_len < QUEUELEN - 1
      BY <3>1, <3>2, LengthFacts, AdmittedFinite, QueueAssumption
         DEF FifoInv, BoundInv, QueueBound
    <3>4. in' = Wrap(in + 1) /\ out' = out
      BY <2>1 DEF Publish
    <3>5. queue_len # QUEUELEN - 1
      BY <3>1, <3>3, LengthFacts, QueueAssumption
    <3>6. in' # out
      BY <3>1, <3>4, <3>5, PublishLength
    <3> QED
      BY <2>1, <3>6 DEF Publish
  <2> QED
    BY <2>1 DEF Next, dequeueNextGL, enqueueGL, Call, TestFull, LockQueue, WriteSlot,
           UnlockQueue, TestEmpty, CopySlot, Consume, vars
<1>3. FifoInv /\ FifoInv' /\ ~overrun' /\ [Next]_vars => [Fifo!Next]_<<Waiting, l>>
  BY FifoStep
<1> QED
  BY <1>1, <1>2, <1>3, FifoInit, FifoInvInit, FifoInvStep, PTL
     DEF Spec, FifoQueue, Fifo!Spec, Fifo!fifoVars

-----------------------------------------------------------------------------
(* Sessions: type correctness. *)

ThreadPcs == {"none", "new", "handshake", "reply", "head", "lock", "visit", "write", "pipe",
              "data", "loop", "command", "poll", "end", "close", "destroy", "gone"}

ThreadType == [pc : ThreadPcs, node : Clients \cup {NoNode}, msg : 0 .. Note,
               return : {"none", "poll", "pipe", "command", "gone"}]

LEMMA SessionConstants ==
    /\ MaxChanges \in Nat /\ Note \in Nat /\ Note = MaxChanges + 1 /\ Note \in 0 .. Note
    /\ PipeSize \in Nat /\ PipeSize > 0
    /\ Bus \in Threads /\ Main \notin Threads /\ Bus \notin Clients /\ NoNode \notin Clients
    /\ \A c \in Clients : c \in Threads /\ c # Bus
  BY SessionAssumption DEF Note, Threads

\* What the three ways to move a thread do to the threads.
LEMMA GotoFacts ==
    ASSUME th \in [Threads -> ThreadType], NEW t \in Threads, NEW p \in ThreadPcs, Goto(t, p)
    PROVE  /\ th' \in [Threads -> ThreadType]
           /\ \A u \in Threads : u # t => th'[u] = th[u]
           /\ th'[t].pc = p /\ th'[t].node = NoNode
           /\ th'[t].msg = th[t].msg /\ th'[t].return = th[t].return
<1>1. th' = [th EXCEPT ![t].pc = p, ![t].node = NoNode]
  BY DEF Goto
<1>2. \A w \in ThreadType :
        /\ w.pc \in ThreadPcs /\ w.msg \in 0 .. Note /\ w.node \in Clients \cup {NoNode}
        /\ w.return \in {"none", "poll", "pipe", "command", "gone"}
  BY DEF ThreadType
<1>3. \A u \in Threads : u # t => th'[u] = th[u]
  BY <1>1
<1>4. /\ th'[t] = [pc |-> p, node |-> NoNode, msg |-> th[t].msg, return |-> th[t].return]
      /\ DOMAIN th' = Threads
  BY <1>1 DEF ThreadType
<1>5. th'[t] \in ThreadType
  BY <1>2, <1>4 DEF ThreadType
<1>6. th' = [u \in Threads |-> th'[u]]
  BY <1>1
<1>7. th' \in [Threads -> ThreadType]
  BY <1>3, <1>5, <1>6
<1> QED
  BY <1>3, <1>4, <1>7

LEMMA EnqueueFacts ==
    ASSUME th \in [Threads -> ThreadType], NEW t \in Threads, NEW m \in 0 .. Note,
           NEW p \in {"none", "poll", "pipe", "command", "gone"}, Enqueue(t, m, p)
    PROVE  /\ th' \in [Threads -> ThreadType]
           /\ \A u \in Threads : u # t => th'[u] = th[u]
           /\ th'[t].pc = "head" /\ th'[t].node = NoNode
           /\ th'[t].msg = m /\ th'[t].return = p
<1>1. [pc |-> "head", node |-> NoNode, msg |-> m, return |-> p] \in ThreadType
  BY DEF ThreadType, ThreadPcs
<1>2. th' = [th EXCEPT ![t] = [pc |-> "head", node |-> NoNode, msg |-> m, return |-> p]]
  BY DEF Enqueue
<1> QED
  BY <1>1, <1>2

\* Walk(t, p, n): thread t goes on in session_enqueue_info_message, at node n.
Walk(t, p, n) == th' = [th EXCEPT ![t].pc = p, ![t].node = n]

LEMMA WalkFacts ==
    ASSUME th \in [Threads -> ThreadType], NEW t \in Threads, NEW p \in ThreadPcs,
           NEW n \in Clients \cup {NoNode}, Walk(t, p, n)
    PROVE  /\ th' \in [Threads -> ThreadType]
           /\ \A u \in Threads : u # t => th'[u] = th[u]
           /\ th'[t].pc = p /\ th'[t].node = n
           /\ th'[t].msg = th[t].msg /\ th'[t].return = th[t].return
<1>1. th' = [th EXCEPT ![t].pc = p, ![t].node = n]
  BY DEF Walk
<1>2. \A w \in ThreadType :
        /\ w.pc \in ThreadPcs /\ w.msg \in 0 .. Note /\ w.node \in Clients \cup {NoNode}
        /\ w.return \in {"none", "poll", "pipe", "command", "gone"}
  BY DEF ThreadType
<1>3. \A u \in Threads : u # t => th'[u] = th[u]
  BY <1>1
<1>4. /\ th'[t] = [pc |-> p, node |-> n, msg |-> th[t].msg, return |-> th[t].return]
      /\ DOMAIN th' = Threads
  BY <1>1 DEF ThreadType
<1>5. th'[t] \in ThreadType
  BY <1>2, <1>4 DEF ThreadType
<1>6. th' = [u \in Threads |-> th'[u]]
  BY <1>1
<1>7. th' \in [Threads -> ThreadType]
  BY <1>3, <1>5, <1>6
<1> QED
  BY <1>3, <1>4, <1>7

\* A step of a thread from one place to another that keeps its node.
LEMMA PlaceMoves ==
    ASSUME th \in [Threads -> ThreadType], NEW t \in Threads, NEW p \in ThreadPcs,
           th' = [th EXCEPT ![t].pc = p]
    PROVE  /\ th' \in [Threads -> ThreadType]
           /\ \A u \in Threads : u # t => th'[u] = th[u]
           /\ th'[t].pc = p /\ th'[t].node = th[t].node
           /\ th'[t].msg = th[t].msg /\ th'[t].return = th[t].return
  BY DEF ThreadType

-----------------------------------------------------------------------------
(* The list: a node that is removed. *)

LEMMA SuccessorTypes ==
    ASSUME list \in Seq(Clients), NEW n, NEW m \in Successors(n)
    PROVE  m = NoNode \/ (m \in Clients /\ Listed(m))
<1>1. CASE Listed(n)
  <2> DEFINE i == CHOOSE k \in DOMAIN list : list[k] = n
  <2>1. i \in DOMAIN list
    BY <1>1 DEF Listed
  <2> HIDE DEF i
  <2>2. i # Len(list) => i + 1 \in DOMAIN list
    BY <2>1
  <2>3. m = IF i = Len(list) THEN NoNode ELSE list[i + 1]
    BY <1>1 DEF Successors, i
  <2> QED
    BY <2>1, <2>2, <2>3 DEF Listed
<1>2. CASE ~Listed(n)
  BY <1>2 DEF Successors
<1> QED
  BY <1>1, <1>2

LEMMA NextNode ==
    ASSUME list \in Seq(Clients), \A i, k \in DOMAIN list : list[i] = list[k] => i = k,
           NEW k \in DOMAIN list, NEW m \in Successors(list[k])
    PROVE  m = IF k = Len(list) THEN NoNode ELSE list[k + 1]
<1>1. Listed(list[k])
  BY DEF Listed
<1>2. (CHOOSE i \in DOMAIN list : list[i] = list[k]) = k
  OBVIOUS
<1> QED
  BY <1>1, <1>2 DEF Successors

\* Where the nodes go when c is removed.
LEMMA WithoutFacts ==
    ASSUME list \in Seq(Clients), NEW c, Listed(c)
    PROVE  \E p \in DOMAIN list :
             /\ list[p] = c
             /\ Without(c) \in Seq(Clients) /\ Len(Without(c)) = Len(list) - 1
             /\ \A k \in 1 .. Len(list) - 1 :
                  Without(c)[k] = IF k < p THEN list[k] ELSE list[k + 1]
<1> DEFINE p == CHOOSE k \in DOMAIN list : list[k] = c
           a == SubSeq(list, 1, p - 1)
           b == SubSeq(list, p + 1, Len(list))
<1>1. p \in 1 .. Len(list) /\ list[p] = c /\ Len(list) \in Nat
  BY DEF Listed
<1>2. a \in Seq(Clients) /\ Len(a) = p - 1 /\ \A k \in 1 .. p - 1 : a[k] = list[k]
  BY <1>1
<1>3. b \in Seq(Clients) /\ Len(b) = Len(list) - p /\ \A k \in 1 .. Len(list) - p : b[k] = list[p + k]
  BY <1>1
<1>4. Without(c) = a \o b
  BY DEF Without
<1> HIDE DEF p, a, b
<1>5. /\ a \o b \in Seq(Clients) /\ Len(a \o b) = Len(a) + Len(b)
      /\ \A k \in 1 .. Len(a) + Len(b) : (a \o b)[k] = IF k <= Len(a) THEN a[k] ELSE b[k - Len(a)]
  BY <1>2, <1>3, ConcatProperties
<1>6. Len(a) + Len(b) = Len(list) - 1
  BY <1>1, <1>2, <1>3
<1>7. ASSUME NEW k \in 1 .. Len(list) - 1
      PROVE  (a \o b)[k] = IF k < p THEN list[k] ELSE list[k + 1]
  <2>1. (a \o b)[k] = IF k <= p - 1 THEN a[k] ELSE b[k - (p - 1)]
    BY <1>2, <1>5, <1>6
  <2>2. CASE k < p
    BY <1>1, <1>2, <2>1, <2>2
  <2>3. CASE ~(k < p)
    <3>1. k - (p - 1) \in 1 .. Len(list) - p /\ p + (k - (p - 1)) = k + 1 /\ ~(k <= p - 1)
      BY <1>1, <2>3
    <3>2. b[k - (p - 1)] = list[p + (k - (p - 1))]
      BY <1>3, <3>1
    <3>3. (a \o b)[k] = list[k + 1]
      BY <2>1, <3>1, <3>2
    <3> QED
      BY <1>1, <2>3, <3>3
  <2> QED
    BY <2>2, <2>3
<1>8. p \in DOMAIN list
  BY <1>1
<1> WITNESS p \in DOMAIN list
<1> QED
  BY <1>1, <1>4, <1>5, <1>6, <1>7

-----------------------------------------------------------------------------
(* What each action does to the threads, without EXCEPT. *)

\* Thread t goes to place p and node n; or calls enqueueInfoMessage.
Moved(t, p, n) ==
    /\ th' \in [Threads -> ThreadType] /\ \A u \in Threads : u # t => th'[u] = th[u]
    /\ th'[t].pc = p /\ th'[t].node = n
    /\ th'[t].msg = th[t].msg /\ th'[t].return = th[t].return

Called(t, m, p) ==
    /\ th' \in [Threads -> ThreadType] /\ \A u \in Threads : u # t => th'[u] = th[u]
    /\ th'[t].pc = "head" /\ th'[t].node = NoNode
    /\ th'[t].msg = m /\ th'[t].return = p

LEMMA ThreadTypes ==
    ASSUME SessionsTypeOK
    PROVE  /\ th \in [Threads -> ThreadType]
           /\ \A t \in Threads :
                /\ th[t].pc \in ThreadPcs /\ th[t].node \in Clients \cup {NoNode}
                /\ th[t].msg \in 0 .. Note /\ th[t].return \in ThreadPcs
                /\ th[t].return \in {"none", "poll", "pipe", "command", "gone"}
<1>1. th \in [Threads -> ThreadType]
  BY DEF SessionsTypeOK, ThreadType, ThreadPcs
<1>2. \A w \in ThreadType :
        /\ w.pc \in ThreadPcs /\ w.node \in Clients \cup {NoNode} /\ w.msg \in 0 .. Note
        /\ w.return \in {"none", "poll", "pipe", "command", "gone"}
  BY DEF ThreadType
<1>3. {"none", "poll", "pipe", "command", "gone"} \subseteq ThreadPcs
  BY DEF ThreadPcs
<1> QED
  BY <1>1, <1>2, <1>3

LEMMA GotoMoves ==
    ASSUME SessionsTypeOK, NEW t \in Threads, NEW p \in ThreadPcs, Goto(t, p)
    PROVE  Moved(t, p, NoNode)
  BY ThreadTypes, GotoFacts DEF Moved

LEMMA AdvanceMoves ==
    ASSUME SessionsTypeOK, NEW t \in Threads, Advance(t)
    PROVE  \E n \in Successors(th[t].node) :
              n \in Clients \cup {NoNode} /\ Moved(t, "visit", n)
<1>1. PICK n \in Successors(th[t].node) : Walk(t, "visit", n)
  BY DEF Advance, Walk
<1>2. n \in Clients \cup {NoNode}
  BY SuccessorTypes DEF SessionsTypeOK
<1>3. "visit" \in ThreadPcs
  BY DEF ThreadPcs
<1> QED
  BY <1>1, <1>2, <1>3, ThreadTypes, WalkFacts DEF Moved

LEMMA ReadHeadMoves ==
    ASSUME SessionsTypeOK, NEW t \in Threads, ReadHead(t)
    PROVE  /\ th[t].pc = "head"
           /\ \/ list = <<>> /\ Moved(t, th[t].return, NoNode)
              \/ /\ list # <<>> /\ Head(list) \in Clients /\ Listed(Head(list))
                 /\ Moved(t, "lock", Head(list))
<1>1. th[t].return \in ThreadPcs /\ "lock" \in ThreadPcs
  BY ThreadTypes DEF ThreadPcs
<1>2. CASE list = <<>>
  BY <1>1, <1>2, GotoMoves DEF ReadHead, At
<1>3. CASE list # <<>>
  <2>1. Head(list) \in Clients /\ Listed(Head(list))
    BY <1>3 DEF SessionsTypeOK, Listed
  <2>2. Walk(t, "lock", Head(list))
    BY <1>3 DEF ReadHead, Walk
  <2> QED
    BY <1>1, <1>3, <2>1, <2>2, ThreadTypes, WalkFacts DEF ReadHead, At, Moved
<1> QED
  BY <1>2, <1>3

LEMMA LockListMoves ==
    ASSUME SessionsTypeOK, NEW t \in Threads, LockList(t)
    PROVE  th[t].pc = "lock" /\ Moved(t, "visit", th[t].node)
<1>1. "visit" \in ThreadPcs
  BY DEF ThreadPcs
<1> QED
  BY <1>1, ThreadTypes, PlaceMoves DEF LockList, At, Moved

LEMMA VisitMoves ==
    ASSUME SessionsTypeOK, NEW t \in Threads, Visit(t)
    PROVE  LET n == th[t].node IN
           /\ th[t].pc = "visit"
           /\ \/ /\ n = NoNode /\ mutex' = {} /\ UNCHANGED dangling
                 /\ Moved(t, th[t].return, NoNode)
              \/ /\ n # NoNode /\ mutex' = mutex /\ dangling' = (dangling \/ ~Listed(n))
                 /\ \/ mode[n] = "info" /\ pipefd[n] # "none" /\ Moved(t, "write", n)
                    \/ /\ ~(mode[n] = "info" /\ pipefd[n] # "none")
                       /\ \E m \in Successors(n) :
                            m \in Clients \cup {NoNode} /\ Moved(t, "visit", m)
<1> DEFINE n == th[t].node
<1>1. th[t].return \in ThreadPcs /\ "write" \in ThreadPcs
  BY ThreadTypes DEF ThreadPcs
<1>2. CASE n = NoNode
  BY <1>1, <1>2, GotoMoves DEF Visit, At
<1>3. CASE n # NoNode
  <2>1. mutex' = mutex /\ dangling' = (dangling \/ ~Listed(n)) /\ th[t].pc = "visit"
    BY <1>3, Zenon DEF Visit, At
  <2>2. CASE mode[n] = "info" /\ pipefd[n] # "none"
    <3>1. th' = [th EXCEPT ![t].pc = "write"]
      BY <1>3, <2>2 DEF Visit
    <3>2. Moved(t, "write", n)
      BY <1>1, <3>1, ThreadTypes, PlaceMoves DEF Moved
    <3> QED
      BY <1>3, <2>1, <2>2, <3>2
  <2>3. CASE ~(mode[n] = "info" /\ pipefd[n] # "none")
    <3>1. Advance(t)
      BY <1>3, <2>3 DEF Visit
    <3>2. \E m \in Successors(n) : m \in Clients \cup {NoNode} /\ Moved(t, "visit", m)
      BY <3>1, AdvanceMoves
    <3> QED
      BY <1>3, <2>1, <2>3, <3>2
  <2> QED
    BY <2>2, <2>3
<1> QED
  BY <1>2, <1>3

LEMMA WriteMoves ==
    ASSUME SessionsTypeOK, NEW t \in Threads, Write(t)
    PROVE  /\ th[t].pc = "write"
           /\ \E m \in Successors(th[t].node) :
                 m \in Clients \cup {NoNode} /\ Moved(t, "visit", m)
  BY AdvanceMoves DEF Write, At

LEMMA ChangeMoves ==
    ASSUME SessionsTypeOK, ChangeDevice
    PROVE  th[Bus].pc = "poll" /\ dev' = dev + 1 /\ Called(Bus, dev + 1, "poll")
<1>1. dev + 1 \in 0 .. Note
  BY SessionConstants DEF SessionsTypeOK, ChangeDevice
<1> QED
  BY <1>1, ThreadTypes, EnqueueFacts, SessionConstants DEF ChangeDevice, At, Called

LEMMA StartMoves ==
    ASSUME SessionsTypeOK, NEW c \in Clients, StartSession(c)
    PROVE  /\ th[c].pc = "reply"
           /\ \/ mode[c] = "info" /\ Called(c, Note, "pipe")
              \/ mode[c] # "info" /\ Called(c, Note, "command")
<1> DEFINE p == IF mode[c] = "info" THEN "pipe" ELSE "command"
<1>1. p \in {"none", "poll", "pipe", "command", "gone"}
  OBVIOUS
<1>2. Enqueue(c, Note, p)
  BY DEF StartSession
<1>3. /\ mode[c] = "info" => p = "pipe"
      /\ mode[c] # "info" => p = "command"
  OBVIOUS
<1> HIDE DEF p
<1>4. Called(c, Note, p)
  BY <1>1, <1>2, ThreadTypes, EnqueueFacts, SessionConstants DEF Called
<1> QED
  BY <1>3, <1>4 DEF StartSession, At

LEMMA DestroyMoves ==
    ASSUME SessionsTypeOK, NEW c \in Clients, Destroy(c)
    PROVE  th[c].pc = "destroy" /\ Called(c, Note, "gone")
<1>1. Enqueue(c, Note, "gone")
  BY DEF Destroy
<1> QED
  BY <1>1, ThreadTypes, EnqueueFacts, SessionConstants DEF Destroy, At, Called

\* The steps that are told by a place to go to.
LEMMA ClientMoves ==
    ASSUME SessionsTypeOK, NEW c \in Clients
    PROVE  /\ Connect(c) => th[c].pc = "none" /\ Moved(c, "new", NoNode)
           /\ Begin(c) => th[c].pc = "new" /\ Moved(c, "handshake", NoNode)
           /\ Register(c) => th[c].pc = "handshake" /\ Moved(c, "reply", NoNode)
           /\ Pipe(c) => th[c].pc = "pipe" /\ Moved(c, "data", NoNode)
           /\ SendData(c) => th[c].pc = "data" /\ Moved(c, "loop", NoNode)
           /\ HangUp(c) => th[c].pc \in CancelPoint \ {"write"} /\ Moved(c, "end", NoNode)
           /\ EndClient(c) =>
                /\ th[c].pc = "end"
                /\ \/ mode[c] = "info" /\ pipefd[c] = "open" /\ Moved(c, "close", NoNode)
                   \/ Moved(c, "gone", NoNode)
                   \/ Moved(c, "destroy", NoNode)
           /\ ClosePipe(c) => th[c].pc = "close" /\ Moved(c, "destroy", NoNode)
           /\ Die(c) => /\ th[c].pc \in CancelPoint /\ th[c].return # "gone"
                        /\ Moved(c, "end", NoNode)
<1>1. c \in Threads /\ c # Bus
  BY SessionConstants
<1>2. \A p \in {"new", "handshake", "reply", "data", "loop", "end", "close", "gone", "destroy"} :
        Goto(c, p) => Moved(c, p, NoNode)
  BY <1>1, GotoMoves DEF ThreadPcs
<1>3. ASSUME EndClient(c)
      PROVE  /\ th[c].pc = "end"
             /\ \/ mode[c] = "info" /\ pipefd[c] = "open" /\ Moved(c, "close", NoNode)
                \/ Moved(c, "gone", NoNode)
                \/ Moved(c, "destroy", NoNode)
  <2>1. \/ mode[c] = "info" /\ pipefd[c] = "open" /\ Goto(c, "close")
        \/ Goto(c, "gone") \/ Goto(c, "destroy")
    BY <1>3 DEF EndClient
  <2> QED
    BY <1>2, <1>3, <2>1 DEF EndClient, At
<1> QED
  BY <1>1, <1>2, <1>3 DEF Connect, Begin, Register, Pipe, SendData, HangUp, ClosePipe, Die, At

LEMMA BusDies ==
    ASSUME SessionsTypeOK, Die(Bus)
    PROVE  th[Bus].pc \in {"poll", "write"} /\ Moved(Bus, "gone", NoNode)
<1>1. "gone" \in ThreadPcs
  BY DEF ThreadPcs
<1> QED
  BY <1>1, GotoMoves, SessionConstants DEF Die

-----------------------------------------------------------------------------
(* Types. *)

DataType ==
    /\ list \in Seq(Clients)
    /\ mode \in [Clients -> {"undefined", "command", "info"}]
    /\ sid \in [Clients -> {0, 1}]
    /\ pipefd \in [Clients -> {"none", "open", "closed"}]
    /\ pipe \in [Clients -> Seq(0 .. Note)] /\ \A c \in Clients : Len(pipe[c]) <= PipeSize
    /\ view \in [Clients -> 0 .. MaxChanges]
    /\ mutex \in SUBSET (Threads \cup {Main})
    /\ cancelled \in SUBSET Threads /\ dev \in 0 .. MaxChanges
    /\ mpc \in {"run", "join", "head", "lock", "wait", "sleep", "woken", "done"}
    /\ dangling \in BOOLEAN

LEMMA TypeSplit == SessionsTypeOK <=> DataType /\ th \in [Threads -> ThreadType]
  BY DEF SessionsTypeOK, DataType, ThreadType, ThreadPcs

LEMMA TypeJoin == DataType' /\ th' \in [Threads -> ThreadType] => SessionsTypeOK'
  BY DEF SessionsTypeOK, DataType, ThreadType, ThreadPcs

LEMMA SessionsTypeInit == SessionsInit => SessionsTypeOK
<1> SUFFICES ASSUME SessionsInit PROVE DataType /\ th \in [Threads -> ThreadType]
  BY TypeSplit
<1>1. DataType
  <2>1. <<>> \in Seq(Clients) /\ <<>> \in Seq(0 .. Note) /\ 0 \in 0 .. MaxChanges
    BY SessionConstants
  <2>2. \A c \in Clients : Len(pipe[c]) <= PipeSize
    <3>1. \A c \in Clients : Len(pipe[c]) = 0
      BY DEF SessionsInit
    <3>2. \A m : m = 0 => m <= PipeSize
      BY SessionConstants
    <3> QED
      BY <3>1, <3>2
  <2> QED
    BY <2>1, <2>2 DEF SessionsInit, DataType
<1>2. th \in [Threads -> ThreadType]
  <2>1. \A p \in ThreadPcs :
          [pc |-> p, node |-> NoNode, msg |-> 0, return |-> "none"] \in ThreadType
    BY SessionConstants DEF ThreadType
  <2>2. \A t \in Threads : (IF t = Bus THEN "poll" ELSE "none") \in ThreadPcs
    BY DEF ThreadPcs
  <2> QED
    BY <2>1, <2>2 DEF SessionsInit
<1> QED
  BY <1>1, <1>2

LEMMA WalkType ==
    ASSUME SessionsTypeOK, NEW t \in Threads, session_enqueue_info_message(t)
    PROVE  SessionsTypeOK'
<1>0. DataType
  BY TypeSplit
<1>1. CASE ReadHead(t)
  <2>1. th' \in [Threads -> ThreadType]
    BY <1>1, ReadHeadMoves DEF Moved
  <2>2. DataType'
    BY <1>0, <1>1 DEF ReadHead, DataType, nodeVars
  <2> QED
    BY <2>1, <2>2, TypeJoin
<1>2. CASE LockList(t)
  <2>1. th' \in [Threads -> ThreadType]
    BY <1>2, LockListMoves DEF Moved
  <2>2. DataType'
    BY <1>0, <1>2 DEF LockList, DataType, nodeVars
  <2> QED
    BY <2>1, <2>2, TypeJoin
<1>3. CASE Visit(t)
  <2>1. th' \in [Threads -> ThreadType]
    BY <1>3, VisitMoves DEF Moved
  <2>2. mutex' \in SUBSET (Threads \cup {Main}) /\ dangling' \in BOOLEAN
    BY <1>0, <1>3, VisitMoves DEF DataType
  <2>3. DataType'
    BY <1>0, <1>3, <2>2 DEF Visit, DataType, nodeVars
  <2> QED
    BY <2>1, <2>3, TypeJoin
<1>4. CASE Write(t)
  <2>1. th' \in [Threads -> ThreadType]
    BY <1>4, WriteMoves DEF Moved
  <2>2. pipe' \in [Clients -> Seq(0 .. Note)] /\ \A c \in Clients : Len(pipe'[c]) <= PipeSize
    <3> DEFINE n == th[t].node
               q == Append(pipe[n], th[t].msg)
    <3>1. CASE UNCHANGED pipe
      BY <1>0, <3>1 DEF DataType
    <3>2. CASE n \notin Clients
      <4>1. pipe' = pipe \/ pipe' = [pipe EXCEPT ![n] = q]
        BY <1>4 DEF Write
      <4> HIDE DEF q, n
      <4>2. pipe' = pipe
        BY <1>0, <3>2, <4>1 DEF DataType
      <4> QED
        BY <1>0, <4>2 DEF DataType
    <3>3. CASE n \in Clients /\ pipe' # pipe
      <4>1. Len(pipe[n]) < PipeSize /\ pipe' = [pipe EXCEPT ![n] = q]
        BY <1>4, <3>3 DEF Write
      <4>2. q \in Seq(0 .. Note) /\ Len(q) = Len(pipe[n]) + 1 /\ Len(pipe[n]) \in Nat
        BY <1>0, <3>3, ThreadTypes DEF DataType
      <4>3. Len(q) <= PipeSize
        BY <4>1, <4>2, SessionConstants
      <4> HIDE DEF q, n
      <4> QED
        BY <1>0, <4>1, <4>2, <4>3 DEF DataType
    <3> QED
      BY <3>1, <3>2, <3>3
  <2>3. DataType'
    BY <1>0, <1>4, <2>2 DEF Write, DataType, nodeVars
  <2> QED
    BY <2>1, <2>3, TypeJoin
<1> QED
  BY <1>1, <1>2, <1>3, <1>4 DEF session_enqueue_info_message

LEMMA ClientType ==
    ASSUME SessionsTypeOK, NEW c \in Clients,
           \/ Request(c) \/ Begin(c) \/ StartSession(c) \/ Pipe(c) \/ SendData(c) \/ Forward(c)
           \/ Die(c) \/ EndClient(c) \/ ClosePipe(c) \/ Destroy(c)
    PROVE  SessionsTypeOK'
<1>0. DataType /\ th \in [Threads -> ThreadType]
  BY TypeSplit
<1> USE DEF DataType, nodeVars
<1>t. /\ ~SetConnectionMode(c) /\ ~Forward(c) => th' \in [Threads -> ThreadType]
      /\ SetConnectionMode(c) \/ Forward(c) => th' = th
  <2>1. CASE SetConnectionMode(c) \/ Forward(c)
    BY <2>1 DEF SetConnectionMode, Forward
  <2>2. CASE StartSession(c) \/ Destroy(c)
    BY <2>2, StartMoves, DestroyMoves DEF Called, StartSession, Destroy, SetConnectionMode, Forward
  <2>3. ASSUME \E p, n : Moved(c, p, n) PROVE th' \in [Threads -> ThreadType]
    BY <2>3 DEF Moved
  <2> QED
    BY <2>1, <2>2, <2>3, ClientMoves DEF Request
<1>th. th' \in [Threads -> ThreadType]
  BY <1>0, <1>t
<1>1. CASE Connect(c)
  <2>1. list' \in Seq(Clients)
    BY <1>0, <1>1 DEF Connect
  <2> QED
    BY <1>0, <1>th, <1>1, <2>1, TypeJoin DEF Connect
<1>2. CASE Begin(c)
  BY <1>0, <1>th, <1>2, TypeJoin DEF Begin
<1>3. CASE SetConnectionMode(c)
  <2>1. mode' \in [Clients -> {"undefined", "command", "info"}]
    BY <1>0, <1>3 DEF SetConnectionMode
  <2> QED
    BY <1>0, <1>th, <1>3, <2>1, TypeJoin DEF SetConnectionMode
<1>4. CASE Register(c)
  <2>1. /\ mode' \in [Clients -> {"undefined", "command", "info"}]
        /\ sid' \in [Clients -> {0, 1}]
    BY <1>0, <1>4 DEF Register
  <2> QED
    BY <1>0, <1>th, <1>4, <2>1, TypeJoin DEF Register
<1>5. CASE StartSession(c)
  BY <1>0, <1>th, <1>5, TypeJoin DEF StartSession
<1>6. CASE Pipe(c)
  <2>1. pipefd' \in [Clients -> {"none", "open", "closed"}]
    BY <1>0, <1>6 DEF Pipe
  <2> QED
    BY <1>0, <1>th, <1>6, <2>1, TypeJoin DEF Pipe
<1>7. CASE SendData(c)
  <2>1. view' \in [Clients -> 0 .. MaxChanges]
    BY <1>0, <1>7 DEF SendData
  <2> QED
    BY <1>0, <1>th, <1>7, <2>1, TypeJoin DEF SendData
<1>8. CASE Forward(c)
  <2>1. /\ pipe[c] \in Seq(0 .. Note) /\ pipe[c] # <<>> /\ Len(pipe[c]) <= PipeSize
        /\ pipe' = [pipe EXCEPT ![c] = Tail(pipe[c])]
        /\ view' = [view EXCEPT ![c] = IF Head(pipe[c]) = Note THEN view[c] ELSE Head(pipe[c])]
    BY <1>0, <1>8 DEF Forward
  <2>2. /\ Tail(pipe[c]) \in Seq(0 .. Note) /\ Len(Tail(pipe[c])) = Len(pipe[c]) - 1
        /\ Head(pipe[c]) \in 0 .. Note
    BY <2>1, HeadTailProperties
  <2>3. Len(Tail(pipe[c])) <= PipeSize
    BY <2>1, <2>2, SessionConstants
  <2>4. /\ pipe' \in [Clients -> Seq(0 .. Note)]
        /\ \A d \in Clients : Len(pipe'[d]) <= PipeSize
    BY <1>0, <2>1, <2>2, <2>3
  <2>5. (IF Head(pipe[c]) = Note THEN view[c] ELSE Head(pipe[c])) \in 0 .. MaxChanges
    BY <1>0, <2>2, SessionConstants
  <2>6. view' \in [Clients -> 0 .. MaxChanges]
    BY <1>0, <2>1, <2>5
  <2> QED
    BY <1>0, <1>th, <1>8, <2>4, <2>6, TypeJoin DEF Forward
<1>9. CASE HangUp(c)
  BY <1>0, <1>th, <1>9, TypeJoin DEF HangUp
<1>10. CASE Die(c)
  BY <1>0, <1>th, <1>10, TypeJoin DEF Die
<1>11. CASE EndClient(c)
  <2>1. mode' \in [Clients -> {"undefined", "command", "info"}]
    BY <1>0, <1>11 DEF EndClient
  <2> QED
    BY <1>0, <1>th, <1>11, <2>1, TypeJoin DEF EndClient
<1>12. CASE ClosePipe(c)
  <2>1. pipefd' \in [Clients -> {"none", "open", "closed"}]
    BY <1>0, <1>12 DEF ClosePipe
  <2> QED
    BY <1>0, <1>th, <1>12, <2>1, TypeJoin DEF ClosePipe
<1>13. CASE Destroy(c)
  <2>1. list' \in Seq(Clients)
    <3>1. CASE Listed(c)
      BY <1>0, <1>13, <3>1, WithoutFacts DEF Destroy
    <3>2. CASE ~Listed(c)
      BY <1>0, <1>13, <3>2 DEF Destroy, Without
    <3> QED
      BY <3>1, <3>2
  <2>2. mpc' \in {"run", "join", "head", "lock", "wait", "sleep", "woken", "done"}
    BY <1>0, <1>13 DEF Destroy
  <2> QED
    BY <1>0, <1>th, <1>13, <2>1, <2>2, TypeJoin DEF Destroy
<1> QED
  BY <1>1, <1>2, <1>3, <1>4, <1>5, <1>6, <1>7, <1>8, <1>9, <1>10, <1>11, <1>12, <1>13
  DEF Request

LEMMA SessionsTypeStep == SessionsTypeOK /\ [SessionsNext]_sessionVars => SessionsTypeOK'
<1> SUFFICES ASSUME SessionsTypeOK, [SessionsNext]_sessionVars PROVE SessionsTypeOK'
  OBVIOUS
<1>0. DataType /\ th \in [Threads -> ThreadType]
  BY TypeSplit
<1>1. CASE BusThread
  <2>1. CASE ChangeDevice
    <3>1. th' \in [Threads -> ThreadType]
      BY <2>1, ChangeMoves DEF Called
    <3>2. dev' \in 0 .. MaxChanges
      BY <1>0, <2>1, SessionConstants DEF ChangeDevice, DataType
    <3> QED
      BY <1>0, <2>1, <3>1, <3>2, TypeJoin DEF ChangeDevice, DataType, nodeVars
  <2>2. CASE Die(Bus)
    BY <1>0, <2>2, BusDies, TypeJoin DEF Die, DataType, nodeVars, Moved
  <2> QED
    BY <1>1, <2>1, <2>2, WalkType, SessionConstants DEF BusThread
<1>2. CASE Shutdown \/ cancel_all_threads
  <2> USE DEF DataType, nodeVars
  <2>1. CASE Shutdown \/ JoinBus \/ TestSessions
    BY <1>0, <2>1, TypeJoin, SessionConstants DEF Shutdown, JoinBus, TestSessions
  <2>2. CASE CancelSessions
    BY <1>0, <2>2, TypeJoin, SessionConstants DEF CancelSessions
  <2>3. CASE WaitSessions \/ WakeMain
    BY <1>0, <2>3, TypeJoin DEF WaitSessions, WakeMain
  <2> QED
    BY <1>2, <2>1, <2>2, <2>3 DEF cancel_all_threads, terminate_all_sessions
<1>3. ASSUME NEW c \in Clients, Request(c) \/ thr_doClient(c) PROVE SessionsTypeOK'
  BY <1>3, ClientType, WalkType, SessionConstants DEF thr_doClient
<1>4. CASE UNCHANGED sessionVars
  BY <1>0, <1>4, TypeJoin DEF DataType, sessionVars, nodeVars
<1> QED
  BY <1>1, <1>2, <1>3, <1>4 DEF SessionsNext

\* Every variable of the sessions has its type, for any number of connections,
\* any size of the pipes and any number of changes: what walks along the list
\* finds nodes in it, also when the node it stands at is freed.
THEOREM SessionsTypeCorrect == SessionsSpec => []SessionsTypeOK
<1> QED
  BY SessionsTypeInit, SessionsTypeStep, PTL DEF SessionsSpec

-----------------------------------------------------------------------------
(* Messages: what a thread says, and where it goes on afterwards. *)

Enqueuing == {"head", "lock", "visit", "write"}

ThreadInv ==
    /\ th[Bus].pc \in {"poll", "gone"} \cup Enqueuing
    /\ th[Bus].pc \in Enqueuing => th[Bus].msg = dev /\ th[Bus].return = "poll"
    /\ \A c \in Clients :
         /\ th[c].pc # "poll"
         /\ th[c].pc \in Enqueuing =>
              th[c].msg = Note /\ th[c].return \in {"pipe", "command", "gone"}

LEMMA WalkMoves ==
    ASSUME SessionsTypeOK, NEW t \in Threads, session_enqueue_info_message(t)
    PROVE  /\ th[t].pc \in Enqueuing
           /\ \E p \in {"lock", "visit", "write", th[t].return} : \E n : Moved(t, p, n)
           /\ UNCHANGED <<list, mode, sid, pipefd, view, cancelled, dev, mpc>>
<1> USE DEF Enqueuing, nodeVars
<1>1. CASE ReadHead(t)
  BY <1>1, ReadHeadMoves DEF ReadHead
<1>2. CASE LockList(t)
  BY <1>2, LockListMoves DEF LockList
<1>3. CASE Visit(t)
  <2>1. th[t].pc = "visit" /\ \E p \in {"visit", "write", th[t].return} : \E n : Moved(t, p, n)
    BY <1>3, VisitMoves
  <2> QED
    BY <1>3, <2>1 DEF Visit
<1>4. CASE Write(t)
  BY <1>4, WriteMoves DEF Write
<1> QED
  BY <1>1, <1>2, <1>3, <1>4 DEF session_enqueue_info_message

\* Places of a client outside enqueueInfoMessage.
Outside == {"new", "handshake", "reply", "pipe", "data", "loop", "command", "end", "close",
            "destroy"}

LEMMA ClientThread ==
    ASSUME SessionsTypeOK, NEW c \in Clients,
           \/ Request(c) \/ Begin(c) \/ StartSession(c) \/ Pipe(c) \/ SendData(c) \/ Forward(c)
           \/ Die(c) \/ EndClient(c) \/ ClosePipe(c) \/ Destroy(c)
    PROVE  /\ dev' = dev
           /\ \/ th' = th
              \/ /\ \E p \in Outside \ {"new"} : Moved(c, p, NoNode)
                 /\ th[c].pc \in Outside \cup {"write"}
                 /\ th[c].pc = "write" => th[c].return # "gone"
              \/ Connect(c) /\ Moved(c, "new", NoNode)
              \/ EndClient(c) /\ Moved(c, "gone", NoNode)
              \/ StartSession(c) /\ mode[c] = "info" /\ Called(c, Note, "pipe")
              \/ StartSession(c) /\ mode[c] # "info" /\ Called(c, Note, "command")
              \/ Destroy(c) /\ Called(c, Note, "gone")
<1> USE DEF Outside
<1>1. CASE Connect(c)
  BY <1>1, ClientMoves DEF Connect
<1>2. CASE SetConnectionMode(c) \/ Forward(c)
  BY <1>2 DEF SetConnectionMode, Forward, nodeVars
<1>3. CASE Begin(c) \/ Register(c) \/ Pipe(c) \/ SendData(c) \/ ClosePipe(c)
  BY <1>3, ClientMoves DEF Begin, Register, Pipe, SendData, ClosePipe
<1>4. CASE HangUp(c) \/ Die(c)
  BY <1>4, ClientMoves DEF HangUp, Die, CancelPoint
<1>5. CASE EndClient(c)
  BY <1>5, ClientMoves DEF EndClient
<1>6. CASE StartSession(c)
  BY <1>6, StartMoves DEF StartSession
<1>7. CASE Destroy(c)
  BY <1>7, DestroyMoves DEF Destroy
<1> QED
  BY <1>1, <1>2, <1>3, <1>4, <1>5, <1>6, <1>7 DEF Request

LEMMA ThreadInvStep ==
    ASSUME SessionsTypeOK, ThreadInv, [SessionsNext]_sessionVars PROVE ThreadInv'
<1>0. Bus \in Threads /\ \A c \in Clients : c \in Threads /\ c # Bus
  BY SessionConstants
<1>1. ASSUME NEW t \in Threads, session_enqueue_info_message(t) PROVE ThreadInv'
  <2>1. th[t].pc \in Enqueuing /\ dev' = dev
    BY <1>1, WalkMoves
  <2>2. PICK p \in {"lock", "visit", "write", th[t].return} : \E n : Moved(t, p, n)
    BY <1>1, WalkMoves
  <2>3. /\ t = Bus => th[t].return = "poll" /\ th[t].msg = dev
        /\ t \in Clients => th[t].return \in {"pipe", "command", "gone"} /\ th[t].msg = Note
    BY <2>1 DEF ThreadInv
  <2>4. \A u \in Threads : u # t => th'[u] = th[u]
    BY <2>2 DEF Moved
  <2>5. th'[t].pc = p /\ th'[t].msg = th[t].msg /\ th'[t].return = th[t].return
    BY <2>2 DEF Moved
  <2> QED
    BY <1>0, <2>1, <2>3, <2>4, <2>5 DEF ThreadInv, Enqueuing
<1>2. CASE ChangeDevice
  <2>1. dev' = dev + 1 /\ Called(Bus, dev + 1, "poll")
    BY <1>2, ChangeMoves
  <2> QED
    BY <1>0, <2>1 DEF ThreadInv, Called, Enqueuing
<1>3. CASE Die(Bus)
  BY <1>0, <1>3, BusDies DEF ThreadInv, Moved, Enqueuing, Die
<1>4. ASSUME NEW c \in Clients, Request(c) \/ thr_doClient(c) PROVE ThreadInv'
  <2>1. CASE session_enqueue_info_message(c)
    BY <1>0, <1>1, <2>1
  <2>2. CASE ~session_enqueue_info_message(c)
    <3>1. dev' = dev
      BY <1>4, <2>2, ClientThread DEF thr_doClient
    <3>2. \/ th' = th
          \/ \E p \in Outside \cup {"gone"} : Moved(c, p, NoNode)
          \/ \E p \in {"pipe", "command", "gone"} : Called(c, Note, p)
      <4>1. \/ Request(c) \/ Begin(c) \/ StartSession(c) \/ Pipe(c) \/ SendData(c)
            \/ Forward(c) \/ Die(c) \/ EndClient(c) \/ ClosePipe(c) \/ Destroy(c)
        BY <1>4, <2>2 DEF thr_doClient
      <4>2. \A p \in Outside \ {"new"} : p \in Outside
        OBVIOUS
      <4>3. \/ th' = th
            \/ \E p \in Outside : Moved(c, p, NoNode)
            \/ Moved(c, "new", NoNode) \/ Moved(c, "gone", NoNode)
            \/ Called(c, Note, "pipe") \/ Called(c, Note, "command") \/ Called(c, Note, "gone")
        BY <4>1, <4>2, ClientThread, Zenon
      <4> QED
        BY <4>3 DEF Outside
    <3>3. \A u \in Threads : u # c => th'[u] = th[u]
      BY <3>2 DEF Moved, Called
    <3>4. /\ th'[c].pc # "poll" 
          /\ th'[c].pc \in Enqueuing =>
              th'[c].msg = Note /\ th'[c].return \in {"pipe", "command", "gone"}
      BY <3>2 DEF Moved, Called, ThreadInv, Enqueuing, Outside
    <3> QED
      BY <1>0, <3>1, <3>3, <3>4 DEF ThreadInv
  <2> QED
    BY <2>1, <2>2
<1>5. CASE Shutdown \/ cancel_all_threads
  BY <1>5 DEF Shutdown, cancel_all_threads, JoinBus, terminate_all_sessions, TestSessions,
              CancelSessions, WaitSessions, WakeMain, ThreadInv
<1>6. CASE UNCHANGED sessionVars
  BY <1>6 DEF sessionVars, ThreadInv
<1> QED
  BY <1>0, <1>1, <1>2, <1>3, <1>4, <1>5, <1>6 DEF SessionsNext, BusThread

-----------------------------------------------------------------------------
(* The list: who is in it. *)

\* A client that has a session to lose: it has not yet been destroyed.
Joined(c) == /\ th[c].pc \notin {"none", "gone"}
             /\ th[c].pc \in Enqueuing => th[c].return # "gone"

ListInv ==
    /\ \A i, k \in DOMAIN list : list[i] = list[k] => i = k
    /\ \A c \in Clients : /\ At(c, "none") => ~Listed(c)
                          /\ Joined(c) => Listed(c)
    /\ mpc = "done" => list = <<>>

\* Steps that leave the list alone and lose no session from sight.
LEMMA ListKept ==
    ASSUME ListInv, list' = list, mpc' = "done" => mpc = "done" \/ list = <<>>,
           \A c \in Clients : (At(c, "none")' => At(c, "none")) /\ (Joined(c)' => Joined(c))
    PROVE  ListInv'
  BY DEF ListInv, Listed

LEMMA NobodyListed == list = <<>> => \A c : ~Listed(c)
  BY DEF Listed

LEMMA ListInit == SessionsInit => ListInv
<1> SUFFICES ASSUME SessionsInit PROVE ListInv
  OBVIOUS
<1>1. list = <<>> /\ \A c \in Clients : At(c, "none")
  BY SessionConstants DEF SessionsInit, At
<1>2. DOMAIN list = {}
  BY <1>1
<1> QED
  BY <1>1, <1>2, NobodyListed DEF ListInv, At, Joined

\* A new node is put in front of the others.
LEMMA ConnectList ==
    ASSUME SessionsTypeOK, ListInv, NEW c \in Clients, Connect(c)
    PROVE  /\ ListInv' /\ \A d \in Clients : d # c => (Listed(d)' <=> Listed(d))
           /\ \A k \in DOMAIN list : k + 1 \in DOMAIN list' /\ list'[k + 1] = list[k]
<1>1. list \in Seq(Clients) /\ ~Listed(c) /\ list' = <<c>> \o list /\ mpc' = "run"
  BY DEF SessionsTypeOK, ListInv, Connect
<1>2. /\ Len(list) \in Nat /\ list' \in Seq(Clients) /\ Len(list') = Len(list) + 1
      /\ \A k \in 1 .. Len(list) + 1 : list'[k] = IF k = 1 THEN c ELSE list[k - 1]
  <2>1. <<c>> \in Seq(Clients) /\ Len(<<c>>) = 1 /\ <<c>>[1] = c
    OBVIOUS
  <2> QED
    BY <1>1, <2>1, ConcatProperties
<1>3. ASSUME NEW i \in DOMAIN list', NEW k \in DOMAIN list', list'[i] = list'[k]
      PROVE  i = k
  <2>1. i \in 1 .. Len(list) + 1 /\ k \in 1 .. Len(list) + 1
    BY <1>2
  <2>2. \A j \in 1 .. Len(list) + 1 : j # 1 => j - 1 \in DOMAIN list /\ list'[j] # c
    <3>1. \A j \in 1 .. Len(list) + 1 : j # 1 => j - 1 \in DOMAIN list
      BY <1>1, <1>2
    <3> QED
      BY <1>1, <1>2, <3>1 DEF Listed
  <2>3. CASE i = 1 \/ k = 1
    BY <1>2, <1>3, <2>1, <2>2, <2>3
  <2>4. CASE i # 1 /\ k # 1
    <3>1. i - 1 \in DOMAIN list /\ k - 1 \in DOMAIN list /\ list[i - 1] = list[k - 1]
      BY <1>2, <1>3, <2>1, <2>2, <2>4
    <3>2. i - 1 = k - 1
      BY <3>1 DEF ListInv
    <3> QED
      BY <2>1, <3>2
  <2> QED
    BY <2>3, <2>4
<1>4. Listed(c)' /\ \A d \in Clients : d # c => (Listed(d)' <=> Listed(d))
  <2>1. 1 \in DOMAIN list' /\ list'[1] = c
    BY <1>2
  <2>2. ASSUME NEW d \in Clients, d # c, Listed(d) PROVE Listed(d)'
    <3>1. PICK k \in DOMAIN list : list[k] = d
      BY <2>2 DEF Listed
    <3>2. k + 1 \in DOMAIN list' /\ k + 1 # 1 /\ (k + 1) - 1 = k /\ k + 1 \in 1 .. Len(list) + 1
      BY <1>1, <1>2
    <3>3. list'[k + 1] = d
      BY <1>2, <3>1, <3>2
    <3> QED
      BY <3>2, <3>3 DEF Listed
  <2>3. ASSUME NEW d \in Clients, d # c, Listed(d)' PROVE Listed(d)
    <3>1. PICK k \in DOMAIN list' : list'[k] = d
      BY <2>3 DEF Listed
    <3>2. k \in 1 .. Len(list) + 1 /\ k # 1
      BY <1>2, <2>1, <2>3, <3>1
    <3>3. k - 1 \in DOMAIN list /\ list[k - 1] = d
      BY <1>1, <1>2, <3>1, <3>2
    <3> QED
      BY <3>3 DEF Listed
  <2> QED
    BY <2>1, <2>2, <2>3 DEF Listed
<1>5. th'[c].pc = "new" /\ \A d \in Clients : d # c => th'[d] = th[d]
  BY ClientMoves, SessionConstants DEF Moved
<1>6. \A d \in Clients : /\ At(d, "none")' => ~Listed(d)'
                         /\ Joined(d)' => Listed(d)'
  BY <1>4, <1>5 DEF At, Joined, ListInv
<1>7. \A k \in DOMAIN list : k + 1 \in DOMAIN list' /\ list'[k + 1] = list[k]
  BY <1>1, <1>2
<1>8. ListInv'
  BY <1>1, <1>3, <1>6 DEF ListInv
<1> QED
  BY <1>4, <1>7, <1>8

\* The node of c goes, the others stay in their order.
LEMMA DestroyList ==
    ASSUME SessionsTypeOK, ListInv, NEW c \in Clients, Destroy(c)
    PROVE  /\ ListInv' /\ Listed(c)
           /\ ~Listed(c)' /\ \A d \in Clients : d # c => (Listed(d)' <=> Listed(d))
           /\ \E p \in DOMAIN list :
                /\ list[p] = c /\ list' \in Seq(Clients) /\ Len(list') = Len(list) - 1
                /\ \A k \in 1 .. Len(list) - 1 :
                     list'[k] = IF k < p THEN list[k] ELSE list[k + 1]
<1>1. th[c].pc = "destroy" /\ Called(c, Note, "gone") /\ list' = Without(c)
  BY DestroyMoves DEF Destroy
<1>2. Listed(c) /\ list \in Seq(Clients) /\ Len(list) \in Nat
  <2>1. Joined(c)
    BY <1>1 DEF Joined, Enqueuing
  <2>2. Listed(c)
    BY <2>1 DEF ListInv
  <2>3. list \in Seq(Clients)
    BY DEF SessionsTypeOK
  <2> QED
    BY <2>2, <2>3
<1>3. PICK p \in DOMAIN list :
        /\ list[p] = c
        /\ list' \in Seq(Clients) /\ Len(list') = Len(list) - 1
        /\ \A k \in 1 .. Len(list) - 1 :
             list'[k] = IF k < p THEN list[k] ELSE list[k + 1]
  BY <1>1, <1>2, WithoutFacts
<1>p. p \in 1 .. Len(list) /\ DOMAIN list = 1 .. Len(list) /\ DOMAIN list' = 1 .. Len(list) - 1
  BY <1>2, <1>3
<1>4. \A i, k \in DOMAIN list : list[i] = list[k] => i = k
  BY DEF ListInv
<1>5. ASSUME NEW i \in DOMAIN list', NEW k \in DOMAIN list', list'[i] = list'[k]
      PROVE  i = k
  <2> DEFINE f(j) == IF j < p THEN j ELSE j + 1
  <2>1. f(i) \in DOMAIN list /\ f(k) \in DOMAIN list
    BY <1>2, <1>p
  <2>2. list'[i] = list[f(i)] /\ list'[k] = list[f(k)]
    BY <1>3, <1>p
  <2>3. f(i) = f(k)
    <3> HIDE DEF f
    <3> QED
      BY <1>4, <1>5, <2>1, <2>2
  <2> QED
    BY <1>2, <1>p, <2>3
<1>6. ~Listed(c)'
  <2>1. ASSUME NEW k \in DOMAIN list', list'[k] = c PROVE FALSE
    <3>1. CASE k < p
      <4>1. k \in DOMAIN list /\ list[k] = c
        BY <1>3, <1>p, <2>1, <3>1
      <4> QED
        BY <1>3, <1>4, <1>p, <3>1, <4>1
    <3>2. CASE ~(k < p)
      <4>1. k + 1 \in DOMAIN list /\ list[k + 1] = c
        BY <1>2, <1>3, <1>p, <2>1, <3>2
      <4> QED
        BY <1>3, <1>4, <1>p, <3>2, <4>1
    <3> QED
      BY <3>1, <3>2
  <2> QED
    BY <2>1 DEF Listed
<1>7. ASSUME NEW d \in Clients, d # c PROVE Listed(d)' <=> Listed(d)
  <2>1. ASSUME NEW k \in DOMAIN list, list[k] = d PROVE Listed(d)'
    <3>1. CASE k < p
      <4>1. k \in DOMAIN list' /\ list'[k] = d
        BY <1>2, <1>3, <1>p, <2>1, <3>1
      <4> QED
        BY <4>1 DEF Listed
    <3>2. CASE ~(k < p)
      <4>1. k # p
        BY <1>3, <1>7, <2>1
      <4>2. k - 1 \in DOMAIN list' /\ ~(k - 1 < p) /\ (k - 1) + 1 = k
        BY <1>2, <1>p, <3>2, <4>1
      <4>3. list'[k - 1] = d
        BY <1>3, <1>p, <2>1, <4>2
      <4> QED
        BY <4>2, <4>3 DEF Listed
    <3> QED
      BY <3>1, <3>2
  <2>2. ASSUME NEW k \in DOMAIN list', list'[k] = d PROVE Listed(d)
    <3>1. CASE k < p
      <4>1. k \in DOMAIN list /\ list[k] = d
        BY <1>3, <1>p, <2>2, <3>1
      <4> QED
        BY <4>1 DEF Listed
    <3>2. CASE ~(k < p)
      <4>1. k + 1 \in DOMAIN list /\ list[k + 1] = d
        BY <1>2, <1>3, <1>p, <2>2, <3>2
      <4> QED
        BY <4>1 DEF Listed
    <3> QED
      BY <3>1, <3>2
  <2> QED
    BY <2>1, <2>2 DEF Listed
<1>8. ListInv'
  <2>1. \A d \in Clients : d # c => th'[d] = th[d]
    BY <1>1, SessionConstants DEF Called
  <2>2. th'[c].pc = "head" /\ th'[c].return = "gone"
    BY <1>1 DEF Called
  <2>3. \A d \in Clients : /\ At(d, "none")' => ~Listed(d)'
                           /\ Joined(d)' => Listed(d)'
    BY <1>6, <1>7, <2>1, <2>2 DEF At, Joined, ListInv, Enqueuing
  <2>4. mpc' = "done" => list' = <<>>
    <3>1. ASSUME mpc' = "done" PROVE FALSE
      <4>1. mpc = "done"
        BY <3>1 DEF Destroy
      <4> QED
        BY <1>2, <4>1, NobodyListed DEF ListInv
    <3> QED
      BY <3>1
  <2> QED
    BY <1>5, <2>3, <2>4 DEF ListInv
<1> QED
  BY <1>2, <1>3, <1>6, <1>7, <1>8

LEMMA ListInvStep ==
    ASSUME SessionsTypeOK, ThreadInv, ListInv, [SessionsNext]_sessionVars PROVE ListInv'
<1>0. Bus \in Threads /\ \A c \in Clients : c \in Threads /\ c # Bus
  BY SessionConstants
<1>1. ASSUME NEW t \in Threads, session_enqueue_info_message(t) PROVE ListInv'
  <2>1. th[t].pc \in Enqueuing /\ list' = list /\ mpc' = mpc
    BY <1>1, WalkMoves
  <2>2. PICK p \in {"lock", "visit", "write", th[t].return} : \E n : Moved(t, p, n)
    BY <1>1, WalkMoves
  <2>3. \A c \in Clients : c # t => th'[c] = th[c]
    BY <1>0, <2>2 DEF Moved
  <2>4. th'[t].pc = p /\ th'[t].return = th[t].return
    BY <2>2 DEF Moved
  <2>5. t \in Clients => (At(t, "none")' => At(t, "none")) /\ (Joined(t)' => Joined(t))
    BY <2>1, <2>4 DEF ThreadInv, At, Joined, Enqueuing
  <2> QED
    BY <2>1, <2>3, <2>5, ListKept DEF At, Joined
<1>2. CASE ChangeDevice \/ Die(Bus)
  <2>1. \A c \in Clients : th'[c] = th[c]
    BY <1>0, <1>2, ChangeMoves, BusDies DEF Called, Moved
  <2>2. list' = list /\ mpc' = mpc
    BY <1>2 DEF ChangeDevice, Die, nodeVars
  <2> QED
    BY <2>1, <2>2, ListKept DEF At, Joined
<1>3. ASSUME NEW c \in Clients, Request(c) \/ thr_doClient(c) PROVE ListInv'
  <2>1. CASE session_enqueue_info_message(c)
    BY <1>0, <1>1, <2>1
  <2>2. CASE Connect(c)
    BY <2>2, ConnectList
  <2>3. CASE Destroy(c)
    BY <2>3, DestroyList
  <2>4. CASE ~session_enqueue_info_message(c) /\ ~Connect(c) /\ ~Destroy(c)
    <3>1. \/ SetConnectionMode(c) \/ Register(c) \/ HangUp(c) \/ Begin(c) \/ StartSession(c)
          \/ Pipe(c) \/ SendData(c) \/ Forward(c) \/ Die(c) \/ EndClient(c) \/ ClosePipe(c)
      BY <1>3, <2>4 DEF Request, thr_doClient
    <3>2. list' = list /\ mpc' = mpc
      BY <3>1 DEF SetConnectionMode, Register, HangUp, Begin, StartSession, Pipe, SendData,
                  Forward, Die, EndClient, ClosePipe, nodeVars
    <3>3. \/ th' = th
          \/ /\ \E p \in Outside \ {"new"} : Moved(c, p, NoNode)
             /\ th[c].pc \in Outside \cup {"write"}
             /\ th[c].pc = "write" => th[c].return # "gone"
          \/ Moved(c, "gone", NoNode)
          \/ th[c].pc = "reply" /\ Called(c, Note, "pipe")
          \/ th[c].pc = "reply" /\ Called(c, Note, "command")
      BY <2>4, <3>1, ClientThread, StartMoves DEF Request
    <3>4. \A d \in Clients : d # c => th'[d] = th[d]
      BY <1>0, <3>3 DEF Moved, Called
    <3>5. (At(c, "none")' => At(c, "none")) /\ (Joined(c)' => Joined(c))
      BY <3>3 DEF Moved, Called, At, Joined, Enqueuing, Outside
    <3> QED
      BY <3>2, <3>4, <3>5, ListKept DEF At, Joined
  <2> QED
    BY <2>1, <2>2, <2>3, <2>4
<1>4. CASE Shutdown \/ cancel_all_threads
  <2>1. list' = list /\ th' = th /\ (mpc' = "done" => mpc = "done" \/ list = <<>>)
    BY <1>4 DEF Shutdown, cancel_all_threads, JoinBus, terminate_all_sessions, TestSessions,
                CancelSessions, WaitSessions, WakeMain, nodeVars
  <2> QED
    BY <2>1, ListKept DEF At, Joined
<1>5. CASE UNCHANGED sessionVars
  BY <1>5, ListKept DEF sessionVars, nodeVars, At, Joined
<1> QED
  BY <1>0, <1>1, <1>2, <1>3, <1>4, <1>5 DEF SessionsNext, BusThread

LEMMA ThreadInit == SessionsInit => ThreadInv
<1> SUFFICES ASSUME SessionsInit PROVE ThreadInv
  OBVIOUS
<1>1. th[Bus].pc = "poll" /\ \A c \in Clients : th[c].pc = "none"
  BY SessionConstants DEF SessionsInit
<1> QED
  BY <1>1 DEF ThreadInv, Enqueuing

LEMMA NobodyLeft == ListInv => EndsAfterAll
<1> SUFFICES ASSUME ListInv, mpc = "done", NEW c \in Clients
             PROVE  /\ th[c].pc \in {"none", "gone", "head", "lock", "visit", "write"}
                    /\ sid[c] = 1 => ~Listed(c)
  BY DEF EndsAfterAll
<1>1. ~Listed(c)
  BY NobodyListed DEF ListInv
<1> QED
  BY <1>1 DEF ListInv, Joined, Enqueuing

\* When terminate_all_sessions returns, no thread is left that could still work
\* for a client: each registered session was destroyed and only says good-bye.
\* The list is empty only when every node was destroyed, a node is in the list
\* from its connection on, and nobody connects once the shutdown has begun.
THEOREM EndsAfterAllHolds == SessionsSpec => []EndsAfterAll
<1> DEFINE Inv == SessionsTypeOK /\ ThreadInv /\ ListInv
<1>1. SessionsInit => Inv
  BY SessionsTypeInit, ThreadInit, ListInit
<1>2. Inv /\ [SessionsNext]_sessionVars => Inv'
  BY SessionsTypeStep, ThreadInvStep, ListInvStep
<1>3. Inv => EndsAfterAll
  BY NobodyLeft
<1> QED
  BY <1>1, <1>2, <1>3, PTL DEF SessionsSpec

-----------------------------------------------------------------------------
(* The walk along the list: one thread at a time, at nodes that have a pipe. *)

MutexInv ==
    /\ \A t \in Threads : th[t].pc \in {"visit", "write"} => mutex = {t}
    /\ mpc = "wait" => mutex = {Main}

Walking(t) ==
    /\ th[t].pc \in {"lock", "write"} => th[t].node # NoNode
    /\ At(t, "write") => pipefd[th[t].node] # "none"
    /\ th[t].pc \in Enqueuing /\ th[t].node # NoNode => ~At(th[t].node, "none")

WalkInv == \A t \in Threads : Walking(t)

\* What a step of a client outside enqueueInfoMessage leaves alone.
LEMMA ClientPlace ==
    ASSUME SessionsTypeOK, NEW c \in Clients,
           \/ Request(c) \/ Begin(c) \/ StartSession(c) \/ Pipe(c) \/ SendData(c) \/ Forward(c)
           \/ Die(c) \/ EndClient(c) \/ ClosePipe(c) \/ Destroy(c)
    PROVE  /\ \A u \in Threads : u # c => th'[u] = th[u]
           /\ \/ th' = th
              \/ th'[c].node = NoNode /\ th'[c].pc \notin {"none", "lock", "visit", "write"}
           /\ mutex' = mutex /\ dangling' = dangling /\ (mpc' = "wait" => mpc = "wait")
           /\ \A d \in Clients : pipefd'[d] = "none" => pipefd[d] = "none"
<1>1. \/ th' = th
      \/ \E p \in Outside \cup {"gone"} : Moved(c, p, NoNode)
      \/ \E p : Called(c, Note, p)
  BY ClientThread DEF Outside
<1>2. /\ \A u \in Threads : u # c => th'[u] = th[u]
      /\ \/ th' = th
         \/ th'[c].node = NoNode /\ th'[c].pc \notin {"none", "lock", "visit", "write"}
  BY <1>1 DEF Moved, Called, Outside
<1>3. mutex' = mutex /\ dangling' = dangling /\ (mpc' = "wait" => mpc = "wait")
  BY DEF Request, Connect, SetConnectionMode, Register, HangUp, Begin, StartSession, Pipe,
         SendData, Forward, Die, EndClient, ClosePipe, Destroy
<1>4. pipefd' = pipefd \/ \E p \in {"open", "closed"} : pipefd' = [pipefd EXCEPT ![c] = p]
  BY DEF Request, Connect, SetConnectionMode, Register, HangUp, Begin, StartSession, Pipe,
         SendData, Forward, Die, EndClient, ClosePipe, Destroy, nodeVars
<1>5. \A d \in Clients : pipefd'[d] = "none" => pipefd[d] = "none"
  BY <1>4 DEF SessionsTypeOK
<1> QED
  BY <1>2, <1>3, <1>5

LEMMA MutexInvStep ==
    ASSUME SessionsTypeOK, MutexInv, [SessionsNext]_sessionVars PROVE MutexInv'
<1>0. Bus \in Threads /\ Main \notin Threads /\ \A c \in Clients : c \in Threads
  BY SessionConstants
<1>1. ASSUME NEW t \in Threads, session_enqueue_info_message(t) PROVE MutexInv'
  <2>1. mpc' = mpc /\ \A u \in Threads : u # t => th'[u] = th[u]
    BY <1>1, WalkMoves DEF Moved
  <2>2. CASE ReadHead(t)
    <3>1. mutex' = mutex /\ th'[t].pc \in {"lock", th[t].return} /\ th[t].return \notin {"visit", "write"}
      <4>1. th[t].return \in {"none", "poll", "pipe", "command", "gone"}
        BY ThreadTypes
      <4> QED
        BY <2>2, <4>1, ReadHeadMoves DEF ReadHead, Moved
    <3> QED
      BY <2>1, <3>1 DEF MutexInv
  <2>3. CASE LockList(t)
    BY <1>0, <2>1, <2>3 DEF MutexInv, LockList
  <2>4. CASE Visit(t)
    <3>1. th[t].pc = "visit" /\ mutex = {t}
      BY <2>4 DEF MutexInv, Visit, At
    <3>2. \A u \in Threads : u # t => th[u].pc \notin {"visit", "write"}
      BY <3>1 DEF MutexInv
    <3>3. mpc # "wait"
      BY <1>0, <3>1 DEF MutexInv
    <3>4. CASE mutex' = {}
      <4>1. th'[t].pc = th[t].return
        BY <2>4, <3>1, <3>4, VisitMoves DEF Moved
      <4>2. th[t].return \notin {"visit", "write"}
        <5>1. th[t].return \in {"none", "poll", "pipe", "command", "gone"}
          BY ThreadTypes
        <5> QED
          BY <5>1
      <4> QED
        BY <2>1, <3>2, <3>3, <4>1, <4>2 DEF MutexInv
    <3>5. CASE mutex' = mutex
      BY <2>1, <3>1, <3>2, <3>3, <3>5 DEF MutexInv
    <3> QED
      BY <2>4, <3>4, <3>5, VisitMoves
  <2>5. CASE Write(t)
    BY <2>1, <2>5 DEF MutexInv, Write, At
  <2> QED
    BY <1>1, <2>2, <2>3, <2>4, <2>5 DEF session_enqueue_info_message
<1>2. CASE ChangeDevice
  BY <1>0, <1>2, ChangeMoves DEF MutexInv, Called, ChangeDevice
<1>3. CASE Die(Bus)
  BY <1>0, <1>3, BusDies DEF MutexInv, Moved, Die
<1>4. ASSUME NEW c \in Clients, Request(c) \/ thr_doClient(c) PROVE MutexInv'
  <2>1. CASE session_enqueue_info_message(c)
    BY <1>0, <1>1, <2>1
  <2>2. CASE ~session_enqueue_info_message(c)
    BY <1>0, <1>4, <2>2, ClientPlace DEF thr_doClient, MutexInv
  <2> QED
    BY <2>1, <2>2
<1>5. CASE Shutdown \/ JoinBus \/ TestSessions
  BY <1>5 DEF Shutdown, JoinBus, TestSessions, MutexInv
<1>6. CASE CancelSessions \/ WakeMain
  BY <1>6 DEF CancelSessions, WakeMain, MutexInv
<1>7. CASE WaitSessions
  BY <1>0, <1>7 DEF WaitSessions, MutexInv
<1>8. CASE UNCHANGED sessionVars
  BY <1>8 DEF sessionVars, MutexInv
<1> QED
  BY <1>0, <1>1, <1>2, <1>3, <1>4, <1>5, <1>6, <1>7, <1>8
  DEF SessionsNext, BusThread, cancel_all_threads, terminate_all_sessions

\* A node the walk comes to is one of a client that has connected.
LEMMA WalkNode ==
    ASSUME SessionsTypeOK, ListInv, NEW n, NEW m \in Successors(n), m # NoNode
    PROVE  m \in Clients /\ ~At(m, "none")
<1>1. m \in Clients /\ Listed(m)
  BY SuccessorTypes DEF SessionsTypeOK
<1> QED
  BY <1>1 DEF ListInv

LEMMA WalkInvStep ==
    ASSUME SessionsTypeOK, ThreadInv, ListInv, WalkInv, [SessionsNext]_sessionVars PROVE WalkInv'
<1>0. Bus \in Threads /\ \A c \in Clients : c \in Threads /\ c # Bus
  BY SessionConstants
<1>n. \A t \in Threads : th[t].node \in Clients \cup {NoNode}
  BY ThreadTypes
<1>g. ASSUME \A d \in Clients : At(d, "none")' => At(d, "none"),
             \A d \in Clients : pipefd'[d] = "none" => pipefd[d] = "none",
             NEW u \in Threads, th'[u] = th[u]
      PROVE  Walking(u)'
  <2> DEFINE n == th[u].node
  <2>1. Walking(u) /\ n \in Clients \cup {NoNode} /\ th'[u].node = n /\ th'[u].pc = th[u].pc
    BY <1>n, <1>g DEF WalkInv
  <2> HIDE DEF n
  <2>2. /\ th[u].pc \in {"lock", "write"} => n # NoNode
        /\ At(u, "write") => pipefd[n] # "none"
        /\ th[u].pc \in Enqueuing /\ n # NoNode => ~At(n, "none")
    BY <2>1 DEF Walking, n
  <2>3. At(u, "write") => n \in Clients
    BY <2>1, <2>2 DEF At
  <2>4. /\ th[u].pc \in {"lock", "write"} => n # NoNode
        /\ th[u].pc = "write" => pipefd'[n] # "none"
        /\ th[u].pc \in Enqueuing /\ n # NoNode => ~(th'[n].pc = "none")
    BY <1>g, <2>1, <2>2, <2>3 DEF At
  <2> QED
    BY <2>1, <2>4 DEF Walking, At
<1>1. ASSUME NEW t \in Threads, session_enqueue_info_message(t) PROVE WalkInv'
  <2>1. pipefd' = pipefd
    BY <1>1, WalkMoves
  <2>2. \A u \in Threads : u # t => th'[u] = th[u]
    BY <1>1, WalkMoves DEF Moved
  <2>3. th[t].return \notin {"none"} \cup Enqueuing
    <3>1. th[t].pc \in Enqueuing
      BY <1>1, WalkMoves
    <3> QED
      BY <3>1 DEF ThreadInv, Enqueuing, Threads
  <2>4. th'[t].pc # "none"
    BY <1>1, <2>3, WalkMoves DEF Moved
  <2>5. \A d \in Clients : At(d, "none")' => At(d, "none")
    BY <1>0, <2>2, <2>4 DEF At
  <2>6. /\ th'[t].pc \in {"lock", "write"} => th'[t].node # NoNode
        /\ At(t, "write")' => pipefd[th'[t].node] # "none"
        /\ th'[t].pc \in Enqueuing /\ th'[t].node # NoNode =>
             th'[t].node \in Clients /\ ~At(th'[t].node, "none")
    <3>1. CASE ReadHead(t)
      <4>1. CASE Moved(t, th[t].return, NoNode)
        BY <2>3, <4>1 DEF Moved, At, Enqueuing
      <4>2. CASE Head(list) \in Clients /\ Listed(Head(list)) /\ Moved(t, "lock", Head(list))
        BY <4>2, SessionConstants DEF Moved, At, ListInv
      <4> QED
        BY <3>1, <4>1, <4>2, ReadHeadMoves
    <3>2. CASE LockList(t)
      BY <1>n, <3>2, LockListMoves DEF Moved, At, Enqueuing, WalkInv, Walking
    <3>m. ASSUME NEW m \in Successors(th[t].node), Moved(t, "visit", m)
          PROVE  /\ th'[t].pc = "visit"
                 /\ th'[t].node # NoNode => th'[t].node \in Clients /\ ~At(th'[t].node, "none")
      BY <3>m, WalkNode DEF Moved
    <3>3. CASE Visit(t)
      <4> DEFINE n == th[t].node
      <4>1. CASE Moved(t, th[t].return, NoNode)
        BY <2>3, <4>1 DEF Moved, At, Enqueuing
      <4>2. CASE n # NoNode /\ mode[n] = "info" /\ pipefd[n] # "none" /\ Moved(t, "write", n)
        <5>1. th[t].pc \in Enqueuing
          BY <1>1, WalkMoves
        <5>2. ~At(n, "none")
          BY <4>2, <5>1 DEF WalkInv, Walking
        <5> HIDE DEF n
        <5>3. n \in Clients
          BY <1>n, <4>2 DEF n
        <5> QED
          BY <4>2, <5>2, <5>3 DEF Moved
      <4>3. CASE \E m \in Successors(n) : Moved(t, "visit", m)
        BY <3>m, <4>3 DEF At
      <4> QED
        BY <3>3, <4>1, <4>2, <4>3, VisitMoves
    <3>4. CASE Write(t)
      BY <3>m, <3>4, WriteMoves DEF At
    <3> QED
      BY <1>1, <3>1, <3>2, <3>3, <3>4 DEF session_enqueue_info_message
  <2>7. \A d \in Clients : ~At(d, "none") => ~At(d, "none")'
    BY <2>5
  <2>8. \A d \in Clients : pipefd'[d] = "none" => pipefd[d] = "none"
    BY <2>1
  <2>9. ASSUME NEW u \in Threads
        PROVE  Walking(u)'
    <3>1. CASE u = t
      BY <2>1, <2>6, <2>7, <3>1 DEF Walking, At
    <3>2. CASE u # t
      BY <1>g, <2>2, <2>5, <2>8, <3>2
    <3> QED
      BY <3>1, <3>2
  <2> QED
    BY <2>9 DEF WalkInv
<1>2. ASSUME \A d \in Clients : At(d, "none")' => At(d, "none"),
             \A d \in Clients : pipefd'[d] = "none" => pipefd[d] = "none",
             \A u \in Threads : \/ th'[u] = th[u]
                                \/ th'[u].pc \notin {"lock", "write"} /\ th'[u].node = NoNode
      PROVE  WalkInv'
  <2>1. ASSUME NEW u \in Threads
        PROVE  Walking(u)'
    <3>1. CASE th'[u] = th[u]
      BY <1>g, <1>2, <3>1
    <3>2. CASE th'[u].pc \notin {"lock", "write"} /\ th'[u].node = NoNode
      BY <3>2 DEF Walking, At
    <3> QED
      BY <1>2, <3>1, <3>2
  <2> QED
    BY <2>1 DEF WalkInv
<1>3. CASE ChangeDevice \/ Die(Bus)
  <2>1. /\ pipefd' = pipefd /\ \A u \in Threads : u # Bus => th'[u] = th[u]
        /\ th'[Bus].pc \notin {"lock", "write"} /\ th'[Bus].node = NoNode
    BY <1>3, ChangeMoves, BusDies DEF ChangeDevice, Die, nodeVars, Called, Moved
  <2>2. \A d \in Clients : At(d, "none")' => At(d, "none")
    BY <1>0, <2>1 DEF At
  <2> QED
    BY <1>2, <2>1, <2>2
<1>4. ASSUME NEW c \in Clients, Request(c) \/ thr_doClient(c) PROVE WalkInv'
  <2>1. CASE session_enqueue_info_message(c)
    BY <1>0, <1>1, <2>1
  <2>2. CASE ~session_enqueue_info_message(c)
    <3>1. /\ \A u \in Threads : u # c => th'[u] = th[u]
          /\ \/ th' = th
             \/ th'[c].node = NoNode /\ th'[c].pc \notin {"none", "lock", "visit", "write"}
          /\ \A d \in Clients : pipefd'[d] = "none" => pipefd[d] = "none"
      BY <1>4, <2>2, ClientPlace DEF thr_doClient
    <3>2. \A d \in Clients : At(d, "none")' => At(d, "none")
      BY <1>0, <3>1 DEF At
    <3>3. \A u \in Threads : \/ th'[u] = th[u]
                             \/ th'[u].pc \notin {"lock", "write"} /\ th'[u].node = NoNode
      BY <1>0, <3>1
    <3> QED
      BY <1>2, <3>1, <3>2, <3>3
  <2> QED
    BY <2>1, <2>2
<1>5. CASE Shutdown \/ cancel_all_threads
  BY <1>5 DEF Shutdown, cancel_all_threads, JoinBus, terminate_all_sessions, TestSessions,
              CancelSessions, WaitSessions, WakeMain, nodeVars, WalkInv, Walking, At
<1>6. CASE UNCHANGED sessionVars
  BY <1>6 DEF sessionVars, nodeVars, WalkInv, Walking, At
<1> QED
  BY <1>0, <1>1, <1>3, <1>4, <1>5, <1>6 DEF SessionsNext, BusThread

-----------------------------------------------------------------------------
(* INFO sessions: their mode, their pipe. *)

\* The client has no pipe yet.
Young(c) == \/ th[c].pc \in {"none", "new", "handshake", "reply", "pipe"}
            \/ th[c].pc \in Enqueuing /\ th[c].return = "pipe"

Piped(c) ==
    /\ th[c].pc \in {"pipe", "data", "loop"} => mode[c] = "info"
    /\ th[c].pc \in Enqueuing /\ th[c].return = "pipe" => mode[c] = "info"
    /\ th[c].pc \in {"data", "loop"} => pipefd[c] = "open"
    /\ Young(c) => pipefd[c] = "none"
    /\ pipefd[c] = "none" => pipe[c] = <<>>

PipeInv == \A c \in Clients : Piped(c)

LEMMA PipedKept ==
    ASSUME NEW c \in Clients, Piped(c), th'[c] = th[c], mode'[c] = mode[c],
           pipefd'[c] = pipefd[c], pipe'[c] = pipe[c]
    PROVE  Piped(c)'
  BY DEF Piped, Young

\* A thread writes into one pipe, of a session that has one.
LEMMA PipesWritten ==
    ASSUME SessionsTypeOK, WalkInv, NEW t \in Threads, session_enqueue_info_message(t)
    PROVE  \A c \in Clients : pipe'[c] = pipe[c] \/
             /\ At(t, "write") /\ th[t].node = c /\ pipefd[c] = "open"
             /\ pipe'[c] = Append(pipe[c], th[t].msg)
<1>1. CASE Write(t)
  <2> DEFINE n == th[t].node
             q == Append(pipe[n], th[t].msg)
  <2>1. /\ At(t, "write") /\ pipefd[n] # "none" /\ n # NoNode
        /\ n \in Clients \cup {NoNode}
    BY <1>1, ThreadTypes DEF Write, WalkInv, Walking, At
  <2>2. \/ pipe' = pipe
        \/ pipefd[n] # "closed" /\ pipe' = [pipe EXCEPT ![n] = q]
    BY <1>1 DEF Write
  <2> HIDE DEF n, q
  <2>3. n \in Clients /\ pipefd[n] \in {"none", "open", "closed"}
    BY <2>1 DEF SessionsTypeOK
  <2>4. \A c \in Clients : pipe'[c] = pipe[c] \/ (n = c /\ pipefd[c] = "open" /\ pipe'[c] = q)
    BY <2>1, <2>2, <2>3 DEF SessionsTypeOK
  <2> QED
    BY <2>1, <2>4 DEF n, q
<1>2. CASE ~Write(t)
  BY <1>2 DEF session_enqueue_info_message, ReadHead, LockList, Visit
<1> QED
  BY <1>1, <1>2

\* What a step of a client outside enqueueInfoMessage changes of other clients.
LEMMA OtherClients ==
    ASSUME SessionsTypeOK, NEW c \in Clients,
           \/ Request(c) \/ Begin(c) \/ StartSession(c) \/ Pipe(c) \/ SendData(c) \/ Forward(c)
           \/ Die(c) \/ EndClient(c) \/ ClosePipe(c) \/ Destroy(c)
    PROVE  \A d \in Clients : d # c =>
             /\ th'[d] = th[d] /\ mode'[d] = mode[d] /\ pipefd'[d] = pipefd[d]
             /\ pipe'[d] = pipe[d] /\ view'[d] = view[d]
<1>1. /\ mode' = mode \/ \E x : mode' = [mode EXCEPT ![c] = x]
      /\ pipefd' = pipefd \/ \E x : pipefd' = [pipefd EXCEPT ![c] = x]
      /\ pipe' = pipe \/ \E x : pipe' = [pipe EXCEPT ![c] = x]
      /\ view' = view \/ \E x : view' = [view EXCEPT ![c] = x]
  BY DEF Request, Connect, SetConnectionMode, Register, HangUp, Begin, StartSession, Pipe,
         SendData, Forward, Die, EndClient, ClosePipe, Destroy, nodeVars
<1>2. \A d \in Clients : d # c => th'[d] = th[d]
  BY ClientPlace, SessionConstants
<1> QED
  BY <1>1, <1>2 DEF SessionsTypeOK

LEMMA PipedStep ==
    ASSUME SessionsTypeOK, NEW c \in Clients, Piped(c),
           \/ Request(c) \/ Begin(c) \/ StartSession(c) \/ Pipe(c) \/ SendData(c) \/ Forward(c)
           \/ Die(c) \/ EndClient(c) \/ ClosePipe(c) \/ Destroy(c)
    PROVE  Piped(c)'
<1> USE DEF Piped, Young, Enqueuing, nodeVars
<1>0. c \in DOMAIN mode /\ c \in DOMAIN pipefd /\ c \in DOMAIN pipe
  BY DEF SessionsTypeOK
<1>1. CASE Connect(c)
  BY <1>1, ClientMoves DEF Connect, Moved
<1>2. CASE SetConnectionMode(c)
  BY <1>2 DEF SetConnectionMode, At
<1>3. CASE Register(c)
  BY <1>3, ClientMoves DEF Register, Moved
<1>4. CASE Begin(c) \/ SendData(c)
  BY <1>4, ClientMoves DEF Begin, SendData, Moved
<1>5. CASE StartSession(c)
  BY <1>5, StartMoves DEF StartSession, Called
<1>6. CASE Pipe(c)
  BY <1>0, <1>6, ClientMoves DEF Pipe, Moved
<1>7. CASE Forward(c)
  BY <1>7 DEF Forward, At
<1>8. CASE HangUp(c) \/ Die(c)
  BY <1>8, ClientMoves DEF HangUp, Die, Moved
<1>9. CASE EndClient(c)
  BY <1>9, ClientMoves DEF EndClient, Moved
<1>10. CASE ClosePipe(c)
  BY <1>0, <1>10, ClientMoves DEF ClosePipe, Moved
<1>11. CASE Destroy(c)
  BY <1>11, DestroyMoves DEF Destroy, Called
<1> QED
  BY <1>1, <1>2, <1>3, <1>4, <1>5, <1>6, <1>7, <1>8, <1>9, <1>10, <1>11 DEF Request

LEMMA PipeInvStep ==
    ASSUME SessionsTypeOK, ThreadInv, WalkInv, PipeInv, [SessionsNext]_sessionVars PROVE PipeInv'
<1>0. Bus \in Threads /\ \A c \in Clients : c \in Threads /\ c # Bus
  BY SessionConstants
<1>1. ASSUME NEW t \in Threads, session_enqueue_info_message(t) PROVE PipeInv'
  <2>1. mode' = mode /\ pipefd' = pipefd /\ \A u \in Threads : u # t => th'[u] = th[u]
    BY <1>1, WalkMoves DEF Moved
  <2>2. PICK p \in {"lock", "visit", "write", th[t].return} : \E n : Moved(t, p, n)
    BY <1>1, WalkMoves
  <2>3. th[t].pc \in Enqueuing /\ th'[t].pc = p /\ th'[t].return = th[t].return
    BY <1>1, <2>2, WalkMoves DEF Moved
  <2>4. \A c \in Clients : pipefd[c] # "none" \/ pipe'[c] = pipe[c]
    BY <1>1, PipesWritten
  <2>5. ASSUME NEW c \in Clients PROVE Piped(c)'
    <3>1. Piped(c)
      BY DEF PipeInv
    <3>2. CASE c = t
      <4>1. th[c].return \in {"pipe", "command", "gone"}
        BY <2>3, <3>2 DEF ThreadInv
      <4> QED
        BY <2>1, <2>3, <2>4, <3>1, <3>2, <4>1 DEF Piped, Young, Enqueuing
    <3>3. CASE c # t
      <4>1. th'[c] = th[c]
        BY <1>0, <2>1, <3>3
      <4> QED
        BY <2>1, <2>4, <3>1, <4>1 DEF Piped, Young
    <3> QED
      BY <3>2, <3>3
  <2> QED
    BY <2>5 DEF PipeInv
<1>2. CASE ChangeDevice \/ Die(Bus)
  <2>1. \A c \in Clients : th'[c] = th[c]
    BY <1>0, <1>2, ChangeMoves, BusDies DEF Called, Moved
  <2>2. UNCHANGED <<mode, pipefd, pipe>>
    BY <1>2 DEF ChangeDevice, Die, nodeVars
  <2> QED
    BY <2>1, <2>2, PipedKept DEF PipeInv
<1>3. ASSUME NEW c \in Clients, Request(c) \/ thr_doClient(c) PROVE PipeInv'
  <2>1. CASE session_enqueue_info_message(c)
    BY <1>0, <1>1, <2>1
  <2>2. CASE ~session_enqueue_info_message(c)
    <3>1. \/ Request(c) \/ Begin(c) \/ StartSession(c) \/ Pipe(c) \/ SendData(c) \/ Forward(c)
          \/ Die(c) \/ EndClient(c) \/ ClosePipe(c) \/ Destroy(c)
      BY <1>3, <2>2 DEF thr_doClient
    <3>2. Piped(c)'
      BY <3>1, PipedStep DEF PipeInv
    <3>3. \A d \in Clients : d # c => Piped(d)'
      BY <3>1, OtherClients, PipedKept DEF PipeInv
    <3> QED
      BY <3>2, <3>3 DEF PipeInv
  <2> QED
    BY <2>1, <2>2
<1>4. CASE Shutdown \/ cancel_all_threads \/ UNCHANGED sessionVars
  <2>1. UNCHANGED <<th, mode, pipefd, pipe>>
    BY <1>4 DEF Shutdown, cancel_all_threads, JoinBus, terminate_all_sessions, TestSessions,
                CancelSessions, WaitSessions, WakeMain, nodeVars, sessionVars
  <2> QED
    BY <2>1, PipedKept DEF PipeInv
<1> QED
  BY <1>0, <1>1, <1>2, <1>3, <1>4 DEF SessionsNext, BusThread

-----------------------------------------------------------------------------
(* The news: a client in its loop knows the device, has the last change in   *)
(* its pipe, or the walk of the bus thread has yet to come to its node.      *)

Before(n, c) == \E i, k \in DOMAIN list : i <= k /\ list[i] = n /\ list[k] = c

\* The bus thread has a change to tell and will come to the node of c.
Ahead(c) == \/ At(Bus, "head")
            \/ /\ th[Bus].pc \in {"lock", "visit", "write"} /\ th[Bus].node # NoNode
               /\ ~Listed(th[Bus].node) \/ Before(th[Bus].node, c)

\* The pipe holds the last change, and after it only announcements of sessions.
LastNews(c) == \E k \in DOMAIN pipe[c] :
    pipe[c][k] = dev /\ \A i \in DOMAIN pipe[c] : i > k => pipe[c][i] = Note

NoNews(c) == \A i \in DOMAIN pipe[c] : pipe[c][i] = Note

Told(c) ==
    /\ At(c, "data") => NoNews(c) \/ LastNews(c) \/ Ahead(c)
    /\ At(c, "loop") => (NoNews(c) /\ view[c] = dev) \/ LastNews(c) \/ Ahead(c)

News == /\ At(Bus, "write") => Listed(th[Bus].node)
        /\ \A c \in Clients : Told(c)

NewsInv == ~dangling /\ ~At(Bus, "gone") => News

LEMMA AheadKept ==
    ASSUME th'[Bus] = th[Bus], list' = list, NEW c, Ahead(c) PROVE Ahead(c)'
  BY DEF Ahead, At, Listed, Before

LEMMA ToldKept ==
    ASSUME NEW c \in Clients, Told(c), th'[c].pc \in {"data", "loop"} => th'[c].pc = th[c].pc,
           pipe'[c] = pipe[c], view'[c] = view[c], dev' = dev, Ahead(c) => Ahead(c)'
    PROVE  Told(c)'
<1>1. (NoNews(c)' <=> NoNews(c)) /\ (LastNews(c)' <=> LastNews(c))
  BY DEF NoNews, LastNews
<1> QED
  BY <1>1 DEF Told, At

LEMMA ToldAhead == ASSUME NEW c, Ahead(c)' PROVE Told(c)'
  BY DEF Told

\* The walk goes on to the next node; a node behind it stays ahead.
LEMMA NextBefore ==
    ASSUME SessionsTypeOK, ListInv, NEW n, NEW c \in Clients, Before(n, c), n # c,
           NEW m \in Successors(n)
    PROVE  m # NoNode /\ Before(m, c)
<1>1. PICK i \in DOMAIN list, k \in DOMAIN list : i <= k /\ list[i] = n /\ list[k] = c
  BY DEF Before
<1>2. list \in Seq(Clients) /\ \A a, b \in DOMAIN list : list[a] = list[b] => a = b
  BY DEF SessionsTypeOK, ListInv
<1>3. i + 1 <= k /\ i + 1 \in DOMAIN list /\ i # Len(list)
  BY <1>1, <1>2
<1>4. m = list[i + 1]
  BY <1>1, <1>2, <1>3, NextNode
<1>5. m \in Clients
  BY <1>2, <1>3, <1>4
<1> QED
  BY <1>1, <1>3, <1>4, <1>5, SessionConstants DEF Before

LEMMA ListedBefore ==
    ASSUME SessionsTypeOK, NEW c \in Clients, Listed(c)
    PROVE  list # <<>> /\ Before(Head(list), c)
<1>1. PICK k \in DOMAIN list : list[k] = c
  BY DEF Listed
<1>2. list \in Seq(Clients) /\ 1 \in DOMAIN list /\ 1 <= k /\ Head(list) = list[1]
  BY <1>1 DEF SessionsTypeOK
<1> QED
  BY <1>1, <1>2 DEF Before

\* What comes to the end of a pipe.
LEMMA AppendNews ==
    ASSUME SessionsTypeOK, NEW c \in Clients, NEW x \in 0 .. Note, dev' = dev,
           pipe'[c] = Append(pipe[c], x)
    PROVE  /\ x = dev => LastNews(c)'
           /\ x = Note => (NoNews(c) => NoNews(c)') /\ (LastNews(c) => LastNews(c)')
<1> DEFINE s == pipe[c]
           q == pipe'[c]
           e == Len(s) + 1
<1>1. /\ s \in Seq(0 .. Note) /\ Len(s) \in Nat /\ DOMAIN s = 1 .. Len(s)
      /\ DOMAIN q = 1 .. Len(s) + 1 /\ q[Len(s) + 1] = x
      /\ \A i \in 1 .. Len(s) : q[i] = s[i]
  BY DEF SessionsTypeOK
<1> HIDE DEF s, q
<1>2. e \in DOMAIN q /\ q[e] = x /\ \A i \in DOMAIN q : ~(i > e) /\ (i # e => i \in DOMAIN s /\ q[i] = s[i])
  BY <1>1
<1> HIDE DEF e
<1>3. x = dev => LastNews(c)'
  BY <1>2 DEF LastNews, q
<1>4. ASSUME x = Note, NoNews(c) PROVE NoNews(c)'
  <2>1. \A i \in DOMAIN q : q[i] = Note
    BY <1>2, <1>4 DEF NoNews, s
  <2> QED
    BY <2>1 DEF NoNews, q
<1>5. ASSUME x = Note, LastNews(c) PROVE LastNews(c)'
  <2>1. PICK k \in DOMAIN s : s[k] = dev /\ \A i \in DOMAIN s : i > k => s[i] = Note
    BY <1>5 DEF LastNews, s
  <2>2. k \in DOMAIN q /\ q[k] = dev
    BY <1>1, <2>1
  <2>3. \A i \in DOMAIN q : i > k => q[i] = Note
    BY <1>2, <1>5, <2>1
  <2> QED
    BY <2>2, <2>3 DEF LastNews, q
<1> QED
  BY <1>3, <1>4, <1>5

\* What the client takes from the front of its pipe.
LEMMA ForwardNews ==
    ASSUME SessionsTypeOK, NEW c \in Clients, Forward(c)
    PROVE  /\ NoNews(c) => NoNews(c)' /\ view'[c] = view[c]
           /\ LastNews(c) => LastNews(c)' \/ (NoNews(c)' /\ view'[c] = dev)
<1> DEFINE s == pipe[c]
           q == pipe'[c]
<1>1. /\ s \in Seq(0 .. Note) /\ s # <<>> /\ dev' = dev /\ dev # Note
      /\ pipe' = [pipe EXCEPT ![c] = Tail(s)]
      /\ view' = [view EXCEPT ![c] = IF Head(s) = Note THEN view[c] ELSE Head(s)]
  BY SessionConstants DEF SessionsTypeOK, Forward
<1>2. q = Tail(s) /\ view'[c] = IF Head(s) = Note THEN view[c] ELSE Head(s)
  BY <1>1 DEF SessionsTypeOK
<1> HIDE DEF s
<1>3. /\ Len(s) \in Nat /\ DOMAIN s = 1 .. Len(s) /\ 1 \in DOMAIN s /\ Head(s) = s[1]
      /\ DOMAIN q = 1 .. Len(s) - 1 /\ \A i \in 1 .. Len(s) - 1 : q[i] = s[i + 1]
  <2>1. /\ Len(s) \in Nat /\ DOMAIN s = 1 .. Len(s) /\ Len(s) # 0 /\ Head(s) = s[1]
        /\ Tail(s) \in Seq(0 .. Note) /\ Len(Tail(s)) = Len(s) - 1
        /\ \A i \in 1 .. Len(Tail(s)) : Tail(s)[i] = s[i + 1]
    BY <1>1, HeadTailProperties
  <2> QED
    BY <1>2, <2>1
<1> HIDE DEF q
<1>4. \A i \in DOMAIN q : i + 1 \in DOMAIN s /\ q[i] = s[i + 1]
  BY <1>3
<1>5. ASSUME NoNews(c) PROVE NoNews(c)' /\ view'[c] = view[c]
  <2>1. \A i \in DOMAIN s : s[i] = Note
    BY <1>5 DEF NoNews, s
  <2>2. \A i \in DOMAIN q : q[i] = Note
    BY <1>4, <2>1
  <2>3. view'[c] = view[c]
    BY <1>2, <1>3, <2>1
  <2> QED
    BY <2>2, <2>3 DEF NoNews, q
<1>6. ASSUME LastNews(c) PROVE LastNews(c)' \/ (NoNews(c)' /\ view'[c] = dev)
  <2>1. PICK k \in DOMAIN s : s[k] = dev /\ \A i \in DOMAIN s : i > k => s[i] = Note
    BY <1>6 DEF LastNews, s
  <2>2. CASE k = 1
    <3>1. \A i \in DOMAIN q : i + 1 > k
      BY <1>3, <2>2
    <3>2. \A i \in DOMAIN q : q[i] = Note
      BY <1>4, <2>1, <3>1
    <3>3. view'[c] = dev
      BY <1>1, <1>2, <1>3, <2>1, <2>2
    <3> QED
      BY <3>2, <3>3 DEF NoNews, q
  <2>3. CASE k # 1
    <3>1. k - 1 \in DOMAIN q /\ (k - 1) + 1 = k /\ \A i \in DOMAIN q : i > k - 1 => i + 1 > k
      BY <1>3, <2>1, <2>3
    <3>2. q[k - 1] = dev /\ \A i \in DOMAIN q : i > k - 1 => q[i] = Note
      BY <1>4, <2>1, <3>1
    <3> QED
      BY <1>1, <3>1, <3>2 DEF LastNews, q
  <2> QED
    BY <2>2, <2>3
<1> QED
  BY <1>5, <1>6

\* A client that is told the devices has an INFO session with an open pipe.
LEMMA InfoClient ==
    ASSUME ListInv, PipeInv, NEW c \in Clients, th[c].pc \in {"data", "loop"}
    PROVE  Listed(c) /\ mode[c] = "info" /\ pipefd[c] = "open"
<1>1. Joined(c)
  BY DEF Joined, Enqueuing
<1>2. Listed(c)
  BY <1>1 DEF ListInv
<1>3. mode[c] = "info" /\ pipefd[c] = "open"
  BY DEF PipeInv, Piped
<1> QED
  BY <1>2, <1>3

\* The bus thread walks: it leaves the node of c with the news in c's pipe.
LEMMA BusNews ==
    ASSUME SessionsTypeOK, ThreadInv, ListInv, WalkInv, PipeInv, News,
           session_enqueue_info_message(Bus), ~dangling'
    PROVE  News'
<1> DEFINE n == th[Bus].node
<1>0. /\ Bus \in Threads /\ \A c \in Clients : c \in Threads /\ c # Bus
      /\ th[Bus].pc \in Enqueuing /\ n \in Clients \cup {NoNode}
      /\ th[Bus].msg = dev /\ th[Bus].return = "poll" /\ th[Bus].msg \in 0 .. Note
  BY SessionConstants, ThreadTypes, WalkMoves DEF ThreadInv
<1>1. /\ \A c \in Clients : th'[c] = th[c] /\ view'[c] = view[c]
      /\ list' = list /\ dev' = dev
  BY <1>0, WalkMoves DEF Moved
<1>2. ASSUME th'[Bus].pc = "write" => Listed(th'[Bus].node),
             \A c \in Clients : th[c].pc \in {"data", "loop"} => Told(c)'
      PROVE  News'
  <2>1. At(Bus, "write")' => Listed(th[Bus].node)'
    BY <1>1, <1>2 DEF At, Listed
  <2>2. ASSUME NEW c \in Clients PROVE Told(c)'
    <3>1. CASE th[c].pc \in {"data", "loop"}
      BY <1>2, <3>1
    <3>2. CASE th[c].pc \notin {"data", "loop"}
      BY <1>1, <3>2 DEF Told, At
    <3> QED
      BY <3>1, <3>2
  <2> QED
    BY <2>1, <2>2 DEF News
<1>k. ASSUME NEW c \in Clients, pipe'[c] = pipe[c], Ahead(c) => Ahead(c)' PROVE Told(c)'
  <2>1. Told(c)
    BY DEF News
  <2> QED
    BY <1>1, <1>k, <2>1, ToldKept
<1>b. ASSUME NEW c \in Clients, Ahead(c), th[Bus].pc \in {"visit", "write"}, Listed(n)
      PROVE  Before(n, c)
  BY <1>b DEF Ahead, At
<1>a. ASSUME NEW c \in Clients, th'[Bus].pc \in {"lock", "visit", "write"},
             th'[Bus].node # NoNode, Before(th'[Bus].node, c)
      PROVE  Ahead(c)'
  <2> DEFINE m == th'[Bus].node
  <2>1. m # NoNode /\ Before(m, c)
    BY <1>a
  <2>2. \E i, k \in DOMAIN list' : i <= k /\ list'[i] = m /\ list'[k] = c
    <3> HIDE DEF m
    <3> QED
      BY <1>1, <2>1 DEF Before
  <2>3. Before(th[Bus].node, c)'
    BY <2>2 DEF Before
  <2> QED
    BY <1>a, <2>3 DEF Ahead
<1>3. CASE ReadHead(Bus)
  <2>1. UNCHANGED pipe
    BY <1>3 DEF ReadHead
  <2>2. CASE list = <<>> /\ Moved(Bus, th[Bus].return, NoNode)
    <3>1. th'[Bus].pc = "poll"
      BY <1>0, <2>2 DEF Moved
    <3>2. \A c \in Clients : th[c].pc \notin {"data", "loop"}
      BY <2>2, InfoClient, NobodyListed
    <3> QED
      BY <1>2, <3>1, <3>2
  <2>3. CASE list # <<>> /\ Moved(Bus, "lock", Head(list)) /\ Head(list) \in Clients
    <3>1. th'[Bus].pc = "lock" /\ th'[Bus].node = Head(list) /\ Head(list) # NoNode
      BY <2>3, SessionConstants DEF Moved
    <3>2. ASSUME NEW c \in Clients, th[c].pc \in {"data", "loop"} PROVE Told(c)'
      <4>1. Before(Head(list), c)
        BY <3>2, InfoClient, ListedBefore
      <4> QED
        BY <1>a, <3>1, <4>1, ToldAhead
    <3> QED
      BY <1>2, <3>1, <3>2
  <2> QED
    BY <1>0, <1>3, <2>2, <2>3, ReadHeadMoves
<1>4. CASE LockList(Bus)
  <2>1. th[Bus].pc = "lock" /\ th'[Bus].pc = "visit" /\ th'[Bus].node = n /\ pipe' = pipe
    BY <1>0, <1>4, LockListMoves DEF Moved, LockList
  <2>2. ASSUME NEW c \in Clients PROVE Ahead(c) => Ahead(c)'
    BY <1>1, <2>1 DEF Ahead, At, Listed, Before
  <2> QED
    BY <1>2, <1>k, <2>1, <2>2
<1>5. CASE Visit(Bus)
  <2>1. th[Bus].pc = "visit" /\ pipe' = pipe
    BY <1>0, <1>5, VisitMoves DEF Visit
  <2>2. CASE n = NoNode /\ Moved(Bus, th[Bus].return, NoNode)
    <3>1. th'[Bus].pc = "poll"
      BY <1>0, <2>2 DEF Moved
    <3>2. \A c \in Clients : ~Ahead(c)
      BY <2>1, <2>2 DEF Ahead, At
    <3> QED
      BY <1>2, <1>k, <2>1, <3>1, <3>2
  <2>3. CASE n # NoNode /\ Listed(n) /\ Moved(Bus, "write", n)
    <3>1. th'[Bus].pc = "write" /\ th'[Bus].node = n
      BY <2>3 DEF Moved
    <3>2. ASSUME NEW c \in Clients PROVE Ahead(c) => Ahead(c)'
      BY <1>a, <1>b, <2>1, <2>3, <3>1
    <3> QED
      BY <1>2, <1>k, <2>1, <2>3, <3>1, <3>2
  <2>4. CASE /\ n # NoNode /\ Listed(n) /\ ~(mode[n] = "info" /\ pipefd[n] # "none")
             /\ \E m \in Successors(n) : Moved(Bus, "visit", m)
    <3>1. PICK m \in Successors(n) : Moved(Bus, "visit", m)
      BY <2>4
    <3>2. th'[Bus].pc = "visit" /\ th'[Bus].node = m
      BY <3>1 DEF Moved
    <3>3. ASSUME NEW c \in Clients, th[c].pc \in {"data", "loop"} PROVE Told(c)'
      <4>1. n # c
        BY <2>4, <3>3, InfoClient
      <4>2. ASSUME Ahead(c) PROVE Ahead(c)'
        <5>1. Before(n, c)
          BY <1>b, <2>1, <2>4, <4>2
        <5>2. m # NoNode /\ Before(m, c)
          BY <4>1, <5>1, NextBefore
        <5> QED
          BY <1>a, <3>2, <5>2
      <4> QED
        BY <1>k, <2>1, <4>2
    <3> QED
      BY <1>2, <3>2, <3>3
  <2>5. n # NoNode => Listed(n)
    BY <1>0, <1>5, VisitMoves
  <2> QED
    BY <1>0, <1>5, <2>2, <2>3, <2>4, <2>5, VisitMoves
<1>6. CASE Write(Bus)
  <2>1. At(Bus, "write") /\ th[Bus].pc = "write" /\ Listed(n) /\ n # NoNode
    BY <1>0, <1>6 DEF Write, At, News, WalkInv, Walking
  <2>2. PICK m \in Successors(n) : Moved(Bus, "visit", m)
    BY <1>0, <1>6, WriteMoves
  <2>3. th'[Bus].pc = "visit" /\ th'[Bus].node = m
    BY <2>2 DEF Moved
  <2>4. ASSUME NEW c \in Clients, th[c].pc \in {"data", "loop"} PROVE Told(c)'
    <3>1. CASE n = c
      <4>1. pipefd[c] = "open"
        BY <2>4, InfoClient
      <4>2. pipe' = [pipe EXCEPT ![c] = Append(pipe[c], th[Bus].msg)]
        BY <1>6, <3>1, <4>1 DEF Write
      <4>3. pipe'[c] = Append(pipe[c], th[Bus].msg)
        BY <4>2 DEF SessionsTypeOK
      <4>4. LastNews(c)'
        BY <1>0, <1>1, <4>3, AppendNews
      <4> QED
        BY <4>4 DEF Told
    <3>2. CASE n # c
      <4>1. pipe'[c] = pipe[c]
        BY <1>0, <3>2, PipesWritten
      <4>2. ASSUME Ahead(c) PROVE Ahead(c)'
        <5>1. Before(n, c)
          BY <1>b, <2>1, <4>2
        <5>2. m # NoNode /\ Before(m, c)
          BY <2>2, <3>2, <5>1, NextBefore
        <5> QED
          BY <1>a, <2>3, <5>2
      <4> QED
        BY <1>k, <4>1, <4>2
    <3> QED
      BY <3>1, <3>2
  <2> QED
    BY <1>2, <2>3, <2>4
<1> QED
  BY <1>3, <1>4, <1>5, <1>6 DEF session_enqueue_info_message

\* Another thread walks: what it writes are announcements.
LEMMA WalkNews ==
    ASSUME SessionsTypeOK, ThreadInv, WalkInv, News, NEW t \in Clients,
           session_enqueue_info_message(t)
    PROVE  News'
<1>0. t \in Threads /\ t # Bus /\ Bus \in Threads /\ \A c \in Clients : c \in Threads
  BY SessionConstants
<1>1. /\ \A c \in Threads : c # t => th'[c] = th[c]
      /\ th[t].pc \in Enqueuing /\ list' = list /\ dev' = dev /\ view' = view
  BY <1>0, WalkMoves DEF Moved
<1>2. th[t].msg = Note /\ th[t].return \in {"pipe", "command", "gone"}
  BY <1>1 DEF ThreadInv
<1>3. th'[t].pc \notin {"data", "loop"}
  BY <1>0, <1>2, WalkMoves DEF Moved
<1>4. th'[Bus] = th[Bus]
  BY <1>0, <1>1
<1>5. ASSUME NEW c \in Clients PROVE Told(c)'
  <2>1. Told(c) /\ (Ahead(c) => Ahead(c)')
    BY <1>1, <1>4, AheadKept DEF News
  <2>2. CASE c = t
    BY <1>3, <2>2 DEF Told, At
  <2>3. CASE c # t /\ pipe'[c] = pipe[c]
    BY <1>0, <1>1, <2>1, <2>3, ToldKept
  <2>4. CASE c # t /\ pipe'[c] = Append(pipe[c], Note)
    <3>1. (NoNews(c) => NoNews(c)') /\ (LastNews(c) => LastNews(c)')
      BY <1>1, <2>4, AppendNews, SessionConstants
    <3>2. th'[c] = th[c]
      BY <1>0, <1>1, <2>4
    <3> QED
      BY <1>1, <2>1, <3>1, <3>2 DEF Told, At
  <2> QED
    BY <1>0, <1>2, <2>2, <2>3, <2>4, PipesWritten
<1>6. At(Bus, "write")' => Listed(th[Bus].node)'
  BY <1>1, <1>4 DEF News, At, Listed
<1> QED
  BY <1>5, <1>6 DEF News

\* A node is added in front, or one is removed: what is ahead stays ahead.
LEMMA ConnectAhead ==
    ASSUME SessionsTypeOK, ListInv, WalkInv, NEW c \in Clients, Connect(c),
           NEW d \in Clients, Ahead(d)
    PROVE  Ahead(d)'
<1> DEFINE n == th[Bus].node
<1>1. th'[Bus] = th[Bus] /\ Bus \in Threads /\ n \in Clients \cup {NoNode}
  BY ClientMoves, SessionConstants, ThreadTypes DEF Moved
<1>2. CASE At(Bus, "head")
  BY <1>1, <1>2 DEF Ahead, At
<1>3. CASE th[Bus].pc \in {"lock", "visit", "write"} /\ n # NoNode
  <2>1. n \in Clients /\ n # c
    BY <1>1, <1>3 DEF WalkInv, Walking, Enqueuing, Connect, At
  <2>2. CASE ~Listed(n)
    <3>1. \A m \in Clients : m = n => ~Listed(m)'
      BY <2>1, <2>2, ConnectList
    <3>2. ~Listed(th[Bus].node)'
      BY <1>1, <2>1, <3>1 DEF Listed
    <3> QED
      BY <1>1, <1>3, <3>2 DEF Ahead
  <2>3. CASE Before(n, d)
    <3> HIDE DEF n
    <3>1. PICK i \in DOMAIN list, k \in DOMAIN list : i <= k /\ list[i] = n /\ list[k] = d
      BY <2>3 DEF Before
    <3>2. i + 1 \in DOMAIN list' /\ k + 1 \in DOMAIN list' /\ list'[i + 1] = n /\ list'[k + 1] = d
      BY <3>1, ConnectList
    <3>3. i + 1 <= k + 1
      BY <3>1 DEF SessionsTypeOK
    <3>4. \E a, b \in DOMAIN list' : a <= b /\ list'[a] = n /\ list'[b] = d
      BY <3>2, <3>3
    <3>5. Before(th[Bus].node, d)'
      BY <1>1, <3>4 DEF Before, n
    <3> QED
      BY <1>1, <1>3, <3>5 DEF Ahead, n
  <2> QED
    BY <1>3, <2>2, <2>3 DEF Ahead, At
<1> QED
  BY <1>2, <1>3 DEF Ahead

LEMMA DestroyAhead ==
    ASSUME SessionsTypeOK, ListInv, NEW c \in Clients, Destroy(c),
           NEW d \in Clients, d # c, Ahead(d)
    PROVE  Ahead(d)'
<1> DEFINE n == th[Bus].node
<1>1. th'[Bus] = th[Bus] /\ Bus \in Threads /\ n \in Clients \cup {NoNode}
  BY DestroyMoves, SessionConstants, ThreadTypes DEF Called
<1>2. CASE At(Bus, "head")
  BY <1>1, <1>2 DEF Ahead, At
<1>3. CASE th[Bus].pc \in {"lock", "visit", "write"} /\ n # NoNode
  <2>1. n \in Clients
    BY <1>1, <1>3
  <2>2. CASE n = c \/ ~Listed(n)
    <3>1. \A m \in Clients : m = n => ~Listed(m)'
      BY <2>1, <2>2, DestroyList
    <3>2. ~Listed(th[Bus].node)'
      BY <1>1, <2>1, <3>1 DEF Listed
    <3> QED
      BY <1>1, <1>3, <3>2 DEF Ahead
  <2>3. CASE n # c /\ Before(n, d)
    <3> HIDE DEF n
    <3>1. PICK i \in DOMAIN list, k \in DOMAIN list : i <= k /\ list[i] = n /\ list[k] = d
      BY <2>3 DEF Before
    <3>2. PICK p \in DOMAIN list :
            /\ list[p] = c /\ list' \in Seq(Clients) /\ Len(list') = Len(list) - 1
            /\ \A j \in 1 .. Len(list) - 1 :
                 list'[j] = IF j < p THEN list[j] ELSE list[j + 1]
      BY DestroyList
    <3> DEFINE g(j) == IF j < p THEN j ELSE j - 1
    <3>3. i # p /\ k # p
      BY <2>3, <3>1, <3>2
    <3>4. /\ Len(list) \in Nat /\ DOMAIN list = 1 .. Len(list)
          /\ DOMAIN list' = 1 .. Len(list) - 1
      BY <3>2 DEF SessionsTypeOK
    <3>5. ASSUME NEW j \in DOMAIN list, j # p
          PROVE  g(j) \in DOMAIN list' /\ list'[g(j)] = list[j]
      <4>1. CASE j < p
        BY <3>2, <3>4, <3>5, <4>1
      <4>2. CASE ~(j < p)
        <5>1. j - 1 \in 1 .. Len(list) - 1 /\ ~(j - 1 < p) /\ (j - 1) + 1 = j
          BY <3>4, <3>5, <4>2
        <5> QED
          BY <3>2, <3>4, <4>2, <5>1
      <4> QED
        BY <4>1, <4>2
    <3>6. g(i) <= g(k)
      BY <3>1, <3>3, <3>4
    <3>7. g(i) \in DOMAIN list' /\ list'[g(i)] = n /\ g(k) \in DOMAIN list' /\ list'[g(k)] = d
      BY <3>1, <3>3, <3>5
    <3> HIDE DEF g
    <3>8. \E a, b \in DOMAIN list' : a <= b /\ list'[a] = n /\ list'[b] = d
      BY <3>6, <3>7
    <3>9. Before(th[Bus].node, d)'
      BY <1>1, <3>8 DEF Before, n
    <3> QED
      BY <1>1, <1>3, <3>9 DEF Ahead, n
  <2> QED
    BY <1>3, <2>2, <2>3 DEF Ahead, At
<1> QED
  BY <1>2, <1>3 DEF Ahead

\* The steps of a client: it is told the device when it joins, and then reads.
LEMMA ClientNews ==
    ASSUME SessionsTypeOK, ListInv, MutexInv, WalkInv, PipeInv, News, NEW c \in Clients,
           \/ Request(c) \/ Begin(c) \/ StartSession(c) \/ Pipe(c) \/ SendData(c) \/ Forward(c)
           \/ Die(c) \/ EndClient(c) \/ ClosePipe(c) \/ Destroy(c)
    PROVE  News'
<1>0. c \in Threads /\ Bus \in Threads /\ c # Bus
  BY SessionConstants
<1>1. /\ dev' = dev /\ th'[Bus] = th[Bus]
      /\ \A d \in Clients : d # c => th'[d] = th[d] /\ pipe'[d] = pipe[d] /\ view'[d] = view[d]
  BY <1>0, ClientThread, ClientPlace, OtherClients
<1>2. ASSUME At(Bus, "write") => \A d \in Clients : Listed(d) => Listed(d)',
             \A d \in Clients : d # c => (Ahead(d) => Ahead(d)'), Told(c)'
      PROVE  News'
  <2>1. \A d \in Clients : Told(d)'
    BY <1>1, <1>2, ToldKept DEF News
  <2>2. ASSUME At(Bus, "write")' PROVE Listed(th[Bus].node)'
    <3> DEFINE n == th[Bus].node
    <3>1. At(Bus, "write") /\ Listed(n)
      BY <1>1, <2>2 DEF At, News
    <3>2. n \in Clients \cup {NoNode} /\ n # NoNode
      BY <1>0, <3>1, ThreadTypes DEF WalkInv, Walking, At
    <3>3. \A m \in Clients : m = n => Listed(m)'
      BY <1>2, <3>1
    <3> QED
      BY <1>1, <3>2, <3>3 DEF Listed
  <2> QED
    BY <2>1, <2>2 DEF News
<1>3. CASE Connect(c)
  <2>1. ~At(Bus, "write") \/ \A d \in Clients : Listed(d) => Listed(d)'
    BY <1>3, ConnectList DEF ListInv, Connect, At
  <2>2. Told(c)'
    BY <1>3, ClientMoves DEF Moved, Told, At
  <2> QED
    BY <1>2, <1>3, <2>1, <2>2, ConnectAhead
<1>4. CASE Destroy(c)
  <2>1. ~At(Bus, "write")
    BY <1>0, <1>4 DEF MutexInv, Destroy, At
  <2>2. Told(c)'
    BY <1>4, DestroyMoves DEF Called, Told, At
  <2> QED
    BY <1>2, <1>4, <2>1, <2>2, DestroyAhead
<1>5. CASE ~Connect(c) /\ ~Destroy(c)
  <2>1. list' = list
    BY <1>5 DEF Request, SetConnectionMode, Register, HangUp, Begin, StartSession, Pipe, SendData,
                Forward, Die, EndClient, ClosePipe, nodeVars
  <2>2. \A d : Ahead(d) => Ahead(d)'
    BY <1>1, <2>1, AheadKept
  <2>3. \A d : Listed(d) => Listed(d)'
    BY <2>1 DEF Listed
  <2>4. Told(c)'
    <3>1. CASE Pipe(c)
      <4>1. pipe'[c] = <<>> /\ th'[c].pc = "data"
        BY <3>1, ClientMoves DEF Pipe, Moved, PipeInv, Piped, Young, At
      <4>2. NoNews(c)'
        BY <4>1 DEF NoNews
      <4> QED
        BY <4>1, <4>2 DEF Told, At
    <3>2. CASE SendData(c)
      <4>1. th[c].pc = "data" /\ th'[c].pc = "loop" /\ pipe' = pipe /\ view'[c] = dev
        BY <3>2, ClientMoves DEF SendData, Moved, SessionsTypeOK
      <4>2. NoNews(c) \/ LastNews(c) \/ Ahead(c)
        BY <4>1 DEF News, Told, At
      <4>3. (NoNews(c) => NoNews(c)') /\ (LastNews(c) => LastNews(c)')
        BY <1>1, <4>1 DEF NoNews, LastNews
      <4> QED
        BY <1>1, <2>2, <4>1, <4>2, <4>3 DEF Told, At
    <3>3. CASE Forward(c)
      <4>1. th[c].pc = "loop" /\ th' = th
        BY <3>3 DEF Forward, At
      <4>2. (NoNews(c) /\ view[c] = dev) \/ LastNews(c) \/ Ahead(c)
        BY <4>1 DEF News, Told, At
      <4>3. (NoNews(c)' /\ view'[c] = dev) \/ LastNews(c)' \/ Ahead(c)'
        BY <2>2, <3>3, <4>2, ForwardNews
      <4> QED
        BY <1>1, <4>1, <4>3 DEF Told, At
    <3>4. CASE SetConnectionMode(c)
      BY <3>4 DEF SetConnectionMode, Told, At
    <3>5. CASE \/ Register(c) \/ Begin(c) \/ StartSession(c) \/ HangUp(c) \/ Die(c)
               \/ EndClient(c) \/ ClosePipe(c)
      <4>1. th'[c].pc \notin {"data", "loop"}
        BY <3>5, ClientMoves, StartMoves DEF Moved, Called
      <4> QED
        BY <4>1 DEF Told, At
    <3> QED
      BY <1>5, <3>1, <3>2, <3>3, <3>4, <3>5 DEF Request
  <2> QED
    BY <1>2, <2>2, <2>3, <2>4
<1> QED
  BY <1>3, <1>4, <1>5

LEMMA NewsInvStep ==
    ASSUME SessionsTypeOK, ThreadInv, ListInv, MutexInv, WalkInv, PipeInv, NewsInv,
           [SessionsNext]_sessionVars
    PROVE  NewsInv'
<1>0. Bus \in Threads /\ \A c \in Clients : c \in Threads /\ c # Bus
  BY SessionConstants
<1> SUFFICES ASSUME ~dangling', ~At(Bus, "gone")' PROVE News'
  BY DEF NewsInv
<1>1. CASE session_enqueue_info_message(Bus)
  <2>1. ~dangling /\ ~At(Bus, "gone")
    <3>1. ~At(Bus, "gone")
      BY <1>0, <1>1, WalkMoves DEF Enqueuing, At
    <3>2. ~dangling
      BY <1>1 DEF session_enqueue_info_message, ReadHead, LockList, Visit, Write
    <3> QED
      BY <3>1, <3>2
  <2>2. News
    BY <2>1 DEF NewsInv
  <2> QED
    BY <1>1, <2>2, BusNews
<1>2. CASE ChangeDevice
  <2>1. th'[Bus].pc = "head"
    BY <1>2, ChangeMoves DEF Called
  <2> QED
    BY <2>1 DEF News, Told, Ahead, At
<1>3. CASE Die(Bus)
  <2>1. th'[Bus].pc = "gone"
    BY <1>3, BusDies DEF Moved
  <2> QED
    BY <2>1 DEF At
<1>4. ASSUME NEW c \in Clients, Request(c) \/ thr_doClient(c) PROVE News'
  <2>1. CASE session_enqueue_info_message(c)
    <3>1. th'[Bus] = th[Bus]
      BY <1>0, <2>1, WalkMoves DEF Moved
    <3>2. ~dangling
      BY <2>1 DEF session_enqueue_info_message, ReadHead, LockList, Visit, Write
    <3>3. News
      BY <3>1, <3>2 DEF NewsInv, At
    <3> QED
      BY <2>1, <3>3, WalkNews
  <2>2. CASE ~session_enqueue_info_message(c)
    <3>1. \/ Request(c) \/ Begin(c) \/ StartSession(c) \/ Pipe(c) \/ SendData(c) \/ Forward(c)
          \/ Die(c) \/ EndClient(c) \/ ClosePipe(c) \/ Destroy(c)
      BY <1>4, <2>2 DEF thr_doClient
    <3>2. th'[Bus] = th[Bus] /\ dangling' = dangling
      BY <1>0, <3>1, ClientPlace
    <3>3. News
      BY <3>2 DEF NewsInv, At
    <3> QED
      BY <3>1, <3>3, ClientNews
  <2> QED
    BY <2>1, <2>2
<1>5. CASE Shutdown \/ cancel_all_threads \/ UNCHANGED sessionVars
  <2>1. UNCHANGED <<th, list, pipe, view, dev, dangling>>
    BY <1>5 DEF Shutdown, cancel_all_threads, JoinBus, terminate_all_sessions, TestSessions,
                CancelSessions, WaitSessions, WakeMain, nodeVars, sessionVars
  <2>2. News
    BY <2>1 DEF NewsInv, At
  <2>3. \A c \in Clients : Told(c)'
    BY <2>1, <2>2, ToldKept, AheadKept DEF News
  <2>4. At(Bus, "write")' => Listed(th[Bus].node)'
    BY <2>1, <2>2 DEF News, At, Listed
  <2> QED
    BY <2>3, <2>4 DEF News
<1> QED
  BY <1>1, <1>2, <1>3, <1>4, <1>5 DEF SessionsNext, BusThread

LEMMA NewsInit == SessionsInit => MutexInv /\ WalkInv /\ PipeInv /\ NewsInv
<1> SUFFICES ASSUME SessionsInit PROVE MutexInv /\ WalkInv /\ PipeInv /\ NewsInv
  OBVIOUS
<1>1. /\ th[Bus].pc = "poll" /\ \A c \in Clients : th[c].pc = "none"
      /\ \A t \in Threads : th[t].pc \in {"none", "poll"}
      /\ \A c \in Clients : pipefd[c] = "none" /\ pipe[c] = <<>>
  BY SessionConstants DEF SessionsInit
<1>2. MutexInv
  BY <1>1 DEF MutexInv, SessionsInit
<1>3. WalkInv
  BY <1>1 DEF WalkInv, Walking, At, Enqueuing
<1>4. PipeInv
  BY <1>1 DEF PipeInv, Piped, Enqueuing
<1>5. NewsInv
  BY <1>1 DEF NewsInv, News, Told, At
<1> QED
  BY <1>2, <1>3, <1>4, <1>5

LEMMA NothingAhead == NewsInv => InfoIsComplete
<1> SUFFICES ASSUME NewsInv, NEW c \in Clients, At(c, "loop"), pipe[c] = <<>>, At(Bus, "poll"),
                    ~dangling
             PROVE  view[c] = dev
  BY DEF InfoIsComplete
<1>1. (NoNews(c) /\ view[c] = dev) \/ LastNews(c) \/ Ahead(c)
  BY DEF NewsInv, News, Told, At
<1>2. ~LastNews(c)
  <2>1. DOMAIN pipe[c] = {}
    OBVIOUS
  <2> QED
    BY <2>1 DEF LastNews
<1>3. ~Ahead(c)
  BY DEF Ahead, At
<1> QED
  BY <1>1, <1>2, <1>3

\* No message is lost: whenever an INFO client joined, it knows the device once
\* its pipe is empty and the bus thread is through with its walk.  Until then
\* the last change is in its pipe, or the walk has yet to come to its node;
\* nodes that are added in front or removed meanwhile do not hide it.
THEOREM InfoIsCompleteHolds == SessionsSpec => []InfoIsComplete
<1> DEFINE Inv == /\ SessionsTypeOK /\ ThreadInv /\ ListInv /\ MutexInv
                  /\ WalkInv /\ PipeInv /\ NewsInv
<1>1. SessionsInit => Inv
  BY SessionsTypeInit, ThreadInit, ListInit, NewsInit
<1>2. Inv /\ [SessionsNext]_sessionVars => Inv'
  BY SessionsTypeStep, ThreadInvStep, ListInvStep, MutexInvStep, WalkInvStep, PipeInvStep,
     NewsInvStep
<1>3. Inv => InfoIsComplete
  BY NothingAhead
<1> QED
  BY <1>1, <1>2, <1>3, PTL DEF SessionsSpec

=============================================================================
