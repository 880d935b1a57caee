----------------------------- MODULE CommandFifo -----------------------------
(* What PROGRAMMING-HOWTO promises of the command queue of a device group:   *)
(* "The queues are simple first-in-first-out queues."  Commands are put by   *)
(* the sessions, at most Capacity of them wait, and the bus thread takes     *)
(* them in the order in which they were put.                                 *)
EXTENDS Sequences, Naturals

CONSTANTS Commands,     \* the commands of the device group
          Capacity,     \* how many commands may wait
          NoCommand     \* what the bus thread holds before its first command

VARIABLES pending,      \* the commands that wait, oldest first
          taken         \* the command the bus thread took last

fifoVars == <<pending, taken>>

Init == /\ pending = <<>>
        /\ taken = NoCommand

Put(c) == /\ Len(pending) < Capacity
          /\ pending' = Append(pending, c)
          /\ UNCHANGED taken

Take == /\ pending # <<>>
        /\ taken' = Head(pending)
        /\ pending' = Tail(pending)

Next == Take \/ \E c \in Commands : Put(c)

Spec == Init /\ [][Next]_fifoVars
=============================================================================
