---------------------------- MODULE MCLocomotives ----------------------------
(* Two sessions, two addresses and a queue that holds two commands: enough   *)
(* for a full queue, for one that two sessions overrun, also while the bus   *)
(* thread reads, for a lock wanted twice and a lock counted down twice per   *)
(* second.  MaxCommands commands in any order, then only the threads run on. *)
EXTENDS Locomotives, TLC

CONSTANTS s1, s2

MCSessions == {s1, s2}
MCDurations == {0, 2}

Symmetry == Permutations(MCSessions)
=============================================================================
