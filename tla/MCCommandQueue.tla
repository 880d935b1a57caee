--------------------------- MODULE MCCommandQueue ----------------------------
(* Two sessions and the bus thread on a ring of three slots (two usable), so *)
(* that full, empty, wrapped and overrun buffers all occur.                  *)
EXTENDS CommandQueue, TLC

CONSTANTS s1, s2, go, halt

MCSessions == {s1, s2}
MCCommands == {go, halt}
=============================================================================
