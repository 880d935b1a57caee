----------------------------- MODULE MCAccessories ----------------------------
(* Two sessions that command one decoder with two ports while the table of   *)
(* pulses has two entries: the ports disturb each other through the one      *)
(* action of the address, a third pulse finds the table full.                *)
EXTENDS Accessories

CONSTANTS s1, s2

MCSessions == {s1, s2}
=============================================================================
