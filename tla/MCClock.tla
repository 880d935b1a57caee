------------------------------ MODULE MCClock ------------------------------
(* Two sessions; a day of two hours of one minute of two seconds, so that  *)
(* each carry happens; a WAIT FB polls at most three times.                *)
EXTENDS Clock

Time(d, h, m, s) == [day |-> d, hour |-> h, min |-> m, sec |-> s]

MCSetTimes  == {Time(0, 0, 0, 1)}
MCWaitTimes == {Time(0, 1, 0, 0)}
=============================================================================
