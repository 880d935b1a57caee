--------------------------- MODULE MCServiceDrivers ---------------------------
(* Two sessions and the SM queue as it is: QUEUELEN 2, so that one command   *)
(* fits.  Three calls are enough for an answer that comes after a time-out   *)
(* to meet the next call of the same session and a call of the other one.    *)
(* With the Intellibox: the power is switched three times, at the box or by  *)
(* a session, the locomotive is driven three times, each is done once, two   *)
(* calls program, or one initializes, terminates or verifies.                *)
EXTENDS ServiceDrivers, TLC

CONSTANTS s1, s2, bus

MCSessions == {s1, s2}

Bound(switch, drive, program, ops) ==
  [switch |-> switch, drive |-> drive, program |-> program, ops |-> ops]
MCBounds ==
  {Bound(3, 0, 0, {}), Bound(0, 3, 0, {}), Bound(1, 1, 0, {}),
   Bound(0, 0, 2, {"GET", "SET"}), Bound(0, 0, 1, {"VERIFY", "INIT"})}
=============================================================================
