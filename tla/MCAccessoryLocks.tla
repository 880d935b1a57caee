-------------------------- MODULE MCAccessoryLocks ---------------------------
(* Two sessions and two addresses, so that unlock_ga_bysessionid has to walk *)
(* while another session and the main thread change what it walks over.      *)
EXTENDS AccessoryLocks

CONSTANTS s1, s2

MCSessions == {s1, s2}
MCDurations == {0, 2}
=============================================================================
