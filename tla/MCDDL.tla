--------------------------------- MODULE MCDDL ---------------------------------
(* A Maerklin locomotive with two function packets and one on NMRA, an        *)
(* accessory, and a session that sets the power.                              *)
EXTENDS DDL

CONSTANTS s1, m1, n1, ga1, ga2, addr81, addr128

OneSession == {s1}
NoSession == {}
Maerklin == {m1}
NMRA == {n1}
OnePort == {ga1}
TwoPorts == {ga1, ga2}
None == {}

\* Not a function without the speed: one part changes, or both.
OnInOrder == {want \in Contents : \A p \in 1 .. NF : want[p] = "on" => want[p - 1] = "on"}
=============================================================================
