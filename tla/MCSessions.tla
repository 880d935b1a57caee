------------------------------ MODULE MCSessions ------------------------------
(* Two connections, of either kind, a device that changes once, and pipes of *)
(* one message, which one announcement of a session fills.                   *)
EXTENDS Sessions

CONSTANTS c1, c2, bus, main

MCClients == {c1, c2}
=============================================================================
