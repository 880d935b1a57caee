----------------------------- MODULE MCFeedback -------------------------------
(* Two contacts, so that the reset of one can keep that of the other waiting *)
(* in the queue, one session that interferes once, a queue of three resets.  *)
EXTENDS Feedback

CONSTANTS p1, p2, bus, s1

MCPorts == {p1, p2}
MCSessions == {s1}
=============================================================================
