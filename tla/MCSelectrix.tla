---------------------------- MODULE MCSelectrix ----------------------------
(* Two feedback modules on two buses that are polled; the same with the    *)
(* interface reporting changes; and a CC2000 without modules whose         *)
(* interface reports changes, too.                                         *)
EXTENDS Selectrix

Two    == [fb |-> 2, rths |-> TRUE, dbl |-> TRUE, auto |-> FALSE, cc |-> FALSE]
Auto   == [fb |-> 2, rths |-> TRUE, dbl |-> TRUE, auto |-> TRUE, cc |-> FALSE]
CC2000 == [fb |-> 0, rths |-> TRUE, dbl |-> FALSE, auto |-> TRUE, cc |-> TRUE]

MCModes == {Two, Auto, CC2000}
MCModuleBus == <<0, 1>>
=============================================================================
