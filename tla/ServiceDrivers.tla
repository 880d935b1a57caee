---------------------------- MODULE ServiceDrivers -----------------------------
(***************************************************************************)
(* The SM group with either driver that is modelled: a session calls infoSM *)
(* and waits on the condition of the bus, whoever answers it.              *)
(* The loopback driver (ServiceMode) answers under cb_mutex, and at once;  *)
(* the Intellibox (Intellibox) without it, when the box has told the       *)
(* result, and does much else. A behavior is about one of them.            *)
(***************************************************************************)
EXTENDS ServiceMode

CONSTANTS Bounds   \* of Intellibox

VARIABLES
  driver,
  power, changed, setting, emergency_on_ib, asked, missed,   \* of Intellibox
  boxPower, events, ret, ev,
  glqueue, gltmp, known, cache, many, loco, sure, blurred,
  pt_initialized, last, track, prog, may

I == INSTANCE Intellibox
own == <<power, changed, setting, emergency_on_ib, asked, missed, boxPower, events, ret,
         ev, glqueue, gltmp, known, cache, many, loco, sure, blurred, pt_initialized,
         last, track, prog, may>>
all == <<driver, vars, own>>

InitEither ==
  \/ /\ driver = "LOOPBACK" /\ Init
     /\ I!InitDriver(FALSE, FALSE, 0, [switch |-> 0, drive |-> 0, ops |-> {}])
  \/ driver = "IB" /\ smtmp = <<>> /\ I!Init

Loopback(A) == driver = "LOOPBACK" /\ A /\ UNCHANGED <<driver, own>>
Intellibox(A) == driver = "IB" /\ A /\ UNCHANGED <<driver, smtmp>>
NextEither == Loopback(Next) \/ Intellibox(I!Next)

\* As in the two modules, whose actions these are.
Fairness ==
  /\ WF_all(Loopback(handle_sm_command) \/ Intellibox(I!thr_sendrec_IB))
  /\ \A s \in Sessions : WF_all(Loopback(infoSM(s)))
  /\ WF_all(Intellibox(I!SetPowerFlag))
SpecEither == InitEither /\ [][NextEither]_all /\ Fairness

-----------------------------------------------------------------------------
\* OwnAnswer of ServiceMode is about the sessions alone: it is the same for both
\* drivers, whoever broadcasts on cb_cond, with or without cb_mutex.

\* With the loopback driver, which takes cb_mutex before it answers, every call of
\* infoSM returns without its time-out of 90 seconds.
LoopbackReturns == driver = "LOOPBACK" => CallReturns

\* A stop at the Intellibox is not undone by the server itself.
StopHolds == I!StopHolds

\* In the end clients and Intellibox agree about the power and the locomotive,
\* whoever switched or drove last.
BoxAgrees == I!BoxAgrees
=============================================================================
