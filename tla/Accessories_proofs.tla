-------------------------- MODULE Accessories_proofs --------------------------
(* Proofs about switching, pulses and power, for every number of addresses,  *)
(* ports, sessions and entries of tga[], and any number of commands.         *)
EXTENDS Accessories, TLAPS

-----------------------------------------------------------------------------
(* Type correctness. *)

LEMMA ConstantFacts ==
    /\ 1 \in Addr /\ 1 \in 1 .. Slots /\ AnyPort \in Ports
    /\ Free \in [id : Addr \cup {0}, port : Ports, wait : Nat]
    /\ NoCommand \in Command
    /\ \A a \in Addr : a # 0
<1>1. 1 \in Addr /\ 1 \in 1 .. Slots /\ AnyPort \in Ports
  BY AccessoriesAssumption DEF Addr, AnyPort
<1> QED
  BY <1>1, AccessoriesAssumption DEF Free, NoCommand, Command, Addr

LEMMA TypeInit == Init => TypeOK
<1> SUFFICES ASSUME Init PROVE TypeOK
  OBVIOUS
<1>1. queue \in Seq(Command) /\ Len(queue) < QUEUELEN
  BY AccessoriesAssumption DEF Init
<1> QED
  BY <1>1, ConstantFacts, AccessoriesAssumption DEF Init, TypeOK, Idle

LEMMA RequestType ==
    ASSUME TypeOK, NEW s \in Sessions, Request(s) PROVE TypeOK'
<1> USE DEF TypeOK, Begin, Idle
<1>1. CASE EnqueueGA(s)
  <2>1. PICK c \in Command :
          queue' \in IF queue_isfull THEN {queue, <<>>} ELSE {Append(queue, c)}
    BY <1>1 DEF EnqueueGA
  <2>2. queue' \in Seq(Command) /\ Len(queue') < QUEUELEN
    <3>1. CASE queue_isfull
      <4>1. queue' = queue \/ queue' = <<>>
        BY <2>1, <3>1
      <4>2. <<>> \in Seq(Command) /\ Len(<<>>) = 0
        OBVIOUS
      <4>3. queue \in Seq(Command) /\ Len(queue) < QUEUELEN /\ 0 < QUEUELEN
        BY AccessoriesAssumption
      <4>4. CASE queue' = queue
        BY <4>3, <4>4
      <4>5. CASE queue' = <<>>
        BY <4>2, <4>3, <4>5
      <4> QED
        BY <4>1, <4>4, <4>5
    <3>2. CASE ~queue_isfull
      <4>1. queue' = Append(queue, c)
        BY <2>1, <3>2
      <4> QED
        BY <3>2, <4>1, AccessoriesAssumption DEF queue_isfull
    <3> QED
      BY <3>1, <3>2
  <2> QED
    BY <1>1, <2>2, ConstantFacts DEF EnqueueGA, cacheVars, powerVars, busVars, infoVars
<1>2. CASE InitGA(s)
  BY <1>2, ConstantFacts DEF InitGA, powerVars, busVars, infoVars
<1>3. CASE TermGA(s)
  BY <1>3, ConstantFacts DEF TermGA, cacheVars, powerVars, busVars, infoVars
<1>4. CASE SetPower(s)
  BY <1>4, ConstantFacts DEF SetPower, cacheVars, busVars, infoVars
<1>5. CASE TermPower(s)
  BY <1>5, ConstantFacts DEF TermPower, cacheVars, busVars, infoVars
<1> QED
  BY <1>1, <1>2, <1>3, <1>4, <1>5 DEF Request

LEMMA StepType ==
    ASSUME TypeOK, NEW s \in Sessions, Step(s) PROVE TypeOK'
<1> USE DEF TypeOK, End, Idle
<1>1. CASE ResetGA(s)
  BY <1>1, ConstantFacts DEF ResetGA, powerVars, busVars, infoVars
<1>2. CASE ClearGA(s)
  BY <1>2, ConstantFacts DEF ClearGA, powerVars, busVars
<1>3. CASE PowerChanged(s)
  BY <1>3, ConstantFacts DEF PowerChanged, cacheVars, busVars, infoVars
<1> QED
  BY <1>1, <1>2, <1>3 DEF Step

\* The loop over tga[] stays inside it.
LEMMA NextPulseType ==
    ASSUME TypeOK, NextPulse
    PROVE  k' \in 1 .. Slots /\ rpc' \in {"queue", "pulse"}
<1>1. k \in 1 .. Slots /\ Slots \in Nat
  BY AccessoriesAssumption DEF TypeOK
<1> QED
  BY <1>1 DEF NextPulse

LEMMA TellType ==
    ASSUME TypeOK, NEW a \in Addr, NEW p \in Ports, NEW on \in {"on", "pulse"}, Tell(a, p, on)
    PROVE  told' \in [Addr -> [Ports -> {"off", "on", "pulse"}]]
  BY DEF TypeOK, Tell

LEMMA BusType ==
    ASSUME TypeOK, thr_sendrec_LOOPBACK PROVE TypeOK'
<1> USE DEF TypeOK
<1>1. CASE TestPower
  BY <1>1 DEF TestPower, cacheVars, infoVars
<1>2. CASE AnnouncePower
  BY <1>2 DEF AnnouncePower, cacheVars, powerVars
<1>3. CASE Gate
  BY <1>3, ConstantFacts DEF Gate, Over, cacheVars, powerVars, infoVars
<1>4. CASE EndPulse
  <2>1. tga' \in [1 .. Slots -> [id : Addr \cup {0}, port : Ports, wait : Nat]]
    BY <1>4, ConstantFacts DEF EndPulse
  <2>2. k' \in 1 .. Slots /\ rpc' \in {"off", "queue", "pulse"}
    BY <1>4, NextPulseType DEF EndPulse
  <2> QED
    BY <1>4, <2>1, <2>2 DEF EndPulse, cacheVars, powerVars, infoVars
<1>5. CASE SwitchOff
  BY <1>5 DEF SwitchOff, powerVars, infoVars
<1>6. CASE InfoOff
  <2>1. tga' \in [1 .. Slots -> [id : Addr \cup {0}, port : Ports, wait : Nat]]
    BY <1>6, ConstantFacts DEF InfoOff
  <2>2. k' \in 1 .. Slots /\ rpc' \in {"queue", "pulse"}
    BY <1>6, NextPulseType DEF InfoOff
  <2>3. told' \in [Addr -> [Ports -> {"off", "on", "pulse"}]]
    BY <1>6 DEF InfoOff, Tell
  <2> QED
    BY <1>6, <2>1, <2>2, <2>3 DEF InfoOff, cacheVars, powerVars
<1>7. CASE TakeGA
  <2>1. /\ queue' \in Seq(Command) /\ Len(queue') < QUEUELEN
        /\ gatmp' \in Command
    <3>1. CASE queue = <<>>
      BY <1>7, <3>1 DEF TakeGA
    <3>2. CASE queue # <<>>
      <4>1. /\ Head(queue) \in Command /\ Tail(queue) \in Seq(Command)
            /\ Len(Tail(queue)) = Len(queue) - 1 /\ Len(queue) \in Nat
        BY <3>2
      <4>2. gatmp' = Head(queue) /\ queue' = Tail(queue)
        BY <1>7, <3>2 DEF TakeGA
      <4>3. Len(queue) < QUEUELEN /\ QUEUELEN \in Nat
        BY AccessoriesAssumption
      <4> QED
        BY <4>1, <4>2, <4>3
    <3> QED
      BY <3>1, <3>2
  <2> QED
    BY <1>7, <2>1 DEF TakeGA, cacheVars, powerVars, infoVars
<1>8. CASE SwitchGA
  BY <1>8 DEF SwitchGA, Command, powerVars, infoVars
<1>9. CASE InfoGA
  <2>1. told' \in [Addr -> [Ports -> {"off", "on", "pulse"}]]
    BY <1>9 DEF InfoGA, Tell
  <2> QED
    BY <1>9, <2>1 DEF InfoGA, cacheVars, powerVars
<1>10. CASE StorePulse
  <2>1. Pulse(gatmp) \in [id : Addr \cup {0}, port : Ports, wait : Nat]
    BY AccessoriesAssumption DEF Pulse, Command
  <2>2. tga' \in [1 .. Slots -> [id : Addr \cup {0}, port : Ports, wait : Nat]]
    <3>1. \A i \in 1 .. Slots : tga'[i] \in {Pulse(gatmp), tga[i]}
      BY <1>10 DEF StorePulse
    <3>2. tga' = [i \in 1 .. Slots |-> tga'[i]]
      BY <1>10 DEF StorePulse
    <3>3. \A i \in 1 .. Slots : tga'[i] \in [id : Addr \cup {0}, port : Ports, wait : Nat]
      BY <2>1, <3>1
    <3> QED
      BY <3>2, <3>3
  <2> QED
    BY <1>10, <2>2, ConstantFacts DEF StorePulse, cacheVars, powerVars, infoVars
<1> QED
  BY <1>1, <1>2, <1>3, <1>4, <1>5, <1>6, <1>7, <1>8, <1>9, <1>10 DEF thr_sendrec_LOOPBACK

LEMMA TypeStep == TypeOK /\ [Next]_vars => TypeOK'
<1>1. ASSUME TypeOK, Tick PROVE TypeOK'
  <2>1. tga' \in [1 .. Slots -> [id : Addr \cup {0}, port : Ports, wait : Nat]]
    <3>1. ASSUME NEW i \in 1 .. Slots
          PROVE  [tga[i] EXCEPT !.wait = IF @ > 0 THEN @ - 1 ELSE 0]
                   \in [id : Addr \cup {0}, port : Ports, wait : Nat]
      <4>1. tga[i] \in [id : Addr \cup {0}, port : Ports, wait : Nat]
        BY <1>1 DEF TypeOK
      <4>2. (IF tga[i].wait > 0 THEN tga[i].wait - 1 ELSE 0) \in Nat
        BY <4>1
      <4> QED
        BY <4>1, <4>2
    <3> QED
      BY <1>1, <3>1 DEF Tick
  <2> QED
    BY <1>1, <2>1 DEF Tick, TypeOK, cacheVars, powerVars, busVars, infoVars
<1>2. ASSUME TypeOK, UNCHANGED vars PROVE TypeOK'
  BY <1>2 DEF TypeOK, vars, cacheVars, powerVars, busVars, infoVars
<1> QED
  BY <1>1, <1>2, RequestType, StepType, BusType DEF Next

\* Everything stays in its type: the loop over the pulses and the cursor into
\* the table never leave it, the queue never overflows.
THEOREM TypeCorrect == Spec => []TypeOK
  BY TypeInit, TypeStep, PTL DEF Spec
-----------------------------------------------------------------------------
(* Power.                                                                    *)
(*                                                                           *)
(* PowerIsTold is inductive by itself: who changes the state goes on to set  *)
(* the flag, who resets the flag goes on to read the state.  For the second  *)
(* property the bus thread passes the gate only while the power is on, and   *)
(* whoever switches it off afterwards raises the flag before it is settled.  *)

LEMMA PowerInit == Init => PowerIsTold /\ NothingWithoutPower
  BY DEF Init, PowerIsTold, NothingWithoutPower, PowerSettled

LEMMA PowerRequest ==
    ASSUME TypeOK, PowerIsTold, NothingWithoutPower, NEW s \in Sessions, Request(s) \/ Step(s)
    PROVE  PowerIsTold' /\ NothingWithoutPower'
<1> USE DEF TypeOK, PowerIsTold, NothingWithoutPower, PowerSettled
<1>1. CASE EnqueueGA(s) \/ InitGA(s) \/ TermGA(s)
  BY <1>1 DEF EnqueueGA, InitGA, TermGA, Begin, Idle, cacheVars, powerVars, busVars, infoVars
<1>2. CASE SetPower(s)
  BY <1>2 DEF SetPower, Begin, busVars, infoVars
<1>3. CASE TermPower(s)
  BY <1>3 DEF TermPower, Begin, Idle, busVars, infoVars
<1>4. CASE ResetGA(s) \/ ClearGA(s)
  BY <1>4 DEF ResetGA, ClearGA, End, Idle, powerVars, busVars, infoVars
<1>5. CASE PowerChanged(s)
  BY <1>5 DEF PowerChanged, End, Idle, busVars, infoVars
<1> QED
  BY <1>1, <1>2, <1>3, <1>4, <1>5 DEF Request, Step

LEMMA PowerBus ==
    ASSUME TypeOK, PowerIsTold, NothingWithoutPower, thr_sendrec_LOOPBACK
    PROVE  PowerIsTold' /\ NothingWithoutPower'
<1> USE DEF TypeOK, PowerIsTold, NothingWithoutPower, PowerSettled
<1>1. CASE TestPower
  BY <1>1 DEF TestPower, infoVars
<1>2. CASE AnnouncePower
  BY <1>2 DEF AnnouncePower, powerVars
<1>3. CASE Gate
  BY <1>3 DEF Gate, powerVars, infoVars
<1>4. CASE EndPulse \/ SwitchOff \/ InfoOff
  BY <1>4 DEF EndPulse, SwitchOff, InfoOff, NextPulse, powerVars, infoVars
<1>5. CASE TakeGA \/ SwitchGA \/ InfoGA \/ StorePulse
  BY <1>5 DEF TakeGA, SwitchGA, InfoGA, StorePulse, powerVars, infoVars
<1> QED
  BY <1>1, <1>2, <1>3, <1>4, <1>5 DEF thr_sendrec_LOOPBACK

LEMMA PowerStep ==
    TypeOK /\ PowerIsTold /\ NothingWithoutPower /\ [Next]_vars
      => PowerIsTold' /\ NothingWithoutPower'
<1>1. ASSUME PowerIsTold, NothingWithoutPower, Tick \/ UNCHANGED vars
      PROVE  PowerIsTold' /\ NothingWithoutPower'
  BY <1>1 DEF PowerIsTold, NothingWithoutPower, PowerSettled, Tick, vars, powerVars,
     busVars, infoVars
<1> QED
  BY <1>1, PowerRequest, PowerBus DEF Next

\* The clients know the power as soon as nobody is setting or announcing it:
\* no setting of the power is lost between the sessions and the bus thread.
THEOREM PowerToldHolds == Spec => []PowerIsTold
  BY TypeInit, TypeStep, PowerInit, PowerStep, PTL DEF Spec

\* After the power was announced off the bus thread switches nothing until it
\* is set again.
THEOREM PowerOffHolds == Spec => []NothingWithoutPower
  BY TypeInit, TypeStep, PowerInit, PowerStep, PTL DEF Spec

-----------------------------------------------------------------------------
(* Pulses.                                                                   *)
(*                                                                           *)
(* PulseIsKept speaks of the time when the bus thread is not about to store  *)
(* a pulse.  The invariant adds that place, and what keeps an entry from     *)
(* being freed too early: an address that is not initialised has no port     *)
(* that is on, and what is told at the end of a pulse is "off", because only *)
(* the bus thread itself ever sets an action.                                *)

Kept(a, p) == \E i \in 1 .. Slots : tga[i].id = a /\ tga[i].port = p

AboutToKeep(a, p) == /\ rpc = "store"
                     /\ gatmp.id = a /\ gatmp.port = p
                     /\ gatmp.action = 1 /\ gatmp.activetime > 0

AllKept == \A a \in Addr : \A p \in Ports :
    told[a][p] = "pulse" /\ ~full => Kept(a, p) \/ AboutToKeep(a, p)

OnIsKnown == \A a \in Addr : \A p \in Ports : told[a][p] # "off" => initialised[a]

TellsOff == rpc = "offinfo" => action[tga[k].id] = 0

TellsOn == rpc = "oninfo" /\ action[gatmp.id] # 0 => gatmp.action = 1

Busy == rpc \in {"off", "offinfo"} => tga[k].id \in Addr

PulseInv == AllKept /\ OnIsKnown /\ TellsOff /\ TellsOn /\ Busy

LEMMA PulseInit == Init => PulseInv
<1> SUFFICES ASSUME Init PROVE PulseInv
  OBVIOUS
<1>1. \A a \in Addr : \A p \in Ports : told[a][p] = "off"
  BY DEF Init
<1> QED
  BY <1>1 DEF Init, PulseInv, AllKept, OnIsKnown, TellsOff, TellsOn, Busy

LEMMA PulseRequest ==
    ASSUME TypeOK, PulseInv, NEW s \in Sessions, Request(s) PROVE PulseInv'
<1> USE DEF PulseInv
<1>1. UNCHANGED <<tga, rpc, k, gatmp, told, full, action>>
  BY DEF Request, EnqueueGA, InitGA, TermGA, SetPower, TermPower, cacheVars, busVars, infoVars
<1>2. \A a \in Addr : initialised[a] => initialised'[a]
  BY DEF TypeOK, Request, EnqueueGA, InitGA, TermGA, SetPower, TermPower, cacheVars
<1>3. AllKept'
  BY <1>1 DEF AllKept, Kept, AboutToKeep
<1>4. OnIsKnown'
  BY <1>1, <1>2 DEF OnIsKnown
<1> QED
  BY <1>1, <1>3, <1>4 DEF TellsOff, TellsOn, Busy

LEMMA PulseSession ==
    ASSUME TypeOK, PulseInv, NEW s \in Sessions, Step(s) PROVE PulseInv'
<1> USE DEF PulseInv
<1>1. UNCHANGED <<tga, rpc, k, gatmp, full>>
  BY DEF Step, ResetGA, ClearGA, PowerChanged, busVars
<1>2. \A a \in Addr : action'[a] \in {0, action[a]}
  BY DEF TypeOK, Step, ResetGA, ClearGA, PowerChanged, cacheVars
<1>3. ASSUME NEW a \in Addr, NEW p \in Ports, told'[a][p] # "off"
      PROVE  told[a][p] = told'[a][p] /\ initialised'[a] = initialised[a]
  BY <1>3 DEF TypeOK, Step, ResetGA, ClearGA, PowerChanged, cacheVars, infoVars
<1>4. AllKept'
  BY <1>1, <1>3 DEF AllKept, Kept, AboutToKeep
<1>5. OnIsKnown'
  BY <1>3 DEF OnIsKnown
<1>6. gatmp.id \in Addr
  BY DEF TypeOK, Command
<1>7. TellsOff' /\ TellsOn' /\ Busy'
  BY <1>1, <1>2, <1>6 DEF TellsOff, TellsOn, Busy
<1> QED
  BY <1>4, <1>5, <1>7

\* Turns of the bus thread that neither tell nor store anything.
LEMMA PulseQuiet ==
    ASSUME TypeOK, PulseInv, UNCHANGED <<initialised, told, full>>,
           rpc # "store", rpc' \notin {"oninfo", "offinfo"},
           rpc' = "off" => tga'[k'].id \in Addr,
           \A a \in Addr : \A p \in Ports : told[a][p] # "off" /\ Kept(a, p) => Kept(a, p)'
    PROVE  PulseInv'
<1>1. AllKept'
  BY DEF PulseInv, AllKept, AboutToKeep
<1> QED
  BY <1>1 DEF PulseInv, OnIsKnown, TellsOff, TellsOn, Busy

LEMMA PulseTurn ==
    ASSUME TypeOK, PulseInv, TestPower \/ AnnouncePower \/ Gate \/ EndPulse \/ TakeGA
    PROVE  PulseInv'
<1>1. CASE TestPower \/ AnnouncePower \/ Gate \/ TakeGA
  <2>1. /\ UNCHANGED <<initialised, told, full, tga>> /\ rpc # "store"
        /\ rpc' \in {"announce", "gate", "power", "pulse", "on", "store"}
    BY <1>1 DEF TestPower, AnnouncePower, Gate, TakeGA, cacheVars, infoVars
  <2>2. \A a \in Addr : \A p \in Ports : Kept(a, p) => Kept(a, p)'
    BY <2>1 DEF Kept
  <2> QED
    BY <2>1, <2>2, PulseQuiet
<1>2. CASE EndPulse
  <2>1. k \in 1 .. Slots /\ tga[k].id \in Addr \cup {0}
    BY DEF TypeOK
  <2>2. UNCHANGED <<initialised, told, full>> /\ rpc = "pulse"
    BY <1>2 DEF EndPulse, cacheVars, infoVars
  <2>3. CASE Due /\ initialised[tga[k].id]
    <3>1. UNCHANGED <<k, tga>> /\ rpc' = "off" /\ tga[k].id \in Addr
      BY <1>2, <2>1, <2>3 DEF EndPulse, Due
    <3>2. \A a \in Addr : \A p \in Ports : Kept(a, p) => Kept(a, p)'
      BY <3>1 DEF Kept
    <3> QED
      BY <2>2, <3>1, <3>2, PulseQuiet
  <2>4. CASE ~(Due /\ initialised[tga[k].id])
    <3>1. rpc' \in {"queue", "pulse"}
      BY <1>2, <2>4, NextPulseType DEF EndPulse
    <3>2. /\ \A i \in 1 .. Slots \ {k} : tga'[i] = tga[i]
          /\ tga'[k] = tga[k] \/ (tga[k].id \in Addr /\ ~initialised[tga[k].id])
      BY <1>2, <2>1, <2>4 DEF EndPulse, Due, TypeOK
    <3>3. ASSUME NEW a \in Addr, NEW p \in Ports, told[a][p] # "off", Kept(a, p)
          PROVE  Kept(a, p)'
      <4>1. PICK i \in 1 .. Slots : tga[i].id = a /\ tga[i].port = p
        BY <3>3 DEF Kept
      <4>2. initialised[a]
        BY <3>3 DEF PulseInv, OnIsKnown
      <4>3. tga'[i] = tga[i]
        BY <3>2, <4>1, <4>2
      <4> QED
        BY <4>1, <4>3 DEF Kept
    <3> QED
      BY <2>2, <3>1, <3>3, PulseQuiet
  <2> QED
    BY <2>3, <2>4
<1> QED
  BY <1>1, <1>2

LEMMA PulseOff ==
    ASSUME TypeOK, PulseInv, SwitchOff \/ InfoOff PROVE PulseInv'
<1>1. k \in 1 .. Slots /\ tga[k].id \in Addr /\ tga[k].port \in Ports
  BY DEF TypeOK, PulseInv, Busy, SwitchOff, InfoOff
<1>2. CASE SwitchOff
  <2>1. /\ UNCHANGED <<initialised, told, full, tga, k>>
        /\ rpc = "off" /\ rpc' = "offinfo" /\ action'[tga[k].id] = 0
    BY <1>1, <1>2 DEF SwitchOff, TypeOK, infoVars
  <2> QED
    BY <1>1, <2>1 DEF PulseInv, AllKept, Kept, AboutToKeep, OnIsKnown, TellsOff, TellsOn, Busy
<1>3. CASE InfoOff
  <2>1. /\ UNCHANGED <<initialised, full>> /\ rpc = "offinfo"
        /\ rpc' \in {"queue", "pulse"}
    BY <1>3, NextPulseType DEF InfoOff, cacheVars
  <2>2. action[tga[k].id] = 0
    BY <2>1 DEF PulseInv, TellsOff
  <2>3. \A i \in 1 .. Slots \ {k} : tga'[i] = tga[i]
    BY <1>3 DEF InfoOff, TypeOK
  <2>4. ASSUME NEW a \in Addr, NEW p \in Ports, told'[a][p] # "off"
        PROVE  told'[a][p] = told[a][p] /\ ~(a = tga[k].id /\ p = tga[k].port)
    <3>1. CASE initialised[tga[k].id]
      <4>1. told' = [told EXCEPT ![tga[k].id][tga[k].port] = "off"]
        BY <1>3, <2>2, <3>1 DEF InfoOff, Tell
      <4> QED
        BY <1>1, <2>4, <4>1 DEF TypeOK
    <3>2. CASE ~initialised[tga[k].id]
      <4>1. told' = told
        BY <1>3, <3>2 DEF InfoOff, Tell
      <4>2. initialised[a]
        BY <2>4, <4>1 DEF PulseInv, OnIsKnown
      <4> QED
        BY <3>2, <4>1, <4>2
    <3> QED
      BY <3>1, <3>2
  <2>5. AllKept'
    <3> SUFFICES ASSUME NEW a \in Addr, NEW p \in Ports, told'[a][p] = "pulse", ~full
                 PROVE  Kept(a, p)'
      BY <2>1 DEF AllKept
    <3>1. Kept(a, p)
      BY <2>1, <2>4 DEF PulseInv, AllKept, AboutToKeep
    <3>2. PICK i \in 1 .. Slots : tga[i].id = a /\ tga[i].port = p
      BY <3>1 DEF Kept
    <3>3. tga'[i] = tga[i]
      BY <2>3, <2>4, <3>2
    <3> QED
      BY <3>2, <3>3 DEF Kept
  <2>6. OnIsKnown'
    BY <2>1, <2>4 DEF PulseInv, OnIsKnown
  <2> QED
    BY <2>1, <2>5, <2>6 DEF PulseInv, TellsOff, TellsOn, Busy
<1> QED
  BY <1>2, <1>3

\* A command is switched, and told: a pulse told is one about to be stored.
LEMMA PulseOn ==
    ASSUME TypeOK, PulseInv, SwitchGA \/ InfoGA PROVE PulseInv'
<1>1. gatmp.id \in Addr /\ gatmp.port \in Ports /\ gatmp.action \in {0, 1}
  BY DEF TypeOK, Command
<1>2. CASE SwitchGA
  <2>1. /\ UNCHANGED <<initialised, told, full, tga, gatmp>>
        /\ rpc = "on" /\ rpc' = "oninfo" /\ action'[gatmp.id] = gatmp.action
    BY <1>1, <1>2 DEF SwitchGA, TypeOK, infoVars, powerVars
  <2> QED
    BY <1>1, <2>1 DEF PulseInv, AllKept, Kept, AboutToKeep, OnIsKnown, TellsOff, TellsOn, Busy
<1>3. CASE InfoGA
  <2>1. /\ UNCHANGED <<initialised, action, full, tga, gatmp>>
        /\ rpc = "oninfo" /\ rpc' = "store"
    BY <1>3 DEF InfoGA, cacheVars
  <2>2. ASSUME NEW a \in Addr, NEW p \in Ports, told'[a][p] # told[a][p]
        PROVE  /\ a = gatmp.id /\ p = gatmp.port /\ initialised[a]
               /\ told'[a][p] = "pulse" => gatmp.activetime > 0 /\ action[a] # 0
    BY <1>1, <1>3, <2>2 DEF InfoGA, Tell, TypeOK
  <2>3. AllKept'
    <3> SUFFICES ASSUME NEW a \in Addr, NEW p \in Ports, told'[a][p] = "pulse", ~full'
                 PROVE  Kept(a, p)' \/ AboutToKeep(a, p)'
      BY DEF AllKept
    <3>1. CASE told'[a][p] = told[a][p]
      BY <2>1, <3>1 DEF PulseInv, AllKept, Kept, AboutToKeep
    <3>2. CASE told'[a][p] # told[a][p]
      BY <1>1, <2>1, <2>2, <3>2 DEF PulseInv, TellsOn, AboutToKeep
    <3> QED
      BY <3>1, <3>2
  <2>4. OnIsKnown'
    BY <2>1, <2>2 DEF PulseInv, OnIsKnown
  <2> QED
    BY <2>1, <2>3, <2>4 DEF PulseInv, TellsOff, TellsOn, Busy
<1> QED
  BY <1>2, <1>3

\* An entry that holds a pulse is not free, so it is never overwritten.
LEMMA PulseStore ==
    ASSUME TypeOK, PulseInv, StorePulse PROVE PulseInv'
<1> DEFINE pulse == gatmp.action = 1 /\ gatmp.activetime > 0
<1>1. /\ UNCHANGED <<initialised, action, told>>
      /\ rpc = "store" /\ rpc' = "power"
      /\ full' = (full \/ (pulse /\ FirstFree = {}))
      /\ \A i \in 1 .. Slots :
           tga'[i] = IF pulse /\ i \in FirstFree THEN Pulse(gatmp) ELSE tga[i]
  BY DEF StorePulse, cacheVars, infoVars
<1>2. \A i \in FirstFree : i \in 1 .. Slots /\ tga[i].id = 0
  BY DEF FirstFree
<1>3. Pulse(gatmp).id = gatmp.id /\ Pulse(gatmp).port = gatmp.port
  BY DEF Pulse
<1>4. AllKept'
  <2> SUFFICES ASSUME NEW a \in Addr, NEW p \in Ports, told'[a][p] = "pulse", ~full'
               PROVE  Kept(a, p)'
    BY DEF AllKept
  <2>1. Kept(a, p) \/ AboutToKeep(a, p)
    BY <1>1 DEF PulseInv, AllKept
  <2>2. CASE Kept(a, p)
    <3>1. PICK i \in 1 .. Slots : tga[i].id = a /\ tga[i].port = p
      BY <2>2 DEF Kept
    <3>2. tga'[i] = tga[i]
      BY <1>1, <1>2, <3>1, ConstantFacts
    <3> QED
      BY <3>1, <3>2 DEF Kept
  <2>3. CASE AboutToKeep(a, p)
    <3>1. pulse /\ gatmp.id = a /\ gatmp.port = p
      BY <2>3 DEF AboutToKeep
    <3>2. PICK i \in 1 .. Slots : i \in FirstFree
      BY <1>1, <1>2, <3>1
    <3>3. tga'[i] = Pulse(gatmp)
      BY <1>1, <3>1, <3>2
    <3> QED
      BY <1>3, <3>1, <3>3 DEF Kept
  <2> QED
    BY <2>1, <2>2, <2>3
<1>5. OnIsKnown'
  BY <1>1 DEF PulseInv, OnIsKnown
<1> QED
  BY <1>1, <1>4, <1>5 DEF PulseInv, TellsOff, TellsOn, Busy

LEMMA PulseTick ==
    ASSUME TypeOK, PulseInv, Tick PROVE PulseInv'
<1>1. UNCHANGED <<initialised, action, told, full, rpc, k, gatmp>>
  BY DEF Tick, cacheVars, busVars, infoVars
<1>2. \A i \in 1 .. Slots : tga'[i].id = tga[i].id /\ tga'[i].port = tga[i].port
  BY DEF Tick, TypeOK
<1>3. k \in 1 .. Slots
  BY DEF TypeOK
<1>4. AllKept'
  BY <1>1, <1>2 DEF PulseInv, AllKept, Kept, AboutToKeep
<1> QED
  BY <1>1, <1>2, <1>3, <1>4 DEF PulseInv, OnIsKnown, TellsOff, TellsOn, Busy

LEMMA PulseStep == TypeOK /\ PulseInv /\ [Next]_vars => PulseInv'
<1> SUFFICES ASSUME TypeOK, PulseInv, [Next]_vars PROVE PulseInv'
  OBVIOUS
<1>1. CASE thr_sendrec_LOOPBACK
  BY <1>1, PulseTurn, PulseOff, PulseOn, PulseStore DEF thr_sendrec_LOOPBACK
<1>2. CASE UNCHANGED vars
  <2>1. UNCHANGED <<initialised, action, told, full, rpc, k, gatmp, tga>>
    BY <1>2 DEF vars, cacheVars, busVars, infoVars
  <2>2. AllKept'
    BY <2>1 DEF PulseInv, AllKept, Kept, AboutToKeep
  <2> QED
    BY <2>1, <2>2 DEF PulseInv, OnIsKnown, TellsOff, TellsOn, Busy
<1> QED
  BY <1>1, <1>2, PulseTick, PulseRequest, PulseSession DEF Next

LEMMA PulseInvKept == PulseInv => PulseIsKept
  BY DEF PulseInv, AllKept, Kept, AboutToKeep, PulseIsKept

\* A port told on for a time has its end in tga[]: no other command, no INIT
\* or TERM and no loop of the bus thread loses it, while tga[] has room.
THEOREM PulseIsKeptHolds == Spec => []PulseIsKept
  BY TypeInit, TypeStep, PulseInit, PulseStep, PulseInvKept, PTL DEF Spec
=============================================================================
