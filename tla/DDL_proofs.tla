--------------------------------- MODULE DDL_proofs ---------------------------------
(* Proofs about the DDL driver: its types, its power and the order of what it    *)
(* sends, for any number of sessions, locomotives, ports and slots of the ring;  *)
(* and what the packets say, for any commands the limits of the code allow.      *)
EXTENDS DDL, DDLPackets, SequenceTheorems, FiniteSetTheorems, TLAPS

-----------------------------------------------------------------------------
(* Type correctness. *)

LEMMA ConstantFacts ==
    /\ NF \in Nat /\ QSIZE \in Nat /\ 0 \in Parts /\ 1 \in Parts /\ 0 \in 0 .. QSIZE - 1
    /\ \A a \in Locos : a \in Addresses /\ a # Idle128
    /\ \A p \in Ports : p \notin Locos
    /\ \A a : Protocol(a) \in {"M", "N"} /\ IdleOf(Protocol(a)) \in Addresses
    /\ \A a \in Locos : Protocol(a) \in Enabled
    /\ \A q \in {"M", "N"} : IdleOf(q) \in Addresses /\ LastPart(q) \in Parts
    /\ AllOff \in Contents /\ Wants \subseteq Contents /\ Raw \in [Parts -> {"raw"}]
    /\ NoGA \in [port : Ports, action : {"off", "on"}, activetime : {"none", "short", "long"}]
<1>1. (CHOOSE p \in Ports : TRUE) \in Ports
  BY DDLAssumption
<1>2. NF \in Nat /\ QSIZE \in Nat /\ 0 \in Parts /\ 1 \in Parts /\ 0 \in 0 .. QSIZE - 1
  BY DDLAssumption DEF Parts
<1>3. NoGA \in [port : Ports, action : {"off", "on"}, activetime : {"none", "short", "long"}]
  BY <1>1 DEF NoGA
<1>4. \A q \in {"M", "N"} : IdleOf(q) \in Addresses /\ LastPart(q) \in Parts
  BY <1>2 DEF IdleOf, Addresses, LastPart, Parts
<1> QED
  BY <1>2, <1>3, <1>4, DDLAssumption
  DEF Protocol, IdleOf, Locos, Addresses, Enabled, AllOff, Raw, Contents, Parts

LEMMA TypeInit == Init => TypeOK
<1> SUFFICES ASSUME Init PROVE TypeOK
  OBVIOUS
<1>1. known \in [{"M", "N"} -> Seq(Addresses)]
  BY ConstantFacts DEF Init
<1>2. /\ last \in [{"M", "N"} -> [loco : Nat, part : Parts]]
      /\ \A q \in {"M", "N"} : last[q].part <= LastPart(q) /\ last[q].loco = 0
  BY ConstantFacts DEF Init, LastPart
<1>3. refresh \in Enabled
  <2>1. Enabled # {} /\ Enabled \subseteq {"M", "N"}
    BY DDLAssumption, ConstantFacts DEF Enabled, Locos
  <2> QED
    BY <2>1 DEF Init
<1>4. pool \in [Addresses -> [Parts -> {"raw", "torn", "off", "on"}]]
  BY DEF Init, AllOff, Raw
<1>5. /\ track \in [Locos -> [Parts -> {"raw", "torn", "off", "on"}]]
      /\ shown \in [Locos -> Contents \cup {Raw}]
      /\ owed \in [Locos -> SUBSET Parts]
  BY DEF Init, Raw
<1> QED
  BY <1>1, <1>2, <1>3, <1>4, <1>5, ConstantFacts, DDLAssumption DEF Init, TypeOK

\* The ring: what is added is a packet, and the cursors stay inside.
LEMMA NextSlotType ==
    ASSUME NEW i \in 0 .. QSIZE - 1 PROVE NextSlot(i) \in 0 .. QSIZE - 1
  BY ConstantFacts DEF NextSlot

RingType == /\ QData \in [0 .. QSIZE - 1 -> Packet \cup {NoPacket}]
            /\ queue_in \in 0 .. QSIZE - 1 /\ queue_out \in 0 .. QSIZE - 1

LEMMA PartsInType ==
    ASSUME NEW slots \in SUBSET (Packet \cup {NoPacket}), NEW a
    PROVE  PartsIn(slots, a) \subseteq Parts
  BY ConstantFacts DEF PartsIn, Packet, NoPacket

LEMMA queue_addType ==
    ASSUME RingType, owed \in [Locos -> SUBSET Parts], NEW c \in Packet, queue_add(c)
    PROVE  RingType' /\ owed' \in [Locos -> SUBSET Parts]
<1>1. RingType'
  BY NextSlotType DEF RingType, queue_add
<1>2. {QData'[i] : i \in 0 .. QSIZE - 1} \subseteq Packet \cup {NoPacket}
  BY <1>1 DEF RingType
<1>3. \A a \in Locos : /\ PartsIn({QData'[i] : i \in 0 .. QSIZE - 1}, a) \subseteq Parts
                       /\ owed[a] \ PartsIn({c}, a) \subseteq Parts
  BY <1>2, PartsInType
<1> QED
  BY <1>1, <1>3 DEF queue_add

LEMMA DiscardType ==
    ASSUME uart \in Unsent \cup {NoPacket}, owed \in [Locos -> SUBSET Parts], Discard
    PROVE  uart' \in Unsent \cup {NoPacket} /\ owed' \in [Locos -> SUBSET Parts]
<1>1. \A a : PartsIn({uart}, a) \subseteq Parts
  BY ConstantFacts DEF PartsIn, Unsent, NoPacket
<1> QED
  BY <1>1 DEF Discard

LEMMA QueuedType ==
    ASSUME NEW a, NEW want, NEW parts, parts \in Queued(a, want) PROVE parts \in Seq(Parts)
<1>1. 1 .. NF \subseteq Parts
  BY DDLAssumption DEF Parts
<1>2. \/ parts = <<0, 1>>
      \/ \E p \in Parts : parts = <<p>>
  BY <1>1, ConstantFacts DEF Queued
<1>3. <<0, 1>> \in Seq(Parts)
  BY ConstantFacts
<1>4. \A p \in Parts : <<p>> \in Seq(Parts)
  OBVIOUS
<1> QED
  BY <1>2, <1>3, <1>4

LEMMA ListedType ==
    ASSUME NEW list \in Seq(Addresses), NEW a \in Addresses
    PROVE  /\ Listed(list, a) \in Seq(Addresses)
           /\ Len(Listed(list, a)) >= Len(list) \/ Len(list) = 1
<1>1. CASE list = <<IdleOf(Protocol(a))>>
  <2>1. Len(list) = 1
    BY <1>1
  <2>2. Listed(list, a) = <<>> \/ Listed(list, a) = Append(<<>>, a)
    BY <1>1 DEF Listed
  <2>3. <<>> \in Seq(Addresses) /\ Append(<<>>, a) \in Seq(Addresses)
    OBVIOUS
  <2> QED
    BY <2>1, <2>2, <2>3
<1>2. CASE list # <<IdleOf(Protocol(a))>>
  <2>1. Listed(list, a) = list \/ Listed(list, a) = Append(list, a)
    BY <1>2 DEF Listed
  <2> QED
    BY <2>1
<1> QED
  BY <1>1, <1>2

\* A cursor into a list stays inside it, or is 0, when the list grows from an
\* entry that may be dropped.
LEMMA CursorInList ==
    ASSUME NEW k \in Nat, NEW m \in Nat, NEW n \in Nat,
           k < m \/ k = 0, n >= m \/ m = 1
    PROVE  k < n \/ k = 0
  OBVIOUS

LEMMA BusType ==
    ASSUME TypeOK, thr_sendrec_DDL \/ WakeReset \/ SendReset PROVE TypeOK'
<1> USE DEF TypeOK
<1>g. ASSUME gatmp.action \in {"off", "on"}, NEW t, comp_accessory(t)
      PROVE  RingType' /\ owed' \in [Locos -> SUBSET Parts] /\ timed' \subseteq Ports
  <2>1. [adr |-> gatmp.port, part |-> 0, value |-> gatmp.action] \in Packet
    BY ConstantFacts, <1>g DEF Packet
  <2> QED
    BY <2>1, <1>g, queue_addType DEF comp_accessory, RingType
<1>1. CASE TakeGL
  <2>1. PICK a \in Locos, want \in Contents : \E parts \in Queued(a, want) :
          cmd' = [adr |-> a, want |-> want, send |-> parts]
    BY <1>1, ConstantFacts DEF TakeGL
  <2>2. PICK parts : /\ parts \in Queued(a, want)
                     /\ cmd' = [adr |-> a, want |-> want, send |-> parts]
    BY <2>1
  <2>3. cmd' \in Command
    BY <2>2, QueuedType DEF Command
  <2> QED
    BY <1>1, <2>3 DEF TakeGL, ringVars, poolVars, refreshVars, handVars, powerVars
<1>2. CASE BeginCopy
  <2>1. pool' \in [Addresses -> [Parts -> {"raw", "torn", "off", "on"}]]
    <3>1. \A p \in Parts : (IF pool[cmd.adr][p] = cmd.want[p] THEN pool[cmd.adr][p] ELSE "torn")
                             \in {"raw", "torn", "off", "on"} \/ cmd.adr \notin Addresses
      OBVIOUS
    <3> QED
      BY <1>2, <3>1 DEF BeginCopy
  <2>2. owed' \in [Locos -> SUBSET Parts]
    BY <1>2 DEF BeginCopy
  <2> QED
    BY <1>2, <2>1, <2>2 DEF BeginCopy, ringVars, refreshVars, handVars, powerVars
<1>3. CASE EndCopy
  <2>1. cmd.want \in Contents
    BY ConstantFacts DEF Command, NoCommand
  <2>2. pool' \in [Addresses -> [Parts -> {"raw", "torn", "off", "on"}]]
    <3>1. cmd.want \in [Parts -> {"raw", "torn", "off", "on"}]
      BY <2>1 DEF Contents
    <3> QED
      BY <1>3, <3>1 DEF EndCopy
  <2> QED
    BY <1>3, <2>2 DEF EndCopy, ringVars, refreshVars, handVars, powerVars
<1>4. CASE UpdateKnown
  <2> DEFINE q == Protocol(cmd.adr)
  <2>1. cmd.adr \in Addresses /\ q \in {"M", "N"}
    BY ConstantFacts DEF Command, NoCommand, Addresses
  <2>2. /\ Listed(known[q], cmd.adr) \in Seq(Addresses)
        /\ Len(Listed(known[q], cmd.adr)) >= Len(known[q]) \/ Len(known[q]) = 1
    BY <2>1, ListedType
  <2>3. known' = [known EXCEPT ![q] = Listed(known[q], cmd.adr)] /\ UNCHANGED last
    BY <1>4 DEF UpdateKnown, refreshVars
  <2>4. \A r \in {"M", "N"} : last[r].loco < Len(known'[r]) \/ last[r].loco = 0
    <3>1. \A r \in {"M", "N"} : r # q => known'[r] = known[r]
      BY <2>3
    <3>2. known'[q] = Listed(known[q], cmd.adr)
      BY <2>1, <2>3
    <3>3. last[q].loco < Len(known'[q]) \/ last[q].loco = 0
      <4>1. last[q].loco \in Nat /\ Len(known[q]) \in Nat /\ Len(known'[q]) \in Nat
        BY <2>1, <2>2, <3>2
      <4>2. last[q].loco < Len(known[q]) \/ last[q].loco = 0
        BY <2>1
      <4>3. Len(known'[q]) >= Len(known[q]) \/ Len(known[q]) = 1
        BY <2>2, <3>2
      <4> HIDE DEF TypeOK, q
      <4> QED
        BY <4>1, <4>2, <4>3, CursorInList
    <3> QED
      BY <2>1, <3>1, <3>3
  <2>5. known' \in [{"M", "N"} -> Seq(Addresses)]
    BY <2>1, <2>2, <2>3
  <2> QED
    BY <1>4, <2>3, <2>4, <2>5 DEF UpdateKnown, ringVars, refreshVars, handVars, powerVars
<1>5. CASE AddGL
  <2>1. cmd \in Command
    BY <1>5 DEF AddGL, NoCommand
  <2>2. Head(cmd.send) \in Parts /\ Tail(cmd.send) \in Seq(Parts)
    BY <1>5, <2>1 DEF AddGL, Command
  <2>3. [adr |-> cmd.adr, part |-> Head(cmd.send), value |-> cmd.want[Head(cmd.send)]] \in Packet
    BY <2>1, <2>2 DEF Command, Contents, Packet
  <2>4. RingType' /\ owed' \in [Locos -> SUBSET Parts]
    BY <1>5, <2>3, queue_addType DEF AddGL, RingType
  <2>5. cmd' \in Command
    BY <1>5, <2>1, <2>2 DEF AddGL, Command
  <2> QED
    BY SMTT(30), <1>5, <2>4, <2>5 DEF AddGL, RingType, poolVars, refreshVars, handVars, powerVars
<1>6. CASE ShowGL
  <2>1. cmd.want \in Contents
    BY ConstantFacts DEF Command, NoCommand
  <2>2. shown' \in [Locos -> Contents \cup {Raw}]
    BY <1>6, <2>1 DEF ShowGL
  <2> QED
    BY <1>6, <2>2 DEF ShowGL, ringVars, poolVars, refreshVars, handVars, powerVars
<1>7. CASE TakeGA
  BY <1>7 DEF TakeGA, ringVars, poolVars, refreshVars, handVars, powerVars
<1>8. CASE SwitchGA
  BY <1>8, <1>g DEF SwitchGA, RingType, poolVars, refreshVars, handVars, powerVars
<1>9. CASE TestTime
  <2>1. /\ resets' \in [sleep : Nat, send : Nat]
        /\ bpc' \in {"clear", "idle"}
    BY SMTT(30), <1>9 DEF TestTime
  <2>2. gatmp' \in [port : Ports, action : {"off", "on"}, activetime : {"none", "short", "long"}]
    BY <1>9, ConstantFacts DEF TestTime, KeptFor
  <2> QED
    BY <1>9, <2>1, <2>2 DEF TestTime, ringVars, poolVars, refreshVars, handVars, powerVars
<1>10. CASE ClearAction
  <2>1. gatmp' \in [port : Ports, action : {"off", "on"}, activetime : {"none", "short", "long"}]
    BY <1>10 DEF ClearAction
  <2> QED
    BY <1>10, <2>1 DEF ClearAction, ringVars, poolVars, refreshVars, handVars, powerVars
<1>11. CASE SwitchOff
  BY <1>11, <1>g, ConstantFacts
  DEF SwitchOff, KeptFor, RingType, poolVars, refreshVars, handVars, powerVars
<1>12. CASE WakeReset
  <2>1. gatmp' \in [port : Ports, action : {"off", "on"}, activetime : {"none", "short", "long"}]
    BY <1>12 DEF WakeReset
  <2>2. resets' \in [sleep : Nat, send : Nat]
    BY <1>12 DEF WakeReset
  <2> QED
    BY <1>12, <2>1, <2>2 DEF WakeReset, ringVars, poolVars, refreshVars, handVars, powerVars
<1>13. CASE SendReset
  <2>1. gatmp' \in [port : Ports, action : {"off", "on"}, activetime : {"none", "short", "long"}]
    BY <1>13, ConstantFacts DEF SendReset, KeptFor
  <2>2. resets' \in [sleep : Nat, send : Nat]
    <3>1. resets.send > 0 /\ resets' = [resets EXCEPT !.send = resets.send - 1]
      BY <1>13 DEF SendReset
    <3>2. resets.send - 1 \in Nat
      BY <3>1
    <3> QED
      BY <3>1, <3>2
  <2>3. RingType' /\ owed' \in [Locos -> SUBSET Parts] /\ timed' \subseteq Ports
    BY <1>13, <1>g DEF SendReset
  <2> QED
    BY SMTT(30), <1>13, <2>1, <2>2, <2>3 DEF SendReset, RingType, poolVars, refreshVars, handVars, powerVars
<1> QED
  BY <1>1, <1>2, <1>3, <1>4, <1>5, <1>6, <1>7, <1>8, <1>9, <1>10, <1>11, <1>12, <1>13
  DEF thr_sendrec_DDL

LEMMA PowerOffType ==
    ASSUME TypeOK, power_is_off PROVE TypeOK'
<1> USE DEF TypeOK, ringVars, poolVars, refreshVars, busVars
<1>1. CASE Alarm
  BY <1>1 DEF Alarm
<1>2. CASE AlarmFlag
  BY <1>2 DEF AlarmFlag
<1>3. CASE TestPower
  BY <1>3 DEF TestPower
<1>4. CASE set_lines_off
  <2>1. uart' \in Unsent \cup {NoPacket} /\ owed' \in [Locos -> SUBSET Parts]
    BY <1>4, DiscardType DEF set_lines_off
  <2> QED
    BY <1>4, <2>1 DEF set_lines_off
<1>5. CASE set_lines_on
  BY <1>5 DEF set_lines_on
<1>6. CASE ClearFlag
  <2>1. power_changed' \in BOOLEAN
    BY <1>6 DEF ClearFlag
  <2> QED
    BY <1>6, <2>1 DEF ClearFlag
<1>7. CASE AnnouncePower
  BY <1>7 DEF AnnouncePower
<1>8. CASE Gate
  <2>1. rpc' \in {"short", "get", "send", "refresh"} /\ ret' \in {"top", "send", "refresh"}
    BY <1>8 DEF Gate, Call
  <2> QED
    BY <1>8, <2>1 DEF Gate, powerVars
<1> QED
  BY <1>1, <1>2, <1>3, <1>4, <1>5, <1>6, <1>7, <1>8 DEF power_is_off

LEMMA WriteType ==
    ASSUME TypeOK, NEW a, NEW p \in Parts, NEW v \in {"raw", "torn", "off", "on"},
           Write(a, p, v)
    PROVE  /\ track' \in [Locos -> [Parts -> {"raw", "torn", "off", "on"}]]
           /\ uart' \in Unsent \cup {NoPacket}
<1>1. track' \in [Locos -> [Parts -> {"raw", "torn", "off", "on"}]]
  BY DEF TypeOK, Write
<1>2. uart' \in Unsent \cup {NoPacket}
  BY DEF Write, Unsent
<1> QED
  BY <1>1, <1>2

LEMMA SendingType ==
    ASSUME TypeOK, TestEmpty \/ queue_get \/ send_packet \/ refresh_loco \/ NotDue
    PROVE  TypeOK'
<1> USE DEF TypeOK
<1>1. CASE TestEmpty
  <2>1. rpc' \in {"take", "takenext", "short"} /\ ret' \in {"top", "send", "refresh"}
    BY <1>1 DEF TestEmpty, Call
  <2> QED
    BY <1>1, <2>1 DEF TestEmpty, ringVars, poolVars, refreshVars, powerVars, busVars
<1>2. CASE queue_get
  <2>1. /\ packet' \in Packet \cup {NoPacket}
        /\ QData' \in [0 .. QSIZE - 1 -> Packet \cup {NoPacket}]
        /\ queue_out' \in 0 .. QSIZE - 1
    BY <1>2, NextSlotType DEF queue_get
  <2>2. rpc' = "short" /\ ret' \in {"top", "send", "refresh"}
    BY <1>2 DEF queue_get, Call
  <2>3. uart' \in Unsent \cup {NoPacket} /\ owed' \in [Locos -> SUBSET Parts]
    BY <1>2, DiscardType DEF queue_get
  <2> QED
    BY <1>2, <2>1, <2>2, <2>3 DEF queue_get, poolVars, refreshVars, powerVars, busVars
<1>3. CASE send_packet
  <2>1. packet.part \in Parts /\ packet.value \in {"off", "on"}
    BY ConstantFacts DEF Packet, NoPacket
  <2>2. /\ track' \in [Locos -> [Parts -> {"raw", "torn", "off", "on"}]]
        /\ uart' \in Unsent \cup {NoPacket}
    BY <1>3, <2>1, WriteType DEF send_packet
  <2>3. owed' \in [Locos -> SUBSET Parts]
    BY <1>3, <2>1 DEF send_packet
  <2> QED
    BY <1>3, <2>2, <2>3
    DEF send_packet, ringVars, poolVars, refreshVars, powerVars, busVars
<1>4. CASE refresh_loco
  <2> DEFINE q == refresh
             a == Entry(q)
             p == last[q].part
             loco == IF last[q].loco + 1 >= Len(known[q]) THEN 0 ELSE last[q].loco + 1
             next == IF p = LastPart(q) THEN [loco |-> loco, part |-> 0]
                     ELSE [last[q] EXCEPT !.part = p + 1]
  <2>1. q \in {"M", "N"} /\ Enabled \subseteq {"M", "N"}
    BY ConstantFacts DEF Enabled
  <2>2. /\ known[q] \in Seq(Addresses) /\ Len(known[q]) \in Nat
        /\ last[q] \in [loco : Nat, part : Parts] /\ p <= LastPart(q)
        /\ last[q].loco < Len(known[q]) \/ last[q].loco = 0
    BY <2>1
  <2>3. a \in Addresses
    <3>1. CASE known[q] = <<>>
      BY <2>1, <3>1, ConstantFacts DEF Entry
    <3>2. CASE known[q] # <<>>
      <4>1. Len(known[q]) > 0
        BY <2>2, <3>2
      <4>2. last[q].loco + 1 \in 1 .. Len(known[q])
        BY <2>2, <4>1
      <4> QED
        BY <2>2, <3>2, <4>2 DEF Entry
    <3> QED
      BY <3>1, <3>2
  <2>4. /\ track' \in [Locos -> [Parts -> {"raw", "torn", "off", "on"}]]
        /\ uart' \in Unsent \cup {NoPacket}
    <3>1. pool[a][p] \in {"raw", "torn", "off", "on"}
      BY <2>2, <2>3
    <3>2. Write(a, p, pool[a][p])
      BY <1>4 DEF refresh_loco
    <3>3. p \in Parts
      BY <2>2
    <3> QED
      BY <3>1, <3>2, <3>3, WriteType
  <2>5. /\ next \in [loco : Nat, part : Parts] /\ next.part <= LastPart(q)
        /\ next.loco < Len(known[q]) \/ next.loco = 0
    <3>1. LastPart(q) \in Parts /\ p \in Nat /\ last[q].loco \in Nat
      BY <2>1, <2>2, ConstantFacts DEF Parts
    <3>2. CASE p = LastPart(q)
      <4>1. next = [loco |-> loco, part |-> 0]
        BY <3>2
      <4>4. loco \in Nat
        BY SMTT(30), <3>1
      <4>2. loco < Len(known[q]) \/ loco = 0
        BY <2>2, <3>1
      <4>3. 0 <= LastPart(q) /\ 0 \in Parts
        BY <3>1, ConstantFacts DEF Parts
      <4> HIDE DEF TypeOK, loco, next
      <4> QED
        BY <4>1, <4>2, <4>3, <4>4
    <3>3. CASE p # LastPart(q)
      <4>1. p \in Nat /\ LastPart(q) \in 0 .. NF /\ p <= LastPart(q)
        BY <2>2, <3>1 DEF Parts
      <4>2. p + 1 \in Parts /\ p + 1 <= LastPart(q)
        <5> HIDE DEF TypeOK, p, q
        <5> QED
          BY <3>3, <4>1, DDLAssumption DEF Parts
      <4>3. next = [last[q] EXCEPT !.part = p + 1]
        BY <3>3
      <4>4. next.loco = last[q].loco /\ next.part = p + 1
        BY <2>2, <4>3
      <4> QED
        BY <2>2, <4>2, <4>3, <4>4
    <3> QED
      BY <3>2, <3>3
  <2>6. last' = [last EXCEPT ![q] = next] /\ UNCHANGED known
    BY <1>4 DEF refresh_loco, poolVars
  <2>7. /\ last' \in [{"M", "N"} -> [loco : Nat, part : Parts]]
        /\ \A r \in {"M", "N"} : /\ last'[r].part <= LastPart(r)
                                 /\ last'[r].loco < Len(known[r]) \/ last'[r].loco = 0
    <3>1. last'[q] = next /\ \A r \in {"M", "N"} : r # q => last'[r] = last[r]
      BY <2>1, <2>6
    <3> QED
      BY <2>1, <2>5, <2>6, <3>1
  <2>8. refresh' \in Enabled
    BY <1>4, <2>1 DEF refresh_loco
  <2>9. rpc' = "short" /\ ret' = "top"
    BY <1>4 DEF refresh_loco, Call
  <2>10. owed' \in [Locos -> SUBSET Parts]
    BY <1>4, DiscardType DEF refresh_loco
  <2> QED
    BY SMTT(30), <1>4, <2>4, <2>6, <2>7, <2>8, <2>9, <2>10
    DEF refresh_loco, ringVars, poolVars, powerVars, busVars
<1>5. CASE NotDue
  BY <1>5 DEF NotDue, Call, ringVars, poolVars, refreshVars, powerVars, busVars
<1> QED
  BY <1>1, <1>2, <1>3, <1>4, <1>5

\* Every variable has its type in every reachable state: the cursors of the
\* ring and of the lists of addresses stay inside them.
THEOREM TypeCorrect == Spec => []TypeOK
<1>1. TypeOK /\ [Next]_vars => TypeOK'
  <2> SUFFICES ASSUME TypeOK, [Next]_vars PROVE TypeOK'
    OBVIOUS
  <2>1. CASE thr_sendrec_DDL \/ WakeReset \/ SendReset
    BY <2>1, BusType
  <2>2. CASE power_is_off
    BY <2>2, PowerOffType
  <2>3. CASE TestEmpty \/ queue_get \/ send_packet \/ refresh_loco \/ NotDue
    BY <2>3, SendingType
  <2>4. ASSUME NEW s \in Sessions, SetPower(s) \/ PowerChanged(s) PROVE TypeOK'
    <3>1. CASE SetPower(s)
      BY <3>1 DEF SetPower, TypeOK, ringVars, poolVars, refreshVars, handVars, busVars
    <3>2. CASE PowerChanged(s)
      <4>1. power_changed' \in BOOLEAN /\ missed' \in BOOLEAN
        BY <3>2 DEF PowerChanged
      <4>2. th' \in [Sessions -> {"idle", "power"}]
        BY <3>2 DEF PowerChanged, TypeOK
      <4> QED
        BY <3>2, <4>1, <4>2
        DEF PowerChanged, TypeOK, ringVars, poolVars, refreshVars, handVars, busVars
    <3> QED
      BY <2>4, <3>1, <3>2
  <2>5. CASE UNCHANGED vars
    BY <2>5 DEF vars, TypeOK, ringVars, poolVars, refreshVars, handVars, powerVars, busVars
  <2>6. CASE Drain
    <3>1. track' \in [Locos -> [Parts -> {"raw", "torn", "off", "on"}]]
      BY <2>6 DEF Drain, TypeOK, Unsent
    <3> QED
      BY <2>6, <3>1
      DEF Drain, TypeOK, ringVars, poolVars, refreshVars, handVars, powerVars, busVars
  <2> QED
    BY <2>1, <2>2, <2>3, <2>4, <2>5, <2>6 DEF Next, thr_refresh_cycle
<1> QED
  BY <1>1, TypeInit, PTL DEF Spec

-----------------------------------------------------------------------------
(* What concerns the power: its types, and the steps that do not. *)

Places == {"short", "alarm", "test", "linesoff", "lineson", "clearflag", "announce",
           "gate", "get", "take", "next", "takenext", "send", "refresh"}

PowerType == /\ power_state \in {0, 1} /\ power_changed \in BOOLEAN
             /\ lines \in {0, 1} /\ told \in {-1, 0, 1} /\ missed \in BOOLEAN
             /\ th \in [Sessions -> {"idle", "power"}]
             /\ rpc \in Places /\ ret \in {"top", "send", "refresh"}

\* Places of the refresh thread where it has passed the test of the power.
Sending == {"get", "take", "next", "takenext", "send", "refresh"}

Setting == \E s \in Sessions : th[s] = "power"

\* The thread has looked at the flag and not yet announced the power.
Switching == {"alarm", "linesoff", "lineson", "clearflag", "announce"}

\* What was announced is what is, and a thread that sends has seen the power on.
ToldInv == ~power_changed /\ ~Setting =>
    /\ rpc \notin Switching => told = power_state
    /\ rpc \in Sending => power_state = 1

\* The lines follow, through the steps in which they are set.
LinesInv == ~missed /\ ~Setting =>
    /\ rpc = "lineson" /\ power_state = 0 => lines = 0
    /\ rpc = "clearflag" => lines = power_state
    /\ rpc = "announce" /\ ~power_changed => lines = power_state
    /\ rpc \notin Switching /\ ~power_changed => lines = power_state

PowerInv == PowerType /\ ToldInv /\ LinesInv

\* Neither the bus thread nor the delayed threads touch the power.
LEMMA BusLeavesPower ==
    ASSUME thr_sendrec_DDL \/ WakeReset \/ SendReset
    PROVE  UNCHANGED <<powerVars, th, rpc, ret>>
<1> USE DEF handVars
<1>1. CASE TakeGL
  BY <1>1 DEF TakeGL
<1>2. CASE BeginCopy
  BY <1>2 DEF BeginCopy
<1>3. CASE EndCopy
  BY <1>3 DEF EndCopy
<1>4. CASE UpdateKnown
  BY <1>4 DEF UpdateKnown
<1>5. CASE AddGL
  BY <1>5 DEF AddGL
<1>6. CASE ShowGL
  BY <1>6 DEF ShowGL
<1>7. CASE TakeGA
  BY <1>7 DEF TakeGA
<1>8. CASE SwitchGA
  BY <1>8 DEF SwitchGA
<1>9. CASE TestTime
  BY <1>9 DEF TestTime
<1>10. CASE ClearAction
  BY <1>10 DEF ClearAction
<1>11. CASE SwitchOff
  BY <1>11 DEF SwitchOff
<1>12. CASE WakeReset
  BY <1>12 DEF WakeReset
<1>13. CASE SendReset
  BY <1>13 DEF SendReset
<1> QED
  BY <1>1, <1>2, <1>3, <1>4, <1>5, <1>6, <1>7, <1>8, <1>9, <1>10, <1>11, <1>12, <1>13
  DEF thr_sendrec_DDL

\* Sending moves the refresh thread among the places of sending and back to the
\* beginning of power_is_off.
LEMMA SendingLeavesPower ==
    ASSUME TestEmpty \/ queue_get \/ send_packet \/ refresh_loco \/ NotDue
    PROVE  /\ UNCHANGED <<powerVars, th>>
           /\ rpc \in Sending
           /\ \/ rpc' \in Sending /\ ret' = ret
              \/ rpc' = "short" /\ ret' \in {"top", "send", "refresh"}
<1> USE DEF Sending, Call
<1>1. CASE TestEmpty
  BY <1>1 DEF TestEmpty
<1>2. CASE queue_get
  BY <1>2 DEF queue_get
<1>3. CASE send_packet
  BY <1>3 DEF send_packet
<1>4. CASE refresh_loco
  BY <1>4 DEF refresh_loco
<1>5. CASE NotDue
  BY <1>5 DEF NotDue
<1> QED
  BY <1>1, <1>2, <1>3, <1>4, <1>5

-----------------------------------------------------------------------------
(* The invariant, in the steps of power_is_off and of the sessions. *)

LEMMA PowerInit == Init => PowerInv
  BY DEF Init, PowerInv, PowerType, ToldInv, LinesInv, Places, Switching, Sending, Setting

LEMMA DriverKeepsPower ==
    ASSUME PowerInv, power_is_off PROVE PowerInv'
<1> USE DEF PowerInv, PowerType, ToldInv, LinesInv, Places, Switching, Sending, Setting
<1>1. CASE Alarm
  BY <1>1 DEF Alarm
<1>2. CASE AlarmFlag
  BY <1>2 DEF AlarmFlag
<1>3. CASE TestPower
  BY <1>3 DEF TestPower
<1>4. CASE set_lines_off
  BY <1>4 DEF set_lines_off
<1>5. CASE set_lines_on
  BY <1>5 DEF set_lines_on
<1>6. CASE ClearFlag
  BY <1>6 DEF ClearFlag
<1>7. CASE AnnouncePower
  BY <1>7 DEF AnnouncePower
<1>8. CASE Gate
  <2>1. UNCHANGED <<powerVars, th>> /\ rpc = "gate"
    BY <1>8 DEF Gate
  <2>2. CASE power_state = 0
    <3>1. rpc' = "short" /\ ret' \in {"top", "send", "refresh"}
      BY <1>8, <2>2 DEF Gate, Call
    <3> QED
      BY <2>1, <3>1 DEF powerVars
  <2>3. CASE power_state = 1
    <3>1. rpc' \in {"get", "send", "refresh"} /\ ret' = ret
      BY <1>8, <2>3 DEF Gate
    <3> QED
      BY <2>1, <2>3, <3>1 DEF powerVars
  <2> QED
    BY <2>2, <2>3
<1> QED
  BY <1>1, <1>2, <1>3, <1>4, <1>5, <1>6, <1>7, <1>8 DEF power_is_off

LEMMA SessionKeepsPower ==
    ASSUME PowerInv, NEW s \in Sessions, SetPower(s) \/ PowerChanged(s)
    PROVE  PowerInv'
<1> USE DEF PowerInv, PowerType, handVars
<1>1. CASE SetPower(s)
  <2>1. PowerType'
    BY <1>1 DEF SetPower
  <2>2. Setting'
    BY <1>1 DEF SetPower, Setting
  <2> QED
    BY <2>1, <2>2 DEF ToldInv, LinesInv
<1>2. CASE PowerChanged(s)
  <2>1. PowerType'
    BY <1>2 DEF PowerChanged
  <2>2. /\ power_changed' /\ rpc' = rpc
        /\ rpc \in {"linesoff", "lineson", "clearflag"} => missed'
    BY <1>2 DEF PowerChanged
  <2> QED
    BY <2>1, <2>2 DEF ToldInv, LinesInv, Switching
<1> QED
  BY <1>1, <1>2

LEMMA PowerStep == PowerInv /\ [Next]_vars => PowerInv'
<1> SUFFICES ASSUME PowerInv, [Next]_vars PROVE PowerInv'
  OBVIOUS
<1>1. CASE thr_sendrec_DDL \/ WakeReset \/ SendReset
  BY <1>1, BusLeavesPower
  DEF PowerInv, PowerType, ToldInv, LinesInv, Setting, powerVars
<1>2. CASE TestEmpty \/ queue_get \/ send_packet \/ refresh_loco \/ NotDue
  BY <1>2, SendingLeavesPower
  DEF PowerInv, PowerType, ToldInv, LinesInv, Setting, powerVars, Places, Switching, Sending
<1>3. CASE power_is_off
  BY <1>3, DriverKeepsPower
<1>4. ASSUME NEW s \in Sessions, SetPower(s) \/ PowerChanged(s) PROVE PowerInv'
  BY <1>4, SessionKeepsPower
<1>5. CASE UNCHANGED vars
  BY <1>5 DEF vars, handVars, powerVars, PowerInv, PowerType, ToldInv, LinesInv, Setting
<1>6. CASE Drain
  BY <1>6 DEF Drain, handVars, powerVars, PowerInv, PowerType, ToldInv, LinesInv, Setting
<1> QED
  BY <1>1, <1>2, <1>3, <1>4, <1>5, <1>6 DEF Next, thr_refresh_cycle

LEMMA PowerHolds == Spec => []PowerInv
<1> QED
  BY PowerInit, PowerStep, PTL DEF Spec

-----------------------------------------------------------------------------
(* What the clients and the booster can rely on. *)

\* No packet leaves the driver between the announcement that the power is off
\* and the next setting of it.
THEOREM SilenceHolds == Spec => []SilentWithoutPower
<1>1. PowerInv => SilentWithoutPower
  BY DEF PowerInv, PowerType, ToldInv, SilentWithoutPower, PowerSettled, Setting,
         Places, Switching, Sending
<1> QED
  BY <1>1, PowerHolds, PTL

\* The booster follows the power, unless a session set it while the refresh
\* thread was setting the lines.
THEOREM LinesHold == Spec => []LinesFollowPower
<1>1. PowerInv => LinesFollowPower
  BY DEF PowerInv, PowerType, LinesInv, LinesFollowPower, PowerSettled, Setting, Switching
<1> QED
  BY <1>1, PowerHolds, PTL
-----------------------------------------------------------------------------
(* The order of the packets: places in the ring, counted from queue_out.         *)

PlaceFrom(o, i) == IF o <= i THEN i - o ELSE i - o + QSIZE

Place(i) == PlaceFrom(queue_out, i)

\* The slots whose packets are still to be sent.
Waiting == {i \in 0 .. QSIZE - 1 : Place(i) < Place(queue_in)}

LEMMA WaitingIsUnread == ASSUME RingType' PROVE Waiting' = Unread'
  BY ConstantFacts DEF RingType, Waiting, Unread, Place, PlaceFrom

LEMMA PlaceFacts ==
    ASSUME NEW o \in 0 .. QSIZE - 1, NEW i \in 0 .. QSIZE - 1
    PROVE  /\ PlaceFrom(o, i) \in Nat /\ PlaceFrom(o, i) < QSIZE
           /\ PlaceFrom(o, o) = 0
           /\ i # o => PlaceFrom(o, i) > 0
           /\ NextSlot(i) # o => PlaceFrom(o, NextSlot(i)) = PlaceFrom(o, i) + 1
           /\ i # o => PlaceFrom(NextSlot(o), i) = PlaceFrom(o, i) - 1
           /\ PlaceFrom(NextSlot(o), o) = QSIZE - 1
  BY ConstantFacts DEF PlaceFrom, NextSlot

LEMMA PlaceOnce ==
    ASSUME NEW o \in 0 .. QSIZE - 1, NEW i \in 0 .. QSIZE - 1, NEW k \in 0 .. QSIZE - 1,
           PlaceFrom(o, i) = PlaceFrom(o, k)
    PROVE  i = k
  BY ConstantFacts DEF PlaceFrom

\* What queue_add does to the ring: the new packet gets the last place, or,
\* when the ring is overrun, nothing waits in it any more.
LEMMA RingAdd ==
    ASSUME RingType, NEW c \in Packet, queue_add(c)
    PROVE  /\ QData'[queue_in] = c
           /\ \A i \in Waiting : QData'[i] = QData[i]
           /\ \/ queue_in' = queue_out /\ Waiting' = {}
              \/ /\ queue_in' # queue_out
                 /\ Waiting' = Waiting \cup {queue_in}
                 /\ queue_in \notin Waiting
                 /\ \A i \in Waiting : Place(i) < Place(queue_in)
                 /\ \A i \in 0 .. QSIZE - 1 : Place(i)' = Place(i)
<1> USE DEF RingType
<1>1. /\ QData' = [QData EXCEPT ![queue_in] = c]
      /\ queue_in' = NextSlot(queue_in) /\ queue_out' = queue_out
  BY DEF queue_add
<1>2. queue_in' \in 0 .. QSIZE - 1
  BY <1>1, NextSlotType
<1>3. \A i \in 0 .. QSIZE - 1 : Place(i)' = Place(i)
  BY <1>1 DEF Place
<1>4. Waiting' = {i \in 0 .. QSIZE - 1 : Place(i) < PlaceFrom(queue_out, queue_in')}
  BY <1>1, <1>3 DEF Waiting, Place
<1>5. \A i \in Waiting : Place(i) < Place(queue_in) /\ i \in 0 .. QSIZE - 1
  BY DEF Waiting
<1>6. \A i \in 0 .. QSIZE - 1 : Place(i) \in Nat
  BY PlaceFacts DEF Place
<1>7. queue_in \notin Waiting
  BY <1>5, <1>6
<1>8. CASE queue_in' = queue_out
  <2>1. PlaceFrom(queue_out, queue_in') = 0
    BY <1>2, <1>8, PlaceFacts
  <2>2. Waiting' = {}
    BY <1>4, <1>6, <2>1
  <2> QED
    BY <1>1, <1>5, <1>7, <1>8, <2>2
<1>9. CASE queue_in' # queue_out
  <2>1. PlaceFrom(queue_out, queue_in') = Place(queue_in) + 1
    BY <1>1, <1>9, PlaceFacts DEF Place
  <2>2. \A i \in 0 .. QSIZE - 1 : Place(i) = Place(queue_in) => i = queue_in
    BY PlaceOnce DEF Place
  <2>3. Waiting' = {i \in 0 .. QSIZE - 1 : Place(i) < Place(queue_in) + 1}
    BY <1>4, <2>1
  <2>4. \A i \in 0 .. QSIZE - 1 :
          Place(i) < Place(queue_in) + 1 <=> Place(i) < Place(queue_in) \/ i = queue_in
    BY <1>6, <2>2
  <2>5. Waiting' = Waiting \cup {queue_in}
    BY <2>3, <2>4 DEF Waiting
  <2> QED
    BY <1>1, <1>3, <1>5, <1>7, <1>9, <2>5
<1> QED
  BY <1>8, <1>9

\* What queue_get does to it: the packet taken was the first; if the ring was
\* overrun since queue_get looked at the cursors, all the others wait again.
LEMMA RingGet ==
    ASSUME RingType, queue_get
    PROVE  /\ packet' = QData[queue_out]
           /\ \A i \in Waiting' : i \in 0 .. QSIZE - 1 /\ QData'[i] = QData[i]
           /\ ~queue_empty =>
                /\ queue_out \in Waiting /\ Waiting' = Waiting \ {queue_out}
                /\ \A i, k \in Waiting' : Place(i) < Place(k) => (Place(i) < Place(k))'
                /\ \A k \in Waiting : Place(queue_out) < Place(k) => k \in Waiting'
<1> USE DEF RingType
<1>1. /\ packet' = QData[queue_out]
      /\ QData' = [QData EXCEPT ![queue_out] = NoPacket]
      /\ queue_out' = NextSlot(queue_out) /\ queue_in' = queue_in
  BY DEF queue_get
<1>2. \A i \in 0 .. QSIZE - 1 : Place(i) \in Nat /\ Place(i) < QSIZE
  BY PlaceFacts DEF Place
<1>3. Place(queue_out) = 0 /\ \A i \in 0 .. QSIZE - 1 : i # queue_out => Place(i) > 0
  BY PlaceFacts DEF Place
<1>4. /\ \A i \in 0 .. QSIZE - 1 : i # queue_out => PlaceFrom(queue_out', i) = Place(i) - 1
      /\ PlaceFrom(queue_out', queue_out) = QSIZE - 1
  <2>1. \A o, i \in 0 .. QSIZE - 1 :
          /\ i # o => PlaceFrom(NextSlot(o), i) = PlaceFrom(o, i) - 1
          /\ PlaceFrom(NextSlot(o), o) = QSIZE - 1
    BY PlaceFacts
  <2> QED
    BY <1>1, <2>1 DEF Place
<1>5. Waiting' = {i \in 0 .. QSIZE - 1 : PlaceFrom(queue_out', i) < PlaceFrom(queue_out', queue_in)}
  BY <1>1 DEF Waiting, Place
<1>6. /\ queue_out' \in 0 .. QSIZE - 1
      /\ \A i \in 0 .. QSIZE - 1 : PlaceFrom(queue_out', i) \in Nat /\ PlaceFrom(queue_out', i) < QSIZE
  BY <1>1, NextSlotType, PlaceFacts
<1>7. queue_out \notin Waiting'
  BY <1>4, <1>5, <1>6, ConstantFacts
<1>8. \A i \in Waiting' : i \in 0 .. QSIZE - 1 /\ i # queue_out /\ QData'[i] = QData[i]
  BY <1>1, <1>5, <1>7
<1>9. ASSUME ~queue_empty
      PROVE  /\ queue_out \in Waiting /\ Waiting' = Waiting \ {queue_out}
             /\ \A i, k \in Waiting' : Place(i) < Place(k) => (Place(i) < Place(k))'
             /\ \A k \in Waiting : Place(queue_out) < Place(k) => k \in Waiting'
  <2>1. queue_in # queue_out /\ Place(queue_in) > 0
    BY <1>3, <1>9 DEF queue_empty
  <2>2. queue_out \in Waiting
    BY <1>3, <2>1 DEF Waiting
  <2>3. PlaceFrom(queue_out', queue_in) = Place(queue_in) - 1
    BY <1>4, <1>5, <2>1
  <2>4. \A i \in 0 .. QSIZE - 1 : i # queue_out =>
          (PlaceFrom(queue_out', i) < Place(queue_in) - 1 <=> Place(i) < Place(queue_in))
    BY <1>2, <1>4, <1>5
  <2>5. Waiting' = Waiting \ {queue_out}
    BY <1>5, <1>8, <2>3, <2>4 DEF Waiting
  <2>6. \A i, k \in Waiting' : Place(i) < Place(k) => PlaceFrom(queue_out', i) < PlaceFrom(queue_out', k)
    BY <1>2, <1>4, <1>5, <1>8
  <2>7. \A i, k \in Waiting' : Place(i) < Place(k) => (Place(i) < Place(k))'
    BY <2>6 DEF Place
  <2>8. \A k \in Waiting : Place(queue_out) < Place(k) => k # queue_out
    BY <1>3
  <2> QED
    BY <2>2, <2>5, <2>7, <2>8
<1> QED
  BY <1>1, <1>8, <1>9

-----------------------------------------------------------------------------
(* The invariant.  Until a part is queued anew, the last of its packets that     *)
(* wait, or else the one in the thread's hands, or else the one in the output    *)
(* buffer, or else what the decoder has, is what the pool has; what the pool has is what the clients see or what the   *)
(* bus thread is about to show them.  A packet that is out of date has one       *)
(* behind it.                                                                    *)

Of(c, a, p) == c.adr = a /\ c.part = p

Queuing(a, p) == \E k \in Waiting : Of(QData[k], a, p)

QueuingAfter(i, a, p) == \E k \in Waiting : Place(i) < Place(k) /\ Of(QData[k], a, p)

InOrder(a, p) ==
    /\ \A i \in Waiting : Of(QData[i], a, p) =>
          QData[i].value = pool[a][p] \/ QueuingAfter(i, a, p)
    /\ Of(packet, a, p) => packet.value = pool[a][p] \/ Queuing(a, p)
    /\ Of(uart, a, p) => uart.value = pool[a][p] \/ Of(packet, a, p) \/ Queuing(a, p)
    /\ track[a][p] = pool[a][p] \/ Of(uart, a, p) \/ Of(packet, a, p) \/ Queuing(a, p)

\* A ring that is overrun after queue_get looked at the cursors is read all the
\* same, and is full again after that.
Overtaken(a, p) == queue_empty /\ rpc \in {"take", "takenext"} =>
    \A i \in 0 .. QSIZE - 1 : ~Of(QData[i], a, p)

OrderInv == \A a \in Locos : \A p \in Parts \ owed[a] : InOrder(a, p) /\ Overtaken(a, p)

\* The thread takes a packet with empty hands.
HandInv == packet # NoPacket =>
    ret = "send" /\ rpc \notin {"get", "take", "next", "takenext", "refresh"}

Copying == {"copy", "copied", "known", "add"}

ShownInv ==
    /\ cmd = NoCommand <=> bpc \notin Copying
    /\ bpc \in {"known", "add"} => pool[cmd.adr] = cmd.want
    /\ \A a \in Locos : \A p \in Parts \ owed[a] :
         IF a = cmd.adr /\ bpc # "copy" THEN pool[a][p] = cmd.want[p]
         ELSE pool[a][p] = shown[a][p]

SentInv == TypeOK /\ OrderInv /\ HandInv /\ ShownInv

-----------------------------------------------------------------------------
(* The steps that queue, take and send. *)

LEMMA LocoFacts ==
    /\ \A a \in Locos : \A p : ~Of(NoPacket, a, p)
    /\ NoCommand.adr \notin Locos
    /\ \A c \in Command : c # NoCommand
  BY ConstantFacts DEF Of, NoPacket, NoCommand, Command

\* What a decoder receives in one part changes no other.
LEMMA OtherCell ==
    ASSUME NEW V, NEW f \in [Locos -> [Parts -> V]], NEW a \in Locos, NEW p \in Parts,
           NEW b, NEW part, NEW v, b # a \/ part # p
    PROVE  [f EXCEPT ![b][part] = v][a][p] = f[a][p]
<1>1. CASE b = a
  BY <1>1
<1>2. CASE b # a
  BY <1>2
<1> QED
  BY <1>1, <1>2

\* What may happen to a part in the output buffer and beyond it: nothing; it is
\* discarded with a newer packet to come, or received from the pool; it is
\* written from the pool; it goes out.
OutputKept(a, p) ==
    \/ uart' = uart /\ track'[a][p] = track[a][p]
    \/ /\ Of(uart, a, p) => Of(packet, a, p) \/ Queuing(a, p)
       /\ ~Of(uart', a, p) /\ track'[a][p] \in {track[a][p], pool[a][p]}
    \/ Of(uart', a, p) /\ uart'.value = pool[a][p] /\ track'[a][p] = track[a][p]
    \/ Of(uart, a, p) /\ ~Of(uart', a, p) /\ track'[a][p] = uart.value

LEMMA DiscardKeeps ==
    ASSUME RingType', Discard, NEW a \in Locos, NEW p \in Parts, p \notin owed'[a]
    PROVE  /\ p \notin owed[a] /\ ~Of(uart', a, p)
           /\ Of(uart, a, p) => Of(packet', a, p) \/ Queuing(a, p)'
<1> DEFINE coming == {packet'} \cup {QData'[i] : i \in Unread'}
<1>1. /\ uart' = NoPacket
      /\ owed'[a] = owed[a] \cup (PartsIn({uart}, a) \ PartsIn(coming, a))
  BY DEF Discard
<1>2. ASSUME Of(uart, a, p) PROVE Of(packet', a, p) \/ Queuing(a, p)'
  <2>1. p \in PartsIn({uart}, a)
    BY <1>2 DEF Of, PartsIn
  <2>2. PICK c \in coming : c.adr = a /\ c.part = p
    BY <1>1, <2>1 DEF PartsIn
  <2> QED
    BY <2>2, WaitingIsUnread DEF Of, Queuing
<1> QED
  BY <1>1, <1>2, LocoFacts

\* Most steps leave the ring alone.
LEMMA OrderKept ==
    ASSUME OrderInv, UNCHANGED <<QData, queue_in, queue_out, packet>>,
           rpc' \in {"take", "takenext"} => rpc \in {"take", "takenext"} \/ ~queue_empty,
           \A a \in Locos : \A p \in Parts \ owed'[a] :
              /\ p \notin owed[a] /\ pool'[a][p] = pool[a][p]
              /\ OutputKept(a, p)
    PROVE  OrderInv'
<1> SUFFICES ASSUME NEW a \in Locos, NEW p \in Parts, p \notin owed'[a]
             PROVE  InOrder(a, p)' /\ Overtaken(a, p)'
  BY DEF OrderInv
<1>1. InOrder(a, p) /\ Overtaken(a, p)
  BY DEF OrderInv
<1>2. /\ \A i : Place(i)' = Place(i)
      /\ Waiting' = Waiting
  BY DEF Place, Waiting
<1>3. /\ \A i : QueuingAfter(i, a, p)' <=> QueuingAfter(i, a, p)
      /\ Queuing(a, p)' <=> Queuing(a, p)
      /\ Of(packet, a, p)' <=> Of(packet, a, p)
      /\ \A i : Of(QData'[i], a, p) <=> Of(QData[i], a, p)
  BY <1>2 DEF QueuingAfter, Queuing
<1>4. InOrder(a, p)'
  <2>1. OutputKept(a, p) /\ pool'[a][p] = pool[a][p]
    OBVIOUS
  <2>2. \A i \in Waiting' : Of(QData'[i], a, p) =>
          QData'[i].value = pool'[a][p] \/ QueuingAfter(i, a, p)'
    BY <1>1, <1>2, <1>3, <2>1 DEF InOrder
  <2>3. /\ Of(packet', a, p) => packet'.value = pool'[a][p] \/ Queuing(a, p)'
        /\ Of(uart', a, p) => uart'.value = pool'[a][p] \/ Of(packet', a, p) \/ Queuing(a, p)'
        /\ \/ track'[a][p] = pool'[a][p]
           \/ Of(uart', a, p) \/ Of(packet', a, p) \/ Queuing(a, p)'
    BY <1>1, <1>3, <2>1 DEF InOrder, OutputKept
  <2> QED
    BY <2>2, <2>3 DEF InOrder
<1>5. Overtaken(a, p)'
  BY <1>1 DEF Overtaken, queue_empty
<1> QED
  BY <1>4, <1>5

LEMMA AddKeepsOrder ==
    ASSUME RingType, owed \in [Locos -> SUBSET Parts], OrderInv, NEW c \in Packet, queue_add(c),
           c.adr \in Locos => c.value = pool[c.adr][c.part],
           UNCHANGED <<pool, packet, uart, track, rpc>>
    PROVE  OrderInv'
<1> DEFINE lost == {QData'[i] : i \in 0 .. QSIZE - 1}
<1> SUFFICES ASSUME NEW a \in Locos, NEW p \in Parts, p \notin owed'[a]
             PROVE  InOrder(a, p)' /\ Overtaken(a, p)'
  BY DEF OrderInv
<1>1. /\ QData'[queue_in] = c /\ queue_in \in 0 .. QSIZE - 1
      /\ \A i \in Waiting : i \in 0 .. QSIZE - 1 /\ QData'[i] = QData[i]
  BY RingAdd DEF RingType, Waiting
<1>2. owed'[a] = IF queue_in' = queue_out THEN owed[a] \cup PartsIn(lost, a)
                 ELSE owed[a] \ PartsIn({c}, a)
  BY DEF queue_add
<1>3. CASE queue_in' = queue_out
  <2>1. Waiting' = {}
    BY <1>3, RingAdd
  <2>2. p \notin owed[a] /\ p \notin PartsIn(lost, a)
    BY <1>2, <1>3
  <2>3. \A i \in 0 .. QSIZE - 1 : ~Of(QData'[i], a, p)
    BY <2>2 DEF PartsIn, Of
  <2>4. ~Queuing(a, p)
    BY <1>1, <2>3 DEF Queuing
  <2>5. InOrder(a, p)
    BY <2>2 DEF OrderInv
  <2>6. InOrder(a, p)'
    BY <2>1, <2>4, <2>5 DEF InOrder
  <2>7. Overtaken(a, p)'
    BY <2>3 DEF Overtaken
  <2> QED
    BY <2>6, <2>7
<1>4. CASE queue_in' # queue_out
  <2>1. /\ Waiting' = Waiting \cup {queue_in} /\ queue_in \notin Waiting
        /\ \A i \in Waiting : Place(i) < Place(queue_in)
        /\ \A i \in 0 .. QSIZE - 1 : Place(i)' = Place(i)
    BY <1>4, RingAdd
  <2>2. Overtaken(a, p)'
    BY <1>4 DEF Overtaken, queue_empty, queue_add
  <2>3. CASE Of(c, a, p)
    <3>1. Queuing(a, p)'
      BY <1>1, <2>1, <2>3 DEF Queuing
    <3>2. \A i \in Waiting : QueuingAfter(i, a, p)'
      BY <1>1, <2>1, <2>3 DEF QueuingAfter
    <3>3. QData'[queue_in].value = pool'[a][p]
      BY <1>1, <2>3 DEF Of
    <3> QED
      BY <2>1, <2>2, <3>1, <3>2, <3>3 DEF InOrder
  <2>4. CASE ~Of(c, a, p)
    <3>1. p \notin PartsIn({c}, a)
      BY <2>4 DEF PartsIn, Of
    <3>2. InOrder(a, p)
      BY <1>2, <1>4, <3>1 DEF OrderInv
    <3>3. Queuing(a, p) => Queuing(a, p)'
      BY <1>1, <2>1 DEF Queuing
    <3>4. \A i \in Waiting : QueuingAfter(i, a, p) => QueuingAfter(i, a, p)'
      BY <1>1, <2>1 DEF QueuingAfter
    <3>5. \A i \in Waiting' : Of(QData'[i], a, p) => i \in Waiting /\ QData'[i] = QData[i]
      BY <1>1, <2>1, <2>4
    <3> QED
      BY <2>2, <3>2, <3>3, <3>4, <3>5 DEF InOrder
  <2> QED
    BY <2>3, <2>4
<1> QED
  BY <1>3, <1>4

LEMMA GetKeepsOrder ==
    ASSUME TypeOK, OrderInv, HandInv, queue_get PROVE OrderInv' /\ HandInv'
<1>1. RingType
  BY DEF TypeOK, RingType
<1>2. /\ packet = NoPacket /\ rpc \in {"take", "takenext"}
      /\ rpc' = "short" /\ (packet' # NoPacket => ret' = "send")
      /\ UNCHANGED <<pool, track>>
      /\ Discard \/ UNCHANGED <<uart, owed>>
  BY DEF queue_get, HandInv, Call, poolVars
<1>3. /\ packet' = QData[queue_out] /\ queue_out \in 0 .. QSIZE - 1
      /\ \A i \in Waiting' : i \in 0 .. QSIZE - 1 /\ QData'[i] = QData[i]
  BY <1>1, RingGet DEF RingType
<1>4. ASSUME NEW a \in Locos, NEW p \in Parts, p \notin owed'[a]
      PROVE  InOrder(a, p)' /\ Overtaken(a, p)'
  <2>0. /\ p \notin owed[a]
        /\ \/ uart' = uart
           \/ ~Of(uart', a, p) /\ (Of(uart, a, p) => Of(packet', a, p) \/ Queuing(a, p)')
    <3>1. RingType'
      BY <1>1, NextSlotType DEF RingType, queue_get
    <3> QED
      BY <1>2, <1>4, <3>1, DiscardKeeps
  <2>1. InOrder(a, p) /\ Overtaken(a, p) /\ ~Of(packet, a, p)
    BY <1>2, <2>0, LocoFacts DEF OrderInv
  <2>2. Overtaken(a, p)'
    BY <1>2 DEF Overtaken
  <2>3. CASE queue_empty
    <3>1. \A i \in 0 .. QSIZE - 1 : ~Of(QData[i], a, p)
      BY <1>2, <2>1, <2>3 DEF Overtaken
    <3>2. ~Queuing(a, p)
      BY <3>1 DEF Queuing, Waiting
    <3>3. /\ track[a][p] = pool[a][p] \/ Of(uart, a, p)
          /\ Of(uart, a, p) => uart.value = pool[a][p]
      BY <2>1, <3>2 DEF InOrder
    <3>4. /\ ~Of(packet, a, p)' /\ \A i \in Waiting' : ~Of(QData'[i], a, p)
          /\ ~Queuing(a, p)'
      BY <1>3, <3>1 DEF Queuing
    <3>5. InOrder(a, p)'
      BY <1>2, <2>0, <3>3, <3>4 DEF InOrder
    <3> QED
      BY <2>2, <3>5
  <2>4. CASE ~queue_empty
    <3>1. /\ queue_out \in Waiting /\ Waiting' = Waiting \ {queue_out}
          /\ \A i, k \in Waiting' : Place(i) < Place(k) => (Place(i) < Place(k))'
          /\ \A k \in Waiting : Place(queue_out) < Place(k) => k \in Waiting'
      BY <1>1, <2>4, RingGet
    <3>2. Queuing(a, p) => Of(packet, a, p)' \/ Queuing(a, p)'
      BY <1>3, <3>1 DEF Queuing
    <3>3. QueuingAfter(queue_out, a, p) => Queuing(a, p)'
      BY <1>3, <3>1 DEF QueuingAfter, Queuing
    <3>4. \A i \in Waiting' : QueuingAfter(i, a, p) => QueuingAfter(i, a, p)'
      <4>1. SUFFICES ASSUME NEW i \in Waiting', QueuingAfter(i, a, p) PROVE QueuingAfter(i, a, p)'
        OBVIOUS
      <4>2. PICK k \in Waiting : Place(i) < Place(k) /\ Of(QData[k], a, p)
        BY <4>1 DEF QueuingAfter
      <4>3. k # queue_out
        <5>1. Place(queue_out) = 0 /\ Place(i) \in Nat
          BY <1>3, PlaceFacts DEF Place
        <5> QED
          BY <4>2, <5>1
      <4>4. k \in Waiting'
        BY <3>1, <4>3
      <4> QED
        BY <1>3, <3>1, <4>2, <4>4 DEF QueuingAfter
    <3>5. /\ \A i \in Waiting' : i \in Waiting /\ QData'[i] = QData[i]
          /\ Of(packet, a, p)' => packet'.value = pool[a][p] \/ QueuingAfter(queue_out, a, p)
      BY <1>3, <2>1, <3>1 DEF InOrder
    <3>6. /\ track[a][p] = pool[a][p] \/ Of(uart, a, p) \/ Queuing(a, p)
          /\ Of(uart, a, p) => uart.value = pool[a][p] \/ Queuing(a, p)
      BY <2>1 DEF InOrder
    <3>8. /\ Of(uart', a, p) => uart'.value = pool'[a][p] \/ Of(packet', a, p) \/ Queuing(a, p)'
          /\ \/ track'[a][p] = pool'[a][p]
             \/ Of(uart', a, p) \/ Of(packet', a, p) \/ Queuing(a, p)'
      BY <1>2, <2>0, <3>2, <3>6
    <3>7. InOrder(a, p)'
      BY <1>2, <2>1, <3>2, <3>3, <3>4, <3>5, <3>8 DEF InOrder
    <3> QED
      BY <2>2, <3>7
  <2> QED
    BY <2>3, <2>4
<1> QED
  BY <1>2, <1>4 DEF OrderInv, HandInv

LEMMA SendKeepsOrder ==
    ASSUME TypeOK, OrderInv, send_packet PROVE OrderInv' /\ HandInv'
<1>1. /\ rpc' = "next" /\ packet' = NoPacket
      /\ UNCHANGED <<QData, queue_in, queue_out, pool>>
  BY DEF send_packet, ringVars, poolVars
<1>2. /\ \A i : Place(i)' = Place(i)
      /\ Waiting' = Waiting
  BY <1>1 DEF Place, Waiting
<1>3. ASSUME NEW a \in Locos, NEW p \in Parts, p \notin owed'[a]
      PROVE  InOrder(a, p)' /\ Overtaken(a, p)'
  <2>1. /\ p \notin owed[a] /\ ~Of(uart, a, p)
        /\ Of(packet, a, p) =>
             \/ Of(uart', a, p) /\ uart'.value = packet.value
             \/ ~Of(uart', a, p) /\ track'[a][p] = packet.value
        /\ ~Of(packet, a, p) => ~Of(uart', a, p) /\ track'[a][p] = track[a][p]
    <3>1. p \notin owed[a] /\ (Of(packet, a, p) => lines = 1)
      BY <1>3 DEF send_packet, Of, TypeOK
    <3>2. ~Of(uart, a, p)
      BY LocoFacts DEF send_packet
    <3>3. CASE Of(packet, a, p)
      <4>1. Write(a, p, packet.value) /\ lines = 1
        BY <3>1, <3>3 DEF send_packet, Of
      <4>2. CASE a \in MLocos
        <5>1. track' = [track EXCEPT ![a][p] = packet.value] /\ uart' = NoPacket
          BY <4>1, <4>2, DDLAssumption DEF Write
        <5> QED
          BY <3>1, <3>2, <3>3, <5>1, LocoFacts DEF TypeOK
      <4>3. CASE a \in NLocos
        <5>1. /\ track' = track
              /\ \/ track[a][p] = packet.value /\ uart' = NoPacket
                 \/ uart' = [adr |-> a, part |-> p, value |-> packet.value]
          BY <4>1, <4>3, DDLAssumption DEF Write
        <5> QED
          BY <3>1, <3>2, <3>3, <5>1, LocoFacts DEF Of
      <4> QED
        BY <4>2, <4>3 DEF Locos
    <3>4. CASE ~Of(packet, a, p)
      <4>1. /\ \/ UNCHANGED track
               \/ track' = [track EXCEPT ![packet.adr][packet.part] = packet.value]
            /\ \/ uart' = NoPacket
               \/ uart' = [adr |-> packet.adr, part |-> packet.part, value |-> packet.value]
        BY DEF send_packet, Write
      <4>2. packet.adr # a \/ packet.part # p
        BY <3>4 DEF Of
      <4>3. track'[a][p] = track[a][p]
        BY <4>1, <4>2, OtherCell DEF TypeOK
      <4>4. ~Of(uart', a, p)
        BY <4>1, <4>2, LocoFacts DEF Of
      <4> QED
        BY <3>1, <3>2, <3>4, <4>3, <4>4
    <3> QED
      BY <3>3, <3>4
  <2>2. InOrder(a, p)
    BY <2>1 DEF OrderInv
  <2>3. /\ \A i : QueuingAfter(i, a, p)' <=> QueuingAfter(i, a, p)
        /\ Queuing(a, p)' <=> Queuing(a, p)
    BY <1>1, <1>2 DEF QueuingAfter, Queuing
  <2>4. ~Of(packet, a, p)'
    BY <1>1, LocoFacts
  <2>5. InOrder(a, p)'
    BY <1>1, <1>2, <2>1, <2>2, <2>3, <2>4 DEF InOrder
  <2> QED
    BY <1>1, <2>5 DEF Overtaken
<1> QED
  BY <1>1, <1>3 DEF OrderInv, HandInv

\* A packet for an accessory changes nothing for the locomotives.
LEMMA comp_accessoryKeeps ==
    ASSUME TypeOK, OrderInv, NEW t, comp_accessory(t), UNCHANGED <<pool, packet, uart, track, rpc>>
    PROVE  /\ OrderInv'
           /\ \A a \in Locos : owed[a] \subseteq owed'[a]
<1> DEFINE c == [adr |-> gatmp.port, part |-> 0, value |-> gatmp.action]
<1>1. c \in Packet /\ c.adr \notin Locos
  BY ConstantFacts DEF TypeOK, Packet
<1>2. queue_add(c)
  BY DEF comp_accessory
<1>3. OrderInv'
  <2> HIDE DEF c
  <2> QED
    BY <1>1, <1>2, AddKeepsOrder DEF TypeOK, RingType
<1>4. \A a \in Locos : PartsIn({c}, a) = {}
  BY <1>1 DEF PartsIn
<1>5. \A a \in Locos : owed[a] \subseteq owed'[a]
  BY <1>2, <1>4 DEF queue_add
<1> QED
  BY <1>3, <1>5

\* Steps that concern no locomotive.
LEMMA ShownKept ==
    ASSUME ShownInv, UNCHANGED <<pool, cmd, shown>>,
           \/ bpc' = bpc
           \/ bpc \notin Copying /\ bpc' \notin Copying,
           \A a \in Locos : owed[a] \subseteq owed'[a]
    PROVE  ShownInv'
<1>1. /\ cmd' = cmd /\ pool' = pool /\ shown' = shown
      /\ bpc' \in Copying <=> bpc \in Copying
      /\ \A a \in Locos : \A p \in Parts \ owed'[a] : p \notin owed[a]
  OBVIOUS
<1>2. CASE bpc' = bpc
  BY <1>1, <1>2 DEF ShownInv
<1>3. CASE bpc \notin Copying /\ bpc' \notin Copying
  <2>1. \A a \in Locos : a # cmd.adr
    BY <1>3, LocoFacts DEF ShownInv
  <2> QED
    BY <1>1, <1>3, <2>1 DEF ShownInv, Copying
<1> QED
  BY <1>2, <1>3

-----------------------------------------------------------------------------
(* The bus thread's steps. *)

LEMMA GLKeepsSent ==
    ASSUME SentInv,
           TakeGL \/ BeginCopy \/ EndCopy \/ UpdateKnown \/ AddGL \/ ShowGL
    PROVE  OrderInv' /\ ShownInv'
<1> USE DEF SentInv
<1>c. ASSUME bpc \in Copying
      PROVE  /\ cmd \in Command /\ cmd.adr \in Locos /\ cmd.adr \in Addresses
             /\ cmd.want \in Contents /\ cmd.send \in Seq(Parts)
  BY <1>c, ConstantFacts DEF ShownInv, TypeOK, Command
<1>1. CASE TakeGL
  <2>1. /\ UNCHANGED <<ringVars, pool, packet, rpc, uart, track, owed, shown>>
        /\ bpc = "idle" /\ bpc' = "copy"
    BY <1>1 DEF TakeGL, poolVars, handVars
  <2>2. OrderInv'
    BY <2>1, OrderKept DEF OutputKept, ringVars
  <2>3. cmd' # NoCommand
    BY <1>1, ConstantFacts DEF TakeGL, NoCommand
  <2>4. \A a \in Locos : a # cmd.adr
    BY <2>1, LocoFacts DEF ShownInv, Copying
  <2>5. ShownInv'
    BY <2>1, <2>3, <2>4 DEF ShownInv, Copying
  <2> QED
    BY <2>2, <2>5
<1>2. CASE BeginCopy
  <2>1. /\ UNCHANGED <<ringVars, packet, rpc, uart, track, shown, cmd>>
        /\ bpc = "copy" /\ bpc' = "copied"
        /\ pool' = [pool EXCEPT ![cmd.adr] = [p \in Parts |->
              IF pool[cmd.adr][p] = cmd.want[p] THEN pool[cmd.adr][p] ELSE "torn"]]
        /\ owed' = [owed EXCEPT ![cmd.adr] =
              owed[cmd.adr] \cup {p \in Parts : pool[cmd.adr][p] # cmd.want[p]}]
    BY <1>2 DEF BeginCopy, handVars
  <2>2. cmd.adr \in Locos /\ cmd.adr \in Addresses
    BY <1>c, <2>1 DEF Copying
  <2>3. \A a \in Locos : \A p \in Parts \ owed'[a] :
          /\ p \notin owed[a] /\ pool'[a][p] = pool[a][p]
          /\ a = cmd.adr => pool[a][p] = cmd.want[p]
    <3>1. \A a \in Locos : a \in Addresses
      BY ConstantFacts
    <3>2. /\ \A a \in Locos : a # cmd.adr => pool'[a] = pool[a] /\ owed'[a] = owed[a]
          /\ \A p \in Parts : pool'[cmd.adr][p] =
                IF pool[cmd.adr][p] = cmd.want[p] THEN pool[cmd.adr][p] ELSE "torn"
          /\ owed'[cmd.adr] = owed[cmd.adr] \cup {p \in Parts : pool[cmd.adr][p] # cmd.want[p]}
      BY <2>1, <2>2, <3>1 DEF TypeOK
    <3> QED
      BY <3>2
  <2>4. OrderInv'
    BY <2>1, <2>3, OrderKept DEF OutputKept, ringVars
  <2>5. ShownInv'
    BY <2>1, <2>3 DEF ShownInv, Copying
  <2> QED
    BY <2>4, <2>5
<1>3. CASE EndCopy
  <2>1. /\ UNCHANGED <<ringVars, packet, rpc, uart, track, shown, cmd, owed>>
        /\ bpc = "copied" /\ bpc' = "known"
        /\ pool' = [pool EXCEPT ![cmd.adr] = cmd.want]
    BY <1>3 DEF EndCopy, handVars
  <2>2. cmd.adr \in Addresses
    BY <1>c, <2>1 DEF Copying
  <2>3. /\ pool'[cmd.adr] = cmd.want
        /\ \A a \in Locos : a # cmd.adr => pool'[a] = pool[a]
    BY <2>1, <2>2, ConstantFacts DEF TypeOK
  <2>4. \A a \in Locos : \A p \in Parts \ owed[a] : pool'[a][p] = pool[a][p]
    BY <2>1, <2>3 DEF ShownInv
  <2>5. OrderInv'
    BY <2>1, <2>4, OrderKept DEF OutputKept, ringVars
  <2>6. ShownInv'
    BY <2>1, <2>3, <2>4 DEF ShownInv, Copying
  <2> QED
    BY <2>5, <2>6
<1>4. CASE UpdateKnown
  <2>1. /\ UNCHANGED <<ringVars, pool, packet, rpc, uart, track, shown, cmd, owed>>
        /\ bpc = "known" /\ bpc' = "add"
    BY <1>4 DEF UpdateKnown, handVars
  <2>2. OrderInv'
    BY <2>1, OrderKept DEF OutputKept, ringVars
  <2>3. ShownInv'
    BY <2>1 DEF ShownInv, Copying
  <2> QED
    BY <2>2, <2>3
<1>5. CASE AddGL
  <2> DEFINE c == [adr |-> cmd.adr, part |-> Head(cmd.send), value |-> cmd.want[Head(cmd.send)]]
  <2>1. /\ UNCHANGED <<pool, packet, rpc, uart, track, shown, bpc>>
        /\ bpc = "add" /\ queue_add(c)
        /\ cmd' = [cmd EXCEPT !.send = Tail(cmd.send)]
    BY <1>5 DEF AddGL, poolVars, handVars
  <2>2. cmd \in Command /\ cmd.adr \in Locos /\ pool[cmd.adr] = cmd.want
    BY <1>c, <2>1 DEF Copying, ShownInv
  <2>3. Head(cmd.send) \in Parts /\ Tail(cmd.send) \in Seq(Parts)
    BY <1>5, <2>2 DEF AddGL, Command
  <2>4. c \in Packet /\ c.value = pool[c.adr][c.part]
    BY <2>2, <2>3 DEF Command, Contents, Packet
  <2>5. OrderInv'
    <3> HIDE DEF c
    <3> QED
      BY <2>1, <2>4, AddKeepsOrder DEF TypeOK, RingType
  <2>6. cmd' \in Command /\ cmd'.adr = cmd.adr /\ cmd'.want = cmd.want
    BY <2>1, <2>2, <2>3 DEF Command
  <2>7. cmd' # NoCommand
    BY <2>6, LocoFacts
  <2>8. \A a \in Locos : \A p \in Parts \ owed'[a] : a # cmd.adr => p \notin owed[a]
    <3>1. \A a \in Locos : a # cmd.adr => PartsIn({c}, a) = {}
      BY DEF PartsIn
    <3> HIDE DEF c
    <3> QED
      BY <2>1, <3>1 DEF queue_add
  <2>9. ShownInv'
    BY <2>1, <2>2, <2>6, <2>7, <2>8 DEF ShownInv, Copying
  <2> QED
    BY <2>5, <2>9
<1>6. CASE ShowGL
  <2>1. /\ UNCHANGED <<ringVars, pool, packet, rpc, uart, track, owed>>
        /\ bpc = "add" /\ bpc' = "idle"
        /\ shown' = [shown EXCEPT ![cmd.adr] = cmd.want] /\ cmd' = NoCommand
    BY <1>6 DEF ShowGL, poolVars, handVars
  <2>2. OrderInv'
    BY <2>1, OrderKept DEF OutputKept, ringVars
  <2>3. /\ shown'[cmd.adr] = cmd.want
        /\ \A a \in Locos : a # cmd.adr => shown'[a] = shown[a]
        /\ \A a \in Locos : a # cmd'.adr
    BY <1>c, <2>1, LocoFacts DEF TypeOK, Copying
  <2>4. ShownInv'
    BY <2>1, <2>3 DEF ShownInv, Copying
  <2> QED
    BY <2>2, <2>4
<1> QED
  BY <1>1, <1>2, <1>3, <1>4, <1>5, <1>6

LEMMA GAKeepsSent ==
    ASSUME SentInv,
           \/ TakeGA \/ SwitchGA \/ TestTime \/ ClearAction \/ SwitchOff
           \/ WakeReset \/ SendReset
    PROVE  OrderInv' /\ ShownInv'
<1>1. /\ UNCHANGED <<pool, cmd, shown, packet, uart, track, rpc>>
      /\ bpc' = bpc \/ (bpc \notin Copying /\ bpc' \notin Copying)
      /\ \/ UNCHANGED <<ringVars, owed>>
         \/ comp_accessory(gatmp.activetime)
         \/ comp_accessory("none")
  <2> USE DEF poolVars, handVars, busVars, Copying
  <2>1. CASE TakeGA
    BY <2>1 DEF TakeGA
  <2>2. CASE SwitchGA
    BY <2>2 DEF SwitchGA
  <2>3. CASE TestTime
    BY <2>3 DEF TestTime
  <2>4. CASE ClearAction
    BY <2>4 DEF ClearAction
  <2>5. CASE SwitchOff
    BY <2>5 DEF SwitchOff
  <2>6. CASE WakeReset
    BY <2>6 DEF WakeReset
  <2>7. CASE SendReset
    BY <2>7 DEF SendReset
  <2> QED
    BY <2>1, <2>2, <2>3, <2>4, <2>5, <2>6, <2>7
<1>2. OrderInv' /\ \A a \in Locos : owed[a] \subseteq owed'[a]
  <2>1. CASE UNCHANGED <<ringVars, owed>>
    BY <1>1, <2>1, OrderKept DEF OutputKept, SentInv, ringVars
  <2>2. ASSUME NEW t, comp_accessory(t)
        PROVE  OrderInv' /\ \A a \in Locos : owed[a] \subseteq owed'[a]
    BY <1>1, <2>2, comp_accessoryKeeps DEF SentInv
  <2> QED
    BY <1>1, <2>1, <2>2
<1>3. ShownInv'
  BY <1>1, <1>2, ShownKept DEF SentInv
<1> QED
  BY <1>2, <1>3

-----------------------------------------------------------------------------
(* The refresh thread's steps. *)

LEMMA PowerOffKeepsSent ==
    ASSUME SentInv, power_is_off
    PROVE  OrderInv' /\ HandInv' /\ ShownInv'
<1> USE DEF SentInv
<1>1. /\ UNCHANGED <<ringVars, pool, packet, track, bpc, cmd, shown>>
      /\ Discard \/ UNCHANGED <<uart, owed>>
      /\ rpc \notin {"get", "take", "next", "takenext", "refresh", "send"}
      /\ \/ ret' = ret /\ rpc' \notin {"get", "take", "next", "takenext", "refresh"}
         \/ rpc = "gate" /\ power_state # 0 /\ Gate
         \/ rpc' = "short" /\ ret' = IF ret = "send" THEN "send" ELSE "top"
  <2> USE DEF poolVars, busVars
  <2>1. CASE Alarm
    BY <2>1 DEF Alarm
  <2>2. CASE AlarmFlag
    BY <2>2 DEF AlarmFlag
  <2>3. CASE TestPower
    BY <2>3 DEF TestPower
  <2>4. CASE set_lines_off
    BY <2>4 DEF set_lines_off
  <2>5. CASE set_lines_on
    BY <2>5 DEF set_lines_on
  <2>6. CASE ClearFlag
    BY <2>6 DEF ClearFlag
  <2>7. CASE AnnouncePower
    BY <2>7 DEF AnnouncePower
  <2>8. CASE Gate
    <3>1. CASE power_state = 0
      BY <2>8, <3>1 DEF Gate, Call
    <3>2. CASE power_state # 0
      BY <2>8, <3>2 DEF Gate
    <3> QED
      BY <3>1, <3>2
  <2> QED
    BY <2>1, <2>2, <2>3, <2>4, <2>5, <2>6, <2>7, <2>8 DEF power_is_off
<1>2. ASSUME rpc = "gate", power_state # 0, Gate, packet # NoPacket
      PROVE  rpc' = "send" /\ ret' = "send"
  BY <1>2 DEF Gate, HandInv
<1>3. HandInv'
  BY <1>1, <1>2 DEF HandInv
<1>4. rpc' \notin {"take", "takenext"}
  <2>1. CASE rpc = "gate" /\ power_state # 0 /\ Gate
    <3>1. ret \in {"top", "send", "refresh"}
      BY DEF TypeOK
    <3> QED
      BY <2>1, <3>1 DEF Gate
  <2> QED
    BY <1>1, <2>1
<1>7. \A a \in Locos : owed[a] \subseteq owed'[a]
  BY <1>1 DEF Discard
<1>5. OrderInv'
  <2>1. CASE UNCHANGED <<uart, owed>>
    BY <1>1, <1>4, <2>1, OrderKept DEF OutputKept, ringVars
  <2>2. CASE Discard
    <3>1. RingType'
      BY <1>1 DEF TypeOK, RingType, ringVars
    <3>2. /\ packet' = packet
          /\ \A a, p : Queuing(a, p)' <=> Queuing(a, p)
      BY <1>1 DEF Queuing, Waiting, Place, ringVars
    <3>3. \A a \in Locos : \A p \in Parts \ owed'[a] : p \notin owed[a] /\ OutputKept(a, p)
      BY <1>1, <2>2, <3>1, <3>2, DiscardKeeps DEF OutputKept
    <3> QED
      BY <1>1, <1>4, <3>3, OrderKept DEF ringVars
  <2> QED
    BY <1>1, <2>1, <2>2
<1>6. ShownInv'
  BY <1>1, <1>7, ShownKept
<1> QED
  BY <1>3, <1>5, <1>6

LEMMA SendingKeepsSent ==
    ASSUME SentInv, TestEmpty \/ queue_get \/ send_packet \/ refresh_loco \/ NotDue
    PROVE  OrderInv' /\ HandInv' /\ ShownInv'
<1> USE DEF SentInv
<1>1. /\ UNCHANGED <<pool, cmd, shown, bpc>>
      /\ \A a \in Locos : owed[a] \subseteq owed'[a]
  <2> USE DEF poolVars, busVars
  <2>1. CASE send_packet
    BY <2>1 DEF send_packet, TypeOK
  <2> QED
    BY <2>1 DEF TestEmpty, queue_get, refresh_loco, NotDue, Discard
<1>2. ShownInv'
  BY <1>1, ShownKept
<1>3. CASE TestEmpty
  <2>1. /\ UNCHANGED <<ringVars, pool, packet, uart, track, owed>>
        /\ rpc \in {"get", "next"}
        /\ rpc' \in {"take", "takenext"} => ~queue_empty
    BY <1>3 DEF TestEmpty, Call, poolVars
  <2> QED
    BY <1>2, <2>1, OrderKept DEF OutputKept, ringVars, HandInv
<1>4. CASE queue_get
  BY <1>2, <1>4, GetKeepsOrder
<1>5. CASE send_packet
  BY <1>2, <1>5, SendKeepsOrder
<1>6. CASE refresh_loco
  <2> DEFINE b == Entry(refresh)
             part == last[refresh].part
  <2>1. /\ UNCHANGED <<ringVars, pool, packet>>
        /\ rpc = "refresh" /\ rpc' = "short"
        /\ Write(b, part, pool[b][part])
        /\ Discard \/ (uart = NoPacket /\ UNCHANGED owed)
    BY <1>6 DEF refresh_loco, Call, poolVars
  <2>2. ASSUME NEW a \in Locos, NEW p \in Parts, p \notin owed'[a]
        PROVE  p \notin owed[a] /\ OutputKept(a, p)
    <3> HIDE DEF b, part, SentInv
    <3>1. track'[a][p] \in {track[a][p], pool[a][p]}
      <4>1. track \in [Locos -> [Parts -> {"raw", "torn", "off", "on"}]]
        BY DEF SentInv, TypeOK
      <4>2. CASE UNCHANGED track
        BY <4>2
      <4>3. CASE track' = [track EXCEPT ![b][part] = pool[b][part]] /\ b = a /\ part = p
        BY <4>1, <4>3
      <4>4. CASE track' = [track EXCEPT ![b][part] = pool[b][part]] /\ (b # a \/ part # p)
        BY <4>1, <4>4, OtherCell
      <4> QED
        BY <2>1, <4>2, <4>3, <4>4 DEF Write
    <3>2. CASE Discard
      <4>1. RingType'
        BY <2>1 DEF SentInv, TypeOK, RingType, ringVars
      <4>2. /\ packet' = packet
            /\ Queuing(a, p)' <=> Queuing(a, p)
        BY <2>1 DEF Queuing, Waiting, Place, ringVars
      <4> QED
        BY <2>2, <3>1, <3>2, <4>1, <4>2, DiscardKeeps DEF OutputKept
    <3>3. CASE uart = NoPacket /\ UNCHANGED owed
      <4>1. ~Of(uart, a, p)
        BY <3>3, LocoFacts
      <4>2. CASE uart' = NoPacket
        BY <2>2, <3>1, <3>3, <4>1, <4>2, LocoFacts DEF OutputKept
      <4>3. CASE uart' = [adr |-> b, part |-> part, value |-> pool[b][part]] /\ track' = track
        <5>1. Of(uart', a, p) => b = a /\ part = p /\ uart'.value = pool[a][p]
          BY <4>3 DEF Of
        <5> QED
          BY <2>2, <3>3, <4>1, <4>3, <5>1 DEF OutputKept
      <4> QED
        BY <2>1, <4>2, <4>3, DDLAssumption DEF Write
    <3> QED
      BY <2>1, <3>2, <3>3
  <2>3. OrderInv'
    <3> HIDE DEF b, part
    <3> QED
      BY <2>1, <2>2, OrderKept DEF ringVars
  <2>4. HandInv'
    BY <2>1 DEF HandInv
  <2> QED
    BY <1>2, <2>3, <2>4
<1>7. CASE NotDue
  <2>1. /\ UNCHANGED <<ringVars, pool, packet, uart, track, owed>>
        /\ rpc = "refresh" /\ rpc' = "short"
    BY <1>7 DEF NotDue, Call, poolVars
  <2> QED
    BY <1>2, <2>1, OrderKept DEF OutputKept, ringVars, HandInv
<1> QED
  BY <1>3, <1>4, <1>5, <1>6, <1>7

LEMMA DrainKeepsSent ==
    ASSUME SentInv, Drain PROVE OrderInv' /\ HandInv' /\ ShownInv'
<1>1. /\ UNCHANGED <<ringVars, pool, packet, rpc, ret, bpc, cmd, shown, owed>>
      /\ uart \in Unsent /\ uart' = NoPacket
      /\ track' = [track EXCEPT ![uart.adr][uart.part] = uart.value]
  BY DEF Drain, SentInv, TypeOK, poolVars, handVars, busVars
<1>2. ASSUME NEW a \in Locos, NEW p \in Parts PROVE OutputKept(a, p)
  <2>1. track \in [Locos -> [Parts -> {"raw", "torn", "off", "on"}]] /\ ~Of(uart', a, p)
    BY <1>1, LocoFacts DEF SentInv, TypeOK
  <2>2. CASE Of(uart, a, p)
    BY <1>1, <2>1, <2>2 DEF Of, OutputKept
  <2>3. CASE ~Of(uart, a, p)
    <3>1. uart.adr # a \/ uart.part # p
      BY <2>3 DEF Of
    <3>2. track'[a][p] = track[a][p]
      BY <1>1, <2>1, <3>1, OtherCell
    <3> QED
      BY <2>1, <2>3, <3>2 DEF OutputKept
  <2> QED
    BY <2>2, <2>3
<1>3. OrderInv'
  BY <1>1, <1>2, OrderKept DEF SentInv, ringVars
<1>4. HandInv' /\ ShownInv'
  BY <1>1, ShownKept DEF SentInv, HandInv
<1> QED
  BY <1>3, <1>4

-----------------------------------------------------------------------------
(* What the clients see arrives, in order. *)

LEMMA SentInit == Init => OrderInv /\ HandInv /\ ShownInv
<1> SUFFICES ASSUME Init PROVE OrderInv /\ HandInv /\ ShownInv
  OBVIOUS
<1>1. \A a \in Locos : Parts \ owed[a] = {}
  BY DEF Init
<1> QED
  BY <1>1 DEF Init, OrderInv, HandInv, ShownInv, Copying

LEMMA SentStep == SentInv /\ [Next]_vars => OrderInv' /\ HandInv' /\ ShownInv'
<1> SUFFICES ASSUME SentInv, [Next]_vars PROVE OrderInv' /\ HandInv' /\ ShownInv'
  OBVIOUS
<1>1. CASE thr_sendrec_DDL \/ WakeReset \/ SendReset
  <2>1. OrderInv' /\ ShownInv'
    BY <1>1, GLKeepsSent, GAKeepsSent DEF thr_sendrec_DDL
  <2>2. UNCHANGED <<packet, rpc, ret>>
    BY <1>1
    DEF thr_sendrec_DDL, TakeGL, BeginCopy, EndCopy, UpdateKnown, AddGL, ShowGL, TakeGA,
        SwitchGA, TestTime, ClearAction, SwitchOff, WakeReset, SendReset, handVars
  <2> QED
    BY <2>1, <2>2 DEF SentInv, HandInv
<1>2. CASE power_is_off
  BY <1>2, PowerOffKeepsSent
<1>3. CASE TestEmpty \/ queue_get \/ send_packet \/ refresh_loco \/ NotDue
  BY <1>3, SendingKeepsSent
<1>4. CASE UNCHANGED <<ringVars, poolVars, handVars, busVars, uart, track, owed>>
  BY <1>4, OrderKept, ShownKept
  DEF SentInv, HandInv, OutputKept, ringVars, poolVars, handVars, busVars
<1>5. ASSUME NEW s \in Sessions, SetPower(s) \/ PowerChanged(s)
      PROVE  UNCHANGED <<ringVars, poolVars, handVars, busVars, uart, track, owed>>
  BY <1>5 DEF SetPower, PowerChanged
<1>6. CASE Drain
  BY <1>6, DrainKeepsSent
<1> QED
  BY <1>1, <1>2, <1>3, <1>4, <1>5, <1>6 DEF Next, thr_refresh_cycle, vars

\* When nothing is under way the decoders have what the clients see, in every
\* part that was queued since it changed: for any number of locomotives, parts,
\* slots of the ring and sessions, although queue_get looks at the cursors before
\* it takes the mutex, although packets are overwritten while they are read, and
\* although an overrun ring is read all the same.
THEOREM SentInOrderHolds == Spec => []SentInOrder
<1>1. SentInv => SentInOrder
  <2> SUFFICES ASSUME SentInv, Drained, NEW a \in Locos, NEW p \in Parts \ owed[a]
               PROVE  track[a][p] = shown[a][p]
    BY DEF SentInOrder
  <2>1. /\ RingType /\ queue_in = queue_out
        /\ packet = NoPacket /\ uart = NoPacket /\ cmd = NoCommand
    BY DEF SentInv, TypeOK, RingType, Drained, queue_empty
  <2>2. \A i \in 0 .. QSIZE - 1 : Place(i) \in Nat /\ Place(queue_in) = 0
    BY <2>1, PlaceFacts DEF Place, RingType
  <2>3. ~Queuing(a, p) /\ ~Of(packet, a, p) /\ ~Of(uart, a, p)
    BY <2>1, <2>2, LocoFacts DEF Queuing, Waiting
  <2>4. track[a][p] = pool[a][p]
    BY <2>3 DEF SentInv, OrderInv, InOrder
  <2>5. pool[a][p] = shown[a][p]
    BY <2>1, LocoFacts DEF SentInv, ShownInv
  <2> QED
    BY <2>4, <2>5
<1>2. Spec => [](OrderInv /\ HandInv /\ ShownInv)
  BY SentInit, SentStep, TypeCorrect, PTL DEF Spec, SentInv
<1> QED
  BY <1>1, <1>2, TypeCorrect, PTL DEF SentInv

LEMMA KindFacts ==
    /\ \A adr \in M!Addresses : adr \in 1..255 /\ Kinds[adr] \in {"M1", "M2", "M2/28"}
    /\ \A adr \in M!Addresses : \A c \in GLCommands[Kinds[adr]] :
         /\ c \in [direction : 0..2, speed : 0..28, funcs : M!Functions]
         /\ Kinds[adr] # "M2/28" => c.speed \in 0..15
    /\ MaxToCome \in Nat
<1>1. \A kind \in {"M1", "M2", "M2/28"} : \A c \in GLCommands[kind] :
        /\ c \in [direction : 0..2, speed : 0..28, funcs : M!Functions]
        /\ kind # "M2/28" => c.speed \in 0..15
  BY MaerklinAssumption DEF SpeedSteps, M!Functions
<1> QED
  BY <1>1, MaerklinAssumption DEF M!Addresses

LEMMA Powers ==
    /\ 2 ^ 0 = 1 /\ 2 ^ 1 = 2 /\ 2 ^ 2 = 4 /\ 2 ^ 3 = 8
    /\ 3 ^ 0 = 1 /\ 3 ^ 1 = 3 /\ 3 ^ 2 = 9 /\ 3 ^ 3 = 27
  OBVIOUS

\* A nibble, the lowest bit first, and its number.
LEMMA BitsOfNibble ==
    ASSUME NEW s \in 0..15
    PROVE  LET b == M!Bits(s)
           IN /\ b \in M!Nibbles
              /\ b[1] = s % 2 /\ b[2] = (s \div 2) % 2
              /\ b[3] = (s \div 4) % 2 /\ b[4] = (s \div 8) % 2
              /\ b[1] + 2 * b[2] + 4 * b[3] + 8 * b[4] = s
<1> DEFINE b == M!Bits(s)
<1>1. b[1] = s % 2 /\ b[2] = (s \div 2) % 2 /\ b[3] = (s \div 4) % 2 /\ b[4] = (s \div 8) % 2
  BY Powers DEF M!Bits
<1>2. DOMAIN b = 1..4 /\ b = [i \in 1..4 |-> b[i]]
  BY DEF M!Bits
<1>3. \A i \in 1..4 : i = 1 \/ i = 2 \/ i = 3 \/ i = 4
  OBVIOUS
<1>4. \A i \in 1..4 : b[i] \in 0..1
  <2> HIDE DEF b
  <2> QED
    BY <1>1, <1>3
<1>5. b \in M!Nibbles
  BY <1>2, <1>4 DEF M!Nibbles
<1>6. b[1] + 2 * b[2] + 4 * b[3] + 8 * b[4] = s
  <2> HIDE DEF b
  <2> QED
    BY <1>1
<1> QED
  BY <1>1, <1>5, <1>6

LEMMA MaskNibble ==
    ASSUME NEW direction \in 0..2, NEW s \in 0..15
    PROVE  M!mask(direction, s) \in M!Nibbles
<1>1. \A w, x, y, z \in 0..1 : <<w, x, y, z>> \in M!Nibbles
  BY DEF M!Nibbles
<1>2. \/ M!mask(direction, s) = <<1, 0, 1, 0>> \/ M!mask(direction, s) = <<1, 0, 1, 1>>
      \/ M!mask(direction, s) = <<0, 1, 0, 1>> \/ M!mask(direction, s) = <<0, 1, 0, 0>>
  BY DEF M!mask
<1> QED
  BY <1>1, <1>2

LEMMA AppendFourth ==
    ASSUME NEW w \in 0..1, NEW x \in 0..1, NEW y \in 0..1, NEW z \in 0..1
    PROVE  Append(<<w, x, y>>, z) = <<w, x, y, z>>
<1>1. <<w, x, y>> \in Seq(0..1) /\ Len(<<w, x, y>>) = 3
  OBVIOUS
<1>2. <<w, x, y, z>> \in Seq(0..1) /\ Len(<<w, x, y, z>>) = 4
  OBVIOUS
<1>3. Append(<<w, x, y>>, z) \in Seq(0..1) /\ Len(Append(<<w, x, y>>, z)) = 4
  OBVIOUS
<1>4. \A i \in 1..4 : Append(<<w, x, y>>, z)[i] = <<w, x, y, z>>[i]
  <2>1. \A i \in 1..4 : i = 1 \/ i = 2 \/ i = 3 \/ i = 4
    OBVIOUS
  <2>2. /\ Append(<<w, x, y>>, z)[1] = w /\ Append(<<w, x, y>>, z)[2] = x
        /\ Append(<<w, x, y>>, z)[3] = y /\ Append(<<w, x, y>>, z)[4] = z
    OBVIOUS
  <2> QED
    BY <2>1, <2>2
<1> QED
  BY <1>2, <1>3, <1>4, SeqEqual

\* The fourth bit of a function's nibble says whether it is on.
LEMMA FunctionNibble ==
    ASSUME NEW n \in 1..4, NEW s \in 0..15, NEW funcs
    PROVE  LET b == M!FunctionBits(n, s, funcs)
           IN /\ b \in M!Nibbles
              /\ b[4] = M!Flag(funcs, n)
              /\ \/ b = <<1, 0, 1, 0>> /\ n \notin funcs /\ s = M!OffSpeed[n]
                 \/ b = <<0, 1, 0, 1>> /\ n \in funcs /\ s = M!OffSpeed[n] + 8
                 \/ /\ b = Append(M!FunctionForm[n], M!Flag(funcs, n))
                    /\ ~(n \notin funcs /\ s = M!OffSpeed[n])
                    /\ ~(n \in funcs /\ s = M!OffSpeed[n] + 8)
<1> DEFINE b == M!FunctionBits(n, s, funcs)
           f == M!Flag(funcs, n)
<1>1. \A w, x, y, z \in 0..1 : <<w, x, y, z>> \in M!Nibbles
  BY DEF M!Nibbles
<1>2. f \in 0..1 /\ (n \in funcs => f = 1) /\ (n \notin funcs => f = 0)
  BY DEF M!Flag
<1>3. n = 1 \/ n = 2 \/ n = 3 \/ n = 4
  OBVIOUS
<1>4. Append(M!FunctionForm[n], f) \in {<<1, 1, 0, f>>, <<0, 0, 1, f>>, <<0, 1, 1, f>>,
                                        <<1, 1, 1, f>>}
  <2>1. /\ M!FunctionForm[1] = <<1, 1, 0>> /\ M!FunctionForm[2] = <<0, 0, 1>>
        /\ M!FunctionForm[3] = <<0, 1, 1>> /\ M!FunctionForm[4] = <<1, 1, 1>>
    BY DEF M!FunctionForm
  <2>2. /\ Append(<<1, 1, 0>>, f) = <<1, 1, 0, f>> /\ Append(<<0, 0, 1>>, f) = <<0, 0, 1, f>>
        /\ Append(<<0, 1, 1>>, f) = <<0, 1, 1, f>> /\ Append(<<1, 1, 1>>, f) = <<1, 1, 1, f>>
    BY <1>2, AppendFourth
  <2> QED
    BY <1>3, <2>1, <2>2
<1>5. CASE n \notin funcs /\ s = M!OffSpeed[n]
  <2>1. b = <<1, 0, 1, 0>>
    BY <1>5 DEF M!FunctionBits
  <2> QED
    BY <1>1, <1>2, <1>5, <2>1
<1>6. CASE n \in funcs /\ s = M!OffSpeed[n] + 8
  <2>1. b = <<0, 1, 0, 1>>
    BY <1>6 DEF M!FunctionBits
  <2> QED
    BY <1>1, <1>2, <1>6, <2>1
<1>7. CASE ~(n \notin funcs /\ s = M!OffSpeed[n]) /\ ~(n \in funcs /\ s = M!OffSpeed[n] + 8)
  <2>1. b = Append(M!FunctionForm[n], f)
    BY <1>7 DEF M!FunctionBits
  <2>2. b \in {<<1, 1, 0, f>>, <<0, 0, 1, f>>, <<0, 1, 1, f>>, <<1, 1, 1, f>>}
    BY <1>4, <2>1
  <2>3. b \in M!Nibbles
    BY <1>1, <1>2, <2>2
  <2>4. b[4] = f
    BY <2>2
  <2> QED
    BY <1>7, <2>1, <2>3, <2>4
<1> QED
  BY <1>5, <1>6, <1>7

-----------------------------------------------------------------------------
(* What a decoder hears. *)

LEMMA Forms ==
    \A b \in M!Nibbles : \A k \in 1..4 :
       M!FunctionForm[k] = SubSeq(b, 1, 3) <=>
         \/ k = 1 /\ b[1] = 1 /\ b[2] = 1 /\ b[3] = 0
         \/ k = 2 /\ b[1] = 0 /\ b[2] = 0 /\ b[3] = 1
         \/ k = 3 /\ b[1] = 0 /\ b[2] = 1 /\ b[3] = 1
         \/ k = 4 /\ b[1] = 1 /\ b[2] = 1 /\ b[3] = 1
<1> SUFFICES ASSUME NEW b \in M!Nibbles, NEW k \in 1..4
             PROVE  M!FunctionForm[k] = SubSeq(b, 1, 3) <=>
                      \/ k = 1 /\ b[1] = 1 /\ b[2] = 1 /\ b[3] = 0
                      \/ k = 2 /\ b[1] = 0 /\ b[2] = 0 /\ b[3] = 1
                      \/ k = 3 /\ b[1] = 0 /\ b[2] = 1 /\ b[3] = 1
                      \/ k = 4 /\ b[1] = 1 /\ b[2] = 1 /\ b[3] = 1
  OBVIOUS
<1>1. b \in Seq(0..1) /\ Len(b) = 4
  <2>1. b \in [1..4 -> 0..1] /\ 4 \in Nat
    BY DEF M!Nibbles
  <2>2. b \in Seq(0..1)
    BY <2>1, SeqDef
  <2> QED
    BY <2>1, <2>2, LenProperties
<1>2. /\ SubSeq(b, 1, 3) \in Seq(0..1) /\ Len(SubSeq(b, 1, 3)) = 3
      /\ SubSeq(b, 1, 3)[1] = b[1] /\ SubSeq(b, 1, 3)[2] = b[2] /\ SubSeq(b, 1, 3)[3] = b[3]
  BY <1>1
<1>3. ASSUME NEW w \in 0..1, NEW x \in 0..1, NEW y \in 0..1
      PROVE  <<w, x, y>> = SubSeq(b, 1, 3) <=> w = b[1] /\ x = b[2] /\ y = b[3]
  <2>1. <<w, x, y>> \in Seq(0..1) /\ Len(<<w, x, y>>) = 3
    OBVIOUS
  <2>2. ASSUME w = b[1], x = b[2], y = b[3]
        PROVE  \A i \in 1..3 : <<w, x, y>>[i] = SubSeq(b, 1, 3)[i]
    <3>1. \A i \in 1..3 : i = 1 \/ i = 2 \/ i = 3
      OBVIOUS
    <3> QED
      BY <1>2, <2>2, <3>1
  <2> QED
    BY <1>2, <2>1, <2>2, SeqEqual
<1>4. /\ M!FunctionForm[1] = <<1, 1, 0>> /\ M!FunctionForm[2] = <<0, 0, 1>>
      /\ M!FunctionForm[3] = <<0, 1, 1>> /\ M!FunctionForm[4] = <<1, 1, 1>>
  BY DEF M!FunctionForm
<1>5. k = 1 \/ k = 2 \/ k = 3 \/ k = 4
  OBVIOUS
<1> QED
  BY <1>3, <1>4, <1>5

\* A packet for a function is not taken for one of the old format, nor for one
\* of the direction: the decoder hears the function.
LEMMA FunctionHeard ==
    ASSUME NEW n \in 1..4, NEW s \in 0..15, NEW funcs, NEW p,
           p.second = M!FunctionBits(n, s, funcs)
    PROVE  /\ M!FunctionBits(n, s, funcs) # M!Bits(s)
           /\ M!HeardFunction(p, s) = n
<1> DEFINE b == M!FunctionBits(n, s, funcs)
<1>1. /\ M!OffSpeed[1] = 3 /\ M!OffSpeed[2] = 4 /\ M!OffSpeed[3] = 6 /\ M!OffSpeed[4] = 7
  BY DEF M!OffSpeed
<1>2. /\ M!FunctionForm[1] = <<1, 1, 0>> /\ M!FunctionForm[2] = <<0, 0, 1>>
      /\ M!FunctionForm[3] = <<0, 1, 1>> /\ M!FunctionForm[4] = <<1, 1, 1>>
  BY DEF M!FunctionForm
<1>3. b \in M!Nibbles /\ M!Flag(funcs, n) \in 0..1
  BY FunctionNibble DEF M!Flag
<1>4. M!Bits(s)[1] + 2 * M!Bits(s)[2] + 4 * M!Bits(s)[3] + 8 * M!Bits(s)[4] = s
  BY BitsOfNibble
<1>5. n = 1 \/ n = 2 \/ n = 3 \/ n = 4
  OBVIOUS
<1>6. CASE b = <<1, 0, 1, 0>> /\ s = M!OffSpeed[n]
  <2>1. b # M!Bits(s)
    BY <1>1, <1>4, <1>5, <1>6
  <2>2. s \in {3, 4, 6, 7} /\ \A k \in 1..4 : M!OffSpeed[k] = s <=> k = n
    BY <1>1, <1>5, <1>6
  <2>3. p.second = <<1, 0, 1, 0>> /\ <<0, 1, 0, 1>> # <<1, 0, 1, 0>>
    BY <1>6
  <2>4. ~\E k \in 1..4 : M!FunctionForm[k] = SubSeq(p.second, 1, 3)
    BY <1>3, <2>3, Forms
  <2>5. M!HeardFunction(p, s) = CHOOSE k \in 1..4 : M!OffSpeed[k] = s
    BY <2>2, <2>3, <2>4 DEF M!HeardFunction
  <2> QED
    BY <2>1, <2>2, <2>5
<1>7. CASE b = <<0, 1, 0, 1>> /\ s = M!OffSpeed[n] + 8
  <2>1. b # M!Bits(s)
    BY <1>1, <1>4, <1>5, <1>7
  <2>2. s \in {11, 12, 14, 15} /\ \A k \in 1..4 : M!OffSpeed[k] = s - 8 <=> k = n
    BY <1>1, <1>5, <1>7
  <2>3. p.second = <<0, 1, 0, 1>> /\ <<0, 1, 0, 1>> # <<1, 0, 1, 0>>
    BY <1>7
  <2>4. ~\E k \in 1..4 : M!FunctionForm[k] = SubSeq(p.second, 1, 3)
    BY <1>3, <2>3, Forms
  <2>5. M!HeardFunction(p, s) = CHOOSE k \in 1..4 : M!OffSpeed[k] = s - 8
    BY <2>2, <2>3, <2>4 DEF M!HeardFunction
  <2> QED
    BY <2>1, <2>2, <2>5
<1>8. CASE /\ b = Append(M!FunctionForm[n], M!Flag(funcs, n))
           /\ ~(n \notin funcs /\ s = M!OffSpeed[n])
           /\ ~(n \in funcs /\ s = M!OffSpeed[n] + 8)
  <2>1. b[4] = M!Flag(funcs, n)
    BY FunctionNibble
  <2>2. /\ n = 1 => b[1] = 1 /\ b[2] = 1 /\ b[3] = 0
        /\ n = 2 => b[1] = 0 /\ b[2] = 0 /\ b[3] = 1
        /\ n = 3 => b[1] = 0 /\ b[2] = 1 /\ b[3] = 1
        /\ n = 4 => b[1] = 1 /\ b[2] = 1 /\ b[3] = 1
    <3>1. \A w, x, y \in 0..1 :
            M!FunctionForm[n] = <<w, x, y>> => b[1] = w /\ b[2] = x /\ b[3] = y
      <4> SUFFICES ASSUME NEW w \in 0..1, NEW x \in 0..1, NEW y \in 0..1,
                          M!FunctionForm[n] = <<w, x, y>>
                   PROVE  b[1] = w /\ b[2] = x /\ b[3] = y
        OBVIOUS
      <4>1. b = <<w, x, y, M!Flag(funcs, n)>>
        BY <1>3, <1>8, AppendFourth
      <4> QED
        BY <4>1
    <3> QED
      BY <1>2, <3>1
  <2>3. b # M!Bits(s)
    <3>1. M!Flag(funcs, n) = 0 => s # M!OffSpeed[n]
      BY <1>8 DEF M!Flag
    <3>2. M!Flag(funcs, n) = 1 => s # M!OffSpeed[n] + 8
      BY <1>8 DEF M!Flag
    <3> QED
      BY <1>1, <1>3, <1>4, <1>5, <2>1, <2>2, <3>1, <3>2
  <2>4. b # <<1, 0, 1, 0>> /\ b # <<0, 1, 0, 1>>
    BY <1>5, <2>2
  <2>5. \A k \in 1..4 : M!FunctionForm[k] = SubSeq(b, 1, 3) <=> k = n
    BY <1>3, <1>5, <2>2, Forms
  <2>6. (CHOOSE k \in 1..4 : M!FunctionForm[k] = SubSeq(b, 1, 3)) = n
    BY SMTT(30), <2>5
  <2>7. M!HeardFunction(p, s) = CHOOSE k \in 1..4 : M!FunctionForm[k] = SubSeq(b, 1, 3)
    BY ZenonT(30), <2>4, <2>5 DEF M!HeardFunction
  <2> QED
    BY <2>3, <2>6, <2>7
<1>9. \/ b = <<1, 0, 1, 0>> /\ n \notin funcs /\ s = M!OffSpeed[n]
      \/ b = <<0, 1, 0, 1>> /\ n \in funcs /\ s = M!OffSpeed[n] + 8
      \/ /\ b = Append(M!FunctionForm[n], M!Flag(funcs, n))
         /\ ~(n \notin funcs /\ s = M!OffSpeed[n])
         /\ ~(n \in funcs /\ s = M!OffSpeed[n] + 8)
  BY ZenonT(30), FunctionNibble
<1> QED
  BY <1>6, <1>7, <1>8, <1>9

\* Nor is a packet for the direction.
LEMMA DirectionHeard ==
    ASSUME NEW direction \in 0..2, NEW s \in 0..15, NEW p, p.second = M!mask(direction, s)
    PROVE  /\ M!mask(direction, s) # M!Bits(s)
           /\ M!HeardFunction(p, s) = 0
           /\ 1 - M!mask(direction, s)[1] = IF direction = 0 THEN 0 ELSE 1
<1> DEFINE b == M!mask(direction, s)
<1>1. \/ b = <<1, 0, 1, 0>> /\ direction = 0 /\ s > 7
      \/ b = <<1, 0, 1, 1>> /\ direction = 0 /\ s <= 7
      \/ b = <<0, 1, 0, 1>> /\ direction # 0 /\ s <= 7
      \/ b = <<0, 1, 0, 0>> /\ direction # 0 /\ s > 7
  BY DEF M!mask
<1>2. b \in M!Nibbles
  BY MaskNibble
<1>3. M!Bits(s)[1] + 2 * M!Bits(s)[2] + 4 * M!Bits(s)[3] + 8 * M!Bits(s)[4] = s
  BY BitsOfNibble
<1>4. b # M!Bits(s)
  BY <1>1, <1>3
<1>5. ~\E k \in 1..4 : M!FunctionForm[k] = SubSeq(b, 1, 3)
  BY <1>1, <1>2, Forms
<1>6. /\ ~(b = <<1, 0, 1, 0>> /\ s \in {3, 4, 6, 7})
      /\ ~(b = <<0, 1, 0, 1>> /\ s \in {11, 12, 14, 15})
  <2>1. <<0, 1, 0, 1>> # <<1, 0, 1, 0>> /\ <<1, 0, 1, 1>> # <<1, 0, 1, 0>>
        /\ <<0, 1, 0, 0>> # <<1, 0, 1, 0>> /\ <<1, 0, 1, 1>> # <<0, 1, 0, 1>>
        /\ <<0, 1, 0, 0>> # <<0, 1, 0, 1>>
    OBVIOUS
  <2> QED
    BY <1>1, <2>1
<1>7. M!HeardFunction(p, s) = 0
  BY <1>5, <1>6 DEF M!HeardFunction
<1>8. 1 - b[1] = IF direction = 0 THEN 0 ELSE 1
  BY <1>1
<1> QED
  BY <1>4, <1>7, <1>8

Decoders == [step : 0..15, half : BOOLEAN, direction : 0..1, funcs : M!Functions]

LEMMA HeardFunctionType ==
    ASSUME NEW p, p.second \in M!Nibbles, NEW s \in 0..15
    PROVE  M!HeardFunction(p, s) \in 0..4
<1>1. /\ M!OffSpeed[1] = 3 /\ M!OffSpeed[2] = 4 /\ M!OffSpeed[3] = 6 /\ M!OffSpeed[4] = 7
  BY DEF M!OffSpeed
<1>2. CASE p.second = <<1, 0, 1, 0>> /\ s \in {3, 4, 6, 7}
  <2>1. \E k \in 1..4 : M!OffSpeed[k] = s
    BY <1>1, <1>2
  <2>2. ~\E k \in 1..4 : M!FunctionForm[k] = SubSeq(p.second, 1, 3)
    BY <1>2, Forms
  <2>3. <<0, 1, 0, 1>> # <<1, 0, 1, 0>>
    OBVIOUS
  <2>4. M!HeardFunction(p, s) = CHOOSE k \in 1..4 : M!OffSpeed[k] = s
    BY <1>2, <2>2, <2>3 DEF M!HeardFunction
  <2> QED
    BY <2>1, <2>4
<1>3. CASE p.second = <<0, 1, 0, 1>> /\ s \in {11, 12, 14, 15}
  <2>1. \E k \in 1..4 : M!OffSpeed[k] = s - 8
    BY <1>1, <1>3
  <2>2. ~\E k \in 1..4 : M!FunctionForm[k] = SubSeq(p.second, 1, 3)
    BY <1>3, Forms
  <2>3. <<0, 1, 0, 1>> # <<1, 0, 1, 0>>
    OBVIOUS
  <2>4. M!HeardFunction(p, s) = CHOOSE k \in 1..4 : M!OffSpeed[k] = s - 8
    BY <1>3, <2>2, <2>3 DEF M!HeardFunction
  <2> QED
    BY <2>1, <2>4
<1>4. CASE /\ ~(p.second = <<1, 0, 1, 0>> /\ s \in {3, 4, 6, 7})
           /\ ~(p.second = <<0, 1, 0, 1>> /\ s \in {11, 12, 14, 15})
           /\ \E k \in 1..4 : M!FunctionForm[k] = SubSeq(p.second, 1, 3)
  <2>1. M!HeardFunction(p, s)
          = CHOOSE k \in 1..4 : M!FunctionForm[k] = SubSeq(p.second, 1, 3)
    BY ZenonT(30), <1>4 DEF M!HeardFunction
  <2> QED
    BY SMTT(30), <1>4, <2>1
<1>5. CASE /\ ~(p.second = <<1, 0, 1, 0>> /\ s \in {3, 4, 6, 7})
           /\ ~(p.second = <<0, 1, 0, 1>> /\ s \in {11, 12, 14, 15})
           /\ ~\E k \in 1..4 : M!FunctionForm[k] = SubSeq(p.second, 1, 3)
  BY <1>5 DEF M!HeardFunction
<1> QED
  BY <1>2, <1>3, <1>4, <1>5

\* What each packet does to a decoder, and that it stays one.
SpeedOf(p) == p.first[1] + 2 * p.first[2] + 4 * p.first[3] + 8 * p.first[4]

LEMMA HearsAny ==
    ASSUME NEW d \in Decoders, NEW p \in M!GLPackets
    PROVE  LET h == M!Hears(d, p)
               n == M!HeardFunction(p, SpeedOf(p))
           IN /\ h \in Decoders
              /\ h.step = SpeedOf(p) /\ n \in 0..4
              /\ 0 \in h.funcs <=> p.func = 1
              /\ p.second # p.first =>
                   /\ n = 0 => h.direction = 1 - p.second[1]
                   /\ n > 0 => h.direction = d.direction
                   /\ \A k \in 1..4 : k \in h.funcs <=>
                                      (IF k = n THEN p.second[4] = 1 ELSE k \in d.funcs)
<1> DEFINE h == M!Hears(d, p)
           n == M!HeardFunction(p, SpeedOf(p))
           half == CASE SpeedOf(p) = 0 \/ SpeedOf(p) > d.step -> FALSE
                     [] SpeedOf(p) # 0 /\ SpeedOf(p) < d.step -> TRUE
                     [] OTHER -> d.half
           F0 == (d.funcs \ {0}) \cup (IF p.func = 1 THEN {0} ELSE {})
           heard == [d EXCEPT !.step = SpeedOf(p), !.half = half, !.funcs = F0]
<1>1. /\ p.first \in M!Nibbles /\ p.second \in M!Nibbles /\ p.func \in 0..1
      /\ \A i \in 1..4 : p.first[i] \in 0..1 /\ p.second[i] \in 0..1
  BY DEF M!GLPackets, M!Nibbles
<1>2. SpeedOf(p) \in 0..15
  BY <1>1 DEF SpeedOf
<1>3. n \in 0..4
  BY <1>1, <1>2, HeardFunctionType
<1>4. /\ d.step \in 0..15 /\ d.half \in BOOLEAN /\ d.direction \in 0..1
      /\ d.funcs \subseteq 0..4
  BY DEF Decoders, M!Functions
<1>5. half \in BOOLEAN
  BY <1>2, <1>4
<1>6. F0 \subseteq 0..4 /\ (0 \in F0 <=> p.func = 1) /\ \A k \in 1..4 : k \in F0 <=> k \in d.funcs
  BY <1>4
<1>7. /\ heard \in Decoders /\ heard.step = SpeedOf(p) /\ heard.funcs = F0
      /\ heard.direction = d.direction
  <2> HIDE DEF half, F0
  <2> QED
    BY <1>2, <1>4, <1>5, <1>6 DEF Decoders, M!Functions
<1>8. h = CASE p.second = p.first ->
                 [heard EXCEPT !.direction =
                    IF SpeedOf(p) = 1 /\ d.step # 1 THEN 1 - @ ELSE @]
            [] p.second # p.first /\ n > 0 ->
                 [heard EXCEPT !.funcs =
                    IF p.second[4] = 1 THEN @ \cup {n} ELSE @ \ {n}]
            [] OTHER -> [heard EXCEPT !.direction = 1 - p.second[1]]
  BY DEF M!Hears, SpeedOf
<1> HIDE DEF half, F0, heard, n, h
<1>9. CASE p.second = p.first
  <2>1. h = [heard EXCEPT !.direction =
               IF SpeedOf(p) = 1 /\ d.step # 1 THEN 1 - heard.direction
               ELSE heard.direction]
    BY <1>8, <1>9
  <2>2. (IF SpeedOf(p) = 1 /\ d.step # 1 THEN 1 - heard.direction ELSE heard.direction) \in 0..1
    BY <1>4, <1>7
  <2>3. h \in Decoders /\ h.step = SpeedOf(p) /\ h.funcs = F0
    BY <1>7, <2>1, <2>2 DEF Decoders
  <2> QED
    BY <1>3, <1>6, <1>9, <2>3 DEF n, h
<1>10. CASE p.second # p.first /\ n > 0
  <2>1. h = [heard EXCEPT !.funcs = IF p.second[4] = 1 THEN heard.funcs \cup {n}
                                    ELSE heard.funcs \ {n}]
    BY <1>8, <1>10
  <2>2. (IF p.second[4] = 1 THEN heard.funcs \cup {n} ELSE heard.funcs \ {n}) \subseteq 0..4
    BY <1>3, <1>6, <1>7
  <2>3. /\ h \in Decoders /\ h.step = SpeedOf(p) /\ h.direction = d.direction
        /\ h.funcs = IF p.second[4] = 1 THEN F0 \cup {n} ELSE F0 \ {n}
    BY <1>7, <2>1, <2>2 DEF Decoders, M!Functions
  <2>4. /\ 0 \in h.funcs <=> p.func = 1
        /\ \A k \in 1..4 : k \in h.funcs <=>
                           (IF k = n THEN p.second[4] = 1 ELSE k \in d.funcs)
    BY <1>3, <1>6, <1>10, <2>3
  <2> QED
    BY <1>3, <1>10, <2>3, <2>4 DEF n, h
<1>11. CASE p.second # p.first /\ n = 0
  <2>1. h = [heard EXCEPT !.direction = 1 - p.second[1]]
    BY <1>8, <1>11
  <2>2. 1 - p.second[1] \in 0..1
    BY <1>1
  <2>3. /\ h \in Decoders /\ h.step = SpeedOf(p) /\ h.direction = 1 - p.second[1]
        /\ h.funcs = F0
    BY <1>7, <2>1, <2>2 DEF Decoders
  <2> QED
    BY <1>3, <1>6, <1>11, <2>3 DEF n, h
<1> QED
  BY <1>3, <1>9, <1>10, <1>11

LEMMA PacketsType ==
    ASSUME NEW adr \in M!Addresses, NEW direction \in 0..2, NEW s \in 0..15, NEW funcs
    PROVE  /\ M!Packets2(adr, direction, s, funcs) \in [0..4 -> M!GLPackets]
           /\ M!Packets1(adr, s, funcs) \in [0..4 -> M!GLPackets]
<1>1. ASSUME NEW b \in M!Nibbles PROVE M!Packet(adr, funcs, s, b) \in M!GLPackets
  <2>1. M!Flag(funcs, 0) \in 0..1
    BY DEF M!Flag
  <2> QED
    BY <1>1, <2>1, BitsOfNibble DEF M!Packet, M!GLPackets
<1>2. \A n \in 0..4 :
        (IF n = 0 THEN M!mask(direction, s) ELSE M!FunctionBits(n, s, funcs)) \in M!Nibbles
  BY SMTT(30), MaskNibble, FunctionNibble
<1>3. M!Bits(s) \in M!Nibbles
  BY BitsOfNibble
<1> QED
  BY <1>1, <1>2, <1>3 DEF M!Packets2, M!Packets1

\* What a decoder hears of the packets of a locomotive.
Told(h, d, n, direction, s, funcs) ==
  /\ h.step = s
  /\ 0 \in h.funcs <=> 0 \in funcs
  /\ h.direction = IF n > 0 THEN d.direction ELSE IF direction = 0 THEN 0 ELSE 1
  /\ \A k \in 1..4 : k \in h.funcs <=> IF k = n THEN k \in funcs ELSE k \in d.funcs

LEMMA Packets2Heard ==
    ASSUME NEW adr \in M!Addresses, NEW direction \in 0..2, NEW s \in 0..15, NEW funcs,
           NEW d \in Decoders, NEW n \in 0..4
    PROVE  Told(M!Hears(d, M!Packets2(adr, direction, s, funcs)[n]), d, n, direction, s, funcs)
<1> DEFINE p == M!Packets2(adr, direction, s, funcs)[n]
<1>1. /\ p.func = M!Flag(funcs, 0) /\ p.first = M!Bits(s)
      /\ p.second = IF n = 0 THEN M!mask(direction, s) ELSE M!FunctionBits(n, s, funcs)
  BY DEF M!Packets2, M!Packet
<1>2. p \in M!GLPackets
  BY PacketsType
<1> HIDE DEF p
<1>3. SpeedOf(p) = s
  BY <1>1, BitsOfNibble DEF SpeedOf
<1>4. p.func = 1 <=> 0 \in funcs
  BY <1>1 DEF M!Flag
<1>5. CASE n = 0
  <2>1. /\ p.second # p.first /\ M!HeardFunction(p, s) = 0
        /\ 1 - p.second[1] = IF direction = 0 THEN 0 ELSE 1
    BY <1>1, <1>5, DirectionHeard
  <2> QED
    BY <1>2, <1>3, <1>4, <1>5, <2>1, HearsAny DEF p, Told
<1>6. CASE n \in 1..4
  <2>1. p.second = M!FunctionBits(n, s, funcs)
    BY <1>1, <1>6
  <2>2. p.second # p.first /\ M!HeardFunction(p, s) = n
    BY <1>1, <1>6, <2>1, FunctionHeard
  <2>3. p.second[4] = M!Flag(funcs, n)
    BY SMTT(30), <1>6, <2>1, FunctionNibble
  <2>4. p.second[4] = 1 <=> n \in funcs
    BY <2>3 DEF M!Flag
  <2> QED
    BY <1>2, <1>3, <1>4, <1>6, <2>2, <2>4, HearsAny DEF p, Told
<1> QED
  BY <1>5, <1>6

LEMMA Packets1Heard ==
    ASSUME NEW adr \in M!Addresses, NEW s \in 0..15, NEW funcs, NEW d \in Decoders,
           NEW n \in 0..4
    PROVE  LET h == M!Hears(d, M!Packets1(adr, s, funcs)[n])
           IN h.step = s /\ (0 \in h.funcs <=> 0 \in funcs)
<1> DEFINE p == M!Packets1(adr, s, funcs)[n]
<1>1. p.func = M!Flag(funcs, 0) /\ p.first = M!Bits(s)
  BY DEF M!Packets1, M!Packet
<1>2. p \in M!GLPackets
  BY PacketsType
<1> HIDE DEF p
<1>3. SpeedOf(p) = s
  BY <1>1, BitsOfNibble DEF SpeedOf
<1>4. p.func = 1 <=> 0 \in funcs
  BY <1>1 DEF M!Flag
<1> QED
  BY <1>2, <1>3, <1>4, HearsAny DEF p

-----------------------------------------------------------------------------
(* Accessories. *)

LEMMA DecoderAndOutput ==
    ASSUME NEW x \in 1..324, NEW port \in 0..1
    PROVE  LET id == (x - 1) \div 4
               subid == 2 * ((x - 1) % 4) + port
           IN /\ id \in 0..80 /\ subid \in 0..7
              /\ 4 * id + subid \div 2 + 1 = x /\ subid % 2 = port
<1>1. ASSUME NEW y \in Nat, NEW q \in Int, NEW r \in Int, y \div 4 = q, y % 4 = r
      PROVE  y = 4 * q + r /\ r \in 0..3
  BY <1>1
<1>2. ASSUME NEW r \in 0..3
      PROVE  (2 * r + port) \div 2 = r /\ (2 * r + port) % 2 = port /\ 2 * r + port \in 0..7
  OBVIOUS
<1> DEFINE q == (x - 1) \div 4
           r == (x - 1) % 4
<1>3. x - 1 = 4 * q + r /\ r \in 0..3 /\ q \in Int
  BY <1>1
<1> HIDE DEF q, r
<1>4. q \in 0..80 /\ 4 * q + r + 1 = x
  BY <1>3
<1> QED
  BY <1>2, <1>3, <1>4 DEF q, r

\* What is sent for an accessory switches it: no decoder, port or action is mistaken
\* for another.
LEMMA TritsHeard ==
    ASSUME NEW c \in [id : Int, port : Int, action : Int],
           c.id \in 1..324, c.port \in 0..1, c.action \in 0..1
    PROVE  /\ M!SolenoidTrits(c) \in [1..9 -> {"L", "H", "O"}]
           /\ M!HeardTrits(M!SolenoidTrits(c)) = c
<1> DEFINE t == M!SolenoidTrits(c)
           id == (c.id - 1) \div 4
           subid == 2 * ((c.id - 1) % 4) + c.port
           Num(x) == CASE x = "L" -> 0 [] x = "H" -> 1 [] x = "O" -> 2
<1>1. /\ id \in 0..80 /\ subid \in 0..7
      /\ 4 * id + subid \div 2 + 1 = c.id /\ subid % 2 = c.port
  BY DecoderAndOutput
<1>2. \A n \in 0..2 : M!Trit(n) \in {"L", "H", "O"} /\ Num(M!Trit(n)) = n
  <2>1. \A n \in 0..2 : n = 0 \/ n = 1 \/ n = 2
    OBVIOUS
  <2>2. M!Trit(0) = "L" /\ M!Trit(1) = "H" /\ M!Trit(2) = "O"
    BY DEF M!Trit
  <2> QED
    BY <2>1, <2>2
<1>3. t = [i \in 1..9 |-> CASE i <= 4 -> M!Trit((id \div 3 ^ (i - 1)) % 3)
                         [] i = 5 -> "L"
                         [] i \in 6..8 -> M!Trit((subid \div 2 ^ (i - 6)) % 2)
                         [] i = 9 -> M!Trit(c.action)]
  BY DEF M!SolenoidTrits
<1> HIDE DEF t
<1>4. /\ t[1] = M!Trit(id % 3) /\ t[2] = M!Trit((id \div 3) % 3)
      /\ t[3] = M!Trit((id \div 9) % 3) /\ t[4] = M!Trit((id \div 27) % 3)
  BY <1>1, <1>3, Powers
<1>5. /\ t[5] = "L" /\ t[9] = M!Trit(c.action)
      /\ t[6] = M!Trit(subid % 2) /\ t[7] = M!Trit((subid \div 2) % 2)
      /\ t[8] = M!Trit((subid \div 4) % 2)
  BY <1>1, <1>3, Powers
<1>6. /\ id % 3 \in 0..2 /\ (id \div 3) % 3 \in 0..2
      /\ (id \div 9) % 3 \in 0..2 /\ (id \div 27) % 3 \in 0..2
      /\ subid % 2 \in 0..2 /\ (subid \div 2) % 2 \in 0..2
      /\ (subid \div 4) % 2 \in 0..2 /\ c.action \in 0..2
  <2> HIDE DEF id, subid
  <2> QED
    BY <1>1
<1>7. t \in [1..9 -> {"L", "H", "O"}]
  <2>1. \A i \in 1..9 : \/ i = 1 \/ i = 2 \/ i = 3 \/ i = 4 \/ i = 5
                      \/ i = 6 \/ i = 7 \/ i = 8 \/ i = 9
    OBVIOUS
  <2>2. \A i \in 1..9 : t[i] \in {"L", "H", "O"}
    BY <1>2, <1>4, <1>5, <1>6, <2>1
  <2> QED
    BY <1>3, <2>2
<1>8. /\ Num(t[6]) + 2 * Num(t[7]) + 4 * Num(t[8]) = subid
      /\ Num(t[1]) + 3 * Num(t[2]) + 9 * Num(t[3]) + 27 * Num(t[4]) = id
      /\ Num(t[9]) = c.action
  <2>1. /\ Num(t[6]) = subid % 2 /\ Num(t[7]) = (subid \div 2) % 2
        /\ Num(t[8]) = (subid \div 4) % 2
        /\ Num(t[1]) = id % 3 /\ Num(t[2]) = (id \div 3) % 3
        /\ Num(t[3]) = (id \div 9) % 3 /\ Num(t[4]) = (id \div 27) % 3
        /\ Num(t[9]) = c.action
    BY <1>2, <1>4, <1>5, <1>6
  <2> HIDE DEF id, subid, Num
  <2> QED
    BY <1>1, <2>1
<1>9. M!HeardTrits(t) = [id |-> 4 * id + subid \div 2 + 1, port |-> subid % 2,
                         action |-> c.action]
  BY <1>8 DEF M!HeardTrits
<1> QED
  BY <1>1, <1>7, <1>9 DEF t

\* M!CoilsFollow, with the places of the commands in the queue.
Follows(q, s, place) ==
  /\ place \in [1..Len(s) -> 1..Len(q)]
  /\ \A i, k \in 1..Len(s) : i < k => place[i] < place[k]
  /\ \A k \in 1..Len(q) : q[k].type = "GA" <=> \E i \in 1..Len(s) : place[i] = k
  /\ \A i \in 1..Len(s) : M!HeardTrits(q[place[i]].trits) = s[i]

MPackets == M!GLPackets \cup M!GAPackets

LEMMA Types ==
    \A p \in MPackets :
      /\ p.type = "GL" \/ p.type = "GA"
      /\ p.type = "GL" => p \in M!GLPackets
      /\ p.type # "GL" => p \in M!GAPackets
  BY DEF MPackets, M!GLPackets, M!GAPackets

LEMMA FollowsGL ==
    ASSUME NEW q \in Seq(MPackets), NEW s \in Seq(GACommands), NEW place,
           Follows(q, s, place), NEW p \in M!GLPackets
    PROVE  Follows(Append(q, p), s, place)
<1> DEFINE r == Append(q, p)
<1>1. p \in MPackets /\ p.type = "GL"
  BY DEF MPackets, M!GLPackets
<1>2. /\ Len(q) \in Nat /\ Len(s) \in Nat /\ Len(r) = Len(q) + 1 /\ r[Len(r)] = p
      /\ \A k \in 1..Len(q) : r[k] = q[k]
  BY <1>1
<1> HIDE DEF r
<1>3. place \in [1..Len(s) -> 1..Len(r)] /\ \A i \in 1..Len(s) : place[i] \in 1..Len(q)
  <2>1. 1..Len(q) \subseteq 1..Len(r)
    BY <1>2
  <2> QED
    BY <2>1 DEF Follows
<1>4. ASSUME NEW k \in 1..Len(r)
      PROVE  r[k].type = "GA" <=> \E i \in 1..Len(s) : place[i] = k
  <2>1. CASE k \in 1..Len(q)
    BY <1>2, <2>1 DEF Follows
  <2>2. CASE k = Len(r)
    BY <1>1, <1>2, <1>3, <2>2
  <2> QED
    BY <1>2, <2>1, <2>2
<1>5. \A i \in 1..Len(s) : M!HeardTrits(r[place[i]].trits) = s[i]
  BY <1>2, <1>3 DEF Follows
<1> QED
  BY <1>3, <1>4, <1>5 DEF Follows, r

LEMMA FollowsGA ==
    ASSUME NEW q \in Seq(MPackets), NEW s \in Seq(GACommands), NEW place,
           Follows(q, s, place), NEW p \in M!GAPackets, NEW c \in GACommands,
           M!HeardTrits(p.trits) = c
    PROVE  \E new : Follows(Append(q, p), Append(s, c), new)
<1> DEFINE r == Append(q, p)
           t == Append(s, c)
           new == [i \in 1..Len(t) |-> IF i = Len(t) THEN Len(r) ELSE place[i]]
<1>1. p \in MPackets /\ p.type = "GA"
  BY DEF MPackets, M!GAPackets
<1>2. /\ Len(q) \in Nat /\ Len(r) = Len(q) + 1 /\ r[Len(r)] = p
      /\ \A k \in 1..Len(q) : r[k] = q[k]
  BY <1>1
<1>3. /\ Len(s) \in Nat /\ Len(t) = Len(s) + 1 /\ t[Len(t)] = c
      /\ \A k \in 1..Len(s) : t[k] = s[k]
  OBVIOUS
<1> HIDE DEF r, t
<1>4. /\ new[Len(t)] = Len(r)
      /\ \A i \in 1..Len(s) : i \in 1..Len(t) /\ new[i] = place[i] /\ new[i] \in 1..Len(q)
  BY <1>3 DEF Follows
<1>5. new \in [1..Len(t) -> 1..Len(r)]
  <2>1. 1..Len(q) \subseteq 1..Len(r) /\ Len(r) \in 1..Len(r)
    BY <1>2
  <2>2. \A i \in 1..Len(t) : i \in 1..Len(s) \/ i = Len(t)
    BY <1>3
  <2>3. \A i \in 1..Len(t) : new[i] \in 1..Len(r)
    BY <1>4, <2>1, <2>2
  <2> QED
    BY <2>3
<1> HIDE DEF new
<1>6. Len(t) \in 1..Len(t) /\ \A i \in 1..Len(t) : i \in 1..Len(s) \/ i = Len(t)
  BY <1>3
<1>7. \A i, k \in 1..Len(t) : i < k => new[i] < new[k]
  <2> SUFFICES ASSUME NEW i \in 1..Len(t), NEW k \in 1..Len(t), i < k
               PROVE  new[i] < new[k]
    OBVIOUS
  <2>1. i \in 1..Len(s)
    BY <1>3
  <2>2. CASE k \in 1..Len(s)
    BY <1>4, <2>1, <2>2 DEF Follows
  <2>3. CASE k = Len(t)
    BY <1>2, <1>4, <2>1, <2>3
  <2> QED
    BY <1>6, <2>2, <2>3
<1>8. ASSUME NEW k \in 1..Len(r)
      PROVE  r[k].type = "GA" <=> \E i \in 1..Len(t) : new[i] = k
  <2>1. CASE k \in 1..Len(q)
    <3>1. r[k].type = "GA" <=> \E i \in 1..Len(s) : place[i] = k
      BY <1>2, <2>1 DEF Follows
    <3>2. new[Len(t)] # k
      BY <1>2, <1>4, <2>1
    <3> QED
      BY <1>4, <1>6, <3>1, <3>2
  <2>2. CASE k = Len(r)
    BY <1>1, <1>2, <1>4, <1>6, <2>2
  <2> QED
    BY <1>2, <2>1, <2>2
<1>9. \A i \in 1..Len(t) : M!HeardTrits(r[new[i]].trits) = t[i]
  <2>1. \A i \in 1..Len(s) : M!HeardTrits(r[new[i]].trits) = t[i]
    BY SMTT(30), <1>2, <1>3, <1>4 DEF Follows
  <2>2. M!HeardTrits(r[new[Len(t)]].trits) = t[Len(t)]
    BY <1>2, <1>3, <1>4
  <2> QED
    BY <1>6, <2>1, <2>2
<1> QED
  BY <1>5, <1>7, <1>8, <1>9 DEF Follows, r, t

\* The first packet is sent: it is the first command's, or one of a locomotive.
LEMMA FollowsTail ==
    ASSUME NEW q \in Seq(MPackets), NEW s \in Seq(GACommands), NEW place,
           Follows(q, s, place), q # <<>>
    PROVE  /\ q[1].type = "GL" => \E new : Follows(Tail(q), s, new)
           /\ q[1].type # "GL" => s # <<>> /\ \E new : Follows(Tail(q), Tail(s), new)
<1> DEFINE r == Tail(q)
           t == Tail(s)
<1>1. /\ Len(q) \in Nat \ {0} /\ Len(r) = Len(q) - 1 /\ \A k \in 1..Len(r) : r[k] = q[k + 1]
  BY HeadTailProperties, EmptySeq
<1>2. Len(s) \in Nat /\ \A i \in 1..Len(s) : place[i] \in 1..Len(q)
  BY DEF Follows
<1>3. ASSUME q[1].type = "GL"
      PROVE  \E new : Follows(r, s, new)
  <2> DEFINE new == [i \in 1..Len(s) |-> place[i] - 1]
  <2> HIDE DEF r
  <2>1. \A i \in 1..Len(s) : place[i] # 1
    BY <1>1, <1>3 DEF Follows
  <2>2. new \in [1..Len(s) -> 1..Len(r)]
    BY <1>1, <1>2, <2>1
  <2>3. \A i, k \in 1..Len(s) : i < k => new[i] < new[k]
    BY <1>2 DEF Follows
  <2>4. ASSUME NEW k \in 1..Len(r)
        PROVE  r[k].type = "GA" <=> \E i \in 1..Len(s) : new[i] = k
    <3>1. k + 1 \in 1..Len(q) /\ r[k] = q[k + 1]
      BY <1>1
    <3>2. r[k].type = "GA" <=> \E i \in 1..Len(s) : place[i] = k + 1
      BY <3>1 DEF Follows
    <3>3. \A i \in 1..Len(s) : place[i] = k + 1 <=> new[i] = k
      BY SMTT(30), <1>2
    <3> QED
      BY <3>2, <3>3
  <2>5. \A i \in 1..Len(s) : M!HeardTrits(r[new[i]].trits) = s[i]
    <3>1. \A i \in 1..Len(s) : new[i] \in 1..Len(r) /\ new[i] + 1 = place[i]
      BY <1>2, <2>2
    <3>2. \A i \in 1..Len(s) : r[new[i]] = q[place[i]]
      BY <1>1, <3>1
    <3> QED
      BY <3>2 DEF Follows
  <2> QED
    BY <2>2, <2>3, <2>4, <2>5 DEF Follows
<1>4. ASSUME q[1].type # "GL"
      PROVE  s # <<>> /\ \E new : Follows(r, t, new)
  <2>1. 1 \in 1..Len(q) /\ q[1] \in MPackets
    BY <1>1
  <2>2. q[1].type = "GA"
    <3>1. q[1].type = "GL" \/ q[1].type = "GA"
      BY <2>1, Types
    <3> QED
      BY <1>4, <3>1
  <2>3. PICK first \in 1..Len(s) : place[first] = 1
    BY <2>1, <2>2 DEF Follows
  <2>4. s # <<>> /\ 1 \in 1..Len(s)
    BY <1>2, <2>3
  <2>5. place[1] = 1
    <3>1. first = 1 \/ 1 < first
      OBVIOUS
    <3>2. 1 < first => place[1] < 1
      BY <2>3, <2>4 DEF Follows
    <3> QED
      BY <1>2, <2>3, <2>4, <3>1, <3>2
  <2>6. /\ Len(s) \in Nat \ {0} /\ Len(t) = Len(s) - 1 /\ \A i \in 1..Len(t) : t[i] = s[i + 1]
    BY <2>4, HeadTailProperties, EmptySeq
  <2>7. \A i \in 1..Len(t) : i + 1 \in 1..Len(s) /\ place[i + 1] \in 2..Len(q)
    BY <1>2, <2>4, <2>5, <2>6 DEF Follows
  <2> DEFINE new == [i \in 1..Len(t) |-> place[i + 1] - 1]
  <2> HIDE DEF r, t
  <2>8. new \in [1..Len(t) -> 1..Len(r)]
    BY <1>1, <2>7
  <2>9. \A i, k \in 1..Len(t) : i < k => new[i] < new[k]
    BY <2>6, <2>7 DEF Follows
  <2>10. ASSUME NEW k \in 1..Len(r)
         PROVE  r[k].type = "GA" <=> \E i \in 1..Len(t) : new[i] = k
    <3>1. k + 1 \in 1..Len(q) /\ r[k] = q[k + 1]
      BY <1>1
    <3>2. r[k].type = "GA" <=> \E i \in 1..Len(s) : place[i] = k + 1
      BY <3>1 DEF Follows
    <3>3. \A i \in 1..Len(t) : place[i + 1] = k + 1 <=> new[i] = k
      <4> SUFFICES ASSUME NEW i \in 1..Len(t)
                   PROVE  place[i + 1] = k + 1 <=> new[i] = k
        OBVIOUS
      <4>1. new[i] = place[i + 1] - 1 /\ place[i + 1] \in Int /\ k \in Int
        BY <2>7
      <4> QED
        BY <4>1
    <3>4. ASSUME NEW i \in 1..Len(s), place[i] = k + 1
          PROVE  i - 1 \in 1..Len(t) /\ new[i - 1] = k
      <4>1. i # 1
        BY <2>5, <3>4
      <4>2. i - 1 \in 1..Len(t) /\ (i - 1) + 1 = i
        BY <2>6, <4>1
      <4> QED
        BY <3>3, <3>4, <4>2
    <3> QED
      BY <2>7, <3>2, <3>3, <3>4
  <2>11. \A i \in 1..Len(t) : M!HeardTrits(r[new[i]].trits) = t[i]
    <3>1. \A i \in 1..Len(t) : new[i] \in 1..Len(r) /\ new[i] + 1 = place[i + 1]
      BY <2>7, <2>8
    <3>2. \A i \in 1..Len(t) : r[new[i]] = q[place[i + 1]]
      BY <1>1, <3>1
    <3>3. \A i \in 1..Len(t) : M!HeardTrits(q[place[i + 1]].trits) = s[i + 1]
      BY <2>7 DEF Follows
    <3> QED
      BY <2>6, <3>2, <3>3
  <2> QED
    BY <2>4, <2>8, <2>9, <2>10, <2>11 DEF Follows
<1> QED
  BY <1>3, <1>4

-----------------------------------------------------------------------------
(* The invariant of Maerklin: what the packets in the pool are. *)

InPool(a) == knownAddresses # <<M!IdleAddress>> /\ \E i \in DOMAIN knownAddresses :
                                                     knownAddresses[i] = a

\* The packets of a locomotive are those of what was said last. An old decoder is
\* not stopped; the second packet of a half step may be still to come.
PoolRight(a) ==
  LET w == wanted[a]
  IN \/ /\ Kinds[a] = "M1" /\ a <= 80
        /\ w.direction # 2 => MaerklinPool[a] = M!Packets1(a, w.step, w.funcs)
     \/ /\ Kinds[a] = "M2"
        /\ MaerklinPool[a] = M!Packets2(a, w.direction, w.step, w.funcs)
     \/ /\ Kinds[a] = "M2/28" /\ a <= 80
        /\ \/ second # M!Nothing /\ second.adr = a
           \/ MaerklinPool[a] = M!Packets2(a, w.direction, w.step \div 2, w.funcs)

SecondRight ==
  second # M!Nothing =>
    LET w == wanted[second.adr]
    IN /\ Kinds[second.adr] = "M2/28" /\ second.adr <= 80
       /\ second.direction = w.direction /\ second.funcs = w.funcs
       /\ second.speed = w.step \div 2

\* Decoders of these kinds are sent a speed of four bits.
StepsRight ==
  \A a \in M!Addresses : Kinds[a] # "M2/28" => wanted[a].step <= 15

MaerklinInv ==
  /\ M!TypeOK /\ M!CoilsFollow
  /\ SecondRight /\ StepsRight /\ \A a : InPool(a) => a \in M!Addresses /\ PoolRight(a)

LEMMA UpdateFacts ==
    ASSUME M!TypeOK, NEW adr \in M!Addresses, NEW new \in [0..4 -> M!GLPackets],
           M!update_MaerklinPacketPool(adr, new)
    PROVE  /\ MaerklinPool' \in [M!Addresses \cup {M!IdleAddress} -> [0..4 -> M!GLPackets]]
           /\ MaerklinPool'[adr] = new
           /\ \A a : a # adr => MaerklinPool'[a] = MaerklinPool[a]
           /\ knownAddresses' \in Seq(M!Addresses \cup {M!IdleAddress})
           /\ last_refreshed.loco = 0 \/ last_refreshed.loco < Len(knownAddresses')
           /\ \A a : InPool(a)' => a = adr \/ InPool(a)
<1> DEFINE A == M!Addresses \cup {M!IdleAddress}
<1>1. /\ knownAddresses \in Seq(A) /\ MaerklinPool \in [A -> [0..4 -> M!GLPackets]]
      /\ last_refreshed.loco \in Nat
      /\ last_refreshed.loco = 0 \/ last_refreshed.loco < Len(knownAddresses)
  BY DEF M!TypeOK
<1>2. MaerklinPool' = [MaerklinPool EXCEPT ![adr] = new]
  BY DEF M!update_MaerklinPacketPool
<1>3. adr \in A
  OBVIOUS
<1>4. /\ MaerklinPool' \in [A -> [0..4 -> M!GLPackets]] /\ MaerklinPool'[adr] = new
      /\ \A a : a # adr => MaerklinPool'[a] = MaerklinPool[a]
  BY <1>1, <1>2, <1>3
<1> DEFINE idle == knownAddresses = <<M!IdleAddress>>
           found == \E i \in DOMAIN knownAddresses : knownAddresses[i] = adr
           kept == IF idle THEN <<>> ELSE knownAddresses
<1>5. knownAddresses' = IF found THEN kept ELSE Append(kept, adr)
  BY DEF M!update_MaerklinPacketPool
<1> HIDE DEF found, A
<1>6. CASE idle
  <2>1. kept = <<>> /\ Len(<<M!IdleAddress>>) = 1
    BY <1>6
  <2>2. knownAddresses' = <<>> \/ knownAddresses' = Append(<<>>, adr)
    BY <1>5, <2>1
  <2>3. /\ <<>> \in Seq(A) /\ Append(<<>>, adr) \in Seq(A) /\ Len(Append(<<>>, adr)) = 1
        /\ Append(<<>>, adr)[1] = adr
    BY <1>3
  <2>4. /\ knownAddresses' \in Seq(A)
        /\ \A i \in DOMAIN knownAddresses' : knownAddresses'[i] = adr
    <3>1. DOMAIN <<>> = {} /\ DOMAIN Append(<<>>, adr) = 1..1
      BY <2>3, LenProperties
    <3>2. CASE knownAddresses' = <<>>
      BY <2>3, <3>1, <3>2
    <3>3. CASE knownAddresses' = Append(<<>>, adr)
      BY <2>3, <3>1, <3>3
    <3> QED
      BY <2>2, <3>2, <3>3
  <2>5. last_refreshed.loco = 0
    BY <1>1, <1>6, <2>1
  <2>6. \A a : InPool(a)' => a = adr
    BY <2>4 DEF InPool
  <2> QED
    BY <1>4, <2>4, <2>5, <2>6 DEF A
<1>7. CASE ~idle
  <2>1. knownAddresses' = knownAddresses \/ knownAddresses' = Append(knownAddresses, adr)
    BY <1>5, <1>7
  <2>2. CASE knownAddresses' = knownAddresses
    BY <1>1, <1>4, <2>2 DEF InPool, A
  <2>3. CASE knownAddresses' = Append(knownAddresses, adr)
    <3>1. /\ Len(knownAddresses) \in Nat /\ DOMAIN knownAddresses = 1..Len(knownAddresses)
          /\ knownAddresses' \in Seq(A) /\ Len(knownAddresses') = Len(knownAddresses) + 1
          /\ DOMAIN knownAddresses' = 1..Len(knownAddresses')
          /\ knownAddresses'[Len(knownAddresses')] = adr
          /\ \A i \in 1..Len(knownAddresses) : knownAddresses'[i] = knownAddresses[i]
      BY <1>1, <1>3, <2>3, AppendProperties, LenProperties
    <3>2. last_refreshed.loco = 0 \/ last_refreshed.loco < Len(knownAddresses')
      BY <1>1, <3>1
    <3>3. \A i \in DOMAIN knownAddresses' :
            i = Len(knownAddresses') \/ i \in DOMAIN knownAddresses
      BY <3>1
    <3>4. \A a : InPool(a)' => a = adr \/ InPool(a)
      BY <1>7, <3>1, <3>3 DEF InPool
    <3> QED
      BY <1>4, <3>1, <3>2, <3>4 DEF A
  <2> QED
    BY <2>1, <2>2, <2>3
<1> QED
  BY <1>6, <1>7

\* One packet is queued, whichever changed.
LEMMA ComposeFacts ==
    ASSUME NEW adr, NEW direction, NEW s, NEW funcs, M!Compose(adr, direction, s, funcs)
    PROVE  /\ M!update_MaerklinPacketPool(adr, M!Packets2(adr, direction, s, funcs))
           /\ \E n \in 0..4 : queue' = Append(queue, M!Packets2(adr, direction, s, funcs)[n])
<1> DEFINE new == M!Packets2(adr, direction, s, funcs)
           Changed(n) == MaerklinPool[adr][n].second[4] # new[n].second[4]
           First == CHOOSE n \in 1..4 : Changed(n) /\ \A k \in 1..n - 1 : ~Changed(k)
           out == IF \E n \in 1..4 : Changed(n) THEN First ELSE 0
<1>1. /\ M!update_MaerklinPacketPool(adr, new) /\ queue' = Append(queue, new[out])
  BY DEF M!Compose
<1> HIDE DEF new, Changed
<1>2. ASSUME \E n \in 1..4 : Changed(n)
      PROVE  \E n \in 1..4 : Changed(n) /\ \A k \in 1..n - 1 : ~Changed(k)
  <2>1. \A n \in 1..4 : n = 1 \/ n = 2 \/ n = 3 \/ n = 4
    OBVIOUS
  <2>4. CASE Changed(1)
    <3>1. 1 \in 1..4 /\ \A k \in 1..1 - 1 : ~Changed(k)
      OBVIOUS
    <3> QED
      BY <2>4, <3>1
  <2>5. CASE ~Changed(1) /\ Changed(2)
    <3>1. 2 \in 1..4 /\ \A k \in 1..2 - 1 : k = 1
      OBVIOUS
    <3> QED
      BY <2>5, <3>1
  <2>6. CASE ~Changed(1) /\ ~Changed(2) /\ Changed(3)
    <3>1. 3 \in 1..4 /\ \A k \in 1..3 - 1 : k = 1 \/ k = 2
      OBVIOUS
    <3> QED
      BY <2>6, <3>1
  <2>7. CASE ~Changed(1) /\ ~Changed(2) /\ ~Changed(3) /\ Changed(4)
    <3>1. 4 \in 1..4 /\ \A k \in 1..4 - 1 : k = 1 \/ k = 2 \/ k = 3
      OBVIOUS
    <3> QED
      BY <2>7, <3>1
  <2> QED
    BY <1>2, <2>1, <2>4, <2>5, <2>6, <2>7
<1>3. out \in 0..4
  BY <1>2
<1> HIDE DEF out
<1> QED
  BY <1>1, <1>3 DEF new

LEMMA Steps28Facts ==
    ASSUME NEW old \in 0..28, NEW speed \in 0..28, speed # 1
    PROVE  LET steps == M!Steps28(old, speed)
           IN /\ steps[1] \in 0..15 /\ steps[2] \in {0} \cup 2..15
              /\ steps[2] = 0 => steps[1] = IF speed = 0 THEN 0 ELSE (speed + 2) \div 2
              /\ steps[2] # 0 => speed # 0 /\ steps[2] = (speed + 2) \div 2
              /\ (speed + 2) \div 2 \in 0..15 /\ steps[1] # 1
<1>1. (speed + 2) \div 2 = speed \div 2 + 1 /\ speed \div 2 \in 0..14
  OBVIOUS
<1>2. speed # 0 => speed \div 2 >= 1
  OBVIOUS
<1>3. speed % 2 = 1 => speed \div 2 <= 13
  OBVIOUS
<1> DEFINE whole == speed \div 2 + 1
           two == IF old < speed THEN speed % 2 = 1 ELSE speed % 2 = 0
<1> QED
  BY <1>1, <1>2, <1>3 DEF M!Steps28

LEMMA SetGLDispatch ==
    ASSUME MaerklinInv, NEW adr \in M!Addresses, NEW c \in GLCommands[Kinds[adr]],
           M!SetGL(adr, c)
    PROVE  LET speed == IF c.direction = 2 THEN 0 ELSE IF c.speed = 1 THEN 2 ELSE c.speed
               steps == M!Steps28(cached[adr].speed, speed)
           IN /\ speed \in 0..28 /\ speed # 1 /\ (Kinds[adr] # "M2/28" => speed \in 0..15)
              /\ second = M!Nothing /\ adr \in 1..255
              /\ wanted' \in [M!Addresses -> [direction : 0..2, step : 0..30,
                                             funcs : M!Functions, blurred : BOOLEAN]]
              /\ wanted'[adr].direction = c.direction /\ wanted'[adr].funcs = c.funcs
              /\ \A a : a # adr => wanted'[a] = wanted[a]
              /\ cached' \in [M!Addresses -> [direction : 0..2, speed : 0..28]]
              /\ toCome' \in 0..MaxToCome
              /\ UNCHANGED <<last_refreshed, decoder, switched>>
              /\ \/ /\ Kinds[adr] = "M1"
                    /\ wanted'[adr].step = IF c.direction # cached[adr].direction THEN 1
                                           ELSE speed
                    /\ M!comp_maerklin_1(adr, c.direction, speed, c.funcs)
                    /\ UNCHANGED second
                 \/ /\ Kinds[adr] = "M2" /\ wanted'[adr].step = speed
                    /\ M!Compose(adr, c.direction, speed, c.funcs)
                    /\ UNCHANGED second
                 \/ /\ Kinds[adr] = "M2/28" /\ adr > 80
                    /\ UNCHANGED <<MaerklinPool, knownAddresses, queue, second>>
                 \/ /\ Kinds[adr] = "M2/28" /\ adr <= 80
                    /\ wanted'[adr].step = IF speed = 0 THEN 0 ELSE speed + 2
                    /\ M!Compose(adr, c.direction, steps[1], c.funcs)
                    /\ second' = IF steps[2] = 0 THEN M!Nothing
                                 ELSE [adr |-> adr, direction |-> c.direction,
                                       speed |-> steps[2], funcs |-> c.funcs]
<1> DEFINE speed == IF c.direction = 2 THEN 0 ELSE IF c.speed = 1 THEN 2 ELSE c.speed
           speedC == CASE c.direction = 2 -> 0
                       [] c.direction # 2 /\ c.speed = 1 -> 2
                       [] OTHER -> c.speed
           steps == M!Steps28(cached[adr].speed, speed)
           reversed == c.direction # cached[adr].direction
           before == wanted[adr]
           step == CASE Kinds[adr] = "M1" -> IF reversed THEN 1 ELSE speed
                     [] Kinds[adr] = "M2" -> M!Sent(speed)
                     [] OTHER -> IF speed = 0 THEN 0 ELSE speed + 2
           blurred == before.blurred \/ before.direction = 2
                        \/ (Kinds[adr] = "M1" /\ before.step = 1 /\ reversed)
           w == [direction |-> c.direction, funcs |-> c.funcs, step |-> step,
                 blurred |-> blurred]
<1>1. /\ c.direction \in 0..2 /\ c.speed \in 0..28 /\ c.funcs \in M!Functions
      /\ adr \in 1..255 /\ Kinds[adr] \in {"M1", "M2", "M2/28"}
      /\ Kinds[adr] # "M2/28" => c.speed \in 0..15
  BY KindFacts
<1>2. speedC = speed
  BY <1>1
<1>3. speed \in 0..28 /\ speed # 1 /\ (Kinds[adr] # "M2/28" => speed \in 0..15)
  BY <1>1
<1>4. M!Sent(speed) = speed
  BY <1>3 DEF M!Sent
<1>5. /\ cached[adr] \in [direction : 0..2, speed : 0..28]
      /\ cached \in [M!Addresses -> [direction : 0..2, speed : 0..28]]
      /\ wanted \in [M!Addresses -> [direction : 0..2, step : 0..30,
                                    funcs : M!Functions, blurred : BOOLEAN]]
      /\ toCome \in 0..MaxToCome /\ MaxToCome \in Nat
  BY KindFacts DEF MaerklinInv, M!TypeOK
<1>6. /\ toCome > 0 /\ second = M!Nothing /\ toCome' = toCome - 1
      /\ cached' = [cached EXCEPT ![adr] = [direction |-> c.direction, speed |-> c.speed]]
      /\ wanted' = [wanted EXCEPT ![adr] = w]
      /\ UNCHANGED <<last_refreshed, decoder, switched>>
  BY <1>2 DEF M!SetGL
<1>7. /\ Kinds[adr] = "M1" =>
           M!comp_maerklin_1(adr, c.direction, speed, c.funcs) /\ UNCHANGED second
      /\ Kinds[adr] = "M2" =>
           /\ \/ M!comp_maerklin_2(adr, c.direction, speed, c.funcs)
              \/ M!comp_maerklin_4(adr, c.direction, speed, c.funcs)
           /\ UNCHANGED second
      /\ Kinds[adr] = "M2/28" /\ adr > 80 =>
           UNCHANGED <<MaerklinPool, knownAddresses, queue, second>>
      /\ Kinds[adr] = "M2/28" /\ adr <= 80 =>
           /\ M!comp_maerklin_2(adr, c.direction, steps[1], c.funcs)
           /\ second' = IF steps[2] = 0 THEN M!Nothing
                        ELSE [adr |-> adr, direction |-> c.direction,
                              speed |-> steps[2], funcs |-> c.funcs]
  <2>1. (CASE Kinds[adr] = "M1" ->
                /\ M!comp_maerklin_1(adr, c.direction, speedC, c.funcs)
                /\ UNCHANGED second
           [] Kinds[adr] = "M2" ->
                /\ IF adr <= 80 THEN M!comp_maerklin_2(adr, c.direction, speedC, c.funcs)
                                ELSE M!comp_maerklin_4(adr, c.direction, speedC, c.funcs)
                /\ UNCHANGED second
           [] Kinds[adr] = "M2/28" /\ adr > 80 ->
                UNCHANGED <<MaerklinPool, knownAddresses, queue, second>>
           [] Kinds[adr] = "M2/28" /\ adr <= 80 ->
                /\ M!comp_maerklin_2(adr, c.direction,
                                     M!Steps28(cached[adr].speed, speedC)[1], c.funcs)
                /\ second' = IF M!Steps28(cached[adr].speed, speedC)[2] = 0 THEN M!Nothing
                             ELSE [adr |-> adr, direction |-> c.direction,
                                   speed |-> M!Steps28(cached[adr].speed, speedC)[2],
                                   funcs |-> c.funcs])
    BY DEF M!SetGL
  <2> HIDE DEF speedC, speed
  <2>2. CASE Kinds[adr] = "M1"
    BY <1>2, <2>1, <2>2
  <2>3. CASE Kinds[adr] = "M2"
    BY <1>2, <2>1, <2>3
  <2>4. CASE Kinds[adr] = "M2/28" /\ adr > 80
    <3>1. ~(adr <= 80) /\ Kinds[adr] # "M1" /\ Kinds[adr] # "M2"
      BY <1>1, <2>4
    <3>2. UNCHANGED <<MaerklinPool, knownAddresses, queue, second>>
      BY <2>1, <2>4, <3>1
    <3> QED
      BY <3>1, <3>2
  <2>5. CASE Kinds[adr] = "M2/28" /\ adr <= 80
    BY SMTT(30), <1>1, <1>2, <2>1, <2>5
  <2> QED
    BY <1>1, <2>2, <2>3, <2>4, <2>5
<1>8. M!Sent(steps[1]) = steps[1]
  BY ZenonT(30), <1>3, <1>5, Steps28Facts DEF M!Sent
<1>9. step \in 0..30 /\ blurred \in BOOLEAN
  <2>1. step \in 0..30
    BY <1>1, <1>3, <1>4
  <2>2. blurred \in BOOLEAN
    BY <1>5
  <2> QED
    BY <2>1, <2>2
<1>10. /\ Kinds[adr] = "M1" => step = IF reversed THEN 1 ELSE speed
       /\ Kinds[adr] = "M2" => step = speed
       /\ Kinds[adr] = "M2/28" => step = IF speed = 0 THEN 0 ELSE speed + 2
  BY <1>1, <1>4
<1> HIDE DEF step, blurred, speed, steps
<1>11. w \in [direction : 0..2, step : 0..30, funcs : M!Functions, blurred : BOOLEAN]
  BY <1>1, <1>9
<1>12. /\ wanted' \in [M!Addresses -> [direction : 0..2, step : 0..30,
                                      funcs : M!Functions, blurred : BOOLEAN]]
       /\ wanted'[adr].direction = c.direction /\ wanted'[adr].funcs = c.funcs
       /\ wanted'[adr].step = step
       /\ \A a : a # adr => wanted'[a] = wanted[a]
  BY <1>5, <1>6, <1>11
<1>13. /\ cached' \in [M!Addresses -> [direction : 0..2, speed : 0..28]]
       /\ toCome' \in 0..MaxToCome
  <2>1. [direction |-> c.direction, speed |-> c.speed] \in [direction : 0..2, speed : 0..28]
    BY <1>1
  <2> QED
    BY <1>5, <1>6, <2>1
<1>14. CASE Kinds[adr] = "M1"
  BY <1>1, <1>3, <1>6, <1>7, <1>10, <1>12, <1>13, <1>14 DEF speed, steps
<1>15. CASE Kinds[adr] = "M2"
  <2>1. M!Compose(adr, c.direction, speed, c.funcs) /\ UNCHANGED second
    BY <1>4, <1>7, <1>15 DEF M!comp_maerklin_2, M!comp_maerklin_4
  <2> QED
    BY <1>1, <1>3, <1>6, <1>10, <1>12, <1>13, <1>15, <2>1 DEF speed, steps
<1>16. CASE Kinds[adr] = "M2/28" /\ adr > 80
  BY <1>1, <1>3, <1>6, <1>7, <1>12, <1>13, <1>16 DEF speed, steps
<1>17. CASE Kinds[adr] = "M2/28" /\ adr <= 80
  <2>1. M!Compose(adr, c.direction, steps[1], c.funcs)
    BY <1>7, <1>8, <1>17 DEF M!comp_maerklin_2
  <2> QED
    BY <1>1, <1>3, <1>6, <1>7, <1>10, <1>12, <1>13, <1>17, <2>1 DEF speed, steps
<1> QED
  BY <1>1, <1>14, <1>15, <1>16, <1>17

LEMMA FollowsDef == M!CoilsFollow <=> \E place : Follows(queue, switched, place)
  BY DEF M!CoilsFollow, Follows

LEMMA QueueOneGL ==
    ASSUME queue \in Seq(MPackets), switched \in Seq(GACommands), M!CoilsFollow,
           NEW p \in M!GLPackets, queue' = Append(queue, p), UNCHANGED switched
    PROVE  queue' \in Seq(MPackets) /\ M!CoilsFollow'
<1>1. PICK place : Follows(queue, switched, place)
  BY FollowsDef
<1>2. Follows(queue', switched', place)
  BY <1>1, FollowsGL
<1>3. queue' \in Seq(MPackets)
  BY DEF MPackets
<1> QED
  BY <1>2, <1>3 DEF M!CoilsFollow, Follows

LEMMA MaerklinTypes ==
    M!TypeOK <=>
      /\ cached \in [M!Addresses -> [direction : 0..2, speed : 0..28]]
      /\ MaerklinPool \in [M!Addresses \cup {M!IdleAddress} -> [0..4 -> M!GLPackets]]
      /\ knownAddresses \in Seq(M!Addresses \cup {M!IdleAddress})
      /\ last_refreshed \in [loco : Nat, fx : -1..3]
      /\ last_refreshed.loco = 0 \/ last_refreshed.loco < Len(knownAddresses)
      /\ queue \in Seq(MPackets)
      /\ second \in {M!Nothing} \cup [adr : M!Addresses, direction : 0..2, speed : 2..15,
                                      funcs : M!Functions]
      /\ decoder \in [M!Addresses -> Decoders]
      /\ wanted \in [M!Addresses -> [direction : 0..2, step : 0..30, funcs : M!Functions,
                                     blurred : BOOLEAN]]
      /\ switched \in Seq(GACommands)
      /\ toCome \in 0..MaxToCome
  BY DEF M!TypeOK, MPackets, Decoders

LEMMA SetGLInv ==
    ASSUME MaerklinInv, NEW adr \in M!Addresses, NEW c \in GLCommands[Kinds[adr]],
           M!SetGL(adr, c)
    PROVE  MaerklinInv'
<1> DEFINE speed == IF c.direction = 2 THEN 0 ELSE IF c.speed = 1 THEN 2 ELSE c.speed
           steps == M!Steps28(cached[adr].speed, speed)
           Settled == /\ wanted' \in [M!Addresses -> [direction : 0..2, step : 0..30,
                                        funcs : M!Functions, blurred : BOOLEAN]]
                      /\ cached' \in [M!Addresses -> [direction : 0..2, speed : 0..28]]
                      /\ toCome' \in 0..MaxToCome
                      /\ UNCHANGED <<last_refreshed, decoder, switched>>
<1>1. /\ c.direction \in 0..2 /\ c.funcs \in M!Functions
      /\ adr \in 1..255 /\ Kinds[adr] \in {"M1", "M2", "M2/28"}
      /\ cached[adr].speed \in 0..28
  BY KindFacts DEF MaerklinInv, M!TypeOK
<1>2. /\ speed \in 0..28 /\ speed # 1 /\ (Kinds[adr] # "M2/28" => speed \in 0..15)
      /\ second = M!Nothing
      /\ wanted'[adr].direction = c.direction /\ wanted'[adr].funcs = c.funcs
      /\ \A a : a # adr => wanted'[a] = wanted[a]
  BY SetGLDispatch
<1>3. Settled
  BY SetGLDispatch
<1> HIDE DEF speed, Settled
<1>4. /\ M!TypeOK /\ M!CoilsFollow /\ StepsRight
      /\ \A a : InPool(a) => a \in M!Addresses /\ PoolRight(a)
      /\ queue \in Seq(MPackets) /\ switched \in Seq(GACommands)
  BY MaerklinTypes DEF MaerklinInv
<1>5. \A a : a # adr /\ InPool(a) /\ MaerklinPool'[a] = MaerklinPool[a] => PoolRight(a)'
  <2> SUFFICES ASSUME NEW a, a # adr, InPool(a), MaerklinPool'[a] = MaerklinPool[a]
               PROVE  PoolRight(a)'
    OBVIOUS
  <2>1. wanted'[a] = wanted[a] /\ PoolRight(a) /\ second = M!Nothing
    BY <1>2, <1>4
  <2> QED
    BY <2>1 DEF PoolRight
<1>6. \A a \in M!Addresses : a # adr /\ Kinds[a] # "M2/28" => wanted'[a].step <= 15
  BY <1>2, <1>4 DEF StepsRight
\* The packets of a command.
<1>7. ASSUME NEW new \in [0..4 -> M!GLPackets], NEW n \in 0..4,
             M!update_MaerklinPacketPool(adr, new), queue' = Append(queue, new[n]),
             Kinds[adr] # "M2/28" => wanted'[adr].step <= 15,
             MaerklinPool'[adr] = new => PoolRight(adr)', SecondRight',
             second' \in {M!Nothing} \cup [adr : M!Addresses, direction : 0..2,
                                           speed : 2..15, funcs : M!Functions]
      PROVE  MaerklinInv'
  <2>1. queue' \in Seq(MPackets) /\ M!CoilsFollow'
    BY <1>3, <1>4, <1>7, QueueOneGL DEF Settled
  <2>2. /\ MaerklinPool' \in [M!Addresses \cup {M!IdleAddress} -> [0..4 -> M!GLPackets]]
        /\ MaerklinPool'[adr] = new
        /\ \A a : a # adr => MaerklinPool'[a] = MaerklinPool[a]
        /\ knownAddresses' \in Seq(M!Addresses \cup {M!IdleAddress})
        /\ last_refreshed.loco = 0 \/ last_refreshed.loco < Len(knownAddresses')
        /\ \A a : InPool(a)' => a = adr \/ InPool(a)
    BY <1>4, <1>7, UpdateFacts
  <2>3. M!TypeOK'
    BY <1>3, <1>4, <1>7, <2>1, <2>2 DEF Settled, M!TypeOK, MPackets
  <2>4. \A a : InPool(a)' => a \in M!Addresses /\ PoolRight(a)'
    BY <1>4, <1>5, <1>7, <2>2
  <2>5. StepsRight'
    BY <1>6, <1>7 DEF StepsRight
  <2> QED
    BY <1>7, <2>1, <2>3, <2>4, <2>5 DEF MaerklinInv
\* Nothing is sent: the address is not, or it is one of an old decoder.
<1>8. ASSUME UNCHANGED <<MaerklinPool, knownAddresses, queue, second>>,
             Kinds[adr] # "M2/28" => wanted'[adr].step <= 15,
             InPool(adr) => PoolRight(adr)'
      PROVE  MaerklinInv'
  <2>1. M!TypeOK' /\ M!CoilsFollow'
    <3>1. M!TypeOK'
      BY <1>3, <1>4, <1>8 DEF Settled, M!TypeOK
    <3>2. M!CoilsFollow'
      BY ZenonT(60), <1>3, <1>4, <1>8 DEF Settled, M!CoilsFollow
    <3> QED
      BY <3>1, <3>2
  <2>2. \A a : InPool(a)' => a \in M!Addresses /\ PoolRight(a)'
    BY <1>4, <1>5, <1>8 DEF InPool
  <2>3. StepsRight'
    BY <1>6, <1>8 DEF StepsRight
  <2>4. SecondRight'
    BY <1>2, <1>8 DEF SecondRight
  <2> QED
    BY <2>1, <2>2, <2>3, <2>4 DEF MaerklinInv
<1>9. CASE Kinds[adr] = "M1"
  <2> DEFINE s == IF c.direction # cached[adr].direction THEN 1 ELSE speed
  <2>1. /\ wanted'[adr].step = s /\ UNCHANGED second
        /\ M!comp_maerklin_1(adr, c.direction, speed, c.funcs)
    BY <1>9, SetGLDispatch DEF speed
  <2>2. s \in 0..15
    BY <1>2, <1>9
  <2> HIDE DEF s
  <2>3. CASE c.direction = 2 \/ adr > 80
    <3>1. UNCHANGED <<MaerklinPool, knownAddresses, queue>>
      BY <2>1, <2>3 DEF M!comp_maerklin_1
    <3>2. InPool(adr) => adr <= 80
      BY <1>4, <1>9 DEF PoolRight
    <3>3. InPool(adr) => PoolRight(adr)'
      BY <1>1, <1>2, <1>9, <2>3, <3>2 DEF PoolRight
    <3> QED
      BY <1>8, <2>1, <2>2, <3>1, <3>3
  <2>4. CASE ~(c.direction = 2 \/ adr > 80)
    <3> DEFINE new == M!Packets1(adr, s, c.funcs)
    <3>1. M!update_MaerklinPacketPool(adr, new) /\ queue' = Append(queue, new[0])
      BY <2>1, <2>4 DEF M!comp_maerklin_1, s
    <3>2. new \in [0..4 -> M!GLPackets]
      BY <1>1, <2>2, PacketsType
    <3>3. MaerklinPool'[adr] = new => PoolRight(adr)'
      BY <1>1, <1>2, <1>9, <2>1, <2>4 DEF PoolRight
    <3>4. SecondRight' /\ second' = M!Nothing
      BY <1>2, <2>1 DEF SecondRight
    <3> HIDE DEF new
    <3> QED
      BY <1>7, <2>1, <2>2, <3>1, <3>2, <3>3, <3>4
  <2> QED
    BY <2>3, <2>4
<1>10. CASE Kinds[adr] = "M2"
  <2> DEFINE new == M!Packets2(adr, c.direction, speed, c.funcs)
  <2>1. wanted'[adr].step = speed /\ M!Compose(adr, c.direction, speed, c.funcs)
        /\ UNCHANGED second
    BY <1>10, SetGLDispatch DEF speed
  <2>2. PICK n \in 0..4 : queue' = Append(queue, new[n])
    BY <2>1, ComposeFacts
  <2>3. M!update_MaerklinPacketPool(adr, new)
    BY <2>1, ComposeFacts
  <2>4. new \in [0..4 -> M!GLPackets]
    BY <1>1, <1>2, <1>10, PacketsType
  <2>5. MaerklinPool'[adr] = new => PoolRight(adr)'
    BY <1>2, <1>10, <2>1 DEF PoolRight
  <2>6. SecondRight' /\ second' = M!Nothing
    BY <1>2, <2>1 DEF SecondRight
  <2>7. wanted'[adr].step <= 15
    BY <1>2, <1>10, <2>1
  <2> HIDE DEF new
  <2> QED
    BY <1>7, <2>2, <2>3, <2>4, <2>5, <2>6, <2>7
<1>11. CASE Kinds[adr] = "M2/28" /\ adr > 80
  <2>1. UNCHANGED <<MaerklinPool, knownAddresses, queue, second>>
    BY <1>1, <1>11, SetGLDispatch
  <2>2. ~InPool(adr)
    BY <1>1, <1>4, <1>11 DEF PoolRight
  <2> QED
    BY <1>8, <1>11, <2>1, <2>2
<1>12. CASE Kinds[adr] = "M2/28" /\ adr <= 80
  <2> DEFINE new == M!Packets2(adr, c.direction, steps[1], c.funcs)
  <2>1. /\ wanted'[adr].step = IF speed = 0 THEN 0 ELSE speed + 2
        /\ M!Compose(adr, c.direction, steps[1], c.funcs)
        /\ second' = IF steps[2] = 0 THEN M!Nothing
                     ELSE [adr |-> adr, direction |-> c.direction, speed |-> steps[2],
                           funcs |-> c.funcs]
    BY SMTT(30), <1>1, <1>12, SetGLDispatch DEF speed
  <2>2. /\ steps[1] \in 0..15 /\ steps[2] \in {0} \cup 2..15
        /\ steps[2] = 0 => steps[1] = IF speed = 0 THEN 0 ELSE (speed + 2) \div 2
        /\ steps[2] # 0 => speed # 0 /\ steps[2] = (speed + 2) \div 2
    BY ZenonT(30), <1>1, <1>2, Steps28Facts
  <2> HIDE DEF steps
  <2>3. PICK n \in 0..4 : queue' = Append(queue, new[n])
    BY <2>1, ComposeFacts
  <2>4. M!update_MaerklinPacketPool(adr, new)
    BY <2>1, ComposeFacts
  <2>5. new \in [0..4 -> M!GLPackets]
    BY <1>1, <2>2, PacketsType
  <2>6. CASE steps[2] = 0
    <3>1. second' = M!Nothing
      BY <2>1, <2>6
    <3>2. wanted'[adr].step \div 2 = steps[1]
      BY <1>2, <2>1, <2>2, <2>6
    <3>3. MaerklinPool'[adr] = new => PoolRight(adr)'
      BY <1>2, <1>12, <3>2 DEF PoolRight
    <3>4. SecondRight'
      BY <3>1 DEF SecondRight
    <3> HIDE DEF new
    <3> QED
      BY <1>7, <1>12, <2>3, <2>4, <2>5, <3>1, <3>3, <3>4
  <2>7. CASE steps[2] # 0
    <3>1. second' = [adr |-> adr, direction |-> c.direction, speed |-> steps[2],
                     funcs |-> c.funcs]
      BY <2>1, <2>7
    <3>2. wanted'[adr].step \div 2 = steps[2]
      BY <1>2, <2>1, <2>2, <2>7
    <3>3. second'.adr = adr /\ second' # M!Nothing
      <4>1. adr # -1
        BY <1>1
      <4> QED
        BY <3>1, <4>1 DEF M!Nothing
    <3>4. PoolRight(adr)'
      BY <1>12, <3>3 DEF PoolRight
    <3>5. SecondRight'
      BY <1>2, <1>12, <3>1, <3>2 DEF SecondRight
    <3>6. second' \in [adr : M!Addresses, direction : 0..2, speed : 2..15,
                       funcs : M!Functions]
      BY <1>1, <2>2, <2>7, <3>1
    <3> HIDE DEF new
    <3> QED
      BY <1>7, <1>12, <2>3, <2>4, <2>5, <3>4, <3>5, <3>6
  <2> QED
    BY <2>6, <2>7
<1> QED
  BY <1>1, <1>9, <1>10, <1>11, <1>12

LEMMA SecondStepInv == ASSUME MaerklinInv, M!SecondStep PROVE MaerklinInv'
<1>1. /\ second \in [adr : M!Addresses, direction : 0..2, speed : 2..15, funcs : M!Functions]
      /\ second # M!Nothing
  BY DEF MaerklinInv, M!TypeOK, M!SecondStep
<1> PICK adr \in M!Addresses : adr = second.adr
  BY <1>1
<1> DEFINE new == M!Packets2(adr, second.direction, second.speed, second.funcs)
<1>2. /\ second.direction \in 0..2 /\ second.speed \in 2..15
      /\ second.funcs \in M!Functions
  BY <1>1
<1>3. M!Sent(second.speed) = second.speed
  BY <1>2 DEF M!Sent
<1>4. /\ M!Compose(adr, second.direction, second.speed, second.funcs)
      /\ second' = M!Nothing
      /\ UNCHANGED <<cached, last_refreshed, decoder, wanted, switched, toCome>>
  BY <1>1, <1>3 DEF M!SecondStep, M!comp_maerklin_2
<1>5. M!update_MaerklinPacketPool(adr, new)
  BY <1>4, ComposeFacts
<1>6. PICK n \in 0..4 : queue' = Append(queue, new[n])
  BY <1>4, ComposeFacts
<1>7. new \in [0..4 -> M!GLPackets]
  BY <1>2, PacketsType
<1>8. /\ M!TypeOK /\ M!CoilsFollow /\ StepsRight
      /\ \A a : InPool(a) => a \in M!Addresses /\ PoolRight(a)
      /\ queue \in Seq(MPackets) /\ switched \in Seq(GACommands)
  BY MaerklinTypes DEF MaerklinInv
<1>9. /\ MaerklinPool' \in [M!Addresses \cup {M!IdleAddress} -> [0..4 -> M!GLPackets]]
      /\ MaerklinPool'[adr] = new
      /\ \A a : a # adr => MaerklinPool'[a] = MaerklinPool[a]
      /\ knownAddresses' \in Seq(M!Addresses \cup {M!IdleAddress})
      /\ last_refreshed.loco = 0 \/ last_refreshed.loco < Len(knownAddresses')
      /\ \A a : InPool(a)' => a = adr \/ InPool(a)
  BY <1>2, <1>5, <1>7, <1>8, UpdateFacts
<1>10. PoolRight(adr)'
  <2>1. /\ Kinds[adr] = "M2/28" /\ adr <= 80
        /\ second.direction = wanted[adr].direction /\ second.funcs = wanted[adr].funcs
        /\ second.speed = wanted[adr].step \div 2
    BY <1>1 DEF MaerklinInv, SecondRight
  <2>2. new = M!Packets2(adr, wanted[adr].direction, wanted[adr].step \div 2,
                         wanted[adr].funcs)
    BY <2>1
  <2>3. MaerklinPool'[adr] = M!Packets2(adr, wanted'[adr].direction,
                                        wanted'[adr].step \div 2, wanted'[adr].funcs)
    BY <1>4, <1>9, <2>2
  <2> QED
    BY <2>1, <2>3 DEF PoolRight
<1>11. \A a : InPool(a) /\ a # adr => PoolRight(a)'
  <2> SUFFICES ASSUME NEW a, InPool(a), a # adr PROVE PoolRight(a)'
    OBVIOUS
  <2>1. PoolRight(a) /\ MaerklinPool'[a] = MaerklinPool[a] /\ wanted' = wanted
    BY <1>4, <1>8, <1>9
  <2> QED
    BY <2>1 DEF PoolRight
<1> HIDE DEF new
<1>12. queue' \in Seq(MPackets) /\ M!CoilsFollow'
  BY <1>4, <1>6, <1>7, <1>8, QueueOneGL
<1>13. M!TypeOK'
  BY <1>4, <1>8, <1>9, <1>12 DEF M!TypeOK, MPackets
<1>14. StepsRight' /\ SecondRight'
  BY <1>4, <1>8 DEF StepsRight, SecondRight
<1> QED
  BY <1>2, <1>8, <1>9, <1>10, <1>11, <1>12, <1>13, <1>14 DEF MaerklinInv

LEMMA SwitchGAInv == ASSUME MaerklinInv, NEW c \in GACommands, M!SwitchGA(c) PROVE MaerklinInv'
<1>1. /\ toCome' = toCome - 1 /\ toCome > 0 /\ M!comp_maerklin_ms(c)
      /\ UNCHANGED <<cached, MaerklinPool, knownAddresses, last_refreshed, second,
                     decoder, wanted>>
  BY DEF M!SwitchGA
<1>2. /\ M!TypeOK /\ M!CoilsFollow
      /\ queue \in Seq(MPackets) /\ switched \in Seq(GACommands)
  BY MaerklinTypes DEF MaerklinInv
<1>3. toCome' \in 0..MaxToCome
  BY <1>1, <1>2, KindFacts DEF M!TypeOK
<1>4. queue' \in Seq(MPackets) /\ switched' \in Seq(GACommands) /\ M!CoilsFollow'
  <2>1. CASE c.id \in 1..324 /\ c.port \in 0..1 /\ c.action \in 0..1
    <3> DEFINE p == [type |-> "GA", trits |-> M!SolenoidTrits(c)]
    <3>1. queue' = Append(queue, p) /\ switched' = Append(switched, c)
      BY <1>1, <2>1 DEF M!comp_maerklin_ms
    <3>2. c \in [id : Int, port : Int, action : Int]
      BY MaerklinAssumption
    <3>3. p \in M!GAPackets /\ M!HeardTrits(p.trits) = c
      BY <2>1, <3>2, TritsHeard DEF M!GAPackets
    <3> HIDE DEF p
    <3>4. PICK place : Follows(queue, switched, place)
      BY <1>2, FollowsDef
    <3>5. PICK new : Follows(queue', switched', new)
      BY <1>2, <3>1, <3>3, <3>4, FollowsGA
    <3>6. queue' \in Seq(MPackets) /\ switched' \in Seq(GACommands)
      BY <1>2, <3>1, <3>3 DEF MPackets
    <3> QED
      BY <3>5, <3>6 DEF M!CoilsFollow, Follows
  <2>2. CASE ~(c.id \in 1..324 /\ c.port \in 0..1 /\ c.action \in 0..1)
    <3>1. UNCHANGED <<queue, switched>>
      BY <1>1, <2>2 DEF M!comp_maerklin_ms
    <3> QED
      BY SMTT(30), <1>2, <3>1 DEF M!CoilsFollow
  <2> QED
    BY <2>1, <2>2
<1>5. M!TypeOK'
  BY <1>1, <1>2, <1>3, <1>4 DEF M!TypeOK, MPackets
<1>6. SecondRight' /\ StepsRight' /\ \A a : InPool(a)' => a \in M!Addresses /\ PoolRight(a)'
  BY <1>1 DEF MaerklinInv, SecondRight, StepsRight, InPool, PoolRight
<1> QED
  BY <1>4, <1>5, <1>6 DEF MaerklinInv

\* A packet of a locomotive keeps its decoder a decoder.
LEMMA SendType ==
    ASSUME decoder \in [M!Addresses -> Decoders], NEW p \in M!GLPackets, M!Send(p)
    PROVE  decoder' \in [M!Addresses -> Decoders] /\ UNCHANGED switched
<1>1. p.type = "GL"
  BY DEF M!GLPackets
<1>2. /\ decoder' = [adr \in M!Addresses |-> IF adr = p.adr THEN M!Hears(decoder[adr], p)
                                             ELSE decoder[adr]]
      /\ UNCHANGED switched
  BY <1>1 DEF M!Send
<1>3. \A adr \in M!Addresses : decoder[adr] \in Decoders /\ M!Hears(decoder[adr], p) \in Decoders
  BY HearsAny
<1> QED
  BY <1>2, <1>3

LEMMA SendQueuedInv == ASSUME MaerklinInv, M!SendQueued PROVE MaerklinInv'
<1>1. /\ queue # <<>> /\ M!Send(queue[1]) /\ queue' = Tail(queue)
      /\ UNCHANGED <<cached, MaerklinPool, knownAddresses, last_refreshed, second,
                     wanted, toCome>>
  BY DEF M!SendQueued
<1>2. /\ M!TypeOK /\ M!CoilsFollow /\ decoder \in [M!Addresses -> Decoders]
      /\ queue \in Seq(MPackets) /\ switched \in Seq(GACommands)
  BY MaerklinTypes DEF MaerklinInv
<1>3. Len(queue) \in Nat \ {0}
  BY <1>1, <1>2, EmptySeq
<1>4. queue[1] \in MPackets /\ queue' \in Seq(MPackets)
  BY <1>1, <1>2, <1>3, HeadTailProperties
<1>5. PICK place : Follows(queue, switched, place)
  BY <1>2, FollowsDef
<1>6. /\ switched' \in Seq(GACommands) /\ M!CoilsFollow'
      /\ decoder' \in [M!Addresses -> Decoders]
  <2>1. CASE queue[1].type = "GL"
    <3>1. queue[1] \in M!GLPackets
      BY <1>4, <2>1, Types
    <3>2. decoder' \in [M!Addresses -> Decoders] /\ UNCHANGED switched
      BY <1>1, <1>2, <3>1, SendType
    <3>3. PICK new : Follows(queue', switched, new)
      BY <1>1, <1>2, <1>5, <2>1, FollowsTail
    <3> QED
      BY ZenonT(60), <1>2, <3>2, <3>3 DEF M!CoilsFollow, Follows
  <2>2. CASE queue[1].type # "GL"
    <3>1. switched' = Tail(switched) /\ UNCHANGED decoder
      BY <1>1, <2>2 DEF M!Send
    <3>2. switched # <<>> /\ \E new : Follows(queue', Tail(switched), new)
      BY <1>1, <1>2, <1>5, <2>2, FollowsTail
    <3>3. PICK new : Follows(queue', Tail(switched), new)
      BY <3>2
    <3>4. Tail(switched) \in Seq(GACommands)
      BY <1>2, <3>2, HeadTailProperties
    <3> QED
      BY ZenonT(60), <1>2, <3>1, <3>3, <3>4 DEF M!CoilsFollow, Follows
  <2> QED
    BY <2>1, <2>2
<1>7. M!TypeOK'
  BY <1>1, <1>2, <1>4, <1>6 DEF M!TypeOK, MPackets, Decoders
<1>8. SecondRight' /\ StepsRight' /\ \A a : InPool(a)' => a \in M!Addresses /\ PoolRight(a)'
  BY <1>1 DEF MaerklinInv, SecondRight, StepsRight, InPool, PoolRight
<1> QED
  BY <1>6, <1>7, <1>8 DEF MaerklinInv

LEMMA refresh_locoInv == ASSUME MaerklinInv, M!refresh_loco PROVE MaerklinInv'
<1> DEFINE at == last_refreshed
           adr == IF knownAddresses = <<>> THEN M!IdleAddress ELSE knownAddresses[at.loco + 1]
           next == CASE at.fx < 3 -> [at EXCEPT !.fx = @ + 1]
                     [] at.fx = 3 /\ at.loco + 1 < Len(knownAddresses) ->
                          [loco |-> at.loco + 1, fx |-> -1]
                     [] OTHER -> [loco |-> 0, fx |-> -1]
<1>1. /\ M!Send(MaerklinPool[adr][at.fx + 1]) /\ last_refreshed' = next
      /\ UNCHANGED <<cached, MaerklinPool, knownAddresses, queue, second, wanted, toCome>>
  BY DEF M!refresh_loco
<1>2. /\ M!TypeOK /\ M!CoilsFollow /\ decoder \in [M!Addresses -> Decoders]
      /\ knownAddresses \in Seq(M!Addresses \cup {M!IdleAddress})
      /\ at \in [loco : Nat, fx : -1..3]
      /\ at.loco = 0 \/ at.loco < Len(knownAddresses)
  BY MaerklinTypes DEF MaerklinInv
<1>3. adr \in M!Addresses \cup {M!IdleAddress}
  <2>1. CASE knownAddresses = <<>>
    BY <2>1
  <2>2. CASE knownAddresses # <<>>
    <3>1. Len(knownAddresses) \in Nat \ {0}
      BY <1>2, <2>2, EmptySeq
    <3>2. at.loco + 1 \in 1..Len(knownAddresses)
      BY <1>2, <3>1
    <3> QED
      BY <1>2, <2>2, <3>2, ElementOfSeq
  <2> QED
    BY <2>1, <2>2
<1>4. /\ last_refreshed' \in [loco : Nat, fx : -1..3]
      /\ last_refreshed'.loco = 0 \/ last_refreshed'.loco < Len(knownAddresses)
  <2>1. CASE at.fx < 3
    <3>1. last_refreshed' = [at EXCEPT !.fx = at.fx + 1] /\ at.fx + 1 \in -1..3
      BY <1>1, <1>2, <2>1
    <3> QED
      BY <1>2, <3>1
  <2>2. CASE ~(at.fx < 3) /\ at.fx = 3 /\ at.loco + 1 < Len(knownAddresses)
    <3>1. last_refreshed' = [loco |-> at.loco + 1, fx |-> -1]
      BY <1>1, <2>2
    <3> QED
      BY <1>2, <2>2, <3>1
  <2>3. CASE ~(at.fx < 3) /\ ~(at.fx = 3 /\ at.loco + 1 < Len(knownAddresses))
    <3>1. last_refreshed' = [loco |-> 0, fx |-> -1]
      BY <1>1, <2>3
    <3> QED
      BY <3>1
  <2> QED
    BY <1>2, <2>1, <2>2, <2>3
<1>5. MaerklinPool[adr][at.fx + 1] \in M!GLPackets
  <2>1. at.fx + 1 \in 0..4
    BY <1>2
  <2> HIDE DEF adr
  <2> QED
    BY <1>2, <1>3, <2>1 DEF M!TypeOK
<1>6. decoder' \in [M!Addresses -> Decoders] /\ UNCHANGED switched
  BY <1>1, <1>2, <1>5, SendType
<1> HIDE DEF at, adr, next
<1>7. M!TypeOK' /\ M!CoilsFollow'
  <2>1. M!TypeOK'
    BY <1>1, <1>2, <1>4, <1>6 DEF M!TypeOK, Decoders
  <2>2. M!CoilsFollow'
    <3>1. queue' = queue /\ switched' = switched /\ M!CoilsFollow
      BY <1>1, <1>2, <1>6
    <3> QED
      BY <3>1 DEF M!CoilsFollow
  <2> QED
    BY <2>1, <2>2
<1>8. SecondRight' /\ StepsRight' /\ \A a : InPool(a)' => a \in M!Addresses /\ PoolRight(a)'
  BY <1>1 DEF MaerklinInv, SecondRight, StepsRight, InPool, PoolRight
<1> QED
  BY <1>7, <1>8 DEF MaerklinInv

LEMMA MaerklinInitInv == ASSUME NEW raw \in 0..1, M!InitWith(raw) PROVE MaerklinInv
<1>1. /\ cached = [adr \in M!Addresses |-> [direction |-> 0, speed |-> 0]]
      /\ MaerklinPool = [adr \in M!Addresses \cup {M!IdleAddress} |-> [n \in 0..4 |->
           IF adr = M!IdleAddress THEN M!Packet(0, {}, 0, M!Bits(0))
           ELSE M!Packet(adr, {}, 15 * raw, M!Bits(15 * raw))]]
      /\ knownAddresses = <<M!IdleAddress>>
      /\ last_refreshed = [loco |-> 0, fx |-> -1]
      /\ queue = <<>> /\ second = M!Nothing
      /\ decoder = [adr \in M!Addresses |->
                      [step |-> 0, half |-> FALSE, direction |-> 0, funcs |-> {}]]
      /\ wanted = [adr \in M!Addresses |->
                     [direction |-> 0, step |-> 0, funcs |-> {}, blurred |-> FALSE]]
      /\ switched = <<>> /\ toCome = MaxToCome
  BY DEF M!InitWith
<1>2. /\ {} \in M!Functions /\ 15 * raw \in 0..15 /\ M!Flag({}, 0) = 0
      /\ M!Bits(0) \in M!Nibbles /\ M!Bits(15 * raw) \in M!Nibbles
  BY BitsOfNibble DEF M!Functions, M!Flag
<1>3. MaerklinPool \in [M!Addresses \cup {M!IdleAddress} -> [0..4 -> M!GLPackets]]
  <2>1. M!Packet(0, {}, 0, M!Bits(0)) \in M!GLPackets
    BY <1>2 DEF M!Packet, M!GLPackets
  <2>2. \A adr \in M!Addresses : M!Packet(adr, {}, 15 * raw, M!Bits(15 * raw)) \in M!GLPackets
    BY <1>2 DEF M!Packet, M!GLPackets
  <2> QED
    BY <1>1, <2>1, <2>2
<1>4. /\ cached \in [M!Addresses -> [direction : 0..2, speed : 0..28]]
      /\ decoder \in [M!Addresses -> Decoders]
      /\ wanted \in [M!Addresses -> [direction : 0..2, step : 0..30, funcs : M!Functions,
                                     blurred : BOOLEAN]]
  BY <1>1, <1>2 DEF Decoders
<1>5. /\ knownAddresses \in Seq(M!Addresses \cup {M!IdleAddress})
      /\ queue \in Seq(MPackets) /\ switched \in Seq(GACommands)
      /\ Len(queue) = 0 /\ Len(switched) = 0
  BY <1>1, EmptySeq
<1>6. M!TypeOK
  BY <1>1, <1>3, <1>4, <1>5, KindFacts, MaerklinTypes
<1>7. M!CoilsFollow
  <2>1. Follows(queue, switched, [i \in 1..Len(switched) |-> i])
    BY <1>5 DEF Follows
  <2> QED
    BY <2>1, FollowsDef
<1>8. SecondRight /\ StepsRight /\ \A a : ~InPool(a)
  BY <1>1 DEF SecondRight, StepsRight, InPool
<1> QED
  BY <1>6, <1>7, <1>8 DEF MaerklinInv

LEMMA MaerklinNextInv == ASSUME MaerklinInv, M!Next PROVE MaerklinInv'
  BY SetGLInv, SecondStepInv, SwitchGAInv, SendQueuedInv, refresh_locoInv DEF M!Next

\* What is in the pool is what was said.
LEMMA MaerklinSays == MaerklinInv => M!PoolSays
<1> SUFFICES ASSUME MaerklinInv, knownAddresses # <<M!IdleAddress>>,
                    NEW i \in DOMAIN knownAddresses,
                    ~(second # M!Nothing /\ second.adr = knownAddresses[i]),
                    ~(/\ Kinds[knownAddresses[i]] = "M1"
                      /\ wanted[knownAddresses[i]].direction = 2),
                    NEW n \in 0..4
             PROVE  M!Tells(knownAddresses[i], n)
  BY DEF M!PoolSays
<1> DEFINE adr == knownAddresses[i]
           w == wanted[adr]
<1>1. InPool(adr)
  BY DEF InPool
<1> HIDE DEF adr
<1>2. adr \in M!Addresses /\ PoolRight(adr)
  BY <1>1 DEF MaerklinInv
<1>3. /\ decoder[adr] \in Decoders
      /\ w \in [direction : 0..2, step : 0..30, funcs : M!Functions, blurred : BOOLEAN]
      /\ Kinds[adr] # "M2/28" => w.step <= 15
  BY <1>2, MaerklinTypes DEF MaerklinInv, StepsRight
<1>4. /\ w.step \in 0..30 /\ w.step \div 2 \in 0..15 /\ w.direction \in 0..2
      /\ w.step <= 15 => w.step \in 0..15
  BY <1>3
<1>5. CASE Kinds[adr] = "M1"
  <2>1. MaerklinPool[adr] = M!Packets1(adr, w.step, w.funcs)
    BY <1>2, <1>5 DEF PoolRight, adr
  <2>2. LET h == M!Hears(decoder[adr], MaerklinPool[adr][n])
        IN h.step = w.step /\ (0 \in h.funcs <=> 0 \in w.funcs)
    BY SMTT(30), <1>2, <1>3, <1>4, <1>5, <2>1, Packets1Heard
  <2> QED
    BY <1>5, <2>2 DEF M!Tells, adr
<1>6. ASSUME NEW s \in 0..15, Kinds[adr] # "M1",
             s = IF Kinds[adr] = "M2/28" THEN w.step \div 2 ELSE w.step,
             MaerklinPool[adr] = M!Packets2(adr, w.direction, s, w.funcs)
      PROVE  M!Tells(adr, n)
  <2> PICK d \in Decoders, direction \in 0..2, funcs \in M!Functions :
        d = decoder[adr] /\ direction = w.direction /\ funcs = w.funcs
    BY <1>3
  <2>1. Told(M!Hears(d, M!Packets2(adr, direction, s, funcs)[n]), d, n, direction, s, funcs)
    BY <1>2, <1>6, Packets2Heard
  <2> DEFINE h == M!Hears(d, M!Packets2(adr, direction, s, funcs)[n])
  <2>2. \A k \in 1..4 : k \in h.funcs <=> k \in (IF k = n THEN w ELSE decoder[adr]).funcs
    BY <2>1 DEF Told
  <2> HIDE DEF h
  <2>3. /\ h.step = (IF Kinds[adr] = "M2/28" THEN w.step \div 2 ELSE w.step)
        /\ 0 \in h.funcs <=> 0 \in w.funcs
        /\ h.direction = IF n > 0 THEN decoder[adr].direction
                         ELSE IF w.direction = 0 THEN 0 ELSE 1
    BY <1>6, <2>1 DEF h, Told
  <2> QED
    BY <1>6, <2>2, <2>3 DEF M!Tells, h
<1>7. CASE Kinds[adr] = "M2"
  BY <1>2, <1>3, <1>4, <1>6, <1>7 DEF PoolRight, adr
<1>8. CASE Kinds[adr] = "M2/28"
  BY <1>2, <1>3, <1>4, <1>6, <1>8 DEF PoolRight, adr
<1> QED
  BY <1>2, <1>5, <1>7, <1>8, KindFacts DEF adr

-----------------------------------------------------------------------------
(* NMRA: bytes and bit streams *)

Byte == [1..8 -> 0..1]
BitStreams == {b \in Seq(0..1) : b # <<>> /\ b[Len(b)] = 1}

LEMMA BytePowers ==
    /\ 2 ^ 0 = 1 /\ 2 ^ 1 = 2 /\ 2 ^ 2 = 4 /\ 2 ^ 3 = 8
    /\ 2 ^ 4 = 16 /\ 2 ^ 5 = 32 /\ 2 ^ 6 = 64 /\ 2 ^ 7 = 128
  OBVIOUS

LEMMA SingleByte ==
    ASSUME NEW value \in Int
    PROVE  N!calc_single_byte(value) \in Byte
<1>1. \A i \in 1..8 : 2 ^ (8 - i) \in {1, 2, 4, 8, 16, 32, 64, 128}
  <2>1. \A n \in 0..7 : n = 0 \/ n = 1 \/ n = 2 \/ n = 3 \/ n = 4 \/ n = 5 \/ n = 6 \/ n = 7
    OBVIOUS
  <2>2. \A n \in 0..7 : 2 ^ n \in {1, 2, 4, 8, 16, 32, 64, 128}
    BY ZenonT(30), <2>1, BytePowers
  <2>3. \A i \in 1..8 : 8 - i \in 0..7
    OBVIOUS
  <2> QED
    BY <2>2, <2>3
<1>2. \A i \in 1..8 : (value \div 2 ^ (8 - i)) % 2 \in 0..1
  <2> SUFFICES ASSUME NEW i \in 1..8 PROVE (value \div 2 ^ (8 - i)) % 2 \in 0..1
    OBVIOUS
  <2> PICK p \in {1, 2, 4, 8, 16, 32, 64, 128} : p = 2 ^ (8 - i)
    BY ZenonT(60), <1>1
  <2>1. (value \div p) % 2 \in 0..1
    OBVIOUS
  <2> QED
    BY <2>1
<1> QED
  BY <1>2 DEF N!calc_single_byte, Byte

LEMMA ByteWithBit ==
    ASSUME NEW byte \in Byte, NEW n, NEW bit \in 0..1
    PROVE  N!WithBit(byte, n, bit) \in Byte
  BY DEF Byte, N!WithBit

\* The instance has its own copy of the definition.
LEMMA SameCardinality ==
    ASSUME NEW S
    PROVE  N!Cardinality(S) = Cardinality(S)
  BY DEF N!Cardinality, Cardinality

LEMMA XorType ==
    ASSUME NEW bytes \in Seq(Byte)
    PROVE  N!Xor(bytes) \in Byte
<1> DEFINE ones(i) == N!Cardinality({k \in DOMAIN bytes : bytes[k][i] = 1}) % 2
<1> SUFFICES ASSUME NEW i \in 1..8 PROVE ones(i) \in 0..1
  <2>1. N!Xor(bytes) = [i \in 1..8 |-> ones(i)]
    BY DEF N!Xor
  <2> HIDE DEF ones
  <2> QED
    BY <2>1 DEF Byte
<1> DEFINE K == {k \in DOMAIN bytes : bytes[k][i] = 1}
<1>1. DOMAIN bytes = 1..Len(bytes) /\ Len(bytes) \in Nat
  BY LenProperties
<1>2. IsFiniteSet(1..Len(bytes)) /\ K \in SUBSET (1..Len(bytes))
  BY <1>1, FS_Interval
<1>3. IsFiniteSet(K)
  BY <1>2, FS_Subset
<1>4. Cardinality(K) \in Nat
  BY <1>3, FS_CardinalityType
<1> QED
  BY <1>4, SameCardinality

\* A bit stream stays one with bits before it, and with nothing behind.
LEMMA Joined ==
    ASSUME NEW a \in Seq(0..1), NEW b \in BitStreams
    PROVE  a \o b \in BitStreams /\ b \o <<>> \in BitStreams /\ b \in Seq(0..1)
           /\ Len(a \o b) = Len(a) + Len(b)
<1>1. b \in Seq(0..1) /\ b # <<>> /\ b[Len(b)] = 1 /\ Len(b) \in Nat \ {0} /\ Len(a) \in Nat
  BY EmptySeq, LenProperties DEF BitStreams
<1>2. /\ a \o b \in Seq(0..1) /\ Len(a \o b) = Len(a) + Len(b)
      /\ (a \o b)[Len(a) + Len(b)] = b[Len(b)]
  BY <1>1, ConcatProperties
<1>3. a \o b # <<>>
  BY <1>1, <1>2, EmptySeq
<1>4. b \o <<>> = b
  BY <1>1, ConcatEmptySeq
<1> QED
  BY <1>1, <1>2, <1>3, <1>4 DEF BitStreams

LEMMA FramedType ==
    ASSUME NEW start \in Seq(0..1), NEW bytes \in Seq(Byte)
    PROVE  N!Framed(start, bytes) \in BitStreams
<1> DEFINE all == Append(bytes, N!Xor(bytes))
           n == 9 * Len(all)
           e(i) == IF i % 9 = 1 THEN 0 ELSE all[(i - 1) \div 9 + 1][(i - 1) % 9]
           middle == [i \in 1..n |-> e(i)]
<1>1. all \in Seq(Byte) /\ Len(all) \in Nat
  BY XorType, AppendProperties, LenProperties
<1>2. \A i \in 1..n : e(i) \in 0..1
  <2> HIDE DEF all
  <2> TAKE i \in 1..n
  <2>1. CASE i % 9 = 1
    BY <2>1
  <2>2. CASE i % 9 # 1
    <3>1. PICK q \in Int, r \in 0..8 : q = (i - 1) \div 9 /\ r = (i - 1) % 9
      BY <1>1
    <3>2. i - 1 = 9 * q + r
      BY SMTT(30), <1>1, <3>1
    <3>3. q + 1 \in 1..Len(all) /\ r \in 1..8
      BY SMTT(30), <1>1, <2>2, <3>1, <3>2
    <3>4. all[q + 1] \in Byte
      BY <1>1, <3>3, ElementOfSeq
    <3>5. all[q + 1][r] \in 0..1
      BY <3>3, <3>4 DEF Byte
    <3> QED
      BY <2>2, <3>1, <3>5
  <2> QED
    BY <2>1, <2>2
<1>3. middle \in Seq(0..1)
  <2> HIDE DEF e, all
  <2>1. n \in Nat /\ middle \in [1..n -> 0..1]
    BY <1>1, <1>2
  <2> HIDE DEF middle, n
  <2> QED
    BY <2>1, SeqDef
<1>4. start \o middle \in Seq(0..1)
  <2> HIDE DEF middle
  <2> QED
    BY <1>3, ConcatProperties
<1>5. <<1>> \in BitStreams
  BY DEF BitStreams
<1>6. N!Framed(start, bytes) = (start \o middle) \o <<1>>
  BY DEF N!Framed
<1> HIDE DEF middle
<1> QED
  BY <1>4, <1>5, <1>6, Joined

\* A bit stream may be followed by more of them, or by none.
More == BitStreams \cup {<<>>}

LEMMA JoinedMore ==
    ASSUME NEW a \in BitStreams, NEW b \in More, NEW c \in More
    PROVE  a \o b \in BitStreams /\ b \o c \in More
<1>a. BitStreams \subseteq Seq(0..1)
  BY DEF BitStreams
<1>1. \A x, y \in BitStreams : x \o y \in BitStreams
  BY <1>a, Joined
<1>2. \A x \in BitStreams : x \o <<>> \in BitStreams
  BY Joined, EmptySeq
<1>3. \A x \in BitStreams : <<>> \o x \in BitStreams
  BY Joined, EmptySeq
<1>4. <<>> \o <<>> = <<>>
  BY EmptySeq, ConcatEmptySeq
<1> QED
  BY <1>1, <1>2, <1>3, <1>4 DEF More

LEMMA PreambleType ==
    /\ N!preamble \in Seq(0..1) /\ N!wait \in Seq(0..1) /\ N!longpreamble \in Seq(0..1)
    /\ N!Ones(6) \in Seq(0..1) /\ Len(N!Ones(6)) = 6
<1>1. ASSUME NEW n \in Nat PROVE N!Ones(n) \in Seq(0..1) /\ Len(N!Ones(n)) = n
  <2>1. N!Ones(n) \in [1..n -> 0..1]
    BY DEF N!Ones
  <2> QED
    BY <2>1, SeqDef
<1> QED
  BY <1>1 DEF N!preamble, N!wait, N!longpreamble

\* Sequences of bytes that are written out.
LEMMA ByteSeqs ==
    /\ \A a \in Byte : <<a>> \in Seq(Byte)
    /\ \A a, b \in Byte : <<a, b>> \in Seq(Byte)
    /\ \A a, b, c \in Byte : <<a, b, c>> \in Seq(Byte)
  OBVIOUS

LEMMA AddressType ==
    ASSUME NEW address \in Int, NEW mode
    PROVE  N!AddressBytes(address, mode) \in Seq(Byte)
<1>1. /\ N!calc_single_byte(address % 128) \in Byte
      /\ N!calc_single_byte(192 + address \div 256) \in Byte
      /\ N!calc_single_byte(address) \in Byte
  BY SingleByte
<1> QED
  BY <1>1, ByteSeqs DEF N!AddressBytes

LEMMA SpeedType ==
    ASSUME NEW direction \in Int, NEW speed \in Int, NEW func, NEW nspeed \in Int
    PROVE  N!SpeedBytes(direction, speed, func, nspeed) \in Seq(Byte)
<1>1. N!calc_baseline_speed_byte(direction, speed, func) \in Byte
  BY SingleByte, ByteWithBit DEF N!calc_baseline_speed_byte
<1>2. N!calc_28spst_speed_byte(direction, speed) \in Byte
  <2>1. N!calc_single_byte(64 + 32 * direction + ((speed + 2) \div 2)) \in Byte
    BY SingleByte
  <2> QED
    BY <2>1, ByteWithBit DEF N!calc_28spst_speed_byte
<1>3. N!calc_128spst_adv_op_bytes(direction, speed) \in Seq(Byte)
  <2>1. N!calc_single_byte(speed) \in Byte /\ N!calc_single_byte(63) \in Byte
    BY SingleByte
  <2>2. N!WithBit(N!calc_single_byte(speed), 1, 1) \in Byte
    BY <2>1, ByteWithBit
  <2> QED
    BY <2>1, <2>2, ByteSeqs DEF N!calc_128spst_adv_op_bytes
<1> QED
  BY <1>1, <1>2, <1>3, ByteSeqs DEF N!SpeedBytes

LEMMA TwoHalves ==
    ASSUME NEW a \in Seq(0..1), Len(a) = 4, NEW b \in Seq(0..1), Len(b) = 4
    PROVE  a \o b \in Byte
<1>1. a \o b \in Seq(0..1) /\ Len(a \o b) = Len(a) + Len(b)
  BY ConcatProperties
<1>2. Len(a \o b) = 8
  BY <1>1
<1>3. a \o b \in [1..Len(a \o b) -> 0..1]
  BY <1>1, LenProperties
<1> QED
  BY <1>2, <1>3 DEF Byte

LEMMA EightBits ==
    ASSUME NEW a \in Seq(0..1), Len(a) = 4, NEW b \in [1..4 -> 0..1]
    PROVE  a \o b \in Byte
<1>1. b \in Seq(0..1)
  BY SeqDef
<1>2. Len(b) = 4
  OBVIOUS
<1> QED
  BY <1>1, <1>2, TwoHalves

LEMMA FunctionsType ==
    ASSUME NEW func
    PROVE  /\ N!calc_function_group_one_byte(func) \in Byte
           /\ N!calc_function_group_two_byte(func, TRUE) \in Byte
           /\ N!calc_function_group_two_byte(func, FALSE) \in Byte
           /\ N!Functions(func, 13, 20) \in Byte /\ N!Functions(func, 21, 28) \in Byte
<1>1. \A n : N!On(func, n) \in 0..1
  BY DEF N!On
<1>2. /\ N!Functions(func, 1, 4) \in [1..4 -> 0..1]
      /\ N!Functions(func, 5, 8) \in [1..4 -> 0..1]
      /\ N!Functions(func, 9, 12) \in [1..4 -> 0..1]
  BY <1>1 DEF N!Functions
<1>3. \A x \in 0..1 : <<1, 0, 0, x>> \in Seq(0..1) /\ Len(<<1, 0, 0, x>>) = 4
  OBVIOUS
<1>4. /\ <<1, 0, 1, 1>> \in Seq(0..1) /\ Len(<<1, 0, 1, 1>>) = 4
      /\ <<1, 0, 1, 0>> \in Seq(0..1) /\ Len(<<1, 0, 1, 0>>) = 4
  OBVIOUS
<1>5. /\ <<1, 0, 0, N!On(func, 0)>> \o N!Functions(func, 1, 4) \in Byte
      /\ <<1, 0, 1, 1>> \o N!Functions(func, 5, 8) \in Byte
      /\ <<1, 0, 1, 0>> \o N!Functions(func, 9, 12) \in Byte
  BY <1>1, <1>2, <1>3, <1>4, EightBits
<1>6. N!Functions(func, 13, 20) \in Byte /\ N!Functions(func, 21, 28) \in Byte
  BY <1>1 DEF N!Functions, Byte
<1> QED
  BY <1>5, <1>6 DEF N!calc_function_group_one_byte, N!calc_function_group_two_byte

LEMMA FunctionStreams ==
    ASSUME NEW address \in Seq(Byte), NEW func, NEW nfuncs \in Int
    PROVE  /\ N!MoreFunctions(address, func, nfuncs) \in More
           /\ N!FunctionStream(address, func, nfuncs) \in BitStreams
<1> DEFINE Alone(bytes) == N!Framed(N!preamble, bytes)
<1>1. \A bytes \in Seq(Byte) : Alone(bytes) \in BitStreams /\ N!wait \o Alone(bytes) \in More
  BY FramedType, PreambleType, Joined DEF More
<1>2. \A b \in Byte : Append(address, b) \in Seq(Byte)
  BY AppendProperties
<1>3. \A a, b \in Byte : address \o <<a, b>> \in Seq(Byte)
  BY ByteSeqs, ConcatProperties
<1>4. N!calc_single_byte(222) \in Byte /\ N!calc_single_byte(223) \in Byte
  BY SingleByte
<1> DEFINE lower == Append(address, N!calc_function_group_two_byte(func, TRUE))
           upper == Append(address, N!calc_function_group_two_byte(func, FALSE))
           one == Append(address, N!calc_function_group_one_byte(func))
           f13 == address \o <<N!calc_single_byte(222), N!Functions(func, 13, 20)>>
           f21 == address \o <<N!calc_single_byte(223), N!Functions(func, 21, 28)>>
           x == IF nfuncs > 5 THEN N!wait \o Alone(lower) ELSE <<>>
           y == IF nfuncs > 12 THEN N!wait \o Alone(f13) ELSE <<>>
           u == IF nfuncs > 8 THEN N!wait \o Alone(upper) ELSE <<>>
           v == IF nfuncs > 20 THEN N!wait \o Alone(f21) ELSE <<>>
<1>5. /\ lower \in Seq(Byte) /\ upper \in Seq(Byte) /\ one \in Seq(Byte)
      /\ f13 \in Seq(Byte) /\ f21 \in Seq(Byte)
  BY <1>2, <1>3, <1>4, FunctionsType
<1>6. <<>> \in More
  BY DEF More
<1>7. x \in More /\ y \in More /\ u \in More /\ v \in More /\ Alone(one) \in BitStreams
  <2> HIDE DEF lower, upper, one, f13, f21, Alone
  <2> QED
    BY <1>1, <1>5, <1>6
<1>8. /\ N!MoreFunctions(address, func, nfuncs) = x \o y
      /\ N!FunctionStream(address, func, nfuncs) = (Alone(one) \o u) \o v
  BY DEF N!MoreFunctions, N!FunctionStream
<1> HIDE DEF x, y, u, v, Alone
<1>9. x \o y \in More /\ Alone(one) \o u \in BitStreams
  BY <1>7, JoinedMore
<1>10. (Alone(one) \o u) \o v \in BitStreams
  BY <1>7, <1>9, JoinedMore
<1> QED
  BY <1>8, <1>9, <1>10

-----------------------------------------------------------------------------
(* NMRA: the bit streams of the commands *)

\* One packet is a sequence of one bit stream, and none is one, too.
LEMMA OneStream ==
    /\ \A b \in BitStreams : <<b>> \in Seq(BitStreams) /\ Len(<<b>>) = 1
    /\ \A a, b \in BitStreams : <<a, b>> \in Seq(BitStreams) /\ Len(<<a, b>>) = 2
    /\ <<>> \in Seq(BitStreams)
  OBVIOUS

LEMMA LocoStreamsType ==
    ASSUME NEW adr \in Int, NEW direction \in Int, NEW speed \in Int, NEW func,
           NEW nspeed \in Int, NEW nfuncs \in Int, NEW mode
    PROVE  N!comp_nmra_multi_func(adr, direction, speed, func, nspeed, nfuncs, mode)
             \in Seq(BitStreams)
<1> DEFINE address == N!AddressBytes(adr, mode)
           v == IF speed > 127 THEN 127 ELSE speed
           first == N!Framed(N!preamble, address \o N!SpeedBytes(direction, v, func, nspeed))
<1>1. address \in Seq(Byte) /\ N!SpeedBytes(direction, v, func, nspeed) \in Seq(Byte)
  BY AddressType, SpeedType
<1>2. address \o N!SpeedBytes(direction, v, func, nspeed) \in Seq(Byte)
  BY <1>1, ConcatProperties
<1>3. first \in BitStreams
  BY <1>2, FramedType, PreambleType
<1>4. /\ N!MoreFunctions(address, func, nfuncs) \in More
      /\ N!FunctionStream(address, func, nfuncs) \in BitStreams
  BY <1>1, FunctionStreams
<1>5. first \o N!MoreFunctions(address, func, nfuncs) \in BitStreams
  BY <1>3, <1>4, JoinedMore
<1> DEFINE other == N!FunctionStream(address, func, nfuncs)
           both == first \o N!MoreFunctions(address, func, nfuncs)
           refused == \/ adr < 1 \/ adr > 10239 \/ direction \notin 0..1
                      \/ speed \notin 0..nspeed + 1 \/ (adr > 127 /\ mode = 1)
<1>6. N!comp_nmra_multi_func(adr, direction, speed, func, nspeed, nfuncs, mode) =
        CASE refused -> <<>>
          [] nfuncs > 0 /\ nspeed > 14 -> <<both, other>>
          [] OTHER -> <<first>>
  BY DEF N!comp_nmra_multi_func
<1> HIDE DEF refused, both, other, first
<1>7. /\ <<>> \in Seq(BitStreams) /\ <<both, other>> \in Seq(BitStreams)
      /\ <<first>> \in Seq(BitStreams)
  BY <1>3, <1>4, <1>5, OneStream DEF both, other
<1>8. CASE refused /\ nfuncs > 0 /\ nspeed > 14
  BY <1>6, <1>7, <1>8
<1>9. CASE refused /\ ~(nfuncs > 0 /\ nspeed > 14)
  BY <1>6, <1>7, <1>9
<1>10. CASE ~refused /\ nfuncs > 0 /\ nspeed > 14
  BY <1>6, <1>7, <1>10
<1>11. CASE ~refused /\ ~(nfuncs > 0 /\ nspeed > 14)
  BY <1>6, <1>7, <1>11
<1> QED
  BY <1>8, <1>9, <1>10, <1>11

LEMMA AccessoryType ==
    ASSUME NEW nr \in Int, NEW output \in Int, NEW activate \in Int, NEW offset \in 0..1
    PROVE  N!comp_nmra_accessory(nr, output, activate, offset) \in Seq(BitStreams)
<1> DEFINE a == (nr + offset) \div 4
           b1 == N!calc_single_byte(128 + (a % 64))
           b2 == N!calc_single_byte(128 + ((511 - a) \div 64) * 16
                                      + activate * 8 + ((nr + offset) % 4) * 2 + output)
<1>1. a \in Int /\ (nr + offset) % 4 \in Int /\ a % 64 \in Int /\ (511 - a) \div 64 \in Int
  OBVIOUS
<1>2. b1 \in Byte /\ b2 \in Byte
  <2> PICK p, q, r \in Int : p = a % 64 /\ q = (511 - a) \div 64 /\ r = (nr + offset) % 4
    BY <1>1
  <2>1. 128 + p \in Int /\ 128 + q * 16 + activate * 8 + r * 2 + output \in Int
    OBVIOUS
  <2>2. /\ N!calc_single_byte(128 + p) \in Byte
        /\ N!calc_single_byte(128 + q * 16 + activate * 8 + r * 2 + output) \in Byte
    BY <2>1, SingleByte
  <2> QED
    BY <2>2
<1> HIDE DEF b1, b2
<1>3. N!Framed(N!preamble, <<b1, b2>>) \in BitStreams
  BY <1>2, ByteSeqs, FramedType, PreambleType
<1>4. \/ N!comp_nmra_accessory(nr, output, activate, offset) = <<>>
      \/ N!comp_nmra_accessory(nr, output, activate, offset)
           = <<N!Framed(N!preamble, <<b1, b2>>)>>
  BY DEF N!comp_nmra_accessory, b1, b2
<1> QED
  BY <1>3, <1>4, OneStream

\* The instructions that program: three bytes each.
LEMMA ProgramStreams ==
    ASSUME NEW cv \in Int, NEW bit \in Int, NEW value \in Int,
           NEW verify \in BOOLEAN, NEW pom \in BOOLEAN
    PROVE  /\ N!calc_byte_program_stream(cv, value, verify, pom) \in Seq(Byte)
           /\ N!calc_bit_program_stream(cv, bit, value, verify, pom) \in Seq(Byte)
<1> PICK q, r \in Int : q = cv \div 256 /\ r = (cv \div 256) % 4
  OBVIOUS
<1> DEFINE first == IF pom THEN 236 ELSE 124
           base == IF pom THEN 232 ELSE 120
<1>1. first + r \in Int /\ base + q \in Int /\ 240 + 8 * value + bit \in Int
  OBVIOUS
<1>2. /\ N!calc_single_byte(first + r) \in Byte /\ N!calc_single_byte(base + q) \in Byte
      /\ N!calc_single_byte(240 + 8 * value + bit) \in Byte
      /\ N!calc_single_byte(cv) \in Byte /\ N!calc_single_byte(value) \in Byte
  BY <1>1, SingleByte
<1>3. /\ N!WithBit(N!calc_single_byte(first + r), 5, 0) \in Byte
      /\ N!WithBit(N!calc_single_byte(240 + 8 * value + bit), 4, 0) \in Byte
  BY <1>2, ByteWithBit
<1>4. N!calc_byte_program_stream(cv, value, verify, pom) =
        <<IF verify THEN N!WithBit(N!calc_single_byte(first + r), 5, 0)
          ELSE N!calc_single_byte(first + r),
          N!calc_single_byte(cv), N!calc_single_byte(value)>>
  BY DEF N!calc_byte_program_stream
<1>5. N!calc_bit_program_stream(cv, bit, value, verify, pom) =
        <<N!calc_single_byte(base + q), N!calc_single_byte(cv),
          IF verify THEN N!WithBit(N!calc_single_byte(240 + 8 * value + bit), 4, 0)
          ELSE N!calc_single_byte(240 + 8 * value + bit)>>
  BY DEF N!calc_bit_program_stream
<1> HIDE DEF first, base
<1> QED
  BY <1>2, <1>3, <1>4, <1>5, ByteSeqs

LEMMA PomType ==
    ASSUME NEW address \in Int, NEW cv \in Int, NEW bit \in Int, NEW value \in Int, NEW mode
    PROVE  /\ N!write_cvbyte_pom(address, cv, value, mode) \in Seq(BitStreams)
           /\ N!write_cvbit_pom(address, cv, bit, value, mode) \in Seq(BitStreams)
<1> DEFINE a == N!AddressBytes(address, mode)
           byte == N!calc_byte_program_stream(cv - 1, value, FALSE, TRUE)
           one == N!calc_bit_program_stream(cv - 1, bit, value, FALSE, TRUE)
<1>a. cv - 1 \in Int /\ TRUE \in BOOLEAN /\ FALSE \in BOOLEAN
  OBVIOUS
<1>1. a \in Seq(Byte) /\ byte \in Seq(Byte) /\ one \in Seq(Byte)
  <2>1. a \in Seq(Byte)
    BY AddressType
  <2>2. byte \in Seq(Byte)
    BY <1>a, ProgramStreams
  <2>3. one \in Seq(Byte)
    BY <1>a, ProgramStreams
  <2> QED
    BY <2>1, <2>2, <2>3
<1>2. a \o byte \in Seq(Byte) /\ a \o one \in Seq(Byte)
  <2> HIDE DEF a, byte, one
  <2> QED
    BY <1>1, ConcatProperties
<1>3. /\ N!Framed(N!preamble, a \o byte) \in BitStreams
      /\ N!Framed(N!preamble, a \o one) \in BitStreams
  BY <1>2, FramedType, PreambleType
<1> PICK x, y \in BitStreams : /\ x = N!Framed(N!preamble, a \o byte)
                               /\ y = N!Framed(N!preamble, a \o one)
  BY <1>3
<1>4. /\ <<x>> \in Seq(BitStreams) /\ <<y>> \in Seq(BitStreams) /\ <<>> \in Seq(BitStreams)
  BY OneStream
<1> DEFINE noByte == \/ address \notin 1..10239 \/ cv \notin 1..1024 \/ value \notin 0..255
                     \/ (address > 127 /\ mode = 1)
           noBit == \/ address \notin 1..10239 \/ cv \notin 2..1024 \/ bit \notin 0..7
                    \/ value \notin 0..1 \/ (address > 127 /\ mode = 1)
<1>5. N!write_cvbyte_pom(address, cv, value, mode)
        = IF noByte THEN <<>> ELSE <<N!Framed(N!preamble, a \o byte)>>
  BY DEF N!write_cvbyte_pom
<1>6. N!write_cvbit_pom(address, cv, bit, value, mode)
        = IF noBit THEN <<>> ELSE <<N!Framed(N!preamble, a \o one)>>
  BY DEF N!write_cvbit_pom
<1> HIDE DEF a, byte, one, noByte, noBit
<1> QED
  BY <1>4, <1>5, <1>6

LEMMA TrackStreams ==
    ASSUME NEW reg \in Int, NEW cv \in Int, NEW bit \in Int, NEW value \in Int,
           NEW verify \in BOOLEAN
    PROVE  /\ N!calc_reg_stream(reg, value, verify) \in BitStreams
           /\ N!direct_byte_stream(cv, value, verify) \in BitStreams
           /\ N!direct_bit_stream(cv, bit, value, verify) \in BitStreams
<1>1. /\ N!calc_byte_program_stream(cv - 1, value, verify, FALSE) \in Seq(Byte)
      /\ N!calc_bit_program_stream(cv - 1, bit, value, verify, FALSE) \in Seq(Byte)
  <2>1. cv - 1 \in Int /\ FALSE \in BOOLEAN
    OBVIOUS
  <2> QED
    BY <2>1, ProgramStreams
<1>2. N!calc_single_byte(120 + reg) \in Byte /\ N!calc_single_byte(value) \in Byte
  BY SingleByte
<1>3. N!WithBit(N!calc_single_byte(120 + reg), 5, 0) \in Byte
  BY <1>2, ByteWithBit
<1>4. <<IF verify THEN N!WithBit(N!calc_single_byte(120 + reg), 5, 0)
        ELSE N!calc_single_byte(120 + reg), N!calc_single_byte(value)>> \in Seq(Byte)
  BY <1>2, <1>3, ByteSeqs
<1> QED
  BY <1>1, <1>4, FramedType, PreambleType
     DEF N!calc_reg_stream, N!direct_byte_stream, N!direct_bit_stream

LEMMA FixedStreams ==
    /\ N!reset_packet \in BitStreams /\ N!idle_packet \in BitStreams
    /\ N!page_preset_packet \in BitStreams
<1>1. /\ N!calc_single_byte(0) \in Byte /\ N!calc_single_byte(255) \in Byte
      /\ N!calc_single_byte(125) \in Byte /\ N!calc_single_byte(1) \in Byte
  BY SingleByte
<1> QED
  BY <1>1, ByteSeqs, FramedType, PreambleType
     DEF N!reset_packet, N!idle_packet, N!page_preset_packet

LEMMA CommandFacts ==
    ASSUME NEW c \in Commands
    PROVE  /\ c.group \in {"GL", "GA", "SM"}
           /\ c.group = "GL" => /\ c.id \in Int /\ c.protocolversion \in Int
                                /\ c.direction \in Int /\ c.speed \in Int
                                /\ c.n_fs \in Int /\ c.n_func \in Int
           /\ c.group = "GA" => /\ c.id \in Int /\ c.port \in Int /\ c.action \in Int
                                /\ c.offset \in 0..1
           /\ c.group = "SM" => /\ c.what \in {"SET", "GET", "VERIFY"}
                                /\ c.type \in {"CV", "CV_BIT", "REGISTER", "PAGE"}
                                /\ c.id \in Int /\ c.cv \in Int /\ c.bit \in Int
                                /\ c.value \in Int /\ c.stuck \in BOOLEAN
           /\ ~N!OnMain(c) => c.group = "SM"
  BY DEF Commands, N!OnMain

LEMMA ForcedType ==
    ASSUME NEW streams \in Seq(BitStreams), NEW force \in BOOLEAN
    PROVE  /\ N!Forced(streams, force) \in Seq(N!Streams01)
           /\ Len(N!Forced(streams, force)) = Len(streams)
<1> DEFINE s == [i \in 1..Len(streams) |-> [bits |-> streams[i], force |-> force]]
<1>1. DOMAIN streams = 1..Len(streams) /\ Len(streams) \in Nat
  BY LenProperties
<1>2. \A i \in 1..Len(streams) : streams[i] \in BitStreams
  BY ElementOfSeq
<1>3. \A i \in 1..Len(streams) : [bits |-> streams[i], force |-> force] \in N!Streams01
  BY <1>2 DEF N!Streams01, BitStreams
<1>4. s \in [1..Len(streams) -> N!Streams01]
  BY <1>3
<1>5. N!Forced(streams, force) = s
  BY <1>1 DEF N!Forced
<1> HIDE DEF s
<1>6. s \in Seq(N!Streams01)
  BY <1>1, <1>4, SeqDef
<1>7. Len(s) = Len(streams)
  BY <1>1, <1>4, <1>6, LenProperties
<1> QED
  BY <1>5, <1>6, <1>7

LEMMA StreamsType ==
    ASSUME NEW c \in Commands, N!OnMain(c)
    PROVE  N!Streams(c) \in Seq(N!Streams01)
<1>1. CASE c.group = "GL"
  <2> DEFINE pv == IF c.id > 127 THEN 2 ELSE c.protocolversion
             speed == IF c.speed > 0 THEN c.speed + 1 ELSE 0
  <2>1. speed \in Int /\ c.direction \in Int
    BY <1>1, CommandFacts
  <2>2. /\ N!comp_nmra_multi_func(c.id, c.direction, speed, c.funcs, c.n_fs, c.n_func, pv)
             \in Seq(BitStreams)
        /\ N!comp_nmra_multi_func(c.id, 0, 1, c.funcs, c.n_fs, c.n_func, pv)
             \in Seq(BitStreams)
    <3> HIDE DEF pv, speed
    <3> QED
      BY <1>1, <2>1, CommandFacts, LocoStreamsType
  <2>3. N!LocoStreams(c) \in Seq(BitStreams)
    BY <2>2 DEF N!LocoStreams
  <2> QED
    BY <1>1, <2>3, ForcedType DEF N!Streams
<1>2. CASE c.group = "GA"
  <2>1. N!comp_nmra_accessory(c.id, c.port, c.action, c.offset) \in Seq(BitStreams)
    BY <1>2, CommandFacts, AccessoryType
  <2> QED
    BY <1>2, <2>1, ForcedType DEF N!Streams
<1>3. CASE c.group = "SM"
  <2> DEFINE mode == IF c.id > 127 THEN 2 ELSE 1
  <2>1. /\ N!write_cvbyte_pom(c.id, c.cv, c.value, mode) \in Seq(BitStreams)
        /\ N!write_cvbit_pom(c.id, c.cv, c.bit, c.value, mode) \in Seq(BitStreams)
        /\ <<>> \in Seq(BitStreams)
    <3> HIDE DEF mode
    <3> QED
      BY <1>3, CommandFacts, PomType, OneStream
  <2>2. N!PomStreams(c) \in Seq(BitStreams)
    BY <1>3, <2>1, CommandFacts DEF N!PomStreams
  <2> QED
    BY <1>3, <2>2, ForcedType DEF N!Streams
<1> QED
  BY <1>1, <1>2, <1>3, CommandFacts

LEMMA sm_initType == N!sm_init \in Seq(N!Streams01) /\ Len(N!sm_init) = 3
<1>1. /\ <<N!reset_packet, N!idle_packet>> \in Seq(BitStreams)
      /\ Len(<<N!reset_packet, N!idle_packet>>) = 2
      /\ <<N!page_preset_packet>> \in Seq(BitStreams)
      /\ Len(<<N!page_preset_packet>>) = 1
  BY FixedStreams, OneStream
<1> DEFINE a == N!Forced(<<N!reset_packet, N!idle_packet>>, FALSE)
           b == N!Forced(<<N!page_preset_packet>>, TRUE)
<1>2. /\ a \in Seq(N!Streams01) /\ Len(a) = 2
      /\ b \in Seq(N!Streams01) /\ Len(b) = 1
  BY <1>1, ForcedType
<1>3. N!sm_init = a \o b
  BY DEF N!sm_init
<1> HIDE DEF a, b
<1>4. a \o b \in Seq(N!Streams01) /\ Len(a \o b) = Len(a) + Len(b)
  BY <1>2, ConcatProperties
<1> QED
  BY <1>2, <1>3, <1>4

\* What a call is, and how many bit streams it takes.
Calls ==
  [f : {"register"}, reg : Int, value : Int, verify : BOOLEAN]
  \cup [f : {"page"}, page : Int, reg : Int, value : Int, verify : BOOLEAN]
  \cup [f : {"byte"}, cv : Int, value : Int, verify : BOOLEAN]
  \cup [f : {"bit"}, cv : Int, bit : Int, value : Int, verify : BOOLEAN]

LEMMA CallType ==
    ASSUME NEW c \in Commands, c.group = "SM", NEW n \in Int
    PROVE  /\ N!Call(c, n) \in Calls
           /\ c.what = "VERIFY" /\ N!Accepted(N!Call(c, n)) => c.value \in 0..255
<1> DEFINE verify == c.what # "SET"
           value == IF N!Search(c) THEN n ELSE c.value
<1>1. /\ c.what \in {"SET", "GET", "VERIFY"}
      /\ c.type \in {"CV", "CV_BIT", "REGISTER", "PAGE"}
      /\ c.cv \in Int /\ c.bit \in Int /\ c.value \in Int
  BY CommandFacts
<1>2. /\ verify \in BOOLEAN /\ value \in Int
      /\ N!Search(c) <=> c.what = "GET" /\ c.type \in {"REGISTER", "PAGE"}
  BY <1>1 DEF N!Search
<1>3. c.what = "VERIFY" => value = c.value
  BY <1>2
<1>4. N!calc_page(c.cv) \in Int /\ (c.cv - 1) % 4 \in Int
  BY <1>1 DEF N!calc_page
<1>5. CASE c.type = "REGISTER"
  <2>1. N!Call(c, n) = [f |-> "register", reg |-> c.cv, value |-> value, verify |-> verify]
    BY <1>5 DEF N!Call
  <2> HIDE DEF value, verify
  <2> QED
    BY <1>1, <1>2, <1>3, <2>1 DEF Calls, N!Accepted
<1>6. CASE c.type = "PAGE"
  <2>1. N!Call(c, n) = [f |-> "page", page |-> N!calc_page(c.cv), reg |-> (c.cv - 1) % 4,
                        value |-> value, verify |-> verify]
    BY <1>6 DEF N!Call
  <2> HIDE DEF value, verify
  <2>2. N!Call(c, n) \in Calls
    BY <1>1, <1>2, <1>4, <2>1 DEF Calls
  <2>3. /\ N!Call(c, n).f = "page" /\ N!Call(c, n).value = value
    BY <2>1
  <2>4. N!Accepted(N!Call(c, n)) => N!Call(c, n).value \in 0..255
    BY <2>3 DEF N!Accepted
  <2> QED
    BY <1>3, <2>2, <2>3, <2>4
<1>7. CASE c.type = "CV" /\ c.what = "GET"
  <2>1. N!Call(c, n) = [f |-> "bit", cv |-> c.cv, bit |-> 7 - n, value |-> 1,
                        verify |-> TRUE]
    BY <1>7 DEF N!Call
  <2> QED
    BY <1>1, <1>7, <2>1 DEF Calls
<1>8. CASE c.type = "CV_BIT"
  <2> DEFINE v == IF c.what = "GET" THEN 1 ELSE value
  <2>1. N!Call(c, n) = [f |-> "bit", cv |-> c.cv, bit |-> c.bit, value |-> v,
                        verify |-> verify]
    BY <1>8 DEF N!Call
  <2>2. v \in Int /\ (c.what = "VERIFY" => v = c.value)
    BY <1>2, <1>3
  <2> HIDE DEF value, verify, v
  <2> QED
    BY <1>1, <1>2, <2>1, <2>2 DEF Calls, N!Accepted
<1>9. CASE c.type = "CV" /\ c.what # "GET"
  <2>1. \/ N!Call(c, n) = [f |-> "register", reg |-> 1, value |-> value, verify |-> verify]
        \/ N!Call(c, n) = [f |-> "byte", cv |-> c.cv, value |-> value, verify |-> verify]
    BY <1>9 DEF N!Call
  <2> HIDE DEF value, verify
  <2>2. N!Call(c, n) \in Calls
    BY <1>1, <1>2, <2>1 DEF Calls
  <2>3. N!Call(c, n).f \in {"register", "byte"} /\ N!Call(c, n).value = value
    BY <2>1
  <2>4. N!Accepted(N!Call(c, n)) => N!Call(c, n).value \in 0..255
    BY ZenonT(30), <2>3 DEF N!Accepted
  <2> QED
    BY <1>3, <2>2, <2>3, <2>4
<1> QED
  BY <1>1, <1>5, <1>6, <1>7, <1>8, <1>9

LEMMA CallStreamsType ==
    ASSUME NEW call \in Calls
    PROVE  /\ N!CallStreams(call) \in Seq(N!Streams01)
           /\ Len(N!CallStreams(call)) = IF call.f = "page" THEN 2 ELSE 1
<1>1. /\ call.f \in {"register", "page", "byte", "bit"}
      /\ call.value \in Int /\ call.verify \in BOOLEAN
      /\ call.f \in {"register", "page"} => call.reg \in Int
      /\ call.f = "page" => call.page \in Int
      /\ call.f \in {"byte", "bit"} => call.cv \in Int
      /\ call.f = "bit" => call.bit \in Int
  BY DEF Calls
<1>2. TRUE \in BOOLEAN /\ FALSE \in BOOLEAN
  OBVIOUS
<1>3. CASE call.f = "register"
  <2>1. N!calc_reg_stream(call.reg - 1, call.value, call.verify) \in BitStreams
    <3>1. call.reg - 1 \in Int
      BY <1>1, <1>3
    <3> QED
      BY <1>1, <3>1, TrackStreams
  <2>2. /\ <<N!calc_reg_stream(call.reg - 1, call.value, call.verify)>> \in Seq(BitStreams)
        /\ Len(<<N!calc_reg_stream(call.reg - 1, call.value, call.verify)>>) = 1
    BY <2>1, OneStream
  <2> QED
    BY <1>2, <1>3, <2>2, ForcedType DEF N!CallStreams
<1>4. CASE call.f = "page"
  <2>1. /\ N!calc_reg_stream(call.reg, call.value, call.verify) \in BitStreams
        /\ N!calc_reg_stream(5, call.page, FALSE) \in BitStreams
    <3>1. N!calc_reg_stream(call.reg, call.value, call.verify) \in BitStreams
      BY <1>1, <1>4, TrackStreams
    <3>2. 5 \in Int /\ call.page \in Int
      BY <1>1, <1>4
    <3>3. N!calc_reg_stream(5, call.page, FALSE) \in BitStreams
      BY <1>2, <3>2, TrackStreams
    <3> QED
      BY <3>1, <3>3
  <2> DEFINE b == <<N!calc_reg_stream(call.reg, call.value, call.verify),
                    N!calc_reg_stream(5, call.page, FALSE)>>
  <2>2. b \in Seq(BitStreams) /\ Len(b) = 2
    BY <2>1, OneStream
  <2>3. N!CallStreams(call) = N!Forced(b, TRUE)
    BY <1>4 DEF N!CallStreams
  <2> HIDE DEF b
  <2> QED
    BY <1>2, <1>4, <2>2, <2>3, ForcedType
<1>5. CASE call.f = "byte"
  <2> DEFINE b == <<N!direct_byte_stream(call.cv, call.value, call.verify)>>
  <2>1. N!direct_byte_stream(call.cv, call.value, call.verify) \in BitStreams
    BY <1>1, <1>5, TrackStreams
  <2>2. b \in Seq(BitStreams) /\ Len(b) = 1
    BY <2>1, OneStream
  <2>3. N!CallStreams(call) = N!Forced(b, FALSE)
    BY <1>5 DEF N!CallStreams
  <2> HIDE DEF b
  <2> QED
    BY <1>2, <1>5, <2>2, <2>3, ForcedType
<1>6. CASE call.f = "bit"
  <2> DEFINE b == <<N!direct_bit_stream(call.cv, call.bit, call.value, call.verify)>>
  <2>1. N!direct_bit_stream(call.cv, call.bit, call.value, call.verify) \in BitStreams
    BY <1>1, <1>6, TrackStreams
  <2>2. b \in Seq(BitStreams) /\ Len(b) = 1
    BY <2>1, OneStream
  <2>3. N!CallStreams(call) = N!Forced(b, FALSE)
    BY SMTT(30), <1>6 DEF N!CallStreams
  <2> HIDE DEF b
  <2> QED
    BY <1>2, <1>6, <2>2, <2>3, ForcedType
<1> QED
  BY <1>1, <1>3, <1>4, <1>5, <1>6

-----------------------------------------------------------------------------
(* NMRA: translations into bytes *)

LEMMA Rows ==
    /\ N!DataCnt = 15
    /\ \A i \in 1..15 : LET row == N!TranslateData[i]
                        IN /\ row.byte \in 0..255 /\ row.bits \in Seq(0..1)
                           /\ Len(row.bits) \in 1..5
<1>1. N!DataCnt = 15
  BY DEF N!DataCnt, N!TranslateData
<1>2. \A i \in 1..15 :
        \/ i = 1 \/ i = 2 \/ i = 3 \/ i = 4 \/ i = 5 \/ i = 6 \/ i = 7 \/ i = 8
        \/ i = 9 \/ i = 10 \/ i = 11 \/ i = 12 \/ i = 13 \/ i = 14 \/ i = 15
  OBVIOUS
<1>3. /\ N!TranslateData[1] = [bits |-> <<0>>, byte |-> 240]
      /\ N!TranslateData[2] = [bits |-> <<0, 0>>, byte |-> 198]
      /\ N!TranslateData[3] = [bits |-> <<0, 1>>, byte |-> 120]
      /\ N!TranslateData[4] = [bits |-> <<1, 0>>, byte |-> 225]
      /\ N!TranslateData[5] = [bits |-> <<0, 0, 1>>, byte |-> 102]
      /\ N!TranslateData[6] = [bits |-> <<0, 1, 0>>, byte |-> 150]
      /\ N!TranslateData[7] = [bits |-> <<0, 1, 1>>, byte |-> 92]
      /\ N!TranslateData[8] = [bits |-> <<1, 0, 0>>, byte |-> 153]
      /\ N!TranslateData[9] = [bits |-> <<1, 0, 1>>, byte |-> 113]
      /\ N!TranslateData[10] = [bits |-> <<1, 1, 0>>, byte |-> 197]
      /\ N!TranslateData[11] = [bits |-> <<0, 1, 1, 1>>, byte |-> 86]
      /\ N!TranslateData[12] = [bits |-> <<1, 0, 1, 1>>, byte |-> 89]
      /\ N!TranslateData[13] = [bits |-> <<1, 1, 0, 1>>, byte |-> 101]
      /\ N!TranslateData[14] = [bits |-> <<1, 1, 1, 0>>, byte |-> 149]
      /\ N!TranslateData[15] = [bits |-> <<1, 1, 1, 1, 1>>, byte |-> 85]
  BY DEF N!TranslateData
<1>4. /\ \A w \in 0..1 : <<w>> \in Seq(0..1) /\ Len(<<w>>) \in 1..5
      /\ \A w, x \in 0..1 : <<w, x>> \in Seq(0..1) /\ Len(<<w, x>>) \in 1..5
      /\ \A w, x, y \in 0..1 : <<w, x, y>> \in Seq(0..1) /\ Len(<<w, x, y>>) \in 1..5
      /\ \A w, x, y, z \in 0..1 :
           <<w, x, y, z>> \in Seq(0..1) /\ Len(<<w, x, y, z>>) \in 1..5
      /\ <<1, 1, 1, 1, 1>> \in Seq(0..1) /\ Len(<<1, 1, 1, 1, 1>>) \in 1..5
  OBVIOUS
<1> DEFINE Right(row) == /\ row.byte \in 0..255 /\ row.bits \in Seq(0..1)
                         /\ Len(row.bits) \in 1..5
<1> HIDE DEF Right
<1>6. Right(N!TranslateData[1])
  BY <1>3, <1>4 DEF Right
<1>7. Right(N!TranslateData[2])
  BY <1>3, <1>4 DEF Right
<1>8. Right(N!TranslateData[3])
  BY <1>3, <1>4 DEF Right
<1>9. Right(N!TranslateData[4])
  BY <1>3, <1>4 DEF Right
<1>10. Right(N!TranslateData[5])
  BY <1>3, <1>4 DEF Right
<1>11. Right(N!TranslateData[6])
  BY <1>3, <1>4 DEF Right
<1>12. Right(N!TranslateData[7])
  BY <1>3, <1>4 DEF Right
<1>13. Right(N!TranslateData[8])
  BY <1>3, <1>4 DEF Right
<1>14. Right(N!TranslateData[9])
  BY <1>3, <1>4 DEF Right
<1>15. Right(N!TranslateData[10])
  BY <1>3, <1>4 DEF Right
<1>16. Right(N!TranslateData[11])
  BY <1>3, <1>4 DEF Right
<1>17. Right(N!TranslateData[12])
  BY <1>3, <1>4 DEF Right
<1>18. Right(N!TranslateData[13])
  BY <1>3, <1>4 DEF Right
<1>19. Right(N!TranslateData[14])
  BY <1>3, <1>4 DEF Right
<1>20. Right(N!TranslateData[15])
  BY <1>3, <1>4 DEF Right
<1>21. \A i \in 1..15 : Right(N!TranslateData[i])
  BY <1>2, <1>6, <1>7, <1>8, <1>9, <1>10, <1>11, <1>12, <1>13,
     <1>14, <1>15, <1>16, <1>17, <1>18, <1>19, <1>20
<1> QED
  BY <1>1, <1>21 DEF Right

LEMMA LastIsOne ==
    ASSUME NEW S \in SUBSET (1..15), S # {}
    PROVE  N!Last(S) \in S
<1>1. \E i \in S : \A k \in S : k <= i
  <2> SUFFICES ASSUME \A i \in S : \E k \in S : k > i
               PROVE  FALSE
    OBVIOUS
  <2>1. \E k \in S : k >= 1
    <3> PICK k \in S : TRUE
      OBVIOUS
    <3> QED
      OBVIOUS
  <2>2. \E k \in S : k >= 4
    BY <2>1
  <2>3. \E k \in S : k >= 7
    BY <2>2
  <2>4. \E k \in S : k >= 10
    BY <2>3
  <2>5. \E k \in S : k >= 13
    BY <2>4
  <2>6. \E k \in S : k >= 16
    BY SMTT(30), <2>5
  <2> QED
    BY <2>6
<1> QED
  BY <1>1 DEF N!Last

LEMMA Rows3 ==
    \A k \in 1..32, try \in 1..2 :
      N!TranslateData_v3[k][try].byte \in 0..255 /\ N!TranslateData_v3[k][try].length \in 1..5
<1> DEFINE Row(v, n, w, m) == <<[byte |-> v, length |-> n], [byte |-> w, length |-> m]>>
           RowsRight(rows) == \A try \in 1..2 : /\ rows[try].byte \in 0..255
                                                /\ rows[try].length \in 1..5
<1>3. N!TranslateData_v3 =
        <<Row(204, 2, 240, 1), Row(204, 2, 240, 1), Row(204, 2, 240, 1), Row(204, 2, 240, 1),
          Row(166, 3, 28, 2), Row(166, 3, 28, 2), Row(76, 3, 28, 2), Row(76, 3, 28, 2),
          Row(154, 3, 232, 2), Row(154, 3, 232, 2), Row(52, 3, 232, 2), Row(52, 3, 232, 2),
          Row(212, 3, 64, 2), Row(212, 3, 64, 2), Row(80, 3, 64, 2), Row(84, 4, 80, 3),
          Row(199, 2, 255, 1), Row(199, 2, 255, 1), Row(199, 2, 255, 1), Row(199, 2, 255, 1),
          Row(211, 3, 15, 2), Row(211, 3, 15, 2), Row(71, 3, 15, 2), Row(83, 4, 71, 3),
          Row(205, 3, 253, 2), Row(205, 3, 253, 2), Row(29, 3, 253, 2), Row(77, 4, 29, 3),
          Row(245, 3, 245, 3), Row(53, 4, 245, 3), Row(213, 4, 213, 4), Row(85, 5, 85, 5)>>
  BY DEF N!TranslateData_v3
<1> HIDE DEF Row, RowsRight
<1>4. \A k \in 1..8 : RowsRight(N!TranslateData_v3[k])
  <2>1. \A k \in 1..8 : \/ k = 1 \/ k = 2 \/ k = 3 \/ k = 4
                        \/ k = 5 \/ k = 6 \/ k = 7 \/ k = 8
    OBVIOUS
  <2>2. N!TranslateData_v3[1] = Row(204, 2, 240, 1) /\ N!TranslateData_v3[2] = Row(204, 2, 240, 1)
    BY <1>3
  <2>3. N!TranslateData_v3[3] = Row(204, 2, 240, 1) /\ N!TranslateData_v3[4] = Row(204, 2, 240, 1)
    BY <1>3
  <2>4. N!TranslateData_v3[5] = Row(166, 3, 28, 2) /\ N!TranslateData_v3[6] = Row(166, 3, 28, 2)
    BY <1>3
  <2>5. N!TranslateData_v3[7] = Row(76, 3, 28, 2) /\ N!TranslateData_v3[8] = Row(76, 3, 28, 2)
    BY <1>3
  <2>6. RowsRight(N!TranslateData_v3[1]) /\ RowsRight(N!TranslateData_v3[2])
    BY <2>2 DEF Row, RowsRight
  <2>7. RowsRight(N!TranslateData_v3[3]) /\ RowsRight(N!TranslateData_v3[4])
    BY <2>3 DEF Row, RowsRight
  <2>8. RowsRight(N!TranslateData_v3[5]) /\ RowsRight(N!TranslateData_v3[6])
    BY <2>4 DEF Row, RowsRight
  <2>9. RowsRight(N!TranslateData_v3[7]) /\ RowsRight(N!TranslateData_v3[8])
    BY <2>5 DEF Row, RowsRight
  <2> QED
    BY <2>1, <2>6, <2>7, <2>8, <2>9
<1>5. \A k \in 9..16 : RowsRight(N!TranslateData_v3[k])
  <2>1. \A k \in 9..16 : \/ k = 9 \/ k = 10 \/ k = 11 \/ k = 12
                         \/ k = 13 \/ k = 14 \/ k = 15 \/ k = 16
    OBVIOUS
  <2>2. N!TranslateData_v3[9] = Row(154, 3, 232, 2) /\ N!TranslateData_v3[10] = Row(154, 3, 232, 2)
    BY <1>3
  <2>3. N!TranslateData_v3[11] = Row(52, 3, 232, 2) /\ N!TranslateData_v3[12] = Row(52, 3, 232, 2)
    BY <1>3
  <2>4. N!TranslateData_v3[13] = Row(212, 3, 64, 2) /\ N!TranslateData_v3[14] = Row(212, 3, 64, 2)
    BY <1>3
  <2>5. N!TranslateData_v3[15] = Row(80, 3, 64, 2) /\ N!TranslateData_v3[16] = Row(84, 4, 80, 3)
    BY <1>3
  <2>6. RowsRight(N!TranslateData_v3[9]) /\ RowsRight(N!TranslateData_v3[10])
    BY <2>2 DEF Row, RowsRight
  <2>7. RowsRight(N!TranslateData_v3[11]) /\ RowsRight(N!TranslateData_v3[12])
    BY <2>3 DEF Row, RowsRight
  <2>8. RowsRight(N!TranslateData_v3[13]) /\ RowsRight(N!TranslateData_v3[14])
    BY <2>4 DEF Row, RowsRight
  <2>9. RowsRight(N!TranslateData_v3[15]) /\ RowsRight(N!TranslateData_v3[16])
    BY <2>5 DEF Row, RowsRight
  <2> QED
    BY <2>1, <2>6, <2>7, <2>8, <2>9
<1>6. \A k \in 17..24 : RowsRight(N!TranslateData_v3[k])
  <2>1. \A k \in 17..24 : \/ k = 17 \/ k = 18 \/ k = 19 \/ k = 20
                          \/ k = 21 \/ k = 22 \/ k = 23 \/ k = 24
    OBVIOUS
  <2>2. N!TranslateData_v3[17] = Row(199, 2, 255, 1) /\ N!TranslateData_v3[18] = Row(199, 2, 255, 1)
    BY <1>3
  <2>3. N!TranslateData_v3[19] = Row(199, 2, 255, 1) /\ N!TranslateData_v3[20] = Row(199, 2, 255, 1)
    BY <1>3
  <2>4. N!TranslateData_v3[21] = Row(211, 3, 15, 2) /\ N!TranslateData_v3[22] = Row(211, 3, 15, 2)
    BY <1>3
  <2>5. N!TranslateData_v3[23] = Row(71, 3, 15, 2) /\ N!TranslateData_v3[24] = Row(83, 4, 71, 3)
    BY <1>3
  <2>6. RowsRight(N!TranslateData_v3[17]) /\ RowsRight(N!TranslateData_v3[18])
    BY <2>2 DEF Row, RowsRight
  <2>7. RowsRight(N!TranslateData_v3[19]) /\ RowsRight(N!TranslateData_v3[20])
    BY <2>3 DEF Row, RowsRight
  <2>8. RowsRight(N!TranslateData_v3[21]) /\ RowsRight(N!TranslateData_v3[22])
    BY <2>4 DEF Row, RowsRight
  <2>9. RowsRight(N!TranslateData_v3[23]) /\ RowsRight(N!TranslateData_v3[24])
    BY <2>5 DEF Row, RowsRight
  <2> QED
    BY <2>1, <2>6, <2>7, <2>8, <2>9
<1>7. \A k \in 25..32 : RowsRight(N!TranslateData_v3[k])
  <2>1. \A k \in 25..32 : \/ k = 25 \/ k = 26 \/ k = 27 \/ k = 28
                          \/ k = 29 \/ k = 30 \/ k = 31 \/ k = 32
    OBVIOUS
  <2>2. N!TranslateData_v3[25] = Row(205, 3, 253, 2) /\ N!TranslateData_v3[26] = Row(205, 3, 253, 2)
    BY <1>3
  <2>3. N!TranslateData_v3[27] = Row(29, 3, 253, 2) /\ N!TranslateData_v3[28] = Row(77, 4, 29, 3)
    BY <1>3
  <2>4. N!TranslateData_v3[29] = Row(245, 3, 245, 3) /\ N!TranslateData_v3[30] = Row(53, 4, 245, 3)
    BY <1>3
  <2>5. N!TranslateData_v3[31] = Row(213, 4, 213, 4) /\ N!TranslateData_v3[32] = Row(85, 5, 85, 5)
    BY <1>3
  <2>6. RowsRight(N!TranslateData_v3[25]) /\ RowsRight(N!TranslateData_v3[26])
    BY <2>2 DEF Row, RowsRight
  <2>7. RowsRight(N!TranslateData_v3[27]) /\ RowsRight(N!TranslateData_v3[28])
    BY <2>3 DEF Row, RowsRight
  <2>8. RowsRight(N!TranslateData_v3[29]) /\ RowsRight(N!TranslateData_v3[30])
    BY <2>4 DEF Row, RowsRight
  <2>9. RowsRight(N!TranslateData_v3[31]) /\ RowsRight(N!TranslateData_v3[32])
    BY <2>5 DEF Row, RowsRight
  <2> QED
    BY <2>1, <2>6, <2>7, <2>8, <2>9
<1>8. \A k \in 1..32 : RowsRight(N!TranslateData_v3[k])
  <2>1. \A k \in 1..32 : k \in 1..8 \/ k \in 9..16 \/ k \in 17..24 \/ k \in 25..32
    OBVIOUS
  <2> QED
    BY <1>4, <1>5, <1>6, <1>7, <2>1
<1> QED
  BY ZenonT(30), <1>8 DEF RowsRight

-----------------------------------------------------------------------------
(* NMRA: what is right of a translation t of the bits s *)

\* Where byte k + 1 begins, as N!Place of the translation that goes on.
Begins(t, k) == IF k < Len(t.pkt) THEN t.at[k + 1] ELSE t.pos

\* Versions 1 and 2.
Types12 ==
  [buf : Seq(0..1), pos : Nat \ {0}, i : 0..N!DataCnt, pkt : Seq(0..255),
   stack : Seq(1..N!DataCnt), at : Seq(Nat \ {0}), high : Nat, correction : BOOLEAN]
Spelled12(t) ==
  \A k \in DOMAIN t.pkt :
    LET row == N!TranslateData[t.stack[k]]
    IN /\ t.pkt[k] = row.byte
       /\ N!Matches(t.stack[k], t.buf, t.at[k])
       /\ Begins(t, k) = t.at[k] + Len(row.bits)
Right12(t) ==
  /\ t \in Types12
  /\ Len(t.at) = Len(t.pkt) /\ Len(t.stack) = Len(t.pkt)
  /\ Begins(t, 0) = 1 /\ Spelled12(t)
\* What version 1 makes of the bits while it translates.
Buffer1(t, s) ==
  IF t.correction THEN t.buf = N!Shorter(s)
  ELSE /\ Len(t.buf) >= Len(s)
       /\ \A k \in DOMAIN t.buf : t.buf[k] = IF k <= Len(s) THEN s[k] ELSE 1

\* Version 3.
Types3 ==
  [buf : Seq(0..1), end : Nat, pos : Nat \ {0}, pkt : Seq(0..255),
   at : Seq(Nat \ {0}), restart : Nat \ {0}, keep : Nat]
Stands3(t, k, row) == t.pkt[k] = row.byte /\ Begins(t, k) = t.at[k] + row.length
Spelled3(t) ==
  \A k \in DOMAIN t.pkt :
    \E row \in {N!TranslateData_v3[N!read_next_six_bits(t, t.at[k]) \div 2 + 1][try] :
                  try \in 1..2} : Stands3(t, k, row)
\* The place to go back to is one where a byte begins, and not the end.
Right3(t, s) ==
  /\ t \in Types3
  /\ Len(t.at) = Len(t.pkt) /\ Begins(t, 0) = 1 /\ Spelled3(t)
  /\ t.buf = <<1, 1>> \o s \o N!Ones(6) /\ t.end = Len(s) + 2
  /\ t.keep <= Len(t.pkt) /\ t.restart = Begins(t, t.keep) /\ t.restart <= t.end

Right(t, v, s) ==
  CASE v = 1 -> Right12(t) /\ Buffer1(t, s) /\ Len(t.pkt) < N!PKTSIZE - 1
    [] v = 2 -> Right12(t) /\ t.buf = s /\ Len(t.pkt) < N!PKTSIZE
    [] v = 3 -> Right3(t, s) /\ Len(t.pkt) <= N!PKTSIZE

LEMMA LastTaken ==
    ASSUME NEW S, NEW s \in Seq(S), s # <<>>
    PROVE  /\ N!Shorter(s) \in Seq(S) /\ Len(N!Shorter(s)) = Len(s) - 1
           /\ \A k \in 1..Len(s) - 1 : N!Shorter(s)[k] = s[k]
           /\ Len(s) \in Nat \ {0}
<1>1. Len(s) \in Nat \ {0}
  BY EmptySeq
<1> PICK n \in Nat : n = Len(s) - 1
  BY <1>1
<1>2. \A k \in 1..n : s[k] \in S
  BY <1>1, ElementOfSeq
<1>3. /\ SubSeq(s, 1, n) \in Seq(S) /\ Len(SubSeq(s, 1, n)) = IF 1 <= n THEN n - 1 + 1 ELSE 0
      /\ \A k \in 1..n - 1 + 1 : SubSeq(s, 1, n)[k] = s[1 + k - 1]
  BY <1>2, SubSeqProperties
<1>4. N!Shorter(s) = SubSeq(s, 1, n)
  BY DEF N!Shorter
<1>5. Len(SubSeq(s, 1, n)) = n /\ n - 1 + 1 = n /\ \A k \in 1..n : 1 + k - 1 = k
  BY <1>3
<1> QED
  BY <1>1, <1>3, <1>4, <1>5

LEMMA LastLeftOut ==
    ASSUME NEW s \in BitStreams
    PROVE  /\ N!Shorter(s) \in Seq(0..1) /\ Len(N!Shorter(s)) = Len(s) - 1
           /\ \A k \in 1..Len(s) - 1 : N!Shorter(s)[k] = s[k]
           /\ s \in Seq(0..1) /\ Len(s) \in Nat \ {0} /\ s[Len(s)] = 1
  BY LastTaken DEF BitStreams

\* A translation begins right, whichever the version.
LEMMA BegunRight ==
    ASSUME NEW s \in BitStreams, ver \in 1..3
    PROVE  Right(N!Begun(s), ver, s)
<1>1. /\ N!Shorter(s) \in Seq(0..1) /\ s \in Seq(0..1) /\ Len(s) \in Nat \ {0}
      /\ DOMAIN s = 1..Len(s)
  BY LastLeftOut, LenProperties
<1>2. ASSUME NEW correction \in BOOLEAN
      PROVE  /\ Right12(N!Fresh(s, correction)) /\ N!Fresh(s, correction).pkt = <<>>
             /\ Buffer1(N!Fresh(s, correction), s)
             /\ ~correction => N!Fresh(s, correction).buf = s
  <2> DEFINE t == N!Fresh(s, correction)
  <2>1. t = [buf |-> IF correction THEN N!Shorter(s) ELSE s,
             pos |-> 1, i |-> N!DataCnt, pkt |-> <<>>, stack |-> <<>>, at |-> <<>>,
             high |-> 0, correction |-> correction]
    BY DEF N!Fresh, N!Shorter
  <2> HIDE DEF t
  <2>2. t \in Types12
    BY <1>1, <2>1, Rows DEF Types12
  <2>3. Right12(t)
    BY <2>1, <2>2 DEF Right12, Begins, Spelled12
  <2>4. Buffer1(t, s)
    BY <1>1, <2>1 DEF Buffer1
  <2> QED
    BY <2>1, <2>3, <2>4 DEF t
<1>3. CASE ver = 1
  <2>1. N!Begun(s) = N!Fresh(s, ~N!translateabel(s))
    BY <1>3 DEF N!Begun
  <2> PICK c \in BOOLEAN : c = ~N!translateabel(s)
    BY DEF N!translateabel
  <2> DEFINE t == N!Fresh(s, c)
  <2>2. Right12(t) /\ Buffer1(t, s) /\ t.pkt = <<>>
    BY <1>2
  <2> HIDE DEF t
  <2>3. Len(t.pkt) = 0
    BY <2>2, EmptySeq
  <2>4. Right(t, 1, s)
    BY <2>2, <2>3 DEF Right, N!PKTSIZE
  <2> QED
    BY <1>3, <2>1, <2>4 DEF t
<1>4. CASE ver = 2
  <2> DEFINE t == N!Fresh(s, FALSE)
  <2>1. N!Begun(s) = t
    BY <1>4 DEF N!Begun
  <2>2. Right12(t) /\ t.buf = s /\ t.pkt = <<>>
    BY <1>2
  <2> HIDE DEF t
  <2>3. Len(t.pkt) = 0
    BY <2>2, EmptySeq
  <2>4. Right(t, 2, s)
    BY <2>2, <2>3 DEF Right, N!PKTSIZE
  <2> QED
    BY <1>4, <2>1, <2>4
<1>5. CASE ver = 3
  <2> DEFINE buf == <<1, 1>> \o s \o N!Ones(6)
             t == [buf |-> buf, end |-> Len(s) + 2, pos |-> 1, pkt |-> <<>>,
                   at |-> <<>>, restart |-> 1, keep |-> 0]
  <2>1. N!Begun(s) = t
    BY <1>5 DEF N!Begun
  <2>2. buf \in Seq(0..1)
    BY <1>1, PreambleType, ConcatProperties
  <2> HIDE DEF buf
  <2>3. t \in Types3
    BY <1>1, <2>2 DEF Types3
  <2>4. Right3(t, s)
    BY <1>1, <2>3 DEF Right3, Begins, Spelled3, buf
  <2> QED
    BY <1>5, <2>1, <2>4 DEF Right, N!PKTSIZE
<1> QED
  BY <1>3, <1>4, <1>5

\* The elements of a sequence and of the sequence with one more.
LEMMA OneMore ==
    ASSUME NEW S, NEW s \in Seq(S), NEW e \in S
    PROVE  /\ Append(s, e) \in Seq(S) /\ Len(Append(s, e)) = Len(s) + 1
           /\ Append(s, e)[Len(s) + 1] = e /\ Len(s) \in Nat
           /\ DOMAIN Append(s, e) = 1..Len(s) + 1 /\ DOMAIN s = 1..Len(s)
           /\ \A k \in 1..Len(s) : Append(s, e)[k] = s[k]
  BY AppendProperties, LenProperties

\* The numbers of the rows from the first one, and a place some bits further on.
LEMMA RowNumbers ==
    /\ \A m \in 0..15 : 1..m \in SUBSET (1..15)
    /\ \A p \in Nat \ {0}, n \in 1..5 : p + n \in Nat \ {0}
  OBVIOUS

\* A row that fits comes next in the packet.
LEMMA ChosenRight ==
    ASSUME NEW t, Right12(t), N!Fitting(t) # {},
           NEW u, u = N!Chosen(t, N!Last(N!Fitting(t)))
    PROVE  /\ Right12(u) /\ u.buf = t.buf /\ u.correction = t.correction
           /\ Len(u.pkt) = Len(t.pkt) + 1
<1>1. t \in Types12 /\ Len(t.at) = Len(t.pkt) /\ Len(t.stack) = Len(t.pkt)
      /\ Begins(t, 0) = 1 /\ Spelled12(t)
  BY SMTT(30) DEF Right12
<1>2. /\ t.buf \in Seq(0..1) /\ t.pos \in Nat \ {0} /\ t.i \in 0..15 /\ t.pkt \in Seq(0..255)
      /\ t.stack \in Seq(1..15) /\ t.at \in Seq(Nat \ {0}) /\ t.high \in Nat
      /\ t.correction \in BOOLEAN
  BY <1>1, Rows DEF Types12
<1> PICK n \in Nat : n = Len(t.pkt)
  BY <1>2, LenProperties
<1>3. N!Fitting(t) \in SUBSET (1..15)
  <2>a. t.i \in 0..15
    BY <1>1, Rows DEF Types12
  <2> PICK m \in 0..15 : m = t.i
    BY <2>a
  <2>1. N!Fitting(t) \subseteq 1..m
    BY DEF N!Fitting
  <2>2. 1..m \in SUBSET (1..15)
    BY RowNumbers
  <2> QED
    BY <2>1, <2>2, Zenon
<1> PICK i \in 1..15 : i = N!Last(N!Fitting(t)) /\ i \in N!Fitting(t)
  BY <1>3, LastIsOne
<1>4. N!Matches(i, t.buf, t.pos)
  BY DEF N!Fitting
<1> PICK row : row = N!TranslateData[i]
  OBVIOUS
<1>5. row.byte \in 0..255 /\ row.bits \in Seq(0..1) /\ Len(row.bits) \in 1..5
  BY Rows
<1> PICK high \in Nat : high = IF n + 1 > t.high THEN n + 1 ELSE t.high
  BY SMTT(30), <1>2
<1>6. u = [t EXCEPT !.pkt = Append(@, row.byte), !.stack = Append(@, i),
                    !.pos = @ + Len(row.bits), !.i = 15, !.at = Append(@, t.pos),
                    !.high = high]
  BY Rows DEF N!Chosen
<1>7. /\ u.pkt = Append(t.pkt, row.byte) /\ u.stack = Append(t.stack, i)
      /\ u.at = Append(t.at, t.pos) /\ u.pos = t.pos + Len(row.bits) /\ u.buf = t.buf
      /\ u.i = 15 /\ u.high = high /\ u.correction = t.correction
  BY <1>1, <1>6 DEF Types12
<1>8. /\ u.pkt \in Seq(0..255) /\ Len(u.pkt) = n + 1 /\ DOMAIN u.pkt = 1..n + 1
      /\ DOMAIN t.pkt = 1..n
      /\ u.pkt[n + 1] = row.byte /\ \A k \in 1..n : u.pkt[k] = t.pkt[k]
  <2> PICK s \in Seq(0..255) : s = t.pkt
    BY <1>2
  <2> PICK e \in 0..255 : e = row.byte
    BY <1>5
  <2>1. /\ Append(s, e) \in Seq(0..255) /\ Len(Append(s, e)) = Len(s) + 1
        /\ Append(s, e)[Len(s) + 1] = e
        /\ DOMAIN Append(s, e) = 1..Len(s) + 1 /\ DOMAIN s = 1..Len(s)
        /\ \A k \in 1..Len(s) : Append(s, e)[k] = s[k]
    BY OneMore
  <2>2. u.pkt = Append(s, e) /\ Len(s) = n
    BY <1>7
  <2> QED
    BY <2>1, <2>2
<1>9. /\ u.stack \in Seq(1..15) /\ Len(u.stack) = n + 1
      /\ u.stack[n + 1] = i /\ \A k \in 1..n : u.stack[k] = t.stack[k]
  BY SMTT(30), <1>1, <1>2, <1>7, OneMore
<1>10. /\ u.at \in Seq(Nat \ {0}) /\ Len(u.at) = n + 1
       /\ u.at[n + 1] = t.pos /\ \A k \in 1..n : u.at[k] = t.at[k]
  BY SMTT(30), <1>1, <1>2, <1>7, OneMore
<1>11. u \in Types12
  <2>1. u.pos \in Nat \ {0}
    BY ZenonT(30), <1>2, <1>5, <1>7, RowNumbers
  <2> PICK pos \in Nat \ {0}, pkt \in Seq(0..255), stack \in Seq(1..15),
           at \in Seq(Nat \ {0}) :
        pos = u.pos /\ pkt = u.pkt /\ stack = u.stack /\ at = u.at
    BY <1>8, <1>9, <1>10, <2>1
  <2>2. u = [buf |-> t.buf, pos |-> pos, i |-> 15, pkt |-> pkt, stack |-> stack,
             at |-> at, high |-> high, correction |-> t.correction]
    BY <1>1, <1>6 DEF Types12
  <2> QED
    BY <1>2, <2>2, Rows DEF Types12
<1>12. \A k \in 0..n : Begins(u, k) = Begins(t, k)
  <2> TAKE k \in 0..n
  <2>1. Begins(u, k) = u.at[k + 1]
    BY <1>8 DEF Begins
  <2>2. CASE k < n
    <3>1. k + 1 \in 1..n
      BY <2>2
    <3>2. Begins(t, k) = t.at[k + 1]
      BY <2>2 DEF Begins
    <3> QED
      BY <1>10, <2>1, <3>1, <3>2
  <2>3. CASE k = n
    BY <1>10, <2>1, <2>3 DEF Begins
  <2> QED
    BY <2>2, <2>3
<1>13. Begins(u, n + 1) = t.pos + Len(row.bits)
  BY <1>7, <1>8 DEF Begins
<1>14. Begins(u, 0) = 1
  BY <1>1, <1>12
<1>15. Spelled12(u)
  <2> SUFFICES ASSUME NEW k \in 1..n + 1
               PROVE  LET r == N!TranslateData[u.stack[k]]
                      IN /\ u.pkt[k] = r.byte
                         /\ N!Matches(u.stack[k], u.buf, u.at[k])
                         /\ Begins(u, k) = u.at[k] + Len(r.bits)
    BY <1>8 DEF Spelled12
  <2>1. CASE k = n + 1
    BY <1>4, <1>7, <1>8, <1>9, <1>10, <1>13, <2>1
  <2>2. CASE k \in 1..n
    <3>1. LET r == N!TranslateData[t.stack[k]]
          IN /\ t.pkt[k] = r.byte
             /\ N!Matches(t.stack[k], t.buf, t.at[k])
             /\ Begins(t, k) = t.at[k] + Len(r.bits)
      BY <1>1, <1>8, <2>2 DEF Spelled12
    <3> QED
      BY <1>7, <1>8, <1>9, <1>10, <1>12, <2>2, <3>1
  <2> QED
    BY <2>1, <2>2
<1> QED
  BY <1>7, <1>8, <1>9, <1>10, <1>11, <1>14, <1>15 DEF Right12

\* The last choice goes, and the place is where its bits begin.
LEMMA TakenBackRight ==
    ASSUME NEW t, Right12(t), t.stack # <<>>, NEW u, u = N!TakenBack(t)
    PROVE  /\ Right12(u) /\ u.buf = t.buf /\ u.correction = t.correction
           /\ Len(u.pkt) = Len(t.pkt) - 1
<1>1. t \in Types12 /\ Len(t.at) = Len(t.pkt) /\ Len(t.stack) = Len(t.pkt)
      /\ Begins(t, 0) = 1 /\ Spelled12(t)
  BY SMTT(30) DEF Right12
<1>2. /\ t.buf \in Seq(0..1) /\ t.pos \in Nat \ {0} /\ t.i \in 0..15 /\ t.pkt \in Seq(0..255)
      /\ t.stack \in Seq(1..15) /\ t.at \in Seq(Nat \ {0}) /\ t.high \in Nat
      /\ t.correction \in BOOLEAN
  BY <1>1, Rows DEF Types12
<1>3. Len(t.stack) \in Nat \ {0}
  BY <1>2, EmptySeq
<1>a. Len(t.stack) - 1 \in Nat /\ Len(t.stack) = (Len(t.stack) - 1) + 1
  BY <1>3
<1> PICK n \in Nat : Len(t.pkt) = n + 1
  BY <1>1, <1>a
<1>4. t.pkt # <<>> /\ t.at # <<>> /\ DOMAIN t.pkt = 1..n + 1
  BY <1>1, <1>2, LenProperties, EmptySeq
<1>b. n + 1 \in 1..Len(t.stack)
  BY <1>1
<1> PICK i \in 1..15 : i = t.stack[n + 1]
  BY <1>2, <1>b, ElementOfSeq
<1> PICK row : row = N!TranslateData[i]
  OBVIOUS
<1>5. Begins(t, n + 1) = t.at[n + 1] + Len(row.bits) /\ t.at[n + 1] \in Nat \ {0}
  <2>1. n + 1 \in DOMAIN t.pkt
    BY <1>4
  <2>2. LET r == N!TranslateData[t.stack[n + 1]]
        IN Begins(t, n + 1) = t.at[n + 1] + Len(r.bits)
    BY <1>1, <2>1 DEF Spelled12
  <2>3. t.at[n + 1] \in Nat \ {0}
    BY <1>1, <1>2, <1>b, ElementOfSeq
  <2> QED
    BY <2>2, <2>3
<1>6. t.pos - Len(row.bits) = t.at[n + 1]
  <2>1. Begins(t, n + 1) = t.pos
    BY DEF Begins
  <2> PICK m \in 1..5 : m = Len(row.bits)
    BY Rows
  <2> QED
    BY SMTT(30), <1>5, <2>1
<1>7. u = [t EXCEPT !.pkt = N!Shorter(@), !.stack = N!Shorter(@), !.at = N!Shorter(@),
                    !.i = i - 1, !.pos = t.at[n + 1]]
  BY <1>1, <1>6 DEF N!TakenBack
<1>8. /\ u.pkt = N!Shorter(t.pkt) /\ u.stack = N!Shorter(t.stack) /\ u.at = N!Shorter(t.at)
      /\ u.pos = t.at[n + 1] /\ u.buf = t.buf /\ u.i = i - 1 /\ u.high = t.high
      /\ u.correction = t.correction
  BY <1>1, <1>7 DEF Types12
<1>9. /\ u.pkt \in Seq(0..255) /\ Len(u.pkt) = n /\ DOMAIN u.pkt = 1..n
      /\ \A k \in 1..n : u.pkt[k] = t.pkt[k]
  <2>1. /\ N!Shorter(t.pkt) \in Seq(0..255) /\ Len(N!Shorter(t.pkt)) = Len(t.pkt) - 1
        /\ \A k \in 1..Len(t.pkt) - 1 : N!Shorter(t.pkt)[k] = t.pkt[k]
    <3> PICK s \in Seq(0..255) : s = t.pkt
      BY <1>2
    <3>1. /\ N!Shorter(s) \in Seq(0..255) /\ Len(N!Shorter(s)) = Len(s) - 1
          /\ \A k \in 1..Len(s) - 1 : N!Shorter(s)[k] = s[k]
      BY <1>4, LastTaken
    <3> QED
      BY <3>1
  <2> QED
    BY <1>8, <2>1, LenProperties
<1>10. /\ u.stack \in Seq(1..15) /\ Len(u.stack) = n
       /\ \A k \in 1..n : u.stack[k] = t.stack[k]
  <2>1. /\ N!Shorter(t.stack) \in Seq(1..15) /\ Len(N!Shorter(t.stack)) = Len(t.stack) - 1
        /\ \A k \in 1..Len(t.stack) - 1 : N!Shorter(t.stack)[k] = t.stack[k]
    BY ZenonT(60), <1>1, <1>2, LastTaken
  <2> QED
    BY <1>1, <1>8, <2>1
<1>11. /\ u.at \in Seq(Nat \ {0}) /\ Len(u.at) = n
       /\ \A k \in 1..n : u.at[k] = t.at[k]
  <2>1. /\ N!Shorter(t.at) \in Seq(Nat \ {0}) /\ Len(N!Shorter(t.at)) = Len(t.at) - 1
        /\ \A k \in 1..Len(t.at) - 1 : N!Shorter(t.at)[k] = t.at[k]
    BY ZenonT(60), <1>1, <1>2, <1>4, LastTaken
  <2> QED
    BY <1>1, <1>8, <2>1
<1>12. u \in Types12
  <2>1. i - 1 \in 0..15
    OBVIOUS
  <2> PICK pos \in Nat \ {0}, pkt \in Seq(0..255), stack \in Seq(1..15),
           at \in Seq(Nat \ {0}) :
        pos = t.at[n + 1] /\ pkt = u.pkt /\ stack = u.stack /\ at = u.at
    BY <1>5, <1>9, <1>10, <1>11
  <2>2. u = [buf |-> t.buf, pos |-> pos, i |-> i - 1, pkt |-> pkt, stack |-> stack,
             at |-> at, high |-> t.high, correction |-> t.correction]
    BY <1>1, <1>7 DEF Types12
  <2> QED
    BY <1>2, <2>1, <2>2, Rows DEF Types12
<1>13. \A k \in 0..n : Begins(u, k) = Begins(t, k)
  BY <1>8, <1>9, <1>11 DEF Begins
<1>14. Spelled12(u)
  <2> SUFFICES ASSUME NEW k \in 1..n
               PROVE  LET r == N!TranslateData[u.stack[k]]
                      IN /\ u.pkt[k] = r.byte
                         /\ N!Matches(u.stack[k], u.buf, u.at[k])
                         /\ Begins(u, k) = u.at[k] + Len(r.bits)
    BY <1>9 DEF Spelled12
  <2>1. LET r == N!TranslateData[t.stack[k]]
        IN /\ t.pkt[k] = r.byte
           /\ N!Matches(t.stack[k], t.buf, t.at[k])
           /\ Begins(t, k) = t.at[k] + Len(r.bits)
    BY <1>1, <1>4 DEF Spelled12
  <2> QED
    BY <1>8, <1>9, <1>10, <1>11, <1>13, <2>1
<1> QED
  BY <1>1, <1>8, <1>9, <1>10, <1>11, <1>12, <1>13, <1>14 DEF Right12

\* The buffer gets one bit more, which is the last of the stream or one behind it.
LEMMA RestartedRight ==
    ASSUME NEW t, NEW s \in BitStreams, Right12(t), Buffer1(t, s),
           NEW u, u = N!Restarted(t)
    PROVE  Right12(u) /\ Buffer1(u, s) /\ Len(u.pkt) = 0
<1>1. t \in Types12
  BY DEF Right12
<1>2. /\ t.buf \in Seq(0..1) /\ t.correction \in BOOLEAN /\ t.high \in Nat
  BY <1>1 DEF Types12
<1> PICK n \in Nat : n = Len(t.buf) /\ DOMAIN t.buf = 1..n
  BY <1>2, LenProperties
<1>3. /\ Append(t.buf, 1) \in Seq(0..1) /\ Len(Append(t.buf, 1)) = n + 1
      /\ Append(t.buf, 1)[n + 1] = 1 /\ DOMAIN Append(t.buf, 1) = 1..n + 1
      /\ \A k \in 1..n : Append(t.buf, 1)[k] = t.buf[k]
  BY <1>2, OneMore
<1>4. u = [t EXCEPT !.buf = Append(@, 1), !.pos = 1, !.pkt = <<>>, !.stack = <<>>,
                    !.at = <<>>, !.i = 15, !.correction = FALSE]
  BY Rows DEF N!Restarted
<1>5. /\ u.buf = Append(t.buf, 1) /\ u.pos = 1 /\ u.pkt = <<>> /\ u.stack = <<>>
      /\ u.at = <<>> /\ u.correction = FALSE
  BY SMTT(30), <1>1, <1>4 DEF Types12
<1>6. u \in Types12
  <2>1. u = [buf |-> Append(t.buf, 1), pos |-> 1, i |-> 15, pkt |-> <<>>, stack |-> <<>>,
             at |-> <<>>, high |-> t.high, correction |-> FALSE]
    BY <1>1, <1>4 DEF Types12
  <2> QED
    BY <1>2, <1>3, <2>1, Rows DEF Types12
<1>7. Right12(u) /\ Len(u.pkt) = 0
  BY <1>5, <1>6 DEF Right12, Begins, Spelled12
<1> PICK m \in Nat \ {0} : /\ m = Len(s) /\ s[m] = 1 /\ Len(N!Shorter(s)) = m - 1
                           /\ \A k \in 1..m - 1 : N!Shorter(s)[k] = s[k]
  BY LastLeftOut
<1>8. n + 1 >= m /\ \A k \in 1..n + 1 : u.buf[k] = IF k <= m THEN s[k] ELSE 1
  <2>1. CASE t.correction
    <3>1. t.buf = N!Shorter(s) /\ n = m - 1
      BY <2>1 DEF Buffer1
    <3> QED
      BY <1>3, <1>5, <3>1
  <2>2. CASE ~t.correction
    <3>1. n >= m /\ \A k \in 1..n : t.buf[k] = IF k <= m THEN s[k] ELSE 1
      BY <2>2 DEF Buffer1
    <3> QED
      BY <1>3, <1>5, <3>1
  <2> QED
    BY <2>1, <2>2
<1>9. Buffer1(u, s)
  BY <1>3, <1>5, <1>8 DEF Buffer1
<1> QED
  BY <1>7, <1>9

\* A turn of version 3, as in N!Translate_v3.
Turn3(t) ==
  LET again == N!read_next_six_bits(t, t.pos) = 62
      at == IF again THEN t.restart ELSE t.pos
      keep == IF again THEN t.keep ELSE Len(t.pkt)
      six == N!read_next_six_bits(t, at)
      row == N!TranslateData_v3[six \div 2 + 1][IF again THEN 2 ELSE 1]
  IN [t EXCEPT !.pkt = Append(SubSeq(@, 1, keep), row.byte), !.pos = at + row.length,
               !.at = Append(SubSeq(@, 1, keep), at),
               !.restart = IF six < 62 THEN at ELSE @,
               !.keep = IF six < 62 THEN keep ELSE @]

\* The beginning of a sequence.
LEMMA Kept ==
    ASSUME NEW S, NEW s \in Seq(S), NEW n \in 0..Len(s)
    PROVE  /\ SubSeq(s, 1, n) \in Seq(S) /\ Len(SubSeq(s, 1, n)) = n
           /\ \A k \in 1..n : SubSeq(s, 1, n)[k] = s[k]
<1>1. Len(s) \in Nat /\ \A k \in 1..n : s[k] \in S
  BY ElementOfSeq, LenProperties
<1>2. n \in Nat
  BY <1>1
<1>3. /\ SubSeq(s, 1, n) \in Seq(S) /\ Len(SubSeq(s, 1, n)) = IF 1 <= n THEN n - 1 + 1 ELSE 0
      /\ \A k \in 1..n - 1 + 1 : SubSeq(s, 1, n)[k] = s[1 + k - 1]
  BY <1>1, <1>2, SubSeqProperties
<1>4. n - 1 + 1 = n /\ \A k \in 1..n : 1 + k - 1 = k
  BY <1>2
<1> QED
  BY <1>2, <1>3, <1>4

\* Six bits make a number below 64.
LEMMA SixDigits ==
    ASSUME NEW b0 \in 0..1, NEW b1 \in 0..1, NEW b2 \in 0..1,
           NEW b3 \in 0..1, NEW b4 \in 0..1, NEW b5 \in 0..1
    PROVE  32 * b0 + 16 * b1 + 8 * b2 + 4 * b3 + 2 * b4 + b5 \in 0..63
  OBVIOUS

LEMMA SixBits ==
    ASSUME NEW t, t.buf \in Seq(0..1), NEW at \in Nat \ {0}, at + 5 <= Len(t.buf)
    PROVE  /\ N!read_next_six_bits(t, at) \in 0..63
           /\ N!read_next_six_bits(t, at) \div 2 + 1 \in 1..32
<1>1. /\ t.buf[at] \in 0..1 /\ t.buf[at + 1] \in 0..1 /\ t.buf[at + 2] \in 0..1
      /\ t.buf[at + 3] \in 0..1 /\ t.buf[at + 4] \in 0..1 /\ t.buf[at + 5] \in 0..1
  <2>1. \A k \in 1..Len(t.buf) : t.buf[k] \in 0..1
    BY ElementOfSeq
  <2>2. \A d \in 0..5 : at + d \in 1..Len(t.buf)
    BY LenProperties
  <2> QED
    BY <2>1, <2>2
<1>2. N!read_next_six_bits(t, at) \in 0..63
  BY <1>1, SixDigits, Zenon DEF N!read_next_six_bits
<1>3. \A x \in 0..63 : x \div 2 + 1 \in 1..32
  OBVIOUS
<1> QED
  BY <1>2, <1>3

\* The turn keeps some bytes, and the new one begins where they end.
After3(t, at, keep, byte, length, restart, newKeep) ==
  [buf |-> t.buf, end |-> t.end, pos |-> at + length,
   pkt |-> Append(SubSeq(t.pkt, 1, keep), byte),
   at |-> Append(SubSeq(t.at, 1, keep), at), restart |-> restart, keep |-> newKeep]
IsRow3(t, at, byte, length) ==
  \E try \in 1..2 :
    LET row == N!TranslateData_v3[N!read_next_six_bits(t, at) \div 2 + 1][try]
    IN row.byte = byte /\ row.length = length

\* The bytes that are kept stand for what they stood for.
LEMMA Moved3 ==
    ASSUME NEW t, NEW s \in BitStreams, Right3(t, s), Len(t.pkt) < N!PKTSIZE,
           NEW at \in Nat \ {0}, NEW keep \in 0..Len(t.pkt), at = Begins(t, keep),
           NEW byte \in 0..255, NEW length \in 1..5, IsRow3(t, at, byte, length),
           NEW restart \in Nat \ {0}, NEW newKeep \in 0..keep,
           restart = Begins(t, newKeep), restart <= t.end
    PROVE  /\ Right3(After3(t, at, keep, byte, length, restart, newKeep), s)
           /\ Len(After3(t, at, keep, byte, length, restart, newKeep).pkt) <= N!PKTSIZE
<1>a. PICK pkt, starts, u :
        /\ pkt = Append(SubSeq(t.pkt, 1, keep), byte)
        /\ starts = Append(SubSeq(t.at, 1, keep), at)
        /\ u = After3(t, at, keep, byte, length, restart, newKeep)
  OBVIOUS
<1>b. u = [buf |-> t.buf, end |-> t.end, pos |-> at + length, pkt |-> pkt,
           at |-> starts, restart |-> restart, keep |-> newKeep]
  BY <1>a DEF After3
<1>c. PICK line : \E try \in 1..2 : line = N!TranslateData_v3[
                      N!read_next_six_bits(t, at) \div 2 + 1][try]
                    /\ line.byte = byte /\ line.length = length
  BY DEF IsRow3
<1>1. /\ t \in Types3
      /\ Len(t.at) = Len(t.pkt) /\ Begins(t, 0) = 1 /\ Spelled3(t)
      /\ t.buf = <<1, 1>> \o s \o N!Ones(6) /\ t.end = Len(s) + 2
  BY DEF Right3
<1>2. /\ t.buf \in Seq(0..1) /\ t.end \in Nat /\ t.pkt \in Seq(0..255)
      /\ t.at \in Seq(Nat \ {0})
  BY <1>1 DEF Types3
<1>3. Len(t.pkt) \in Nat /\ DOMAIN t.pkt = 1..Len(t.pkt) /\ keep \in Nat
  BY <1>2, LenProperties
<1>4. /\ u.pkt = pkt /\ u.at = starts /\ u.pos = at + length /\ u.restart = restart
      /\ u.keep = newKeep /\ u.buf = t.buf /\ u.end = t.end
  BY <1>b
<1>5. /\ pkt \in Seq(0..255) /\ Len(pkt) = keep + 1 /\ DOMAIN pkt = 1..keep + 1
      /\ pkt[keep + 1] = byte /\ \A k \in 1..keep : pkt[k] = t.pkt[k]
  <2>1. /\ SubSeq(t.pkt, 1, keep) \in Seq(0..255) /\ Len(SubSeq(t.pkt, 1, keep)) = keep
        /\ \A k \in 1..keep : SubSeq(t.pkt, 1, keep)[k] = t.pkt[k]
    BY ZenonT(30), <1>2, Kept
  <2> QED
    BY <1>a, <2>1, OneMore
<1>6. /\ starts \in Seq(Nat \ {0}) /\ Len(starts) = keep + 1
      /\ starts[keep + 1] = at /\ \A k \in 1..keep : starts[k] = t.at[k]
  <2>1. /\ SubSeq(t.at, 1, keep) \in Seq(Nat \ {0}) /\ Len(SubSeq(t.at, 1, keep)) = keep
        /\ \A k \in 1..keep : SubSeq(t.at, 1, keep)[k] = t.at[k]
    <3>1. keep \in 0..Len(t.at)
      BY <1>1
    <3> QED
      BY <1>2, <3>1, Kept
  <2> QED
    BY <1>a, <2>1, OneMore
<1>7. u \in Types3
  <2>1. at + length \in Nat \ {0} /\ newKeep \in Nat
    BY <1>3
  <2> QED
    BY <1>2, <1>5, <1>6, <1>b, <2>1 DEF Types3
<1>8. \A k \in 0..keep : Begins(u, k) = Begins(t, k)
  <2> TAKE k \in 0..keep
  <2>1. Begins(u, k) = starts[k + 1]
    BY <1>3, <1>4, <1>5 DEF Begins
  <2>2. CASE k < keep
    <3>1. k + 1 \in 1..keep
      BY <1>3, <2>2
    <3>2. Begins(t, k) = t.at[k + 1]
      BY <1>3, <2>2 DEF Begins
    <3> QED
      BY <1>6, <2>1, <3>1, <3>2
  <2>3. CASE k = keep
    BY <1>6, <2>1, <2>3
  <2> QED
    BY <1>3, <2>2, <2>3
<1>9. Begins(u, keep + 1) = at + length
  BY <1>3, <1>4, <1>5 DEF Begins
<1>10. Begins(u, 0) = 1 /\ Begins(u, newKeep) = restart
  <2>1. 0 \in 0..keep
    BY <1>3
  <2> QED
    BY <1>1, <1>8, <2>1
<1>11. Spelled3(u)
  <2> DEFINE six3(v, k) == N!read_next_six_bits(v, v.at[k]) \div 2 + 1
  <2> SUFFICES ASSUME NEW k \in 1..keep + 1
               PROVE  \E x \in 1..2 : Stands3(u, k, N!TranslateData_v3[six3(u, k)][x])
    BY <1>4, <1>5 DEF Spelled3
  <2>1. \A a : N!read_next_six_bits(u, a) = N!read_next_six_bits(t, a)
    BY <1>4 DEF N!read_next_six_bits
  <2>2. CASE k = keep + 1
    <3>1. six3(u, k) = N!read_next_six_bits(t, at) \div 2 + 1
      BY <1>4, <1>6, <2>1, <2>2
    <3>2. Stands3(u, k, line)
      BY <1>4, <1>5, <1>6, <1>9, <1>c, <2>2 DEF Stands3
    <3> QED
      BY <1>c, <3>1, <3>2
  <2>3. CASE k \in 1..keep
    <3>1. k \in DOMAIN t.pkt
      BY <1>3, <2>3
    <3> DEFINE rows == N!TranslateData_v3[six3(t, k)]
    <3>2. \E r \in {rows[x] : x \in 1..2} : Stands3(t, k, r)
      BY <1>1, <3>1 DEF Spelled3
    <3> PICK r : Stands3(t, k, r) /\ \E x \in 1..2 : r = rows[x]
      BY <3>2
    <3>3. six3(u, k) = six3(t, k)
      BY <1>4, <1>6, <2>1, <2>3
    <3>4. Stands3(u, k, r)
      <4>1. u.pkt[k] = t.pkt[k] /\ u.at[k] = t.at[k] /\ Begins(u, k) = Begins(t, k)
        <5>1. k \in 0..keep
          BY <1>3, <2>3
        <5> QED
          BY <1>4, <1>5, <1>6, <1>8, <2>3, <5>1
      <4> HIDE DEF rows
      <4> QED
        BY <4>1 DEF Stands3
    <3> QED
      BY <3>3, <3>4
  <2> QED
    BY <1>3, <2>2, <2>3
<1>12. Len(u.pkt) = keep + 1 /\ Len(u.at) = keep + 1
  BY <1>4, <1>5, <1>6
<1>13. Right3(u, s)
  <2>1. u.keep <= Len(u.pkt) /\ u.restart = Begins(u, u.keep) /\ u.restart <= u.end
    BY <1>3, <1>4, <1>10, <1>12
  <2> QED
    BY <1>1, <1>4, <1>7, <1>10, <1>11, <1>12, <2>1 DEF Right3
<1>14. keep + 1 <= N!PKTSIZE
  BY <1>3 DEF N!PKTSIZE
<1> QED
  BY <1>a, <1>12, <1>13, <1>14

\* Whether the turn goes on or back, the bytes that are kept stand for what they
\* stood for, and the new one begins where they end.
LEMMA Turn3Right ==
    ASSUME NEW t, NEW s \in BitStreams, Right3(t, s), t.pos <= t.end,
           Len(t.pkt) < N!PKTSIZE
    PROVE  Right3(Turn3(t), s) /\ Len(Turn3(t).pkt) <= N!PKTSIZE
<1>1. /\ t \in Types3
      /\ Len(t.at) = Len(t.pkt) /\ Begins(t, 0) = 1 /\ Spelled3(t)
      /\ t.buf = <<1, 1>> \o s \o N!Ones(6) /\ t.end = Len(s) + 2
      /\ t.keep <= Len(t.pkt) /\ t.restart = Begins(t, t.keep) /\ t.restart <= t.end
  BY DEF Right3
<1>2. /\ t.buf \in Seq(0..1) /\ t.end \in Nat /\ t.pos \in Nat \ {0} /\ t.pkt \in Seq(0..255)
      /\ t.at \in Seq(Nat \ {0}) /\ t.restart \in Nat \ {0} /\ t.keep \in Nat
  BY <1>1 DEF Types3
<1> PICK n \in Nat : n = Len(t.pkt) /\ DOMAIN t.pkt = 1..n
  BY SMTT(30), <1>2, LenProperties
<1>3. Len(t.buf) = t.end + 6
  <2>1. /\ s \in Seq(0..1) /\ Len(s) \in Nat /\ N!Ones(6) \in Seq(0..1) /\ Len(N!Ones(6)) = 6
        /\ <<1, 1>> \in Seq(0..1) /\ Len(<<1, 1>>) = 2
    BY LastLeftOut, PreambleType
  <2> PICK a \in Seq(0..1) : a = <<1, 1>> /\ Len(a) = 2
    BY <2>1
  <2>2. a \o s \in Seq(0..1) /\ Len(a \o s) = Len(a) + Len(s)
    BY <2>1, ConcatProperties
  <2>3. Len((a \o s) \o N!Ones(6)) = Len(a \o s) + Len(N!Ones(6))
    BY <2>1, <2>2, ConcatProperties
  <2>4. t.buf = (a \o s) \o N!Ones(6) /\ Len(a) = 2
    BY <1>1
  <2>5. Len(t.buf) = 2 + Len(s) + 6
    BY <2>1, <2>2, <2>3, <2>4
  <2> QED
    BY <1>1, <2>1, <2>5
<1> DEFINE again == N!read_next_six_bits(t, t.pos) = 62
           theAt == IF again THEN t.restart ELSE t.pos
           theKeep == IF again THEN t.keep ELSE n
<1>4. /\ theAt \in Nat \ {0} /\ theAt <= t.end
      /\ theKeep \in 0..n /\ t.keep <= theKeep /\ theAt = Begins(t, theKeep)
  <2>1. CASE again
    BY <1>1, <1>2, <2>1
  <2>2. CASE ~again
    <3>1. t.pos = Begins(t, n)
      BY DEF Begins
    <3> QED
      BY <1>1, <1>2, <2>2, <3>1
  <2> QED
    BY <2>1, <2>2
<1>5. PICK at \in Nat \ {0}, keep \in 0..n :
      at = theAt /\ keep = theKeep /\ at <= t.end /\ t.keep <= keep /\ at = Begins(t, keep)
  BY <1>4
<1>6. at + 5 <= Len(t.buf)
  BY <1>2, <1>3, <1>5
<1>7. PICK six \in 0..63 : six = N!read_next_six_bits(t, at)
  BY <1>2, <1>5, <1>6, SixBits
<1>8. PICK place \in 1..32 : place = N!read_next_six_bits(t, at) \div 2 + 1
  BY ZenonT(30), <1>2, <1>5, <1>6, SixBits
<1>9. PICK try \in 1..2 : try = IF again THEN 2 ELSE 1
  OBVIOUS
<1>10. PICK byte \in 0..255 : byte = N!TranslateData_v3[place][try].byte
  BY ZenonT(30), <1>8, <1>9, Rows3
<1>a. PICK length \in 1..5 : length = N!TranslateData_v3[place][try].length
  BY ZenonT(30), <1>8, <1>9, Rows3
<1>11. PICK restart \in Nat \ {0}, newKeep \in 0..keep :
         /\ restart = IF six < 62 THEN at ELSE t.restart
         /\ newKeep = IF six < 62 THEN keep ELSE t.keep
         /\ restart = Begins(t, newKeep) /\ restart <= t.end
  <2>1. CASE six < 62
    <3>1. keep \in 0..keep
      BY <1>5
    <3> QED
      BY <1>5, <2>1, <3>1
  <2>2. CASE ~(six < 62)
    <3>1. t.keep \in 0..keep
      BY <1>2, <1>5
    <3> QED
      BY <1>1, <1>2, <2>2, <3>1
  <2> QED
    BY <2>1, <2>2
<1>b. PICK u : u = Turn3(t)
  OBVIOUS
<1>12. u = After3(t, at, keep, byte, length, restart, newKeep)
  <2>1. u = [t EXCEPT !.pkt = Append(SubSeq(@, 1, keep), byte), !.pos = at + length,
                      !.at = Append(SubSeq(@, 1, keep), at),
                      !.restart = restart, !.keep = newKeep]
    BY ZenonT(30), <1>5, <1>7, <1>8, <1>9, <1>10, <1>a, <1>11, <1>b DEF Turn3
  <2> QED
    BY <1>1, <2>1 DEF Types3, After3
<1> HIDE DEF again, theAt, theKeep
<1>13. IsRow3(t, at, byte, length)
  BY <1>8, <1>9, <1>10, <1>a DEF IsRow3
<1>14. keep \in 0..Len(t.pkt) /\ restart \in Nat \ {0} /\ newKeep \in 0..keep
  BY <1>5, <1>11
<1>15. at \in Nat \ {0} /\ at = Begins(t, keep) /\ byte \in 0..255 /\ length \in 1..5
  BY <1>5, <1>10, <1>a
<1>16. restart = Begins(t, newKeep) /\ restart <= t.end
  BY SMTT(30), <1>11
<1>17. Right3(u, s) /\ Len(u.pkt) <= N!PKTSIZE
  BY ZenonT(30), <1>12, <1>13, <1>14, <1>15, <1>16, Moved3
<1> QED
  BY <1>b, <1>17

\* A turn of a translation that is right ends it with a packet that fits, or with
\* none, or it stays right.
Longest == N!PKTSIZE + (IF ver = 2 THEN 1 ELSE 0)

\* What ends a packet.
LEMMA Ended ==
    ASSUME NEW pkt \in Seq(0..255)
    PROVE  /\ (pkt \o <<153>>) \o <<0>> \in Seq(0..255) /\ (pkt \o <<>>) \o <<0>> \in Seq(0..255)
           /\ Len((pkt \o <<153>>) \o <<0>>) = Len(pkt) + 2
           /\ Len((pkt \o <<>>) \o <<0>>) = Len(pkt) + 1
           /\ pkt \o <<85, 0>> \in Seq(0..255) /\ Len(pkt \o <<85, 0>>) = Len(pkt) + 2
           /\ Append(pkt, 0) \in Seq(0..255) /\ Len(Append(pkt, 0)) = Len(pkt) + 1
           /\ <<>> \in Seq(0..255) /\ Len(<<>>) = 0 /\ Len(pkt) \in Nat
<1>1. ASSUME NEW a \in Seq(0..255), NEW b \in Seq(0..255)
      PROVE  a \o b \in Seq(0..255) /\ Len(a \o b) = Len(a) + Len(b) /\ Len(a) \in Nat
  BY ConcatProperties, LenProperties
<1>2. /\ <<153>> \in Seq(0..255) /\ Len(<<153>>) = 1
      /\ <<0>> \in Seq(0..255) /\ Len(<<0>>) = 1
      /\ <<85, 0>> \in Seq(0..255) /\ Len(<<85, 0>>) = 2
      /\ <<>> \in Seq(0..255) /\ Len(<<>>) = 0
  OBVIOUS
<1> PICK x, y, z, e \in Seq(0..255) : /\ x = <<153>> /\ Len(x) = 1 /\ y = <<0>> /\ Len(y) = 1
                                     /\ z = <<85, 0>> /\ Len(z) = 2 /\ e = <<>> /\ Len(e) = 0
  BY ZenonT(60), <1>2
<1>3. /\ pkt \o x \in Seq(0..255) /\ Len(pkt \o x) = Len(pkt) + 1
      /\ pkt \o e \in Seq(0..255) /\ Len(pkt \o e) = Len(pkt)
      /\ pkt \o z \in Seq(0..255) /\ Len(pkt \o z) = Len(pkt) + 2 /\ Len(pkt) \in Nat
  BY <1>1
<1>4. /\ (pkt \o x) \o y \in Seq(0..255) /\ Len((pkt \o x) \o y) = Len(pkt \o x) + 1
      /\ (pkt \o e) \o y \in Seq(0..255) /\ Len((pkt \o e) \o y) = Len(pkt \o e) + 1
  BY <1>1, <1>3
<1>5. Append(pkt, 0) \in Seq(0..255) /\ Len(Append(pkt, 0)) = Len(pkt) + 1
  BY AppendProperties
<1> QED
  BY <1>3, <1>4, <1>5

LEMMA LongestIs == N!PKTSIZE = 80 /\ (ver # 2 => Longest = 80) /\ (ver = 2 => Longest = 81)
  BY DEF Longest, N!PKTSIZE

LEMMA TurnRight ==
    ASSUME ver \in 1..3, NEW s \in BitStreams, Right(tr, ver, s),
           N!Translate_v1 \/ N!Translate_v2 \/ N!Translate_v3
    PROVE  \/ \E pkt \in Seq(0..255) : N!Translated(pkt) /\ Len(pkt) <= Longest
           \/ \E u : N!Goes(u) /\ Right(u, ver, s)
<1> DEFINE found == N!Fitting(tr) # {}
           chosen == N!Chosen(tr, N!Last(N!Fitting(tr)))
<1>1. CASE ver = 1
  <2>1. Right12(tr) /\ Buffer1(tr, s) /\ Len(tr.pkt) < N!PKTSIZE - 1
    BY <1>1 DEF Right
  <2>2. tr.pkt \in Seq(0..255) /\ tr.stack \in Seq(1..N!DataCnt)
    BY <2>1 DEF Right12, Types12
  <2>3. N!Translate_v1
    BY <1>1 DEF N!Translate_v2, N!Translate_v3
  <2>4. CASE tr.pos > Len(tr.buf)
    <3>a. PICK pkt : pkt = tr.pkt \o (IF tr.correction THEN <<153>> ELSE <<>>) \o <<0>>
      OBVIOUS
    <3>1. N!Translated(pkt)
      BY <2>3, <2>4, <3>a DEF N!Translate_v1
    <3>2. pkt = (tr.pkt \o <<153>>) \o <<0>> \/ pkt = (tr.pkt \o <<>>) \o <<0>>
      BY <3>a
    <3>3. /\ pkt \in Seq(0..255) /\ Len(tr.pkt) \in Nat
          /\ Len(pkt) = Len(tr.pkt) + 2 \/ Len(pkt) = Len(tr.pkt) + 1
      <4>1. CASE pkt = (tr.pkt \o <<153>>) \o <<0>>
        BY <2>2, <4>1, Ended
      <4>2. CASE pkt = (tr.pkt \o <<>>) \o <<0>>
        BY <2>2, <4>2, Ended
      <4> QED
        BY <3>2, <4>1, <4>2
    <3>4. Len(pkt) <= Longest
      <4> PICK m \in Nat : m = Len(tr.pkt)
        BY <3>3
      <4>1. m < 79
        BY <2>1, LongestIs
      <4> QED
        BY <1>1, <3>3, <4>1, LongestIs
    <3> QED
      BY <3>1, <3>3, <3>4
  <2>5. CASE ~(tr.pos > Len(tr.buf))
    <3> DEFINE next == CASE found -> chosen
                         [] ~found /\ N!GivesUpLevel(tr) -> N!Restarted(tr)
                         [] OTHER -> N!TakenBack(tr)
               fails == (found /\ Len(next.pkt) >= N!PKTSIZE - 1) \/ Len(tr.buf) = N!BUFFERSIZE
    <3>1. IF fails THEN N!Translated(<<>>) ELSE N!Goes(next)
      BY <2>3, <2>5 DEF N!Translate_v1
    <3>2. CASE fails
      <4>1. N!Translated(<<>>)
        BY <3>1, <3>2
      <4>2. <<>> \in Seq(0..255) /\ Len(<<>>) <= Longest
        BY <1>1, <2>2, Ended, LongestIs
      <4> QED
        BY <4>1, <4>2
    <3>3. CASE ~fails
      <4> PICK u : u = next
        OBVIOUS
      <4>1. N!Goes(u) /\ ~(found /\ Len(u.pkt) >= N!PKTSIZE - 1)
        BY <3>1, <3>3
      <4>2. CASE found
        <5>1. u = chosen
          BY <4>2
        <5>2. Right12(u) /\ u.buf = tr.buf /\ u.correction = tr.correction
              /\ Len(u.pkt) = Len(tr.pkt) + 1
          BY <2>1, <4>2, <5>1, ChosenRight
        <5>3. Buffer1(u, s)
          BY <2>1, <5>2 DEF Buffer1
        <5>4. Len(u.pkt) < N!PKTSIZE - 1
          BY <2>2, <4>1, <4>2, <5>2, Ended, LongestIs
        <5> QED
          BY <1>1, <4>1, <5>2, <5>3, <5>4 DEF Right
      <4>3. CASE ~found /\ N!GivesUpLevel(tr)
        <5>1. u = N!Restarted(tr)
          BY <4>3
        <5>2. Right12(u) /\ Buffer1(u, s) /\ Len(u.pkt) = 0
          BY <2>1, <5>1, RestartedRight
        <5>3. Len(u.pkt) < N!PKTSIZE - 1
          BY <5>2, LongestIs
        <5> QED
          BY <1>1, <4>1, <5>2, <5>3 DEF Right
      <4>4. CASE ~found /\ ~N!GivesUpLevel(tr)
        <5>1. u = N!TakenBack(tr) /\ tr.stack # <<>>
          BY <4>4 DEF N!GivesUpLevel
        <5>2. Right12(u) /\ u.buf = tr.buf /\ u.correction = tr.correction
              /\ Len(u.pkt) = Len(tr.pkt) - 1
          BY <2>1, <5>1, TakenBackRight
        <5>3. Buffer1(u, s)
          BY <2>1, <5>2 DEF Buffer1
        <5>4. Len(u.pkt) < N!PKTSIZE - 1
          BY <2>1, <2>2, <5>2, Ended, LongestIs
        <5> QED
          BY <1>1, <4>1, <5>2, <5>3, <5>4 DEF Right
      <4> QED
        BY <4>2, <4>3, <4>4
    <3> QED
      BY <3>2, <3>3
  <2> QED
    BY <2>4, <2>5
<1>2. CASE ver = 2
  <2>1. Right12(tr) /\ tr.buf = s /\ Len(tr.pkt) < N!PKTSIZE
    BY <1>2 DEF Right
  <2>2. tr.pkt \in Seq(0..255) /\ tr.stack \in Seq(1..N!DataCnt)
    BY <2>1 DEF Right12, Types12
  <2>3. N!Translate_v2
    BY <1>2 DEF N!Translate_v1, N!Translate_v3
  <2> DEFINE ones == /\ Len(tr.buf) - tr.pos < 5
                     /\ \A k \in tr.pos..Len(tr.buf) : tr.buf[k] = 1
             next == IF found THEN chosen ELSE N!TakenBack(tr)
             fails == \/ ~found /\ tr.stack = <<>>
                      \/ found /\ Len(tr.pkt) = N!PKTSIZE - 1
  <2>4. CASE tr.pos > Len(tr.buf)
    <3>a. ~(tr.pos <= Len(tr.buf))
      <4>1. tr.pos \in Nat /\ Len(tr.buf) \in Nat
        BY <2>1, LenProperties DEF Right12, Types12
      <4> QED
        BY <2>4, <4>1
    <3>1. N!Translated(Append(tr.pkt, 0))
      <4> HIDE DEF next, fails
      <4>1. CASE ones
        BY <2>3, <2>4, <3>a, <4>1 DEF N!Translate_v2
      <4>2. CASE ~ones
        BY <2>3, <2>4, <3>a, <4>2 DEF N!Translate_v2
      <4> QED
        BY <4>1, <4>2
    <3>2. /\ Append(tr.pkt, 0) \in Seq(0..255) /\ Len(Append(tr.pkt, 0)) = Len(tr.pkt) + 1
          /\ Len(tr.pkt) \in Nat
      BY <2>2, Ended
    <3>3. Len(Append(tr.pkt, 0)) <= Longest
      BY <1>2, <2>1, <3>2, LongestIs
    <3> QED
      BY <3>1, <3>2, <3>3
  <2>5. CASE tr.pos <= Len(tr.buf) /\ ~(tr.pos > Len(tr.buf)) /\ ones
    <3>1. N!Translated(tr.pkt \o <<85, 0>>)
      BY <2>3, <2>5 DEF N!Translate_v2
    <3>2. /\ tr.pkt \o <<85, 0>> \in Seq(0..255) /\ Len(tr.pkt \o <<85, 0>>) = Len(tr.pkt) + 2
          /\ Len(tr.pkt) \in Nat
      BY <2>2, Ended
    <3>3. Len(tr.pkt \o <<85, 0>>) <= Longest
      BY <1>2, <2>1, <3>2, LongestIs
    <3> QED
      BY <3>1, <3>2, <3>3
  <2>6. CASE ~(tr.pos > Len(tr.buf)) /\ ~(tr.pos <= Len(tr.buf) /\ ones)
    <3>1. IF fails THEN N!Translated(<<>>) ELSE N!Goes(next)
      BY <2>3, <2>6 DEF N!Translate_v2
    <3>2. CASE fails
      <4>1. N!Translated(<<>>)
        BY <3>1, <3>2
      <4>2. <<>> \in Seq(0..255) /\ Len(<<>>) <= Longest
        BY <1>2, <2>2, Ended, LongestIs
      <4> QED
        BY <4>1, <4>2
    <3>3. CASE ~fails
      <4> PICK u : u = next
        OBVIOUS
      <4>1. N!Goes(u)
        BY <3>1, <3>3
      <4>2. CASE found
        <5>1. u = chosen /\ Len(tr.pkt) # N!PKTSIZE - 1
          BY <3>3, <4>2
        <5>2. Right12(u) /\ u.buf = tr.buf /\ Len(u.pkt) = Len(tr.pkt) + 1
          BY <2>1, <4>2, <5>1, ChosenRight
        <5>3. Len(u.pkt) < N!PKTSIZE
          <6>1. PICK m \in Nat : m = Len(tr.pkt)
            BY <2>2, Ended
          <6>2. m < 80
            BY <2>1, <6>1, LongestIs
          <6>3. m # 79
            <7>1. N!PKTSIZE - 1 = 79
              BY LongestIs
            <7> QED
              BY <5>1, <6>1, <7>1
          <6>4. m + 1 < 80
            <7> HIDE DEF next, chosen, found, fails
            <7> QED
              BY <6>2, <6>3
          <6>5. Len(u.pkt) = m + 1
            BY <5>2, <6>1
          <6> QED
            BY <6>4, <6>5, LongestIs
        <5> QED
          BY <1>2, <2>1, <4>1, <5>2, <5>3 DEF Right
      <4>3. CASE ~found
        <5>1. u = N!TakenBack(tr) /\ tr.stack # <<>>
          BY <3>3, <4>3
        <5>2. Right12(u) /\ u.buf = tr.buf /\ Len(u.pkt) = Len(tr.pkt) - 1
          BY <2>1, <5>1, TakenBackRight
        <5>3. Len(u.pkt) < N!PKTSIZE
          BY <2>1, <2>2, <5>2, Ended, LongestIs
        <5> QED
          BY <1>2, <2>1, <4>1, <5>2, <5>3 DEF Right
      <4> QED
        BY <4>2, <4>3
    <3> QED
      BY <3>2, <3>3
  <2> QED
    BY <2>4, <2>5, <2>6
<1>3. CASE ver = 3
  <2>1. Right3(tr, s) /\ Len(tr.pkt) <= N!PKTSIZE
    BY <1>3 DEF Right
  <2>2. /\ tr.pkt \in Seq(0..255) /\ Len(tr.pkt) \in Nat /\ tr.pos \in Nat /\ tr.end \in Nat
    BY <2>1, LenProperties DEF Right3, Types3
  <2>3. N!Translate_v3
    BY <1>3 DEF N!Translate_v1, N!Translate_v2
  <2>4. CASE Len(tr.pkt) = N!PKTSIZE \/ tr.pos > tr.end
    <3>1. N!Translated(tr.pkt)
      BY <2>3, <2>4 DEF N!Translate_v3
    <3>2. Len(tr.pkt) <= Longest
      BY <1>3, <2>1, <2>2, LongestIs
    <3> QED
      BY <2>2, <3>1, <3>2
  <2>5. CASE ~(Len(tr.pkt) = N!PKTSIZE \/ tr.pos > tr.end)
    <3>1. N!Goes(Turn3(tr))
      BY <2>3, <2>5 DEF N!Translate_v3, Turn3
    <3>2. tr.pos <= tr.end /\ Len(tr.pkt) < N!PKTSIZE
      <4> PICK a \in Nat : a = tr.pos
        BY <2>2
      <4> PICK b \in Nat : b = tr.end
        BY <2>2
      <4> PICK m \in Nat : m = Len(tr.pkt)
        BY <2>2
      <4>1. ~(a > b) /\ m # 80 /\ m <= 80
        BY <2>1, <2>5, LongestIs
      <4>2. a <= b
        BY <4>1
      <4>3. m < 80
        <5>1. \A k \in Nat : k # 80 /\ k <= 80 => k < 80
          OBVIOUS
        <5> QED
          BY ONLY <4>1, <5>1, m \in Nat
      <4> QED
        BY <4>2, <4>3, LongestIs
    <3>3. Right3(Turn3(tr), s) /\ Len(Turn3(tr).pkt) <= N!PKTSIZE
      BY <2>1, <3>2, Turn3Right
    <3> QED
      BY <1>3, <3>1, <3>3 DEF Right
  <2> QED
    BY <2>4, <2>5
<1> QED
  BY <1>1, <1>2, <1>3

-----------------------------------------------------------------------------
(* NMRA: the invariant *)

\* The parts of the invariant, for the values of a state or of the next one: the
\* bit streams to translate and the translation of the first of them,
ToTranslate(streams, p, t, v) ==
  /\ streams \in Seq(N!Streams01) /\ (streams # <<>> <=> p = "translate")
  /\ p = "translate" => Right(t, v, Head(streams).bits)
\* the packets,
PacketsRight(pkts, v) ==
  /\ pkts \in Seq(Seq(0..255))
  /\ \A i \in DOMAIN pkts : Len(pkts[i]) <= N!PKTSIZE + (IF v = 2 THEN 1 ELSE 0)
\* those of sm_init,
KeptStreams(streams) == streams # <<>> => streams \in Seq(Seq(0..255)) /\ Len(streams) = 3
\* the exchanges: eight of them make a byte,
CallsRight(c, p, n, r) ==
  /\ n \in 0..256 /\ r \in -255..256
  /\ ~N!OnMain(c) /\ p # "done" =>
       /\ n < 256
       /\ c.what = "GET" /\ c.type = "CV" => n < 8 /\ -(2 ^ n) < r /\ r < 2 ^ n
\* and what an exchange needs.
There(c, p, n, pkts, streams, kept) ==
  p \in {"translate", "send"} /\ ~N!OnMain(c) =>
    /\ N!Accepted(N!Call(c, n))
    /\ Len(pkts) + Len(streams) = (IF kept = <<>> THEN 3 ELSE 0)
                                    + (IF N!Call(c, n).f = "page" THEN 2 ELSE 1)

NmraInv ==
  /\ <<ver, command>> \in Cases
  /\ pc \in {"start", "translate", "send", "done"}
  /\ ToTranslate(todo, pc, tr, ver)
  /\ PacketsRight(packets, ver)
  /\ KeptStreams(smStreams)
  /\ CallsRight(command, pc, calls, rc)
  /\ There(command, pc, calls, packets, todo, smStreams)

LEMMA CaseType == NmraInv => ver \in 1..3 /\ command \in Commands
  BY NmraAssumption DEF NmraInv

LEMMA NmraTypes == NmraInv => N!TypeOK
<1> SUFFICES ASSUME NmraInv PROVE N!TypeOK
  OBVIOUS
<1>1. ver \in 1..3
  BY CaseType
<1>2. pc = "translate" => Right(tr, ver, Head(todo).bits)
  BY DEF NmraInv, ToTranslate
<1>3. pc = "translate" => tr \in N!Translations
  <2>1. CASE ver = 1 \/ ver = 2
    <3>1. pc = "translate" => tr \in Types12
      <4>1. CASE ver = 1
        BY <1>2, <4>1 DEF Right, Right12
      <4>2. CASE ver = 2
        BY <1>2, <4>2 DEF Right, Right12
      <4> QED
        BY <2>1, <4>1, <4>2
    <3>2. ver # 3
      BY <2>1
    <3>3. Types12 = N!Translations
      BY <3>2 DEF Types12, N!Translations
    <3> QED
      BY <3>1, <3>3
  <2>2. CASE ver = 3
    BY <1>2, <2>2 DEF Right, Right3, Types3, N!Translations
  <2> QED
    BY <1>1, <2>1, <2>2
<1>4. N!PacketsFit
  <2>1. \A i \in DOMAIN packets : Len(packets[i]) <= N!PKTSIZE + (IF ver = 2 THEN 1 ELSE 0)
    BY DEF NmraInv, PacketsRight
  <2>2. CASE pc = "translate" /\ ver = 1
    <3>1. Len(tr.pkt) < N!PKTSIZE - 1 /\ Len(tr.stack) = Len(tr.pkt) /\ Len(tr.pkt) \in Nat
      BY <1>2, <2>2, LenProperties DEF Right, Right12, Types12
    <3>2. Len(tr.stack) < N!NMRA_STACKSIZE
      BY <3>1 DEF N!PKTSIZE, N!NMRA_STACKSIZE
    <3> QED
      BY <2>1, <2>2, <3>1, <3>2 DEF N!PacketsFit
  <2>3. CASE pc = "translate" /\ ver = 2
    <3>1. Len(tr.pkt) < N!PKTSIZE /\ Len(tr.stack) = Len(tr.pkt)
      BY <1>2, <2>3 DEF Right, Right12
    <3> QED
      BY <2>1, <2>3, <3>1 DEF N!PacketsFit
  <2>4. CASE pc = "translate" /\ ver = 3
    <3>1. Len(tr.pkt) <= N!PKTSIZE
      BY <1>2, <2>4 DEF Right
    <3> QED
      BY <2>1, <2>4, <3>1 DEF N!PacketsFit
  <2>5. CASE pc # "translate"
    BY <2>1, <2>5 DEF N!PacketsFit
  <2> QED
    BY <1>1, <2>2, <2>3, <2>4, <2>5
<1>5. N!AllThere
  BY DEF NmraInv, There, N!AllThere, N!Expected
<1> QED
  BY <1>3, <1>4, <1>5
     DEF NmraInv, ToTranslate, PacketsRight, KeptStreams, CallsRight, N!TypeOK

LEMMA NmraSays == NmraInv => N!Spelled
<1> SUFFICES ASSUME NmraInv, pc = "translate" PROVE N!Spelled
  BY DEF N!Spelled
<1> PICK s : s = Head(todo).bits
  OBVIOUS
<1>1. ver \in 1..3 /\ Right(tr, ver, s)
  BY CaseType DEF NmraInv, ToTranslate
<1>2. \A k : N!Place(k) = Begins(tr, k)
  BY DEF N!Place, Begins
<1>3. CASE ver = 1
  <2>1. Right12(tr) /\ Buffer1(tr, s)
    BY <1>1, <1>3 DEF Right
  <2> QED
    BY <1>2, <1>3, <2>1 DEF N!Spelled, Right12, Spelled12, Buffer1
<1>4. CASE ver = 2
  <2>1. Right12(tr) /\ tr.buf = s
    BY <1>1, <1>4 DEF Right
  <2> QED
    BY <1>2, <1>4, <2>1 DEF N!Spelled, Right12, Spelled12
<1>5. CASE ver = 3
  <2>1. Right3(tr, s)
    BY <1>1, <1>5 DEF Right
  <2> QED
    BY <1>2, <1>5, <2>1 DEF N!Spelled, Right3, Spelled3, Stands3
<1> QED
  BY <1>1, <1>3, <1>4, <1>5

\* What a bus thread begins to translate is right.
LEMMA AllBegun ==
    ASSUME ver \in 1..3, NEW streams \in Seq(N!Streams01), N!TranslateAll(streams)
    PROVE  /\ ToTranslate(todo', pc', tr', ver) /\ PacketsRight(packets', ver)
           /\ todo' = streams /\ packets' = <<>> /\ Len(packets') = 0
           /\ pc' \in {"translate", "done"} /\ (streams # <<>> => pc' = "translate")
<1>1. /\ todo' = streams /\ packets' = <<>>
      /\ tr' = IF streams = <<>> THEN N!NoTranslation ELSE N!Begun(streams[1].bits)
      /\ pc' = IF streams = <<>> THEN "done" ELSE "translate"
  BY DEF N!TranslateAll
<1>2. PacketsRight(<<>>, ver) /\ Len(<<>>) = 0
  BY DEF PacketsRight
<1>3. CASE streams = <<>>
  BY <1>1, <1>2, <1>3 DEF ToTranslate
<1>4. CASE streams # <<>>
  <2>1. Head(streams) = streams[1] /\ Head(streams) \in N!Streams01
    BY <1>4, HeadTailProperties
  <2>2. Head(streams).bits \in BitStreams
    BY <2>1 DEF N!Streams01, BitStreams
  <2>3. Right(tr', ver, Head(streams).bits)
    BY <1>1, <1>4, <2>1, <2>2, BegunRight
  <2> QED
    BY <1>1, <1>2, <1>4, <2>3 DEF ToTranslate
<1> QED
  BY <1>3, <1>4

\* A packet is added, and the next translation begins right.
LEMMA OneTranslated ==
    ASSUME NmraInv, pc = "translate",
           NEW pkt \in Seq(0..255), Len(pkt) <= Longest, N!Translated(pkt)
    PROVE  /\ ToTranslate(todo', pc', tr', ver) /\ PacketsRight(packets', ver)
           /\ pc' \in {"translate", "send"}
           /\ Len(packets') + Len(todo') = Len(packets) + Len(todo)
<1>1. /\ packets' = Append(packets, pkt) /\ todo' = Tail(todo)
      /\ tr' = IF Len(todo) > 1 THEN N!Begun(todo[2].bits) ELSE N!NoTranslation
      /\ pc' = IF Len(todo) > 1 THEN "translate" ELSE "send"
  BY DEF N!Translated
<1>2. todo \in Seq(N!Streams01) /\ todo # <<>> /\ ver \in 1..3
  BY CaseType DEF NmraInv, ToTranslate
<1>3. /\ Tail(todo) \in Seq(N!Streams01) /\ Len(Tail(todo)) = Len(todo) - 1
      /\ Len(todo) \in Nat \ {0} /\ \A k \in 1..Len(Tail(todo)) : Tail(todo)[k] = todo[k + 1]
  BY <1>2, HeadTailProperties, EmptySeq, LenProperties
<1>4. ToTranslate(todo', pc', tr', ver)
  <2>1. CASE Len(todo) > 1
    <3>1. Tail(todo) # <<>>
      <4> PICK n \in Nat : n = Len(todo)
        BY <1>3
      <4> PICK s \in Seq(N!Streams01) : s = Tail(todo)
        BY <1>3
      <4>1. Len(s) = n - 1 /\ n > 1
        BY <1>3, <2>1
      <4>2. n - 1 # 0
        <5>1. \A k \in Nat : k > 1 => k - 1 # 0
          OBVIOUS
        <5> QED
          BY <4>1, <5>1
      <4>3. s # <<>>
        BY <4>1, <4>2
      <4> QED
        BY SMTT(30), <4>3
    <3>2. Head(Tail(todo)) = todo[2] /\ Head(Tail(todo)) \in N!Streams01
      <4>1. 1 \in 1..Len(Tail(todo)) /\ 1 + 1 = 2
        BY <1>3, <2>1
      <4>2. Tail(todo)[1] = todo[2]
        BY <1>3, <4>1
      <4> PICK s \in Seq(N!Streams01) : s = Tail(todo)
        BY <1>3
      <4>3. Head(s) = s[1] /\ Head(s) \in N!Streams01
        BY <3>1, HeadTailProperties
      <4> QED
        BY <4>2, <4>3
    <3>3. Head(Tail(todo)).bits \in BitStreams
      BY <3>2 DEF N!Streams01, BitStreams
    <3>4. Right(tr', ver, Head(Tail(todo)).bits)
      BY <1>1, <1>2, <2>1, <3>2, <3>3, BegunRight
    <3> QED
      BY <1>1, <1>3, <2>1, <3>1, <3>4 DEF ToTranslate
  <2>2. CASE ~(Len(todo) > 1)
    <3>1. Len(Tail(todo)) = 0
      BY <1>3, <2>2
    <3>2. Tail(todo) = <<>>
      BY <1>3, <3>1, EmptySeq
    <3> QED
      BY <1>1, <1>3, <2>2, <3>2 DEF ToTranslate
  <2> QED
    BY <2>1, <2>2
<1>5. PacketsRight(packets', ver) /\ Len(packets') = Len(packets) + 1 /\ Len(packets) \in Nat
  <2>1. PacketsRight(packets, ver)
    BY DEF NmraInv
  <2>2. /\ packets \in Seq(Seq(0..255))
        /\ Append(packets, pkt) \in Seq(Seq(0..255))
        /\ Len(Append(packets, pkt)) = Len(packets) + 1 /\ Len(packets) \in Nat
        /\ \A k \in 1..Len(packets) : Append(packets, pkt)[k] = packets[k]
        /\ Append(packets, pkt)[Len(packets) + 1] = pkt
        /\ DOMAIN packets = 1..Len(packets)
        /\ DOMAIN Append(packets, pkt) = 1..Len(packets) + 1
    BY <2>1, AppendProperties, LenProperties DEF PacketsRight
  <2>3. ASSUME NEW i \in DOMAIN Append(packets, pkt)
        PROVE  Len(Append(packets, pkt)[i]) <= Longest
    <3>1. CASE i \in 1..Len(packets)
      BY <2>1, <2>2, <3>1 DEF PacketsRight, Longest
    <3>2. CASE i = Len(packets) + 1
      BY <2>2, <3>2
    <3> QED
      BY <2>2, <3>1, <3>2
  <2>4. PacketsRight(Append(packets, pkt), ver)
    BY <2>2, <2>3 DEF PacketsRight, Longest
  <2> QED
    BY <1>1, <2>2, <2>4
<1>6. Len(todo') = Len(todo) - 1
  BY <1>1, <1>3
<1> QED
  BY <1>1, <1>3, <1>4, <1>5, <1>6

\* The rest of a command keeps its exchanges right.
LEMMA ConcludedRight ==
    ASSUME NEW c \in Commands, ~N!OnMain(c), c = command, NEW r \in -1..1,
           pc # "done", CallsRight(c, pc, calls, rc), N!Concluded(r),
           c.what = "VERIFY" /\ r = 1 => c.value \in 0..255
    PROVE  CallsRight(c, pc', calls', rc') /\ pc' \in {"start", "done"}
<1>1. c.what \in {"SET", "GET", "VERIFY"}
  BY CommandFacts
<1>2. calls \in 0..255 /\ rc \in -255..256
  BY DEF CallsRight
<1>3. calls' = calls + 1 /\ pc' \in {"start", "done"}
  BY DEF N!Concluded
<1>4. CASE N!Search(c)
  <2>1. /\ rc' = IF r = 0 THEN calls + 1 ELSE calls + 1 - 1
        /\ pc' # "done" => calls + 1 < 256
    <3>1. /\ N!Search(command) /\ ~(command.what = "GET" /\ command.type = "CV")
          /\ command.what # "VERIFY"
      BY <1>4 DEF N!Search
    <3>2. rc' = IF r = 0 THEN calls + 1 ELSE calls + 1 - 1
      <4>1. CASE r = 0
        BY <1>2, <3>1, <4>1 DEF N!Concluded
      <4>2. CASE r # 0
        BY <1>2, <3>1, <4>2 DEF N!Concluded
      <4> QED
        BY <4>1, <4>2
    <3>3. calls + 1 < 256 \/ ~(calls + 1 < 256)
      OBVIOUS
    <3>4. ~(calls + 1 < 256) => pc' = "done"
      BY <3>1 DEF N!Concluded
    <3> QED
      BY <3>2, <3>3, <3>4
  <2>2. ~(c.what = "GET" /\ c.type = "CV")
    BY <1>4 DEF N!Search
  <2> QED
    BY <1>2, <1>3, <2>1, <2>2 DEF CallsRight
<1>5. CASE ~N!Search(c) /\ c.what = "GET" /\ c.type = "CV"
  <2>1. /\ rc' = 2 * rc + r
        /\ pc' = IF calls + 1 < 8 THEN "start" ELSE "done"
    BY <1>5 DEF N!Concluded
  <2>2. calls \in 0..7 /\ -(2 ^ calls) < rc /\ rc < 2 ^ calls
    BY <1>2, <1>5 DEF CallsRight
  <2> PICK n \in 0..7 : n = calls
    BY <2>2
  <2> PICK x \in -255..256 : x = rc
    BY <1>2
  <2>3. \E p \in {1, 2, 4, 8, 16, 32, 64, 128} : 2 ^ n = p /\ (n + 1 < 8 => 2 ^ (n + 1) = 2 * p)
    <3>1. n = 0 \/ n = 1 \/ n = 2 \/ n = 3 \/ n = 4 \/ n = 5 \/ n = 6 \/ n = 7
      OBVIOUS
    <3>2. \A k \in 0..7 : /\ 2 ^ k \in {1, 2, 4, 8, 16, 32, 64, 128}
                          /\ k + 1 < 8 => 2 ^ (k + 1) = 2 * 2 ^ k
      <4>1. /\ 0 + 1 = 1 /\ 1 + 1 = 2 /\ 2 + 1 = 3 /\ 3 + 1 = 4
            /\ 4 + 1 = 5 /\ 5 + 1 = 6 /\ 6 + 1 = 7 /\ ~(7 + 1 < 8)
        OBVIOUS
      <4> SUFFICES ASSUME NEW k \in 0..7
                   PROVE  /\ 2 ^ k \in {1, 2, 4, 8, 16, 32, 64, 128}
                          /\ k + 1 < 8 => 2 ^ (k + 1) = 2 * 2 ^ k
        OBVIOUS
      <4>2. CASE k = 0
        BY <4>1, <4>2, BytePowers
      <4>3. CASE k = 1
        BY <4>1, <4>3, BytePowers
      <4>4. CASE k = 2
        BY <4>1, <4>4, BytePowers
      <4>5. CASE k = 3
        BY <4>1, <4>5, BytePowers
      <4>6. CASE k = 4
        BY <4>1, <4>6, BytePowers
      <4>7. CASE k = 5
        BY <4>1, <4>7, BytePowers
      <4>8. CASE k = 6
        BY <4>1, <4>8, BytePowers
      <4>9. CASE k = 7
        BY <4>1, <4>9, BytePowers
      <4> QED
        BY <4>2, <4>3, <4>4, <4>5, <4>6, <4>7, <4>8, <4>9
    <3> QED
      BY <3>2
  <2> PICK p \in {1, 2, 4, 8, 16, 32, 64, 128} : 2 ^ n = p /\ (n + 1 < 8 => 2 ^ (n + 1) = 2 * p)
    BY <2>3
  <2>4. -p < x /\ x < p
    BY <2>2
  <2>5. /\ 2 * x + r \in -255..256 /\ -(2 * p) < 2 * x + r /\ 2 * x + r < 2 * p
        /\ n + 1 \in 0..256
    BY <2>4
  <2>6. CASE n + 1 < 8
    <3>1. -(2 ^ (n + 1)) < 2 * x + r /\ 2 * x + r < 2 ^ (n + 1) /\ n + 1 < 256
      BY <2>5, <2>6
    <3> QED
      BY <1>3, <2>1, <2>5, <2>6, <3>1 DEF CallsRight
  <2>7. CASE ~(n + 1 < 8)
    BY <1>3, <2>1, <2>5, <2>7 DEF CallsRight
  <2> QED
    BY <2>6, <2>7
<1>6. CASE ~N!Search(c) /\ ~(c.what = "GET" /\ c.type = "CV")
  <2>1. pc' = "done" /\ rc' \in -1..255
    <3>1. CASE c.what = "VERIFY"
      <4>1. rc' = IF r = 1 THEN c.value ELSE -1
        BY <1>6, <3>1 DEF N!Concluded
      <4> QED
        BY <1>6, <4>1, <3>1 DEF N!Concluded
    <3>2. CASE c.what # "VERIFY"
      <4>1. rc' = r
        BY <1>6, <3>2 DEF N!Concluded
      <4> QED
        BY <1>6, <4>1 DEF N!Concluded
    <3> QED
      BY <3>1, <3>2
  <2>2. calls + 1 \in 0..256 /\ rc' \in -255..256
    BY <1>2, <2>1
  <2> QED
    BY <1>3, <2>1, <2>2 DEF CallsRight
<1> QED
  BY <1>3, <1>4, <1>5, <1>6

LEMMA NmraInitInv ==
    ASSUME NEW case \in Cases, N!InitWith(case)
    PROVE  NmraInv
<1>1. /\ ver = case[1] /\ command = case[2] /\ pc = "start" /\ todo = <<>>
      /\ packets = <<>> /\ smStreams = <<>> /\ calls = 0 /\ rc = 0
  BY DEF N!InitWith
<1>2. <<ver, command>> \in Cases
  <2> PICK v \in 1..3, c \in Commands : case = <<v, c>>
    BY NmraAssumption
  <2> QED
    BY <1>1
<1>3. ToTranslate(todo, pc, tr, ver) /\ PacketsRight(packets, ver)
  BY <1>1 DEF ToTranslate, PacketsRight
<1>4. CallsRight(command, pc, calls, rc)
  BY <1>1, BytePowers DEF CallsRight
<1> QED
  BY <1>1, <1>2, <1>3, <1>4 DEF NmraInv, KeptStreams, There

LEMMA EncodeRight ==
    ASSUME NmraInv, N!Encode
    PROVE  NmraInv'
<1>1. /\ N!OnMain(command) /\ N!TranslateAll(N!Streams(command))
      /\ ver' = ver /\ command' = command /\ smStreams' = smStreams /\ calls' = calls
      /\ rc' = IF N!Streams(command) = <<>> THEN 1 ELSE 0
  BY DEF N!Encode
<1>2. ver \in 1..3 /\ command \in Commands
  BY CaseType
<1>3. N!Streams(command) \in Seq(N!Streams01)
  BY <1>1, <1>2, StreamsType
<1>4. /\ ToTranslate(todo', pc', tr', ver) /\ PacketsRight(packets', ver)
      /\ pc' \in {"translate", "done"}
  BY <1>1, <1>2, <1>3, AllBegun
<1>5. CallsRight(command', pc', calls', rc')
  BY <1>1 DEF NmraInv, CallsRight
<1>6. There(command', pc', calls', packets', todo', smStreams')
  BY <1>1 DEF There
<1> QED
  BY <1>1, <1>4, <1>5, <1>6 DEF NmraInv

LEMMA ExchangeRight ==
    ASSUME NmraInv, N!Exchange
    PROVE  NmraInv'
<1> DEFINE call == N!Call(command, calls)
           first == IF smStreams = <<>> THEN N!sm_init ELSE <<>>
<1>1. /\ pc = "start" /\ ~N!OnMain(command)
      /\ IF N!Accepted(call)
         THEN N!TranslateAll(first \o N!CallStreams(call)) /\ calls' = calls /\ rc' = rc
         ELSE N!Concluded(-1) /\ todo' = todo /\ tr' = tr /\ packets' = packets
      /\ ver' = ver /\ command' = command /\ smStreams' = smStreams
  BY DEF N!Exchange
<1>2. ver \in 1..3 /\ command \in Commands /\ command.group = "SM"
  BY <1>1, CaseType, CommandFacts
<1>3. CallsRight(command, pc, calls, rc) /\ calls \in Int
  BY DEF NmraInv, CallsRight
<1>4. call \in Calls
  BY <1>2, <1>3, CallType
<1>5. CASE N!Accepted(call)
  <2>1. /\ N!CallStreams(call) \in Seq(N!Streams01)
        /\ Len(N!CallStreams(call)) = IF call.f = "page" THEN 2 ELSE 1
    BY <1>4, CallStreamsType
  <2>2. /\ first \in Seq(N!Streams01)
        /\ Len(first) = IF smStreams = <<>> THEN 3 ELSE 0
    BY sm_initType, EmptySeq
  <2> PICK a : a = first
    OBVIOUS
  <2> PICK b : b = N!CallStreams(call)
    OBVIOUS
  <2>3. N!TranslateAll(a \o b) /\ calls' = calls /\ rc' = rc
    BY <1>1, <1>5
  <2> HIDE DEF first
  <2>4. a \o b \in Seq(N!Streams01) /\ Len(a \o b) = Len(a) + Len(b)
    BY <2>1, <2>2, ConcatProperties
  <2>5. Len(b) # 0 /\ Len(a) \in Nat /\ Len(b) \in Nat
    BY <2>1, <2>2
  <2>6. a \o b # <<>>
    BY <2>4, <2>5
  <2>7. /\ ToTranslate(todo', pc', tr', ver) /\ PacketsRight(packets', ver)
        /\ pc' = "translate" /\ todo' = a \o b /\ Len(packets') = 0
    BY <1>2, <2>3, <2>4, <2>6, AllBegun
  <2>8. Len(packets') + Len(todo') = (IF smStreams = <<>> THEN 3 ELSE 0)
                                       + (IF call.f = "page" THEN 2 ELSE 1)
    BY <2>1, <2>2, <2>4, <2>5, <2>7
  <2>9. There(command', pc', calls', packets', todo', smStreams')
    BY <1>1, <1>5, <2>3, <2>8 DEF There
  <2>10. CallsRight(command', pc', calls', rc')
    BY <1>1, <1>3, <2>3, <2>7 DEF CallsRight
  <2> QED
    BY <1>1, <2>7, <2>9, <2>10 DEF NmraInv
<1>6. CASE ~N!Accepted(call)
  <2>1. N!Concluded(-1) /\ todo' = todo /\ tr' = tr /\ packets' = packets
    BY <1>1, <1>6
  <2>2. CallsRight(command, pc', calls', rc') /\ pc' \in {"start", "done"}
    <3>1. -1 \in -1..1 /\ -1 # 1 /\ pc # "done"
      BY <1>1
    <3> QED
      BY <1>1, <1>2, <1>3, <2>1, <3>1, ConcludedRight
  <2>3. ToTranslate(todo', pc', tr', ver)
    BY <1>1, <2>1, <2>2 DEF NmraInv, ToTranslate
  <2>4. There(command', pc', calls', packets', todo', smStreams')
    BY <2>2 DEF There
  <2> QED
    BY <1>1, <2>1, <2>2, <2>3, <2>4 DEF NmraInv
<1> QED
  BY <1>5, <1>6

LEMMA TranslateRight ==
    ASSUME NmraInv, N!Translate
    PROVE  NmraInv'
<1>1. /\ pc = "translate" /\ (N!Translate_v1 \/ N!Translate_v2 \/ N!Translate_v3)
      /\ ver' = ver /\ command' = command /\ smStreams' = smStreams /\ calls' = calls
      /\ rc' = rc
  BY DEF N!Translate
<1>2. ver \in 1..3
  BY CaseType
<1> PICK s : s = Head(todo).bits
  OBVIOUS
<1>3. s \in BitStreams /\ Right(tr, ver, s)
  <2>1. todo \in Seq(N!Streams01) /\ todo # <<>> /\ Right(tr, ver, s)
    BY <1>1 DEF NmraInv, ToTranslate
  <2>2. Head(todo) \in N!Streams01
    BY <2>1, HeadTailProperties
  <2> QED
    BY <2>1, <2>2 DEF N!Streams01, BitStreams
<1>4. \/ \E pkt \in Seq(0..255) : N!Translated(pkt) /\ Len(pkt) <= Longest
      \/ \E u : N!Goes(u) /\ Right(u, ver, s)
  BY <1>1, <1>2, <1>3, TurnRight
<1>5. CallsRight(command', pc', calls', rc')
  <2>1. CallsRight(command, pc, calls, rc) /\ pc # "done"
    BY <1>1 DEF NmraInv
  <2> QED
    BY <1>1, <2>1 DEF CallsRight
<1>6. CASE \E pkt \in Seq(0..255) : N!Translated(pkt) /\ Len(pkt) <= Longest
  <2>1. /\ ToTranslate(todo', pc', tr', ver) /\ PacketsRight(packets', ver)
        /\ pc' \in {"translate", "send"}
        /\ Len(packets') + Len(todo') = Len(packets) + Len(todo)
    BY <1>1, <1>6, OneTranslated
  <2>2. There(command', pc', calls', packets', todo', smStreams')
    BY <1>1, <2>1 DEF NmraInv, There
  <2> QED
    BY <1>1, <1>5, <2>1, <2>2 DEF NmraInv
<1>7. CASE \E u : N!Goes(u) /\ Right(u, ver, s)
  <2>1. /\ Right(tr', ver, s)
        /\ packets' = packets /\ todo' = todo /\ pc' = pc
    BY <1>7 DEF N!Goes
  <2>2. ToTranslate(todo', pc', tr', ver)
    BY <2>1 DEF NmraInv, ToTranslate
  <2> QED
    BY <1>1, <1>5, <2>1, <2>2 DEF NmraInv
<1> QED
  BY <1>4, <1>6, <1>7

LEMMA QueueRight ==
    ASSUME NmraInv, N!Queue
    PROVE  NmraInv'
<1>1. /\ N!OnMain(command) /\ pc' = "done" /\ pc = "send"
      /\ rc' = (IF N!Rejected THEN 1 ELSE 0)
      /\ packets' = (IF N!Rejected THEN <<>> ELSE packets)
      /\ ver' = ver /\ command' = command /\ smStreams' = smStreams /\ calls' = calls
      /\ todo' = todo
  BY DEF N!Queue
<1>2. PacketsRight(packets', ver)
  BY <1>1 DEF NmraInv, PacketsRight
<1>3. ToTranslate(todo', pc', tr', ver)
  BY <1>1 DEF NmraInv, ToTranslate
<1>4. CallsRight(command', pc', calls', rc')
  BY <1>1 DEF NmraInv, CallsRight
<1> QED
  BY <1>1, <1>2, <1>3, <1>4 DEF NmraInv, There

LEMMA TransmitRight ==
    ASSUME NmraInv, N!Transmit
    PROVE  NmraInv'
<1> DEFINE call == N!Call(command, calls)
<1>1. /\ pc = "send" /\ ~N!OnMain(command)
      /\ smStreams' = (IF smStreams = <<>> THEN SubSeq(packets, 1, 3) ELSE smStreams)
      /\ \E r \in 0..1 : N!Concluded(r)
      /\ packets' = <<>> /\ ver' = ver /\ command' = command /\ todo' = todo /\ tr' = tr
  BY DEF N!Transmit
<1>2. command \in Commands /\ command.group = "SM"
  BY <1>1, CaseType, CommandFacts
<1>3. CallsRight(command, pc, calls, rc) /\ calls \in Int
  BY DEF NmraInv, CallsRight
<1>4. N!Accepted(call) /\ call \in Calls
  BY <1>1, <1>2, <1>3, CallType DEF NmraInv, There
<1>5. CallsRight(command, pc', calls', rc') /\ pc' \in {"start", "done"}
  <2>1. PICK r \in 0..1 : N!Concluded(r)
    BY <1>1
  <2>2. command.what = "VERIFY" => command.value \in 0..255
    BY <1>2, <1>3, <1>4, CallType
  <2>3. r \in -1..1 /\ pc # "done"
    BY <1>1
  <2> QED
    BY <1>1, <1>2, <1>3, <2>1, <2>2, <2>3, ConcludedRight
<1>6. KeptStreams(smStreams')
  <2>1. CASE smStreams = <<>>
    <3>1. todo = <<>> /\ packets \in Seq(Seq(0..255))
      BY <1>1 DEF NmraInv, ToTranslate, PacketsRight
    <3>2. Len(todo) = 0 /\ Len(packets) \in Nat
      BY <3>1, EmptySeq, LenProperties
    <3>3. Len(packets) + Len(todo) = 3 + (IF call.f = "page" THEN 2 ELSE 1)
      BY <1>1, <2>1 DEF NmraInv, There
    <3>4. Len(packets) >= 3
      BY SMTT(30), <3>2, <3>3
    <3>5. \A k \in 1..3 : packets[k] \in Seq(0..255)
      BY <3>1, <3>2, <3>4, ElementOfSeq
    <3>6. /\ SubSeq(packets, 1, 3) \in Seq(Seq(0..255))
          /\ Len(SubSeq(packets, 1, 3)) = IF 1 <= 3 THEN 3 - 1 + 1 ELSE 0
      BY <3>5, SubSeqProperties
    <3> QED
      BY <1>1, <2>1, <3>6 DEF KeptStreams
  <2>2. CASE smStreams # <<>>
    BY <1>1, <2>2 DEF NmraInv
  <2> QED
    BY <2>1, <2>2
<1>7. PacketsRight(packets', ver)
  BY <1>1 DEF PacketsRight
<1>8. ToTranslate(todo', pc', tr', ver)
  BY <1>1, <1>5 DEF NmraInv, ToTranslate
<1>9. There(command', pc', calls', packets', todo', smStreams')
  BY <1>5 DEF There
<1> QED
  BY <1>1, <1>5, <1>6, <1>7, <1>8, <1>9 DEF NmraInv

LEMMA NmraNextInv ==
    ASSUME NmraInv, N!Next
    PROVE  NmraInv'
  BY EncodeRight, ExchangeRight, TranslateRight, QueueRight, TransmitRight DEF N!Next

LEMMA NmraSame ==
    ASSUME NmraInv, UNCHANGED nmra
    PROVE  NmraInv'
  BY DEF NmraInv, nmra

-----------------------------------------------------------------------------
(* The packets of both protocols *)

PacketsInv == protocol \in {"M", "N"} /\ NmraInv /\ MaerklinInv

LEMMA MaerklinSame ==
    ASSUME MaerklinInv, UNCHANGED maerklin
    PROVE  MaerklinInv'
<1>1. /\ cached' = cached /\ MaerklinPool' = MaerklinPool
      /\ knownAddresses' = knownAddresses /\ last_refreshed' = last_refreshed
      /\ queue' = queue /\ second' = second /\ decoder' = decoder /\ wanted' = wanted
      /\ switched' = switched /\ toCome' = toCome
  BY DEF maerklin
<1>2. M!TypeOK'
  BY <1>1 DEF MaerklinInv, M!TypeOK
<1>3. M!CoilsFollow'
  BY ZenonT(60), <1>1 DEF MaerklinInv, M!CoilsFollow
<1>4. SecondRight' /\ StepsRight' /\ \A a : InPool(a)' => a \in M!Addresses /\ PoolRight(a)'
  BY <1>1 DEF MaerklinInv, SecondRight, StepsRight, InPool, PoolRight
<1> QED
  BY <1>2, <1>3, <1>4 DEF MaerklinInv

LEMMA PacketsInitInv == PacketsInit => PacketsInv
<1> SUFFICES ASSUME PacketsInit PROVE PacketsInv
  OBVIOUS
<1>1. CASE protocol = "N" /\ N!Init /\ M!InitWith(0)
  <2>1. MaerklinInv
    BY <1>1, MaerklinInitInv
  <2>2. NmraInv
    BY <1>1, NmraInitInv DEF N!Init
  <2> QED
    BY <1>1, <2>1, <2>2 DEF PacketsInv
<1>2. CASE protocol = "M" /\ M!Init /\ N!InitWith(CHOOSE case \in Cases : TRUE)
  <2>1. MaerklinInv
    BY <1>2, MaerklinInitInv DEF M!Init
  <2>2. (CHOOSE case \in Cases : TRUE) \in Cases
    BY NmraAssumption
  <2>3. NmraInv
    BY <1>2, <2>2, NmraInitInv
  <2> QED
    BY <1>2, <2>1, <2>3 DEF PacketsInv
<1> QED
  BY <1>1, <1>2 DEF PacketsInit

LEMMA PacketsStep == PacketsInv /\ [PacketsNext]_packetVars => PacketsInv'
<1> SUFFICES ASSUME PacketsInv, [PacketsNext]_packetVars PROVE PacketsInv'
  OBVIOUS
<1>1. CASE NMRA(N!Next)
  <2>1. N!Next /\ protocol' = protocol /\ UNCHANGED maerklin
    BY <1>1 DEF NMRA
  <2> QED
    BY <2>1, NmraNextInv, MaerklinSame DEF PacketsInv
<1>2. CASE Maerklin(M!Next)
  <2>1. M!Next /\ protocol' = protocol /\ UNCHANGED nmra
    BY <1>2 DEF Maerklin
  <2> QED
    BY <2>1, MaerklinNextInv, NmraSame DEF PacketsInv
<1>3. CASE UNCHANGED packetVars
  <2>1. protocol' = protocol /\ UNCHANGED nmra /\ UNCHANGED maerklin
    BY <1>3 DEF packetVars
  <2> QED
    BY <2>1, NmraSame, MaerklinSame DEF PacketsInv
<1> QED
  BY <1>1, <1>2, <1>3 DEF PacketsNext

LEMMA PacketsInvariant == PacketsSpec => []PacketsInv
  BY PacketsInitInv, PacketsStep, PTL DEF PacketsSpec

\* For any commands and each version of the translation: the packets of NMRA
\* never outgrow the 80 characters of a packet (81, where version 2 alone tests
\* one too late), however often translateBitstream2Packetstream_v1 begins anew;
\* the stack keeps to its 200 places, SendStream finds every packet it sends, the
\* answer of a search is within its type, and refresh_loco never reads an address
\* beyond those that are known.
THEOREM PacketsTypeCorrect == PacketsSpec => []PacketsTypeOK
<1>1. PacketsInv => PacketsTypeOK
  BY NmraTypes DEF PacketsInv, MaerklinInv, PacketsTypeOK
<1> QED
  BY <1>1, PacketsInvariant, PTL

\* For any commands: the bytes of a packet stand for the bits of its stream, each
\* once and in its order, with all three translations of ddl_nmra.c and whatever
\* they take back; every order for an accessory is queued, unchanged and in its
\* turn; and once both parts of a command were taken each packet in the pool
\* tells the Maerklin decoder the speed, direction and functions last commanded,
\* although four function packets change their form at some speeds.
THEOREM PacketsSayWhatIsMeant == PacketsSpec => []PacketsSay
<1>1. PacketsInv => PacketsSay
  BY NmraSays, MaerklinSays DEF PacketsInv, MaerklinInv, PacketsSay
<1> QED
  BY <1>1, PacketsInvariant, PTL
=============================================================================
