----------------------------------- MODULE DDL -----------------------------------
(* The DDL driver (ddl.c), which makes the track signal itself: the bus       *)
(* thread takes commands, computes packets, keeps those of the locomotives in *)
(* a pool and puts what changed into a ring; the refresh thread sends the     *)
(* ring's packets, repeats the pool's when there is none, and follows the     *)
(* power; delayed threads switch accessories off again.                       *)
(*                                                                            *)
(* A locomotive has parts that are sent in packets of their own: 0 is the     *)
(* speed packet, the others carry functions.  A part is "on" or "off"; "torn" *)
(* is a packet in the middle of its memcpy, which the refresh thread reads    *)
(* without the pool's mutex.  That a function packet repeats the speed is left *)
(* out, so a part here is the last thing a decoder gets anew, not the first.  *)
(* Maerklin decoders are of version 2; a command with 28 steps to one may be  *)
(* two commands here.  Commands come from the queues of CommandQueue.         *)
EXTENDS Integers, Sequences, FiniteSets

CONSTANTS Sessions,       \* sessions that set the power
          MLocos, NLocos, \* locomotives on Maerklin and NMRA decoders
          Idle81,         \* Maerklin address 81, used for the idle packet
          Idle128,        \* the NMRA idle packet, of no locomotive
          NF,             \* function packets of a Maerklin decoder, 4 in the code
          Ports,          \* ports of accessories
          QSIZE,          \* slots of the ring, 2000 in the code
          Wants,          \* bound: the parts' contents that commands ask for
          MaxCommands     \* bound: commands, settings of the power, shortcuts

ASSUME DDLAssumption ==
    /\ NF \in Nat \ {0} /\ QSIZE \in Nat \ {0} /\ MaxCommands \in Nat
    /\ MLocos \cap NLocos = {} /\ Idle81 \notin NLocos
    /\ Idle128 \notin MLocos \cup NLocos \cup {Idle81}
    /\ MLocos \cup NLocos # {}
    /\ Ports # {} /\ Ports \cap (MLocos \cup NLocos \cup {Idle81, Idle128}) = {}
    /\ Wants \subseteq [0 .. NF -> {"off", "on"}]

VARIABLES QData, queue_in, queue_out,
          pool,          \* the packets of both pools
          known,         \* per protocol: knownAddresses, as far as NrOfKnownAddresses
          last,          \* per protocol: last_refreshed_*_loco and _fx (as a part)
          refresh,       \* the protocol that is refreshed next
          rpc, ret,      \* refresh thread: its place, where power_is_off returns to
          packet,        \* refresh thread: the packet in its hands
          power_state, power_changed,
          lines,         \* the output of the interface, 1: booster enabled
          told,          \* the power last announced; -1: nothing yet
          th,            \* per session: in the middle of setPower?
          bpc, cmd,      \* bus thread: its place, the locomotive's command
          gatmp,         \* bus thread: its GA command, shared with the delayed threads
          resets,        \* delayed threads that sleep, and that are about to send
          left,          \* commands that may still come
          shown,         \* gl[]: what clients see of a locomotive
          uart,          \* output buffer: an NMRA locomotive's packet not yet out
          track,         \* what its decoder last received
          owed,          \* history: parts whose content was not queued, or was lost
          missed,        \* history: the power was set while the lines were being set
          timed          \* history: ports told on for a time and not yet told off

ringVars == <<QData, queue_in, queue_out>>
poolVars == <<pool, known>>
refreshVars == <<last, refresh>>
handVars == <<rpc, ret, packet>>
powerVars == <<power_state, power_changed, lines, told, missed>>
busVars == <<bpc, cmd, gatmp, shown>>
vars == <<ringVars, poolVars, refreshVars, handVars, powerVars, th, busVars,
          resets, left, uart, track, owed, timed>>

Locos == MLocos \cup NLocos

Addresses == Locos \cup {Idle81, Idle128}

Parts == 0 .. NF

Protocol(a) == IF a \in MLocos \cup {Idle81} THEN "M" ELSE "N"

LastPart(protocol) == IF protocol = "M" THEN NF ELSE 1

Enabled == {Protocol(a) : a \in Locos}

Contents == [Parts -> {"off", "on"}]

AllOff == [p \in Parts |-> "off"]

\* Memory of a record that was never written.
Raw == [p \in Parts |-> "raw"]

Packet == [adr : Locos \cup Ports, part : Parts, value : {"off", "on"}]

NoPacket == [adr |-> Idle128, part |-> 0, value |-> "off"]

\* What was written and is not yet out.
Unsent == [adr : NLocos, part : Parts, value : {"raw", "torn", "off", "on"}]

Command == [adr : Locos, want : Contents, send : Seq(Parts)]

NoCommand == [adr |-> Idle128, want |-> AllOff, send |-> <<>>]

NoGA == [port |-> CHOOSE p \in Ports : TRUE, action |-> "off", activetime |-> "none"]

IdleOf(protocol) == IF protocol = "M" THEN Idle81 ELSE Idle128

\* init_bus_DDL, and thr_refresh_cycle before its loop, which enables the booster.
Init == /\ QData = [i \in 0 .. QSIZE - 1 |-> NoPacket]
        /\ queue_in = 0 /\ queue_out = 0
        /\ pool = [a \in Addresses |-> IF a \in {Idle81, Idle128} THEN AllOff ELSE Raw]
        /\ known = [q \in {"M", "N"} |-> <<IdleOf(q)>>]
        /\ last = [q \in {"M", "N"} |-> [loco |-> 0, part |-> 0]]
        /\ refresh = IF "M" \in Enabled THEN "M" ELSE "N"
        /\ rpc = "short" /\ ret = "top" /\ packet = NoPacket
        /\ power_state \in {0, 1} /\ power_changed = TRUE
        /\ lines = 1 /\ told = -1 /\ missed = FALSE
        /\ th = [s \in Sessions |-> "idle"]
        /\ bpc = "idle" /\ cmd = NoCommand /\ gatmp = NoGA
        /\ shown = [a \in Locos |-> Raw]
        /\ resets = [sleep |-> 0, send |-> 0]
        /\ left = MaxCommands
        /\ uart = NoPacket
        /\ track = [a \in Locos |-> Raw]
        /\ owed = [a \in Locos |-> Parts]
        /\ timed = {}

-----------------------------------------------------------------------------
(* The ring.  queue_add does not ask whether there is room. *)

NextSlot(i) == IF i + 1 = QSIZE THEN 0 ELSE i + 1

queue_empty == queue_in = queue_out

\* The parts of a that are in a set of packets.
PartsIn(packets, a) == {c.part : c \in {d \in packets : d.adr = a}}

\* When the ring is overrun nothing in it is sent any more.
queue_add(c) ==
    /\ QData' = [QData EXCEPT ![queue_in] = c]
    /\ queue_in' = NextSlot(queue_in)
    /\ LET overrun == queue_in' = queue_out
           lost == {QData'[i] : i \in 0 .. QSIZE - 1}
       IN  owed' = [a \in Locos |->
                      IF overrun THEN owed[a] \cup PartsIn(lost, a)
                                 ELSE owed[a] \ PartsIn({c}, a)]
    /\ UNCHANGED queue_out

\* The slots that queue_get is still to read.
Unread == {i \in 0 .. QSIZE - 1 :
             IF queue_out <= queue_in THEN queue_out <= i /\ i < queue_in
             ELSE queue_out <= i \/ i < queue_in}

-----------------------------------------------------------------------------
(* The output buffer.  A Maerklin packet is written when the buffer is empty   *)
(* and is out before send_packet goes on; a packet for an NMRA locomotive is   *)
(* left there, and tcflush discards it unless it went out before.              *)

\* What is discarded is lost, unless a newer packet of the same part is in the
\* thread's hands or in the ring.
Discard ==
    /\ uart' = NoPacket
    /\ LET coming(a) == PartsIn({packet'} \cup {QData'[i] : i \in Unread'}, a)
       IN  owed' = [a \in Locos |-> owed[a] \cup (PartsIn({uart}, a) \ coming(a))]

\* Its first copy went out, while the booster was enabled.
Drain ==
    /\ uart # NoPacket
    /\ track' = [track EXCEPT ![uart.adr][uart.part] = uart.value]
    /\ uart' = NoPacket
    /\ UNCHANGED <<ringVars, poolVars, refreshVars, handVars, powerVars, th, busVars,
                   resets, left, owed, timed>>

-----------------------------------------------------------------------------
(* The bus thread, thr_sendrec_DDL: locomotives. *)

\* A Maerklin command queues the first function that changed, or else the
\* speed; an NMRA command queues both packets.  Memory that was never written
\* may differ from the command, or not.
Queued(a, want) ==
    LET differ == {p \in 1 .. NF : pool[a][p] # want[p]}
        raw == {p \in differ : pool[a][p] = "raw"}
        First(changed) == IF changed = {} THEN {0}
                          ELSE {p \in changed : \A q \in changed : p <= q}
    IN  IF Protocol(a) = "N" THEN {<<0, 1>>}
        ELSE {<<p>> : p \in UNION {First(differ \ equal) : equal \in SUBSET raw}}

TakeGL == \E a \in Locos : \E want \in Wants :
    /\ bpc = "idle" /\ left > 0
    /\ \A p \in Parts : p > LastPart(Protocol(a)) => want[p] = "off"
    /\ \E parts \in Queued(a, want) :
           cmd' = [adr |-> a, want |-> want, send |-> parts]
    /\ bpc' = "copy"
    /\ left' = left - 1
    /\ UNCHANGED <<ringVars, poolVars, refreshVars, handVars, powerVars, th, gatmp, shown,
                   resets, uart, track, owed, timed>>

\* memcpy of the new packets over the old ones.
BeginCopy == LET a == cmd.adr IN
    /\ bpc = "copy"
    /\ pool' = [pool EXCEPT ![a] = [p \in Parts |->
                  IF @[p] = cmd.want[p] THEN @[p] ELSE "torn"]]
    /\ owed' = [owed EXCEPT ![a] =
                  @ \cup {p \in Parts : pool[a][p] # cmd.want[p]}]
    /\ bpc' = "copied"
    /\ UNCHANGED <<ringVars, known, refreshVars, handVars, powerVars, th, cmd, gatmp,
                   shown, resets, left, uart, track, timed>>

EndCopy == /\ bpc = "copied"
           /\ pool' = [pool EXCEPT ![cmd.adr] = cmd.want]
           /\ bpc' = "known"
           /\ UNCHANGED <<ringVars, known, refreshVars, handVars, powerVars, th, cmd, gatmp,
                          shown, resets, left, uart, track, owed, timed>>

\* Listed with a bug that LocosArrive has to show.
ListedUncounted(list, a) == list

\* update_*PacketPool: the idle packet leaves the list when it is alone there;
\* a locomotive on address 81 takes it for its own entry, and is not listed.
Listed(list, a) ==
    LET found == \E i \in 1 .. Len(list) : list[i] = a
        rest == IF list = <<IdleOf(Protocol(a))>> THEN <<>> ELSE list
    IN  IF found THEN rest ELSE Append(rest, a)

UpdateKnown ==
    /\ bpc = "known"
    /\ known' = [known EXCEPT ![Protocol(cmd.adr)] = Listed(@, cmd.adr)]
    /\ bpc' = "add"
    /\ UNCHANGED <<ringVars, pool, refreshVars, handVars, powerVars, th, cmd, gatmp,
                   shown, resets, left, uart, track, owed, timed>>

AddGL ==
    /\ bpc = "add" /\ cmd.send # <<>>
    /\ queue_add([adr |-> cmd.adr, part |-> Head(cmd.send), value |-> cmd.want[Head(cmd.send)]])
    /\ cmd' = [cmd EXCEPT !.send = Tail(@)]
    /\ UNCHANGED <<poolVars, refreshVars, handVars, powerVars, th, bpc, gatmp, shown,
                   resets, left, uart, track, timed>>

\* cacheSetGL.
ShowGL == /\ bpc = "add" /\ cmd.send = <<>>
          /\ shown' = [shown EXCEPT ![cmd.adr] = cmd.want]
          /\ cmd' = NoCommand
          /\ bpc' = "idle"
          /\ UNCHANGED <<ringVars, poolVars, refreshVars, handVars, powerVars, th, gatmp,
                         resets, left, uart, track, owed, timed>>

-----------------------------------------------------------------------------
(* The bus thread: accessories.  gatmp is a local variable of the bus thread, *)
(* but the delayed threads get its address.                                   *)

TakeGA == \E p \in Ports : \E on \in {"off", "on"} : \E t \in {"none", "short", "long"} :
    /\ bpc = "idle" /\ left > 0
    /\ gatmp' = [port |-> p, action |-> on, activetime |-> t]
    /\ bpc' = "switch"
    /\ left' = left - 1
    /\ UNCHANGED <<ringVars, poolVars, refreshVars, handVars, powerVars, th, cmd, shown,
                   resets, uart, track, owed, timed>>

\* comp_maerklin_ms or comp_nmra_accessory, with what gatmp holds now.
comp_accessory(time) ==
    /\ queue_add([adr |-> gatmp.port, part |-> 0, value |-> gatmp.action])
    /\ timed' = IF gatmp.action = "on" /\ time # "none" THEN timed \cup {gatmp.port}
                ELSE timed \ {gatmp.port}

SwitchGA ==
    /\ bpc = "switch"
    /\ comp_accessory(gatmp.activetime)
    /\ bpc' = "time"
    /\ UNCHANGED <<poolVars, refreshVars, handVars, powerVars, th, cmd, gatmp, shown,
                   resets, left, uart, track>>

\* What gatmp holds after the command matters to delayed threads only.
KeptFor(threads, ga) == IF threads.sleep + threads.send > 0 THEN ga ELSE NoGA

\* Less than a second: the bus thread itself sleeps; longer: a delayed thread.
TestTime ==
    /\ bpc = "time"
    /\ bpc' = IF gatmp.activetime = "short" THEN "clear" ELSE "idle"
    /\ resets' = IF gatmp.activetime = "long"
                   THEN [resets EXCEPT !.sleep = @ + 1] ELSE resets
    /\ gatmp' = IF gatmp.activetime = "short" THEN gatmp ELSE KeptFor(resets', gatmp)
    /\ UNCHANGED <<ringVars, poolVars, refreshVars, handVars, powerVars, th, cmd,
                   shown, left, uart, track, owed, timed>>

ClearAction ==
    /\ bpc = "clear"
    /\ gatmp' = [gatmp EXCEPT !.action = "off"]
    /\ bpc' = "off"
    /\ UNCHANGED <<ringVars, poolVars, refreshVars, handVars, powerVars, th, cmd,
                   shown, resets, left, uart, track, owed, timed>>

SwitchOff ==
    /\ bpc = "off"
    /\ comp_accessory("none")
    /\ bpc' = "idle"
    /\ gatmp' = KeptFor(resets, gatmp)
    /\ UNCHANGED <<poolVars, refreshVars, handVars, powerVars, th, cmd, shown,
                   resets, left, uart, track>>

\* thr_delayedGAResetCmd, after its sleep.
WakeReset ==
    /\ resets.sleep > 0
    /\ gatmp' = [gatmp EXCEPT !.action = "off"]
    /\ resets' = [sleep |-> resets.sleep - 1, send |-> resets.send + 1]
    /\ UNCHANGED <<ringVars, poolVars, refreshVars, handVars, powerVars, th, bpc, cmd,
                   shown, left, uart, track, owed, timed>>

SendReset ==
    /\ resets.send > 0
    /\ comp_accessory(gatmp.activetime)
    /\ resets' = [resets EXCEPT !.send = @ - 1]
    /\ gatmp' = IF bpc \in {"switch", "time", "clear", "off"} THEN gatmp
                ELSE KeptFor(resets', gatmp)
    /\ UNCHANGED <<poolVars, refreshVars, handVars, powerVars, th, bpc, cmd, shown, left, uart, track>>

-----------------------------------------------------------------------------
(* The refresh thread: power_is_off, which is called from three places. *)

Call(from) == rpc' = "short" /\ ret' = from

\* checkShortcut and checkRingIndicator: an alarm sets the state, then the flag.
Alarm ==
    /\ rpc = "short" /\ left > 0
    /\ power_state' = 0
    /\ left' = left - 1
    /\ rpc' = "alarm"
    /\ UNCHANGED <<ringVars, poolVars, refreshVars, ret, packet, power_changed, lines, told,
                   missed, th, busVars, resets, uart, track, owed, timed>>

AlarmFlag ==
    /\ rpc = "alarm"
    /\ power_changed' = TRUE
    /\ told' = power_state
    /\ rpc' = "test"
    /\ UNCHANGED <<ringVars, poolVars, refreshVars, ret, packet, power_state, lines,
                   missed, th, busVars, resets, left, uart, track, owed, timed>>

TestPower ==
    /\ rpc \in {"short", "test"}
    /\ rpc' = IF power_changed THEN "linesoff" ELSE "gate"
    /\ missed' = (missed /\ ~power_changed)
    /\ UNCHANGED <<ringVars, poolVars, refreshVars, ret, packet, power_state, power_changed,
                   lines, told, th, busVars, resets, left, uart, track, owed, timed>>

set_lines_off ==
    /\ rpc = "linesoff"
    /\ rpc' = "lineson"
    /\ UNCHANGED <<ringVars, poolVars, refreshVars, ret, packet, power_state, power_changed,
                   told, missed, th, busVars, resets, left, track, timed>>
    /\ IF power_state = 0 THEN lines' = 0 /\ Discard ELSE UNCHANGED <<lines, uart, owed>>

\* set_lines_on with a bug that LinesFollowPower has to show.
set_lines_on_never ==
    /\ rpc = "lineson"
    /\ rpc' = "announce"
    /\ power_changed' = FALSE
    /\ UNCHANGED <<ringVars, poolVars, refreshVars, ret, packet, power_state, lines,
                   told, missed, th, busVars, resets, left, uart, track, owed, timed>>

set_lines_on ==
    /\ rpc = "lineson"
    /\ lines' = IF power_state = 1 THEN 1 ELSE lines
    /\ rpc' = "clearflag"
    /\ UNCHANGED <<ringVars, poolVars, refreshVars, ret, packet, power_state, power_changed,
                   told, missed, th, busVars, resets, left, uart, track, owed, timed>>

\* The flag is reset after the state was read.
ClearFlag ==
    /\ rpc = "clearflag"
    /\ power_changed' = FALSE
    /\ rpc' = "announce"
    /\ UNCHANGED <<ringVars, poolVars, refreshVars, ret, packet, power_state, lines,
                   told, missed, th, busVars, resets, left, uart, track, owed, timed>>

AnnouncePower ==
    /\ rpc = "announce"
    /\ told' = power_state
    /\ rpc' = "gate"
    /\ UNCHANGED <<ringVars, poolVars, refreshVars, ret, packet, power_state, power_changed,
                   lines, missed, th, busVars, resets, left, uart, track, owed, timed>>

\* Gate with a bug that SentInOrder has to show.
GateDrops ==
    /\ rpc = "gate"
    /\ IF power_state = 0 THEN Call("top") /\ packet' = NoPacket
       ELSE /\ rpc' = CASE ret = "top" -> "get" [] ret = "send" -> "send"
                        [] ret = "refresh" -> "refresh"
            /\ UNCHANGED <<ret, packet>>
    /\ UNCHANGED <<ringVars, poolVars, refreshVars, powerVars, th, busVars,
                   resets, left, uart, track, owed, timed>>

\* Gate with a bug that SilentWithoutPower has to show.
GateLetsPass ==
    /\ rpc = "gate"
    /\ IF power_state = 0 /\ ret # "send" THEN Call("top")
       ELSE /\ rpc' = CASE ret = "top" -> "get" [] ret = "send" -> "send"
                        [] ret = "refresh" -> "refresh"
            /\ UNCHANGED ret
    /\ UNCHANGED <<ringVars, poolVars, refreshVars, packet, powerVars, th, busVars,
                   resets, left, uart, track, owed, timed>>

\* Without power the thread waits where it is: with a packet it keeps it.
Gate ==
    /\ rpc = "gate"
    /\ IF power_state = 0 THEN Call(IF ret = "send" THEN "send" ELSE "top")
       ELSE /\ rpc' = CASE ret = "top" -> "get" [] ret = "send" -> "send"
                        [] ret = "refresh" -> "refresh"
            /\ UNCHANGED ret
    /\ UNCHANGED <<ringVars, poolVars, refreshVars, packet, powerVars, th, busVars,
                   resets, left, uart, track, owed, timed>>

-----------------------------------------------------------------------------
(* The refresh thread: sending. *)

\* queue_get looks at the cursors before it takes the mutex.  Once a packet was
\* sent and there is no other, the loop starts anew ("next"); otherwise a
\* refresh may be due.
TestEmpty ==
    /\ rpc \in {"get", "next"}
    /\ IF ~queue_empty THEN rpc' = (IF rpc = "get" THEN "take" ELSE "takenext") /\ UNCHANGED ret
       ELSE Call(IF rpc = "get" THEN "refresh" ELSE "top")
    /\ UNCHANGED <<ringVars, poolVars, refreshVars, packet, powerVars, th, busVars,
                   resets, left, uart, track, owed, timed>>

\* What is in the output buffer is discarded before the first of several.
queue_get ==
    /\ rpc \in {"take", "takenext"}
    /\ packet' = QData[queue_out]
    /\ QData' = [QData EXCEPT ![queue_out] = NoPacket]
    /\ queue_out' = NextSlot(queue_out)
    /\ Call(IF packet' # NoPacket THEN "send" ELSE IF rpc = "take" THEN "refresh" ELSE "top")
    /\ UNCHANGED <<queue_in, poolVars, refreshVars, powerVars, th, busVars,
                   resets, left, track, timed>>
    /\ IF rpc = "take" /\ packet' # NoPacket THEN Discard ELSE UNCHANGED <<uart, owed>>

\* A decoder receives what is sent while the booster is enabled: on Maerklin
\* before send_packet returns, on NMRA when it is out.  (What it has already is
\* not followed; while the output is stopped, what is written counts as lost.)
Write(a, p, value) ==
    /\ track' = IF a \in MLocos /\ lines = 1 THEN [track EXCEPT ![a][p] = value] ELSE track
    /\ uart' = IF a \in NLocos /\ lines = 1 /\ track[a][p] # value
                 THEN [adr |-> a, part |-> p, value |-> value] ELSE NoPacket

send_packet ==
    /\ rpc = "send" /\ uart = NoPacket
    /\ Write(packet.adr, packet.part, packet.value)
    /\ owed' = IF lines = 1 \/ packet.adr \notin Locos THEN owed
               ELSE [owed EXCEPT ![packet.adr] = @ \cup {packet.part}]
    /\ packet' = NoPacket
    /\ rpc' = "next" /\ UNCHANGED ret
    /\ UNCHANGED <<ringVars, poolVars, refreshVars, powerVars, th, busVars,
                   resets, left, timed>>

\* The entry of knownAddresses that is next; what was there before is still
\* in the first one when the number of entries was set to 0.
Entry(q) == IF known[q] = <<>> THEN IdleOf(q) ELSE known[q][last[q].loco + 1]

\* refresh_loco sends the next part straight from the pool.  On Maerklin's turn
\* it discards first what is in the output buffer, on NMRA's it waits.
refresh_loco ==
    /\ rpc = "refresh"
    /\ Call("top")
    /\ UNCHANGED <<ringVars, poolVars, packet, powerVars, th, busVars,
                   resets, left, timed>>
    /\ LET q == refresh
           a == Entry(q)
           p == last[q].part
           loco == IF last[q].loco + 1 >= Len(known[q]) THEN 0 ELSE last[q].loco + 1
       IN  /\ Write(a, p, pool[a][p])
           /\ IF q = "M" THEN Discard ELSE uart = NoPacket /\ UNCHANGED owed
           /\ last' = [last EXCEPT ![q] =
                 IF p = LastPart(q) THEN [loco |-> loco, part |-> 0] ELSE [@ EXCEPT !.part = p + 1]]
           /\ refresh' = IF Enabled = {"M", "N"} THEN (IF q = "M" THEN "N" ELSE "M") ELSE q

\* The last refresh is not more than 100 ms old.
NotDue ==
    /\ rpc = "refresh"
    /\ Call("top")
    /\ UNCHANGED <<ringVars, poolVars, refreshVars, packet, powerVars, th, busVars,
                   resets, left, uart, track, owed, timed>>

-----------------------------------------------------------------------------
(* The sessions: setPower, the state first, then the flag. *)

SetPower(s) == \E state \in {0, 1} :
    /\ th[s] = "idle" /\ left > 0
    /\ power_state' = state
    /\ th' = [th EXCEPT ![s] = "power"]
    /\ left' = left - 1
    /\ UNCHANGED <<ringVars, poolVars, refreshVars, handVars, power_changed, lines, told,
                   missed, busVars, resets, uart, track, owed, timed>>

PowerChanged(s) ==
    /\ th[s] = "power"
    /\ power_changed' = TRUE
    /\ missed' = (missed \/ rpc \in {"linesoff", "lineson", "clearflag"})
    /\ th' = [th EXCEPT ![s] = "idle"]
    /\ UNCHANGED <<ringVars, poolVars, refreshVars, handVars, power_state, lines, told,
                   busVars, resets, left, uart, track, owed, timed>>

-----------------------------------------------------------------------------
power_is_off == \/ Alarm \/ AlarmFlag \/ TestPower
                \/ set_lines_off \/ set_lines_on \/ ClearFlag \/ AnnouncePower \/ Gate

thr_refresh_cycle == \/ power_is_off \/ TestEmpty \/ queue_get \/ send_packet
                     \/ refresh_loco \/ NotDue

thr_sendrec_DDL == \/ TakeGL \/ BeginCopy \/ EndCopy \/ UpdateKnown \/ AddGL \/ ShowGL
                   \/ TakeGA \/ SwitchGA \/ TestTime \/ ClearAction \/ SwitchOff

Next == \/ thr_refresh_cycle \/ thr_sendrec_DDL
        \/ Drain \/ WakeReset \/ SendReset
        \/ \E s \in Sessions : SetPower(s) \/ PowerChanged(s)

Spec == Init /\ [][Next]_vars

\* Both threads loop for ever.  Of the turns without a packet infinitely many come
\* more than 100 ms after the last refresh, and what that wrote is out in less
\* than 50.
FairSpec == /\ Spec /\ WF_vars(thr_refresh_cycle) /\ WF_vars(thr_sendrec_DDL)
            /\ SF_vars(refresh_loco) /\ SF_vars(Drain)

\* Sleeps end, and setPower returns.
ResetSpec == /\ FairSpec /\ WF_vars(WakeReset) /\ WF_vars(SendReset)
             /\ \A s \in Sessions : WF_vars(PowerChanged(s))

-----------------------------------------------------------------------------
(* Properties. *)

\* Type invariant.
TypeOK ==
    /\ QData \in [0 .. QSIZE - 1 -> Packet \cup {NoPacket}]
    /\ queue_in \in 0 .. QSIZE - 1 /\ queue_out \in 0 .. QSIZE - 1
    /\ pool \in [Addresses -> [Parts -> {"raw", "torn", "off", "on"}]]
    /\ known \in [{"M", "N"} -> Seq(Addresses)]
    /\ last \in [{"M", "N"} -> [loco : Nat, part : Parts]]
    /\ \A q \in {"M", "N"} : /\ last[q].part <= LastPart(q)
                             /\ last[q].loco < Len(known[q]) \/ last[q].loco = 0
    /\ refresh \in Enabled
    /\ rpc \in {"short", "alarm", "test", "linesoff", "lineson", "clearflag", "announce",
                "gate", "get", "take", "next", "takenext", "send", "refresh"}
    /\ ret \in {"top", "send", "refresh"}
    /\ packet \in Packet \cup {NoPacket}
    /\ power_state \in {0, 1} /\ power_changed \in BOOLEAN
    /\ lines \in {0, 1} /\ told \in {-1, 0, 1} /\ missed \in BOOLEAN
    /\ th \in [Sessions -> {"idle", "power"}]
    /\ bpc \in {"idle", "copy", "copied", "known", "add", "switch", "time", "clear", "off"}
    /\ cmd \in Command \cup {NoCommand}
    /\ gatmp \in [port : Ports, action : {"off", "on"}, activetime : {"none", "short", "long"}]
    /\ resets \in [sleep : Nat, send : Nat]
    /\ left \in Nat
    /\ shown \in [Locos -> Contents \cup {Raw}]
    /\ uart \in Unsent \cup {NoPacket}
    /\ track \in [Locos -> [Parts -> {"raw", "torn", "off", "on"}]]
    /\ owed \in [Locos -> SUBSET Parts]
    /\ timed \subseteq Ports

\* When the ring is empty, nothing is under way and the bus thread is between
\* two commands, the decoders have what the clients see, in every part that was
\* queued since it changed and whose packet was neither overrun in the ring nor
\* discarded with the output buffer: neither a refresh that overtook the ring,
\* nor a packet that was read while it was being written, nor an older one left
\* in the output buffer has the last word.
Drained == /\ queue_empty /\ packet = NoPacket /\ rpc \notin {"take", "takenext"}
           /\ uart = NoPacket /\ cmd = NoCommand

SentInOrder == Drained => \A a \in Locos : \A p \in Parts \ owed[a] :
    track[a][p] = shown[a][p]

\* Between two settings of the power, as the clients and the driver see them.
PowerSettled == /\ ~power_changed
                /\ rpc \notin {"alarm", "linesoff", "lineson", "clearflag", "announce"}
                /\ \A s \in Sessions : th[s] # "power"

\* Once the power was announced off nothing is sent until it is set again: the
\* thread is inside power_is_off.
SilentWithoutPower == PowerSettled /\ told = 0 => rpc \in {"short", "test", "gate"}

\* The booster is enabled when the power is on and disabled when it is off,
\* unless the power was set while the thread was setting the lines: it resets
\* the flag after it has read the state.
LinesFollowPower == PowerSettled /\ ~missed => lines = power_state

\* If the power stays on, each locomotive gets what the clients see of it, also
\* the functions that no packet was queued for and what an overrun ring lost.
\* Not so address 81, which the list of addresses takes for the idle packet.
PowerIsOn == power_state = 1 /\ lines = 1

Arrived == \A a \in Locos \ {Idle81} : \A p \in 0 .. LastPart(Protocol(a)) :
    track[a][p] = shown[a][p]

LocosArrive == <>[]PowerIsOn => <>[]Arrived

\* "sends a GA reset command after a delay": a port that was switched on for a
\* time is switched off again.
PulsesEnd == \A p \in Ports : p \in timed ~> p \notin timed
=============================================================================
