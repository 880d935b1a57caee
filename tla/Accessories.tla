----------------------------- MODULE Accessories ------------------------------
(* The GA device group of one bus (srcp-ga.c), its power (srcp-power.c) and  *)
(* the bus thread of the loopback driver (loopback.c): commands are switched *)
(* in the order in which they come, but only while the power is on; a        *)
(* command with an active time leaves a pulse in one of the Slots of tga[],  *)
(* and the bus thread switches the port off when that time is over.          *)
(*                                                                           *)
(* Only the write of a queue slot is under a mutex.  An action is one look   *)
(* at the shared state with the decision taken on it, or one change of it;   *)
(* the queue is the sequence that CommandQueue shows the ring buffer to be,  *)
(* until it overruns.                                                        *)
(* Locks are the subject of AccessoryLocks.                                  *)
EXTENDS Integers, Sequences

CONSTANTS Sessions,     \* client sessions
          N,            \* numberOfGa
          Ports,        \* ports of a decoder
          Times,        \* active times, in units of the clock; 0: no pulse
          Slots,        \* entries of tga[], 50 in the code
          QUEUELEN,     \* slots of the command queue
          MaxCommands   \* bound: commands of all sessions

ASSUME AccessoriesAssumption ==
    /\ N \in Nat \ {0} /\ Slots \in Nat \ {0} /\ QUEUELEN \in Nat \ {0, 1}
    /\ Times \subseteq Nat /\ 0 \in Times /\ Ports # {} /\ MaxCommands \in Nat

VARIABLES initialised,  \* per address: is the protocol letter set?
          action,       \* per address: one action, whatever the port
          queue,        \* commands not yet taken
          power_state, power_changed,
          tga,          \* the pulses; id 0 is a free entry
          rpc, k, gatmp,\* bus thread: its place, the entry of tga[], its command
          due,          \* bus thread: the entries that were over at akt_time
          th,           \* per session thread: its place, its address
          left,         \* commands the sessions may still issue
          told,         \* per port: the last INFO 100 since the record was cleared
          powerTold,    \* the power they were last told; -1: nothing yet
          full          \* history: a pulse found no free entry

cacheVars == <<initialised, action>>
powerVars == <<power_state, power_changed>>
busVars == <<rpc, k, gatmp, due>>
infoVars == <<told, powerTold>>
vars == <<cacheVars, queue, powerVars, tga, busVars, th, left, infoVars, full>>

Addr == 1 .. N

Command == [id : Addr, port : Ports, action : {0, 1}, activetime : Times]

AnyPort == CHOOSE p \in Ports : TRUE

Free == [id |-> 0, port |-> AnyPort, wait |-> 0]

\* The content of gatmp while it holds no command.
NoCommand == [id |-> 1, port |-> AnyPort, action |-> 0, activetime |-> 0]

Idle == [pc |-> "idle", id |-> 1]

\* create_all_bus_threads has set the power and started the bus thread.
Init == /\ initialised = [a \in Addr |-> FALSE]
        /\ action = [a \in Addr |-> 0]
        /\ queue = <<>>
        /\ power_state \in {0, 1} /\ power_changed = TRUE
        /\ tga = [i \in 1 .. Slots |-> Free]
        /\ rpc = "power" /\ k = 1 /\ gatmp = NoCommand /\ due = {}
        /\ th = [s \in Sessions |-> Idle]
        /\ left = MaxCommands
        /\ told = [a \in Addr |-> [p \in Ports |-> "off"]]
        /\ powerTold = -1
        /\ full = FALSE

queue_isfull == Len(queue) >= QUEUELEN - 1

-----------------------------------------------------------------------------
(* The sessions. *)

Begin(s, p, a) == /\ th[s].pc = "idle" /\ left > 0
                  /\ left' = left - 1
                  /\ th' = [th EXCEPT ![s] = [pc |-> p, id |-> a]]

End(s) == th' = [th EXCEPT ![s] = Idle]

\* enqueueGA does not ask whether the address is initialised.  A full ring
\* refuses the command; but the test for room is outside the mutex, and one that
\* passed it before the last slot was written overruns the ring instead, which
\* then reads as empty.
EnqueueGA(s) == \E c \in Command :
    /\ Begin(s, "idle", 1)
    /\ queue' \in IF queue_isfull THEN {queue, <<>>} ELSE {Append(queue, c)}
    /\ UNCHANGED <<cacheVars, powerVars, tga, busVars, infoVars, full>>

\* initGA sets the protocol first; it stays set if the driver refuses it.
InitGA(s) == \E a \in Addr :
    /\ Begin(s, "init", a)
    /\ initialised' = [initialised EXCEPT ![a] = TRUE]
    /\ UNCHANGED <<action, queue, powerVars, tga, busVars, infoVars, full>>

ResetGA(s) == /\ th[s].pc = "init"
              /\ action' = [action EXCEPT ![th[s].id] = 0]
              /\ End(s)
              /\ UNCHANGED <<initialised, queue, powerVars, tga, busVars, left, infoVars, full>>

TermGA(s) == \E a \in Addr :
    /\ Begin(s, IF initialised[a] THEN "term" ELSE "idle", a)
    /\ UNCHANGED <<cacheVars, queue, powerVars, tga, busVars, infoVars, full>>

\* memset, after the INFO 102; from here on nothing is told of the old record.
ClearGA(s) == LET a == th[s].id IN
    /\ th[s].pc = "term"
    /\ initialised' = [initialised EXCEPT ![a] = FALSE]
    /\ action' = [action EXCEPT ![a] = 0]
    /\ told' = [told EXCEPT ![a] = [p \in Ports |-> "off"]]
    /\ End(s)
    /\ UNCHANGED <<queue, powerVars, tga, busVars, left, powerTold, full>>

\* setPower: the state first, then the flag.
SetPower(s) == \E state \in {0, 1} :
    /\ Begin(s, "power", 1)
    /\ power_state' = state
    /\ UNCHANGED <<cacheVars, queue, power_changed, tga, busVars, infoVars, full>>

\* TermPower with a bug that PowerIsTold has to show.
TermPowerSilently(s) ==
    /\ Begin(s, "idle", 1)
    /\ power_state' = 0
    /\ UNCHANGED <<cacheVars, queue, power_changed, tga, busVars, infoVars, full>>

\* termPower does nothing if the power is off.
TermPower(s) == /\ Begin(s, IF power_state = 1 THEN "power" ELSE "idle", 1)
                /\ power_state' = 0
                /\ UNCHANGED <<cacheVars, queue, power_changed, tga, busVars, infoVars, full>>

PowerChanged(s) == /\ th[s].pc = "power"
                   /\ power_changed' = TRUE
                   /\ End(s)
                   /\ UNCHANGED <<cacheVars, queue, power_state, tga, busVars, left, infoVars, full>>

-----------------------------------------------------------------------------
(* thr_sendrec_LOOPBACK, turn by turn. *)

\* handle_power_command resets the flag before it reads the state.
TestPower ==
    /\ rpc = "power"
    /\ power_changed' = FALSE
    /\ rpc' = IF power_changed THEN "announce" ELSE "gate"
    /\ UNCHANGED <<cacheVars, queue, power_state, tga, k, gatmp, due, th, left, infoVars, full>>

AnnouncePower ==
    /\ rpc = "announce"
    /\ powerTold' = power_state
    /\ rpc' = "gate"
    /\ UNCHANGED <<cacheVars, queue, powerVars, tga, k, gatmp, due, th, left, told, full>>

Over == {i \in 1 .. Slots : tga[i].id # 0 /\ tga[i].wait = 0}

\* With the power on akt_time is read once for the loop over the pulses.
\* "loop shortcut to prevent processing of GA, GL (and FB) without power on"
Gate ==
    /\ rpc = "gate"
    /\ rpc' = IF power_state = 0 THEN "power" ELSE "pulse"
    /\ k' = 1 /\ due' = Over
    /\ UNCHANGED <<cacheVars, queue, powerVars, tga, gatmp, th, left, infoVars, full>>

\* NextPulse with a bug that PulseEnds has to show.
NextPulseShort == IF k >= Slots - 1 THEN rpc' = "queue" /\ UNCHANGED k
                  ELSE rpc' = "pulse" /\ k' = k + 1

\* The loop over tga[] goes on, or ends.
NextPulse == IF k = Slots THEN rpc' = "queue" /\ UNCHANGED k
             ELSE rpc' = "pulse" /\ k' = k + 1

Due == tga[k].id # 0 /\ k \in due

\* A pulse that is over calls setGA, which refuses an address that is not
\* initialised; the entry is freed all the same.
EndPulse ==
    /\ rpc = "pulse"
    /\ IF Due /\ initialised[tga[k].id] THEN rpc' = "off" /\ UNCHANGED <<k, tga>>
       ELSE /\ tga' = IF Due THEN [tga EXCEPT ![k] = Free] ELSE tga
            /\ NextPulse
    /\ UNCHANGED <<cacheVars, queue, powerVars, gatmp, due, th, left, infoVars, full>>

SwitchOff ==
    /\ rpc = "off"
    /\ action' = [action EXCEPT ![tga[k].id] = 0]
    /\ rpc' = "offinfo"
    /\ UNCHANGED <<initialised, queue, powerVars, tga, k, gatmp, due, th, left, infoVars, full>>

\* infoGA tells the action of the address, if it is still initialised.
Tell(a, p, on) ==
    told' = IF initialised[a]
              THEN [told EXCEPT ![a][p] = IF action[a] = 0 THEN "off" ELSE on] ELSE told

InfoOff ==
    /\ rpc = "offinfo"
    /\ Tell(tga[k].id, tga[k].port, "on")
    /\ tga' = [tga EXCEPT ![k] = Free]
    /\ NextPulse
    /\ UNCHANGED <<cacheVars, queue, powerVars, gatmp, due, th, left, powerTold, full>>

\* dequeueNextGA, one command in each turn.
TakeGA ==
    /\ rpc = "queue"
    /\ IF queue = <<>> THEN rpc' = "power" /\ UNCHANGED <<queue, gatmp>>
       ELSE /\ gatmp' = Head(queue) /\ queue' = Tail(queue)
            /\ rpc' = IF initialised[Head(queue).id] THEN "on" ELSE "store"
    /\ UNCHANGED <<cacheVars, powerVars, tga, k, due, th, left, infoVars, full>>

SwitchGA ==
    /\ rpc = "on"
    /\ action' = [action EXCEPT ![gatmp.id] = gatmp.action]
    /\ rpc' = "oninfo"
    /\ UNCHANGED <<initialised, queue, powerVars, tga, k, gatmp, due, th, left, infoVars, full>>

InfoGA ==
    /\ rpc = "oninfo"
    /\ Tell(gatmp.id, gatmp.port, IF gatmp.activetime > 0 THEN "pulse" ELSE "on")
    /\ rpc' = "store"
    /\ UNCHANGED <<cacheVars, queue, powerVars, tga, k, gatmp, due, th, left, powerTold, full>>

FirstFree == {i \in 1 .. Slots : tga[i].id = 0 /\ \A m \in 1 .. i - 1 : tga[m].id # 0}

Pulse(c) == [id |-> c.id, port |-> c.port, wait |-> c.activetime]

\* StorePulse with a bug that PulseIsKept has to show.
StorePulseFirst ==
    /\ rpc = "store"
    /\ tga' = IF gatmp.action = 1 /\ gatmp.activetime > 0
                THEN [tga EXCEPT ![1] = Pulse(gatmp)] ELSE tga
    /\ rpc' = "power" /\ gatmp' = NoCommand
    /\ UNCHANGED <<cacheVars, queue, powerVars, k, due, th, left, infoVars, full>>

\* A pulse that finds no free entry is not remembered.
StorePulse ==
    /\ rpc = "store"
    /\ LET c == gatmp
           pulse == c.action = 1 /\ c.activetime > 0
       IN  /\ tga' = [i \in 1 .. Slots |-> IF pulse /\ i \in FirstFree THEN Pulse(c) ELSE tga[i]]
           /\ full' = (full \/ (pulse /\ FirstFree = {}))
    /\ rpc' = "power" /\ gatmp' = NoCommand
    /\ UNCHANGED <<cacheVars, queue, powerVars, k, due, th, left, infoVars>>

Tick == /\ \E i \in 1 .. Slots : tga[i].wait > 0
        /\ tga' = [i \in 1 .. Slots |->
                     [tga[i] EXCEPT !.wait = IF @ > 0 THEN @ - 1 ELSE 0]]
        /\ UNCHANGED <<cacheVars, queue, powerVars, busVars, th, left, infoVars, full>>

thr_sendrec_LOOPBACK == \/ TestPower \/ AnnouncePower \/ Gate
                        \/ EndPulse \/ SwitchOff \/ InfoOff
                        \/ TakeGA \/ SwitchGA \/ InfoGA \/ StorePulse

Request(s) == \/ EnqueueGA(s) \/ InitGA(s) \/ TermGA(s)
              \/ SetPower(s) \/ TermPower(s)

Step(s) == ResetGA(s) \/ ClearGA(s) \/ PowerChanged(s)

Next == thr_sendrec_LOOPBACK \/ Tick \/ \E s \in Sessions : Request(s) \/ Step(s)

Spec == Init /\ [][Next]_vars

\* The bus thread turns its loop for ever, time passes, and a session in the
\* middle of a command goes on.
FairSpec == /\ Spec /\ WF_vars(thr_sendrec_LOOPBACK) /\ WF_vars(Tick)
            /\ \A s \in Sessions : WF_vars(Step(s))

-----------------------------------------------------------------------------
(* Properties. *)

\* Type invariant.
TypeOK ==
    /\ initialised \in [Addr -> BOOLEAN] /\ action \in [Addr -> {0, 1}]
    /\ queue \in Seq(Command) /\ Len(queue) < QUEUELEN
    /\ power_state \in {0, 1} /\ power_changed \in BOOLEAN
    /\ tga \in [1 .. Slots -> [id : Addr \cup {0}, port : Ports, wait : Nat]]
    /\ rpc \in {"power", "announce", "gate", "pulse", "off", "offinfo",
                "queue", "on", "oninfo", "store"}
    /\ k \in 1 .. Slots
    /\ gatmp \in Command /\ due \subseteq 1 .. Slots
    /\ th \in [Sessions -> [pc : {"idle", "init", "term", "power"}, id : Addr]]
    /\ left \in Nat
    /\ told \in [Addr -> [Ports -> {"off", "on", "pulse"}]]
    /\ powerTold \in {-1, 0, 1} /\ full \in BOOLEAN

\* A port that the clients were told is on for a time has its end in tga[],
\* whatever was initialised, terminated or switched meanwhile, unless a pulse
\* once found no free entry.
PulseIsKept == \A a \in Addr : \A p \in Ports :
    told[a][p] = "pulse" /\ rpc # "store" /\ ~full =>
        \E i \in 1 .. Slots : tga[i].id = a /\ tga[i].port = p

\* Between two settings of the power, the clients know what it is as soon as
\* the bus thread has nothing more to announce.
PowerSettled == /\ ~power_changed /\ rpc # "announce"
                /\ \A s \in Sessions : th[s].pc # "power"

PowerIsTold == PowerSettled => powerTold = power_state

\* Once the clients were told that the power is off, nothing is switched until
\* somebody sets it again: the bus thread is not in the middle of a command.
NothingWithoutPower == PowerSettled /\ powerTold = 0 => rpc \in {"power", "gate"}

\* A pulse ends, unless the power goes off or a pulse found no free entry.
PulseEnds == \A a \in Addr : \A p \in Ports :
    told[a][p] = "pulse" ~> told[a][p] # "pulse" \/ power_state = 0 \/ full
=============================================================================
