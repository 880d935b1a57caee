------------------------------ MODULE Intellibox ------------------------------
(***************************************************************************)
(* The driver of the Intellibox, ib.c: the bus thread tells the box the    *)
(* power, sends commands for locomotives and for the programming track,    *)
(* and asks it for events: people drive with its knobs, press its stop and *)
(* go keys, short its tracks, and the programming takes its time.          *)
(*                                                                         *)
(* The bus thread answers sessions without taking cb_mutex, which it then  *)
(* unlocks: the sessions' side of that is ServiceMode. There is one        *)
(* locomotive; drive stands for what the box reports of it (speed,         *)
(* direction, F0 to F8), high for the functions above, which it does not.  *)
(* Since init_gl_IB sets n_fs to the box's 126 steps, speeds are the same  *)
(* on both sides. Accessories and contacts are left out here.              *)
(***************************************************************************)
EXTENDS Integers, Sequences

CONSTANTS
  Sessions, Bus, Values, QUEUELEN, MaxCommands,  \* as in ServiceMode
  Bounds      \* what may happen in a behavior: how often the power is switched
              \*   and the locomotive driven, each by clients and at the box,
              \*   how often sessions program, and with which commands

VARIABLES
  power, changed,          \* buses[].power_state, power_changed
  setting,                 \* a setPower of a session between its two stores
  emergency_on_ib,
  boxPower, events,        \* the box: its power, the events not yet asked for
  rpc, ret,                \* bus thread: where it is, where it goes after an answer
  ev,                      \*   what XEvent answered
  glqueue, gltmp,          \* commands of the locomotive, the one being sent
  known, cache, many,      \* its record: initialized, [drive, high], n_func > 9
  loco,                    \* the box: what the locomotive does
  queue, pt_initialized, last,  \* last_type # -1, and last_value
  track, prog, cv,         \* the box: programming on, what it programs, the decoder
  cb_mutex, sleeping, cb_data, th,  \* as in ServiceMode
  left, may,               \* calls of infoSM, switching and driving still allowed
  asked, missed, sure, blurred  \* history: what is known of the power and of cache

powerVars == <<power, changed, setting, emergency_on_ib, asked, missed>>
boxVars   == <<boxPower, events>>
busVars   == <<rpc, ret, ev>>
glVars    == <<glqueue, gltmp, known, cache, many, loco, sure, blurred>>
progVars  == <<pt_initialized, last, track, prog, cv>>
waitVars  == <<cb_mutex, sleeping, cb_data, th>>
smVars    == <<queue, progVars, waitVars>>
vars == <<powerVars, boxVars, busVars, glVars, smVars, left, may>>

Nothing == [op |-> "none", value |-> 0, ok |-> TRUE]

\* A command in the hands of the box, or of the bus thread, counts as taken.
Ending == {"broadcast", "unlock"}
SM == INSTANCE ServiceMode WITH
        smtmp <- IF prog # Nothing \/ rpc \in Ending THEN <<prog>> ELSE <<>>

Setting == [drive : 0..1, high : 0..1]
Stopped == [drive |-> 0, high |-> 0]

\* init_bus_IB; create_all_bus_threads then sets the power.
InitDriver(on, boxOn, drive, b) ==
  /\ power = on /\ changed = TRUE /\ setting = FALSE
  /\ emergency_on_ib = 2
  /\ boxPower = boxOn /\ events = {}
  /\ ret = "power" /\ ev = {}
  /\ glqueue = <<>> /\ gltmp = <<>>
  /\ known = FALSE /\ cache = Stopped /\ many = FALSE
  /\ loco = [Stopped EXCEPT !.drive = drive]
  /\ pt_initialized = FALSE /\ last = [typed |-> FALSE, value |-> 0]
  /\ track = FALSE /\ prog = Nothing
  /\ may = [switch |-> b.switch, drive |-> b.drive, ops |-> b.ops]
  /\ asked = on /\ missed = "no" /\ sure = FALSE /\ blurred = FALSE

Init ==
  /\ \E on \in BOOLEAN, boxOn \in BOOLEAN, b \in Bounds, drive \in 0..1 :
       /\ drive <= b.drive /\ left = b.program /\ (b.switch = 0 => on /\ boxOn)
       /\ InitDriver(on, boxOn, drive, b)
  /\ rpc = "power" /\ queue = <<>> /\ cv = 0
  /\ cb_mutex = {} /\ sleeping = {} /\ cb_data = 0
  /\ th = [s \in Sessions |-> SM!NoCall]

\* Something happens that Bounds counts.
Event(what) == may[what] > 0 /\ may' = [may EXCEPT ![what] = @ - 1] /\ UNCHANGED left

-----------------------------------------------------------------------------
(* Sessions *)

\* setPower by a session: two stores. History: asked that a session wants the
\* power on and the box has not been told yet; missed that it was late, that the
\* box has just been told what was before.
SetPowerState(on) ==
  /\ Event("switch") /\ ~setting
  /\ power' = on /\ setting' = TRUE /\ asked' = on
  /\ missed' = IF rpc \in {"told", "refused", "announce"} THEN "late" ELSE missed
  /\ UNCHANGED <<changed, emergency_on_ib, boxVars, busVars, glVars, smVars>>
SetPowerFlag ==
  /\ setting
  /\ changed' = TRUE /\ setting' = FALSE
  /\ UNCHANGED <<power, emergency_on_ib, asked, missed, boxVars, busVars, glVars,
                 smVars, left, may>>

\* cacheInitGL: the record is cleared and a stop enqueued. What the locomotive
\* does is not known from it: history sure.
Initialized(functions) ==
  /\ known' = TRUE /\ cache' = Stopped /\ many' = functions
  /\ sure' = FALSE /\ blurred' = FALSE
Command(v, functions) == [drive |-> v.drive, high |-> v.high, many |-> functions]
StopCommand(functions) == Command(Stopped, functions)

InitGL ==
  /\ Event("drive")
  /\ \E functions \in BOOLEAN :
       Initialized(functions) /\ glqueue' = Append(glqueue, StopCommand(functions))
  /\ UNCHANGED <<gltmp, loco, powerVars, boxVars, busVars, smVars>>

\* SET GL: a locomotive that is not initialized is, with one function.
SetGL(v) ==
  /\ Event("drive")
  /\ IF known
     THEN /\ glqueue' = Append(glqueue, Command(v, many))
          /\ UNCHANGED <<known, cache, many, sure, blurred>>
     ELSE /\ Initialized(FALSE)
          /\ glqueue' = glqueue \o <<StopCommand(FALSE), Command(v, FALSE)>>
  /\ UNCHANGED <<gltmp, loco, powerVars, boxVars, busVars, smVars>>

\* cacheTermGL: a locomotive that moves is braked, and its record cleared.
TermGL ==
  /\ Event("drive") /\ known
  /\ glqueue' = IF cache.drive = 0 THEN glqueue
                ELSE Append(glqueue, Command([cache EXCEPT !.drive = 0], many))
  /\ known' = FALSE /\ cache' = Stopped /\ many' = FALSE
  /\ sure' = FALSE /\ blurred' = FALSE
  /\ UNCHANGED <<gltmp, loco, powerVars, boxVars, busVars, smVars>>

\* infoSM, see ServiceMode. The mutex may be another's by the time it is
\* unlocked; then two sessions can put a command into the one free slot, and
\* the queue reads as empty.
Publish(s) ==
  /\ SM!At(s, "publish")
  /\ queue' = IF Len(queue) + 1 = QUEUELEN THEN <<>>
              ELSE Append(queue, [from |-> s, op |-> th[s].op, value |-> th[s].value])
  /\ th' = [th EXCEPT ![s].pc = "wait"]
  /\ UNCHANGED <<cb_mutex, sleeping, cb_data, progVars, rpc, left>>
infoSM(s) ==
  \/ Publish(s)
  \/ /\ UNCHANGED progVars
     /\ SM!Lock(s) \/ SM!TestFull(s) \/ SM!Wait(s) \/ SM!Answer(s) \/ SM!Unlock(s)

Program(s) ==
  /\ \/ infoSM(s)
     \/ UNCHANGED progVars /\ SM!Wake(s)
     \/ UNCHANGED progVars /\ SM!Call(s) /\ th'[s].op \in may.ops
  /\ UNCHANGED <<powerVars, boxVars, ret, ev, glVars, may>>

-----------------------------------------------------------------------------
(* thr_sendrec_IB: the power *)

\* With the power off the box is only asked for events.
Gate ==
  /\ rpc' = IF power' THEN "gl" ELSE "poll"
  /\ ret' = IF power' THEN "sm" ELSE "power"

\* emergency_on_ib: 1 if the box switched the power off, 2 once that was
\* announced; at 2 an OFF of a session is not sent, the box is asked instead.
BusPower ==
  /\ rpc = "power"
  /\ \/ ~changed /\ UNCHANGED powerVars /\ Gate
     \/ /\ changed /\ emergency_on_ib = 1
        /\ emergency_on_ib' = 2 /\ power' = FALSE /\ asked' = FALSE
        /\ rpc' = "announce" /\ UNCHANGED <<ret, changed, setting, missed>>
     \/ /\ changed /\ emergency_on_ib = 2 /\ ~power
        /\ rpc' = "poll" /\ ret' = "power" /\ UNCHANGED powerVars
     \/ /\ changed /\ emergency_on_ib # 1 /\ (emergency_on_ib = 2 => power)
        /\ rpc' = "tell" /\ UNCHANGED <<ret, powerVars>>
  /\ UNCHANGED <<ev, boxVars, glVars, smVars, left, may>>

\* send_command_power_IB: the box may refuse to switch on when it is too hot.
BusTell ==
  /\ rpc = "tell"
  /\ \/ boxPower' = power /\ rpc' = "told"
     \/ power /\ boxPower' = FALSE /\ rpc' = "refused"
  /\ asked' = FALSE /\ missed' = "no"
  /\ UNCHANGED <<power, changed, setting, emergency_on_ib, events, ret, ev, glVars,
                 smVars, left, may>>

BusTold ==
  /\ \/ /\ rpc = "told"
        /\ emergency_on_ib' = IF power THEN 0 ELSE emergency_on_ib
        /\ UNCHANGED <<power, changed, asked>>
     \/ /\ rpc = "refused"
        /\ power' = FALSE /\ changed' = TRUE /\ asked' = FALSE
        /\ UNCHANGED emergency_on_ib
  /\ rpc' = "announce"
  /\ UNCHANGED <<setting, missed, ret, ev, boxVars, glVars, smVars, left, may>>

\* handle_power_command: also a change that came after BusTell read the state
\* is taken for announced.
Announce ==
  /\ rpc = "announce"
  /\ changed' = FALSE
  /\ missed' = IF missed = "late" THEN (IF setting THEN "no" ELSE "lost") ELSE missed
  /\ UNCHANGED <<power, setting, emergency_on_ib, asked>> /\ Gate
  /\ UNCHANGED <<ev, boxVars, glVars, smVars, left, may>>

-----------------------------------------------------------------------------
(* send_command_gl_IB *)

\* A command that says what the cache says is not sent. The box may refuse
\* one, which is then forgotten. Of a locomotive that was terminated meanwhile
\* nothing is known: what the command is compared with, and the number of speed
\* steps it is divided by, are what happens to be on the stack.
Sent(c) == IF known \/ c.drive = 0 THEN {c.drive} ELSE 0..1
SendGL ==
  /\ rpc = "gl"
  /\ IF glqueue = <<>> THEN rpc' = "poll" /\ UNCHANGED <<glqueue, gltmp, loco>>
     ELSE LET c == Head(glqueue) IN
          /\ glqueue' = Tail(glqueue)
          /\ \/ rpc' = "poll" /\ UNCHANGED <<gltmp, loco>>
             \/ /\ known => cache # [drive |-> c.drive, high |-> c.high]
                /\ gltmp' = <<c>> /\ rpc' = "funcs"
                /\ \E v \in Sent(c) : loco' = [loco EXCEPT !.drive = v]
             \/ /\ ~known /\ c.drive # 0
                /\ rpc' = "crashed" /\ UNCHANGED <<gltmp, loco>>
  /\ UNCHANGED <<ret, ev, known, cache, many, sure, blurred, powerVars, boxVars,
                 smVars, left, may>>

\* XFunc, XFuncX, XFunc34; cacheSetGL.
SendFunctions ==
  /\ rpc = "funcs"
  /\ LET c == Head(gltmp) IN
     /\ loco' = IF c.many THEN [loco EXCEPT !.high = c.high] ELSE loco
     /\ cache' = [drive |-> c.drive, high |-> c.high] /\ many' = c.many
     /\ sure' = (known /\ loco.drive = c.drive) /\ blurred' = ~c.many
  /\ gltmp' = <<>> /\ rpc' = "poll"
  /\ UNCHANGED <<ret, ev, glqueue, known, powerVars, boxVars, smVars, left, may>>

-----------------------------------------------------------------------------
(* check_status_IB: one thing after the other that the box has told of *)

ThenPT(e) == IF "pt" \in e THEN "pt" ELSE ret

\* ThenStatus with bugs that StopHolds and BoxAgrees have to show: a stop is not
\* looked at; the state of the box is not asked for at the start.
ThenStatusGo(e) ==
  IF "go" \in e \/ emergency_on_ib' = 2 THEN "status" ELSE ThenPT(e)
ThenStatusEvent(e) == IF e \cap {"off", "go"} # {} THEN "status" ELSE ThenPT(e)

ThenStatus(e) ==
  IF e \cap {"off", "go"} # {} \/ emergency_on_ib' = 2 THEN "status" ELSE ThenPT(e)
ThenShort(e) == IF "short" \in e THEN "short" ELSE ThenStatus(e)

\* XEvent: the box tells its events and forgets them.
Poll ==
  /\ rpc = "poll"
  /\ ev' = events /\ events' = {} /\ UNCHANGED powerVars
  /\ rpc' = IF "loco" \in events THEN "loco" ELSE ThenShort(events)
  /\ UNCHANGED <<ret, boxPower, glVars, smVars, left, may>>

\* check_status_gl_IB: cacheSetGL also clears the functions above F8, and stores
\* an n_func that was never set (many).
CheckGL ==
  /\ rpc = "loco"
  /\ glqueue' = IF known THEN glqueue ELSE Append(glqueue, StopCommand(FALSE))
  /\ known' = TRUE /\ cache' = [drive |-> loco.drive, high |-> 0]
  /\ many' \in BOOLEAN
  /\ sure' = TRUE /\ blurred' = TRUE
  /\ UNCHANGED powerVars /\ rpc' = ThenShort(ev)
  /\ UNCHANGED <<gltmp, loco, ret, ev, boxVars, smVars, left, may>>

\* setPower by the bus thread, which nobody but itself waits for: one step.
Sets(on, emergency) ==
  /\ power' = on /\ changed' = TRUE /\ emergency_on_ib' = emergency
  /\ asked' = FALSE /\ UNCHANGED <<setting, missed>>

CheckShort ==
  /\ rpc = "short"
  /\ UNCHANGED powerVars
  /\ rpc' = IF emergency_on_ib = 0 /\ power THEN "short_off" ELSE ThenStatus(ev)
  /\ UNCHANGED <<ret, ev, boxVars, glVars, smVars, left, may>>

\* XStatus: is the power of the box on?
AskStatus ==
  /\ rpc = "status"
  /\ rpc' = IF boxPower THEN "on" ELSE "off"
  /\ UNCHANGED <<ret, ev, powerVars, boxVars, glVars, smVars, left, may>>
Judge ==
  /\ rpc' = CASE rpc = "off" /\ emergency_on_ib = 0 /\ power -> "set_off"
              [] rpc = "on" /\ (emergency_on_ib = 1 \/ ~power) -> "set_on"
              [] OTHER -> ThenPT(ev)
  /\ rpc \in {"off", "on"}
  /\ UNCHANGED <<ret, ev, powerVars, boxVars, glVars, smVars, left, may>>

BusSetsPower ==
  /\ \/ rpc \in {"short_off", "set_off"} /\ Sets(FALSE, 1)
     \/ rpc = "set_on" /\ Sets(TRUE, 0)
  /\ rpc' = IF rpc = "short_off" THEN ThenStatus(ev) ELSE ThenPT(ev)
  /\ UNCHANGED <<ret, ev, boxVars, glVars, smVars, left, may>>

\* check_status_pt_IB: the box answers a SET without a value, the last one is
\* taken then. An error is answered to nobody.
CheckPT ==
  /\ rpc = "pt"
  /\ IF prog.ok /\ last.typed
     THEN /\ cb_data' = IF prog.op = "SET" THEN last.value ELSE prog.value
          /\ last' = [last EXCEPT !.typed = FALSE]
          /\ rpc' = "broadcast"
     ELSE rpc' = ret /\ UNCHANGED <<cb_data, last>>
  /\ prog' = Nothing /\ ev' = {}
  /\ UNCHANGED <<ret, queue, pt_initialized, track, cv, cb_mutex, sleeping, th,
                 powerVars, boxVars, glVars, left, may>>

-----------------------------------------------------------------------------
(* send_command_sm_IB *)

\* Remember with a bug that OwnAnswer has to show: only what kind of command.
RememberType(c) == last' = [last EXCEPT !.typed = TRUE]

\* What the answer, when it comes, is about.
Remember(c) == last' = [typed |-> TRUE, value |-> c.value]

\* The programming track is switched on once and for all: a TERM switches it off,
\* but leaves pt_initialized.
init_pgm_IB ==
  /\ pt_initialized' = TRUE
  /\ track' = (track \/ ~pt_initialized)
term_pgm_IB(c) ==
  /\ \E off \in {FALSE, c.op = "INIT" /\ pt_initialized} : track' = (track /\ ~off)
  /\ UNCHANGED pt_initialized

\* The box takes one command at a time. Nobody looks at the status it returns.
Accepts == track' /\ prog = Nothing
ReadOrWrite(c) ==
  IF Accepts
  THEN /\ cv' = IF c.op = "SET" THEN c.value ELSE cv
       /\ prog' \in [op : {c.op}, value : {cv'}, ok : BOOLEAN]
       /\ th' = [th EXCEPT ![c.from].own = cv']
  ELSE UNCHANGED <<cv, prog, th>>

\* SET and GET on the programming track. INIT stands for TERM, and VERIFY is
\* answered as INIT is.
SendSM ==
  /\ rpc = "sm"
  /\ \/ /\ queue = <<>> /\ rpc' = "power"
        /\ UNCHANGED <<ret, queue, pt_initialized, last, track, prog, cv, cb_data, th>>
     \/ /\ queue # <<>> /\ queue' = Tail(queue)
        /\ LET c == Head(queue) IN
           /\ Remember(c)
           /\ \/ /\ c.op \in {"SET", "GET"} /\ rpc' = "power"
                 /\ init_pgm_IB /\ ReadOrWrite(c)
                 /\ UNCHANGED <<ret, cb_data>>
              \/ /\ c.op \in {"INIT", "VERIFY"}
                 /\ term_pgm_IB(c)
                 /\ cb_data' = 0 /\ th' = [th EXCEPT ![c.from].own = 0]
                 /\ rpc' = "broadcast" /\ ret' = "power"
                 /\ UNCHANGED <<cv, prog>>
  /\ UNCHANGED <<ev, cb_mutex, sleeping, powerVars, boxVars, glVars, left, may>>

\* session_endwait, without session_lock_wait: whoever holds cb_mutex loses it.
Broadcast ==
  /\ rpc = "broadcast" /\ rpc' = "unlock"
  /\ sleeping' = {}
  /\ UNCHANGED <<ret, ev, queue, progVars, cb_mutex, cb_data, th, powerVars,
                 boxVars, glVars, left, may>>
EndWait ==
  /\ rpc = "unlock" /\ rpc' = ret
  /\ cb_mutex' = {}
  /\ UNCHANGED <<ret, ev, queue, progVars, sleeping, cb_data, th, powerVars,
                 boxVars, glVars, left, may>>

thr_sendrec_IB ==
  \/ BusPower \/ BusTell \/ BusTold \/ Announce
  \/ SendGL \/ SendFunctions
  \/ Poll \/ CheckGL \/ CheckShort \/ AskStatus \/ Judge \/ BusSetsPower \/ CheckPT
  \/ SendSM \/ Broadcast \/ EndWait

-----------------------------------------------------------------------------
(* The box and the people at it *)

\* Its stop key, a short circuit, its go key.
SwitchesOff ==
  /\ Event("switch") /\ boxPower
  /\ boxPower' = FALSE
  /\ \E key \in {"off", "short"} : events' = events \cup {key}
  /\ UNCHANGED <<powerVars, busVars, glVars, smVars>>
SwitchesOn ==
  /\ Event("switch") /\ ~boxPower
  /\ boxPower' = TRUE /\ events' = events \cup {"go"}
  /\ UNCHANGED <<powerVars, busVars, glVars, smVars>>

\* Somebody turns its knob.
Drives ==
  /\ Event("drive")
  /\ loco' = [loco EXCEPT !.drive = 1 - @] /\ events' = events \cup {"loco"}
  /\ UNCHANGED <<boxPower, glqueue, gltmp, known, cache, many, sure, blurred, powerVars,
                 busVars, smVars>>

\* The decoder on the programming track is done with.
Programmed ==
  /\ prog # Nothing /\ "pt" \notin events \cup ev
  /\ events' = events \cup {"pt"}
  /\ UNCHANGED <<boxPower, powerVars, busVars, glVars, smVars, left, may>>

-----------------------------------------------------------------------------
Next ==
  \/ \E on \in BOOLEAN : SetPowerState(on)
  \/ SetPowerFlag
  \/ InitGL \/ TermGL
  \/ \E v \in Setting : SetGL(v)
  \/ \E s \in Sessions : Program(s)
  \/ thr_sendrec_IB
  \/ SwitchesOff \/ SwitchesOn \/ Drives \/ Programmed

\* The bus thread polls, and a session does not stop inside setPower.
Fairness == WF_vars(thr_sendrec_IB) /\ WF_vars(SetPowerFlag)
Spec == Init /\ [][Next]_vars /\ Fairness

-----------------------------------------------------------------------------
(* Properties *)

\* What the clients see is what the box does in the end, whoever switched the
\* power and drove the locomotive last, at the box or at a client: unless a
\* SET POWER was taken for announced though the box was told of an earlier one,
\* or a command for a terminated locomotive has ended the server.
Agrees ==
  /\ power = boxPower \/ missed = "lost"
  /\ sure => cache.drive = loco.drive /\ (blurred \/ cache.high = loco.high)
BoxAgrees == <>[](Agrees \/ rpc = "crashed")

\* The server does not undo a stop at the box by itself: when it switches the
\* box on, a client wants that, or the box has not told of the stop yet.
StopHolds ==
  [][rpc = "tell" /\ rpc' = "told" /\ ~boxPower /\ boxPower'
       => asked \/ {"off", "short"} \cap events # {}]_vars
=============================================================================
