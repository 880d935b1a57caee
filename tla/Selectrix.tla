------------------------------ MODULE Selectrix ------------------------------
(***************************************************************************)
(* The Selectrix driver, selectrix.c: the bus thread, the timer thread     *)
(* that lets it read one feedback module after the other, the SIGIO        *)
(* handler of the main thread that takes the bytes the interface sends,    *)
(* and the suspending and resuming of the bus thread (config-srcpd.c).     *)
(*                                                                         *)
(* An address of the SX bus stands here for the bus it is on (0, or 1 with *)
(* a second bus); feedback modules are 1..fb.  A byte from the interface   *)
(* is a record: its kind, the module it is about (0: none of them), and    *)
(* the module whose address it is equal to (0: none).  Outgoing data are   *)
(* left out, but for the power and the choice of the bus.                  *)
(***************************************************************************)
EXTENDS Integers, Sequences, FiniteSets

CONSTANTS
  Modes,         \* the configurations the runs look at
  ModuleBus,     \* the bus on which a feedback module is, if there are two
  RespondLimit,  \* 50 in thr_feedbackSelectrix
  QueueLimit,    \* bound: commands in a queue
  BufferLimit,   \* bound: bytes in the port's buffer
  MaxEvents      \* bound: commands enqueued, settings of the power, lost
                 \*   replies and reports of changes, together

Mode == [fb : Nat,        \* number_fb
         rths : BOOLEAN,  \* Rautenhaus_MODE
         dbl : BOOLEAN,   \* Rautenhaus_DBL: two buses
         auto : BOOLEAN,  \* Rautenhaus_FDBCK: changes are reported
         cc : BOOLEAN]    \* CC2000_MODE: can program decoders

ASSUME ModesAssumption ==
  \A m \in Modes : m \in Mode /\ ((m.dbl \/ m.auto) => m.rths)
ASSUME ModuleBusAssumption ==
  \A m \in Modes : m.dbl => \A n \in 1..m.fb : ModuleBus[n] \in {0, 1}
ASSUME LimitsAssumption ==
  {RespondLimit, QueueLimit, BufferLimit, MaxEvents} \subseteq Nat

VARIABLES
  mode,            \* the configuration, fixed
  state, cur,      \* stateInterface, currentFB
  flags,           \* SXflags: the bus chosen last (RTBS), the next byte's kind (ADR)
  power, changed,  \* buses[].power_state, power_changed
  setting,         \* a setPower between its two stores
  gl, ga, sm,      \* the queues: buses of GL and GA commands, number of SM ones
  bpc, did, todo,  \* bus thread: where it is, whether it did something this
  breg, prog,      \*   round, the command it sends, the flags it loaded, the
                   \*   steps of the programming left
  treg, resp,      \* timer thread: the state it read, respondtime
  hpc, hreg, hbyte,\* handler: where it is, flags it loaded, the byte it read
  wire, rx,        \* bytes the interface will send, bytes in the port's buffer
  sigio, armed,    \* a SIGIO is pending; rfds still holds the port
  selected, track, \* interface: the bus it works on, the power of the track
  events,          \* what MaxEvents bounds
  torn, stray      \* history, see RightBus and RightModule

busVars   == <<bpc, did, todo, breg, prog>>
timerVars == <<treg, resp>>
hndVars   == <<hpc, hreg, hbyte>>
queueVars == <<gl, ga, sm>>
powerVars == <<power, changed, setting>>
lineVars  == <<wire, rx, sigio, armed>>
devVars   == <<selected, track>>
history   == <<torn, stray>>
selectrixVars ==
  <<mode, state, cur, flags, powerVars, queueVars, busVars, timerVars, hndVars,
    lineVars, devVars, events, history>>

Modules == 1..mode.fb
Buses   == IF mode.dbl THEN {0, 1} ELSE {0}
BusOf(m) == IF mode.dbl THEN ModuleBus[m] ELSE 0
\* The timer asks for the modules, unless the interface reports by itself.
Polls == mode.fb > 0 /\ ~mode.auto

Byte == [kind : {"reply", "status", "address", "data"}, of : Nat, is : Nat]
NoByte == [kind |-> "status", of |-> 0, is |-> 0]
NoTask == [op |-> "none", bus |-> 0, arg |-> 0]
Flags == [rtbs : BOOLEAN, adr : BOOLEAN]
BusPcs == {"power", "select", "load", "store", "send", "configure",
           "told", "sm", "sm_ask", "sm_state", "sm_wait", "sm_read", "gl",
           "ga", "fb", "fb_state", "end", "suspended"}

\* Every variable keeps its type.
SelectrixTypeOK ==
  /\ mode \in Modes
  /\ state \in {0, 1, 2} \cup 10..15
  /\ cur \in 1..mode.fb \cup {IF mode.auto THEN mode.fb + 1 ELSE 1}
  /\ flags \in Flags
  /\ power \in BOOLEAN /\ changed \in BOOLEAN /\ setting \in BOOLEAN
  /\ gl \in Seq(Buses) /\ ga \in Seq(Buses) /\ sm \in Nat
  /\ bpc \in BusPcs /\ did \in BOOLEAN
  /\ todo \in [op : {"none", "power", "conf", "gl", "ga", "ask", "fb"},
              bus : Buses, arg : Nat]
  /\ breg \in Flags /\ prog \in Seq({10, 12, 14})
  /\ treg \in {-1, 0, 1, 2} \cup 10..15 /\ resp \in 0..RespondLimit
  /\ hpc \in {"idle", "load", "store", "read", "act"}
  /\ hreg \in Flags /\ hbyte \in Byte
  /\ wire \in Seq(Byte) /\ rx \in Seq(Byte)
  /\ sigio \in BOOLEAN /\ armed \in BOOLEAN
  /\ selected \in Buses /\ track \in BOOLEAN
  /\ events \in 0..MaxEvents
  /\ torn \in BOOLEAN /\ stray \in BOOLEAN

\* readconfig_Selectrix, init_bus_Selectrix; create_all_bus_threads sets the
\* power (here: off) once the threads run.
SelectrixInit ==
  /\ mode \in Modes
  /\ state = 0 /\ cur = 1
  /\ flags = [rtbs |-> FALSE, adr |-> mode.auto]
  /\ power = FALSE /\ changed = TRUE /\ setting = FALSE
  /\ gl = <<>> /\ ga = <<>> /\ sm = 0
  /\ bpc = "power" /\ did = FALSE /\ todo = NoTask
  /\ breg = [rtbs |-> FALSE, adr |-> FALSE] /\ prog = <<>>
  /\ treg = -1 /\ resp = 0
  /\ hpc = "idle" /\ hreg = [rtbs |-> FALSE, adr |-> FALSE] /\ hbyte = NoByte
  /\ wire = <<>> /\ rx = <<>> /\ sigio = FALSE /\ armed = TRUE
  /\ selected = 0 /\ track = FALSE
  /\ events = 0
  /\ torn = FALSE /\ stray = FALSE

Event == events < MaxEvents /\ events' = events + 1

-----------------------------------------------------------------------------
(* Waking the bus thread *)

\* Resume with a bug that CommandTaken has to show: no signal.
ResumeForgets == bpc' = bpc

\* resume_bus_thread: a signal, lost unless the thread is in the wait.
Resume == bpc' = IF bpc = "suspended" THEN "power" ELSE bpc
BusRest == <<did, todo, breg, prog>>

\* enqueueGL and enqueueGA put a command into the queue and resume the thread.
EnqueueGL(b) ==
  /\ Len(gl) < QueueLimit /\ Event
  /\ gl' = Append(gl, b) /\ Resume
  /\ UNCHANGED <<mode, state, cur, flags, powerVars, ga, sm, BusRest,
                 timerVars, hndVars, lineVars, devVars, history>>
EnqueueGA(b) ==
  /\ Len(ga) < QueueLimit /\ Event
  /\ ga' = Append(ga, b) /\ Resume
  /\ UNCHANGED <<mode, state, cur, flags, powerVars, gl, sm, BusRest,
                 timerVars, hndVars, lineVars, devVars, history>>

\* enqueueSM does not resume it.  The bus has the device group SM only with a
\* CC2000.
EnqueueSM ==
  /\ mode.cc /\ Event
  /\ sm' = sm + 1 /\ stray' = TRUE
  /\ UNCHANGED <<mode, state, cur, flags, powerVars, gl, ga, busVars,
                 timerVars, hndVars, lineVars, devVars, torn>>

\* setPower: the state, then the flag and the resume.
SetPowerState(on) ==
  /\ ~setting /\ Event
  /\ power' = on /\ setting' = TRUE
  /\ UNCHANGED <<mode, state, cur, flags, changed, queueVars, busVars,
                 timerVars, hndVars, lineVars, devVars, history>>
SetPowerFlag ==
  /\ setting
  /\ setting' = FALSE /\ changed' = TRUE /\ Resume
  /\ UNCHANGED <<mode, state, cur, flags, power, queueVars, BusRest, timerVars,
                 hndVars, lineVars, devVars, events, history>>

-----------------------------------------------------------------------------
(* The bus thread.  A command for the interface goes through selRautenhaus  *)
(* ("select", "load", "store") before it is sent.                           *)

SendTask(op, b, arg) ==
  todo' = [op |-> op, bus |-> b, arg |-> arg] /\ bpc' = "select"

\* A change of the power; the flag is reset when it has been told (BusTold).
BusPower ==
  /\ bpc = "power"
  /\ did' = changed
  /\ IF changed THEN SendTask("power", 0, IF power THEN 1 ELSE 0)
     ELSE bpc' = "sm" /\ UNCHANGED todo
  /\ UNCHANGED <<mode, state, cur, flags, powerVars, queueVars, breg, prog,
                 timerVars, hndVars, lineVars, devVars, events, history>>

\* selRautenhaus: the interface is told to work on the other bus ...
BusSelect ==
  /\ bpc = "select"
  /\ IF mode.dbl /\ (todo.bus = 1) # flags.rtbs
     THEN selected' = todo.bus /\ bpc' = "load"
     ELSE bpc' = "send" /\ UNCHANGED selected
  /\ UNCHANGED <<mode, state, cur, flags, powerVars, queueVars, BusRest,
                 timerVars, hndVars, lineVars, track, events, history>>

\* BusStore with a bug that RightBus has to show: the flag is not reset.
BusStoreKeeps ==
  /\ bpc = "store"
  /\ flags' = [breg EXCEPT !.rtbs = @ \/ todo.bus = 1]
  /\ torn' = (torn \/ flags # breg)
  /\ breg' = [rtbs |-> FALSE, adr |-> FALSE]
  /\ bpc' = "send"
  /\ UNCHANGED <<mode, state, cur, powerVars, queueVars, did, todo, prog,
                 timerVars, hndVars, lineVars, devVars, events, stray>>

\* ... and SXflags |= or &= ~ Rautenhaus_RTBS, a load and a store, to which
\* the handler's of the main thread can come between.
BusLoad ==
  /\ bpc = "load"
  /\ breg' = flags /\ bpc' = "store"
  /\ UNCHANGED <<mode, state, cur, flags, powerVars, queueVars, did, todo, prog,
                 timerVars, hndVars, lineVars, devVars, events, history>>
BusStore ==
  /\ bpc = "store"
  /\ flags' = [breg EXCEPT !.rtbs = todo.bus = 1]
  /\ torn' = (torn \/ flags # breg)
  /\ breg' = [rtbs |-> FALSE, adr |-> FALSE]
  /\ bpc' = "send"
  /\ UNCHANGED <<mode, state, cur, powerVars, queueVars, did, todo, prog,
                 timerVars, hndVars, lineVars, devVars, events, stray>>

\* The two bytes of the command are written to the port.
BusSend ==
  /\ bpc = "send"
  /\ todo' = NoTask
  /\ track' = IF todo.op = "power" THEN todo.arg = 1 ELSE track
  /\ selected' = IF todo.op = "conf" THEN 0 ELSE selected
  /\ wire' = CASE todo.op = "fb" ->
                    Append(wire, [kind |-> "reply", of |-> todo.arg, is |-> 0])
               [] todo.op = "ask" -> Append(wire, NoByte)
               [] OTHER -> wire
  /\ bpc' = CASE todo.op = "power" /\ todo.arg = 1 /\ mode.rths -> "configure"
              [] todo.op \in {"power", "conf"} -> "told"
              [] todo.op = "ask" -> "sm_state"
              [] todo.op = "gl" -> "ga"
              [] todo.op = "ga" -> "fb"
              [] OTHER -> "end"
  /\ UNCHANGED <<mode, state, cur, flags, powerVars, queueVars, did, breg, prog,
                 timerVars, hndVars, rx, sigio, armed, events, history>>

\* confRautenhaus keeps bus 1 selected if it is, and else clears the flag; it
\* writes the configuration, which selects a bus too.
BusConfigure ==
  /\ bpc = "configure"
  /\ IF mode.dbl /\ flags.rtbs
     THEN selected' = 1 /\ bpc' = "told" /\ UNCHANGED todo
     ELSE /\ todo' = [op |-> "conf", bus |-> 0, arg |-> 0] /\ bpc' = "load"
          /\ UNCHANGED selected
  /\ UNCHANGED <<mode, state, cur, flags, powerVars, queueVars, did, breg, prog,
                 timerVars, hndVars, lineVars, track, events, history>>

\* The clients have been told; power_changed = 0, whatever it is by now.
BusTold ==
  /\ bpc = "told"
  /\ changed' = FALSE /\ bpc' = "sm"
  /\ UNCHANGED <<mode, state, cur, flags, power, setting, queueVars, BusRest,
                 timerVars, hndVars, lineVars, devVars, events, history>>

\* A GL command, a GA command.
BusGL ==
  /\ bpc = "gl"
  /\ IF gl = <<>> THEN bpc' = "ga" /\ UNCHANGED <<gl, did, todo>>
     ELSE gl' = Tail(gl) /\ did' = TRUE /\ SendTask("gl", Head(gl), 0)
  /\ UNCHANGED <<mode, state, cur, flags, powerVars, ga, sm, breg, prog,
                 timerVars, hndVars, lineVars, devVars, events, history>>
BusGA ==
  /\ bpc = "ga"
  /\ IF ga = <<>> THEN bpc' = "fb" /\ UNCHANGED <<ga, did, todo>>
     ELSE ga' = Tail(ga) /\ did' = TRUE /\ SendTask("ga", Head(ga), 0)
  /\ UNCHANGED <<mode, state, cur, flags, powerVars, gl, sm, breg, prog,
                 timerVars, hndVars, lineVars, devVars, events, history>>

\* The module the timer thread has selected: its address is fetched, then
\* stateInterface = 2, then the command is sent.
BusFetch ==
  /\ bpc = "fb"
  /\ IF mode.fb > 0 /\ state = 1
     THEN /\ bpc' = "fb_state" /\ did' = TRUE
          /\ todo' = [op |-> "fb", bus |-> BusOf(cur), arg |-> cur]
     ELSE bpc' = "end" /\ UNCHANGED <<did, todo>>
  /\ UNCHANGED <<mode, state, cur, flags, powerVars, queueVars, breg, prog,
                 timerVars, hndVars, lineVars, devVars, events, history>>
BusAwaits ==
  /\ bpc = "fb_state"
  /\ state' = 2 /\ bpc' = "select"
  /\ UNCHANGED <<mode, cur, flags, powerVars, queueVars, BusRest, timerVars,
                 hndVars, lineVars, devVars, events, history>>

\* Nothing was done in this round: suspend_bus_thread, which waits without
\* looking at the queues again.
BusEnd ==
  /\ bpc = "end"
  /\ bpc' = IF did THEN "power" ELSE "suspended"
  /\ UNCHANGED <<mode, state, cur, flags, powerVars, queueVars, BusRest,
                 timerVars, hndVars, lineVars, devVars, events, history>>

-----------------------------------------------------------------------------
(* Programming (CC2000): only while the power is off.  Each step of it asks *)
(* for a register, sets stateInterface to 10, 12 or 14, waits until the     *)
(* handler has counted it up, and then reads the byte from the port.        *)

\* chkCC2000Ready asks twice; readSXDecoder reads two registers,
\* writeSXDecoder waits until the CC2000 is ready again.
Programs == {<<10, 10, 12, 12>>, <<10, 10, 14>>}

BusSM ==
  /\ bpc = "sm"
  /\ IF ~power /\ sm > 0
     THEN /\ sm' = sm - 1 /\ did' = TRUE /\ prog' \in Programs
          /\ bpc' = "sm_ask"
     ELSE bpc' = "gl" /\ UNCHANGED <<sm, did, prog>>
  /\ UNCHANGED <<mode, state, cur, flags, powerVars, gl, ga, todo, breg,
                 timerVars, hndVars, lineVars, devVars, events, history>>
BusAsk ==
  /\ bpc = "sm_ask" /\ SendTask("ask", 0, 0)
  /\ UNCHANGED <<mode, state, cur, flags, powerVars, queueVars, did, breg, prog,
                 timerVars, hndVars, lineVars, devVars, events, history>>
BusStep ==
  /\ bpc = "sm_state"
  /\ state' = Head(prog) /\ bpc' = "sm_wait"
  /\ UNCHANGED <<mode, cur, flags, powerVars, queueVars, BusRest, timerVars,
                 hndVars, lineVars, devVars, events, history>>

\* The loop has no other way out: its wait counter is not tested against it.
BusWait ==
  /\ bpc = "sm_wait" /\ state >= Head(prog) + 1
  /\ bpc' = "sm_read"
  /\ UNCHANGED <<mode, state, cur, flags, powerVars, queueVars, BusRest,
                 timerVars, hndVars, lineVars, devVars, events, history>>

\* readSXbus waits for a byte.  What it says decides how to go on: to the next
\* step, to the end, or once more to the last step of a write.  readSXDecoder
\* gives up without reading, and leaves the byte, if its count has run out.
BusRead ==
  /\ bpc = "sm_read"
  /\ \/ /\ rx # <<>> /\ rx' = Tail(rx)
        /\ prog' \in {Tail(prog), <<>>} \cup (IF Head(prog) = 14 THEN {prog} ELSE {})
     \/ Head(prog) = 12 /\ prog' = <<>> /\ UNCHANGED rx
  /\ bpc' = IF prog' = <<>> THEN "gl" ELSE "sm_ask"
  /\ UNCHANGED <<mode, state, cur, flags, powerVars, queueVars, did, todo, breg,
                 timerVars, hndVars, wire, sigio, armed, devVars, events,
                 history>>

thr_commandSelectrix ==
  \/ BusPower \/ BusSelect \/ BusLoad \/ BusStore \/ BusSend \/ BusConfigure
  \/ BusTold \/ BusSM \/ BusAsk \/ BusStep \/ BusWait \/ BusRead
  \/ BusGL \/ BusGA \/ BusFetch \/ BusAwaits \/ BusEnd

-----------------------------------------------------------------------------
(* The timer thread: looks at stateInterface, acts, sleeps. *)

TimerReads ==
  /\ Polls /\ treg = -1
  /\ treg' = state
  /\ UNCHANGED <<mode, state, cur, flags, powerVars, queueVars, busVars, resp,
                 hndVars, lineVars, devVars, events, history>>

\* The limit is long: it is only reached if nothing is under way that could
\* end the wait, or if the bus thread is programming.
UnderWay == \/ state = 1 /\ bpc # "suspended"
            \/ todo.op = "fb"
            \/ armed /\ (wire # <<>> \/ sigio \/ hpc \in {"load", "store", "act"}
                          \/ (hpc = "read" /\ rx # <<>>))
Overdue == prog # <<>> \/ ~UnderWay

\* TimerActs with a bug that PollingGoesOn has to show: no limit.
TimerActsWaits ==
  /\ treg # -1
  /\ treg' = -1
  /\ CASE treg = 0 ->
            /\ state' = 1 /\ resp' = 0 /\ Resume
            /\ UNCHANGED cur
       [] treg \in {1, 2} ->
            /\ resp' = resp
            /\ UNCHANGED <<state, cur, bpc>>
       [] OTHER ->
            /\ state' = 0 /\ cur' = 1 /\ resp' = 0
            /\ UNCHANGED bpc
  /\ UNCHANGED <<mode, flags, powerVars, queueVars, BusRest, hndVars, lineVars,
                 devVars, events, history>>

\* The next module is selected and the bus thread resumed; or its reply is
\* awaited, and given up after RespondLimit polls; any other state is undone.
\* (An address that is not configured is 255, which passes the test for
\* validity, max_address being 256: the timer has no further case.)
TimerActs ==
  /\ treg # -1
  /\ treg' = -1
  /\ CASE treg = 0 ->
            /\ state' = 1 /\ resp' = 0 /\ Resume
            /\ UNCHANGED cur
       [] treg \in {1, 2} /\ (~Overdue \/ resp < RespondLimit) ->
            /\ resp' = IF Overdue THEN resp + 1 ELSE resp
            /\ UNCHANGED <<state, cur, bpc>>
       [] OTHER ->
            /\ state' = 0 /\ cur' = 1 /\ resp' = 0
            /\ UNCHANGED bpc
  /\ UNCHANGED <<mode, flags, powerVars, queueVars, BusRest, hndVars, lineVars,
                 devVars, events, history>>

Timer == TimerReads \/ TimerActs

-----------------------------------------------------------------------------
(* The interface and the port *)

\* A byte arrives, and is dropped if the buffer is full; the port sends a SIGIO
\* (pending ones are not counted).  A half of a report that is dropped leaves
\* the other half behind.
Arrives ==
  /\ wire # <<>>
  /\ rx' = (IF Len(rx) < BufferLimit THEN Append(rx, Head(wire)) ELSE rx)
  /\ wire' = Tail(wire)
  /\ sigio' = TRUE
  /\ stray' = (stray \/ (mode.auto /\ Len(rx) >= BufferLimit))
  /\ UNCHANGED <<mode, state, cur, flags, powerVars, queueVars, busVars,
                 timerVars, hndVars, armed, devVars, events, torn>>

\* A module that was asked for does not answer.
Loses ==
  /\ wire # <<>> /\ Head(wire).kind = "reply" /\ Event
  /\ wire' = Tail(wire)
  /\ UNCHANGED <<mode, state, cur, flags, powerVars, queueVars, busVars,
                 timerVars, hndVars, rx, sigio, armed, devVars, history>>

\* In Rautenhaus mode changes on the SX bus are reported, an address and a
\* byte of data.  The address may be none of the feedback modules', and the
\* data may look like the address of one.
Reports(m, d) ==
  /\ mode.auto /\ Event
  /\ wire' = wire \o <<[kind |-> "address", of |-> m, is |-> m],
                       [kind |-> "data", of |-> m, is |-> d]>>
  /\ stray' = (stray \/ m = 0)
  /\ UNCHANGED <<mode, state, cur, flags, powerVars, queueVars, busVars,
                 timerVars, hndVars, rx, sigio, armed, devVars, torn>>

-----------------------------------------------------------------------------
(* The SIGIO handler, in the main thread *)

\* sigio_handler: select overwrites rfds, which loses the port if it has
\* nothing to read.
HandlerStarts ==
  /\ sigio /\ hpc = "idle"
  /\ sigio' = FALSE
  /\ armed' = (armed /\ rx # <<>>)
  /\ hpc' = IF armed' THEN "load" ELSE "idle"
  /\ UNCHANGED <<mode, state, cur, flags, powerVars, queueVars, busVars,
                 timerVars, hreg, hbyte, wire, rx, devVars, events, history>>

\* sig_processSelectrix: SXflags |= Connection, a load and a store.
HandlerLoads ==
  /\ hpc = "load"
  /\ hreg' = flags /\ hpc' = "store"
  /\ UNCHANGED <<mode, state, cur, flags, powerVars, queueVars, busVars,
                 timerVars, hbyte, lineVars, devVars, events, history>>
HandlerStores ==
  /\ hpc = "store"
  /\ flags' = hreg /\ torn' = (torn \/ flags # hreg)
  /\ hreg' = [rtbs |-> FALSE, adr |-> FALSE] /\ hpc' = "read"
  /\ UNCHANGED <<mode, state, cur, powerVars, queueVars, busVars, timerVars,
                 hbyte, lineVars, devVars, events, stray>>

\* readSXbus waits for a byte.
HandlerReads ==
  /\ hpc = "read" /\ rx # <<>>
  /\ hbyte' = Head(rx) /\ rx' = Tail(rx) /\ hpc' = "act"
  /\ UNCHANGED <<mode, state, cur, flags, powerVars, queueVars, busVars,
                 timerVars, hreg, wire, sigio, armed, devVars, events, history>>

\* TakeReply with a bug that SelectrixTypeOK has to show: one module too many.
TakeReplyPast ==
  /\ state = 2
  /\ cur' = IF cur > mode.fb THEN 1 ELSE cur + 1
  /\ state' = 0 /\ UNCHANGED flags

\* TakeReport with a bug that RightModule has to show: data are expected again.
TakeReportData ==
  /\ state \notin {2, 10, 12, 14} /\ mode.auto
  /\ IF flags.adr
     THEN /\ cur' = IF hbyte.is \in Modules THEN hbyte.is ELSE mode.fb + 1
          /\ flags' = [flags EXCEPT !.adr = hbyte.is \notin Modules]
     ELSE UNCHANGED <<cur, flags>>
  /\ UNCHANGED state

\* The reply of the module that was asked for: its contacts are set, and the
\* next module selected.
TakeReply ==
  /\ state = 2
  /\ cur' = IF cur >= mode.fb THEN 1 ELSE cur + 1
  /\ state' = 0 /\ UNCHANGED flags

\* An answer that the programming waits for.
CountStep ==
  /\ state \in {10, 12, 14}
  /\ state' = state + 1 /\ UNCHANGED <<cur, flags>>

\* A report: the address of a module, then its data; any other address is
\* skipped, and the next byte taken for an address again.
TakeReport ==
  /\ state \notin {2, 10, 12, 14} /\ mode.auto
  /\ IF flags.adr
     THEN /\ cur' = IF hbyte.is \in Modules THEN hbyte.is ELSE mode.fb + 1
          /\ flags' = [flags EXCEPT !.adr = hbyte.is \notin Modules]
     ELSE flags' = [flags EXCEPT !.adr = TRUE] /\ UNCHANGED cur
  /\ UNCHANGED state
Discard ==
  /\ state \notin {2, 10, 12, 14} /\ ~mode.auto
  /\ state' = 0 /\ cur' = 1 /\ UNCHANGED flags

HandlerActs ==
  /\ hpc = "act"
  /\ TakeReply \/ CountStep \/ TakeReport \/ Discard
  /\ hpc' = "idle" /\ hbyte' = NoByte
  /\ UNCHANGED <<mode, powerVars, queueVars, busVars, timerVars, hreg, lineVars,
                 devVars, events, history>>

Handler == HandlerStarts \/ HandlerLoads \/ HandlerStores \/ HandlerReads \/ HandlerActs

-----------------------------------------------------------------------------
SelectrixNext ==
  \/ \E b \in Buses : EnqueueGL(b) \/ EnqueueGA(b)
  \/ EnqueueSM
  \/ \E on \in BOOLEAN : SetPowerState(on)
  \/ SetPowerFlag
  \/ thr_commandSelectrix \/ Timer \/ Handler
  \/ Arrives \/ Loses
  \/ \E m \in Modules \cup {0}, d \in Modules \cup {0} : Reports(m, d)

\* The threads run on, the interface sends what it has to send; nobody must
\* enqueue a command, change the power or lose a reply.
Fairness ==
  /\ WF_selectrixVars(thr_commandSelectrix)
  /\ WF_selectrixVars(Timer) /\ WF_selectrixVars(Handler)
  /\ WF_selectrixVars(Arrives) /\ WF_selectrixVars(SetPowerFlag)

SelectrixSpec == SelectrixInit /\ [][SelectrixNext]_selectrixVars /\ Fairness

-----------------------------------------------------------------------------
(* Properties *)

\* Every command reaches the SX bus its address is on, although three places
\* keep and change the choice of the bus: unless an update of SXflags was torn.
RightBus ==
  [][bpc = "send" /\ bpc' # "send" /\ ~torn => selected = todo.bus]_selectrixVars

\* The contacts of a module are set from the byte that the interface sent for
\* this module, after a reply was lost and given up, too.  (Reports are out of
\* step once an address was not a module's or a byte was dropped, and the
\* answers the programming waits for are taken for contacts: stray.)
RightModule ==
  [][hpc = "act" /\ hpc' = "idle" /\ ~torn /\ ~stray =>
       /\ state = 2 => hbyte.of = cur
       /\ mode.auto /\ state = 0 /\ ~flags.adr
            => hbyte.kind = "data" /\ hbyte.of = cur]_selectrixVars

\* A command in a queue is taken, whatever wake-ups are lost, because the timer
\* thread resumes the bus thread again and again: if there are modules to read,
\* and if the bus thread does not begin to program.
CommandTaken ==
  /\ (Polls /\ gl # <<>>) ~> (gl = <<>> \/ prog # <<>>)
  /\ (Polls /\ ga # <<>>) ~> (ga = <<>> \/ prog # <<>>)

\* The polling of the modules never stops, although replies, SIGIOs and
\* wake-ups are lost; unless the bus thread has begun to program.
PollingGoesOn ==
  []<>(Polls => prog # <<>> \/ ~armed \/ (hpc = "act" /\ state = 2))
=============================================================================
