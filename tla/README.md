# srcpd in TLA+

A formal model of `srcpd`, the SRCP server for digital model railways
(the repository `srcpd-classic`): TLA+ modules translated from the
sources in `src/src/`, TLC configurations that check them on small instances,
and proofs, checked by TLAPS, for every value of the constants.

Paths below are those of the repository: `srcp-gl.c` is `src/src/srcp-gl.c`.
`PROJECT.json` lists, for every definition that models code, the lines it
stands for.

## 1. The system

A `srcpd` process serves one or more *buses* (interfaces to a railway) to any
number of TCP clients. It is a set of POSIX threads over global arrays:

| thread | code | what it does |
| --- | --- | --- |
| main | `srcpd.c` 350-371 | sleeps 100 ms at a time; in each tenth turn counts the locks down (`unlock_gl_bytime`, `unlock_ga_bytime`) and runs the watchdog; ends everything on a signal or TERM SERVER |
| netservice | `netservice.c` | accepts connections; a node in `session_list` and a thread for each |
| client, one per connection | `clientservice.c`, `srcp-command.c`, `srcp-info.c` | handshake, then either a COMMAND session (reads commands, calls the device groups) or an INFO session (sends the state of all devices, then every change) |
| bus, one per bus | the drivers; `loopback.c` is the one without hardware | takes commands from the queues of its bus, carries them out, updates the device cache |
| time | `srcp-time.c` | advances the model clock |
| refresh, one per DDL bus | `ddl.c` | sends the packets to the track |
| timer, one per Selectrix bus | `selectrix.c` 883-949 | asks for one feedback module after the other |

The Selectrix driver also has a SIGIO handler, which runs in the main thread
and takes the bytes the interface sends.

### Inventory

**Command queues** (`srcp-gl.c`, `srcp-ga.c`, `srcp-sm.c`: three copies).
*State*: per bus a ring `queue[]`, cursors `in`, `out`, a mutex. *Operations*:
`enqueue*` by client threads, `dequeueNext*`, `queue_*_isempty` by the bus
thread. *Hard*: the test for a full queue is outside the mutex, the reader
takes no mutex. *Correct when*: first in, first out; nothing lost, torn or
starved.

**Locomotives, GL** (`srcp-gl.c`). *State*: per address a record (state,
speed, direction, functions); **one** lock per bus (`locked_by`,
`lockduration` in the `GL` structure, not in the address record).
*Operations*: SET, GET, INIT, TERM, LOCK, `cacheSetGL` by the bus thread,
`unlock_gl_bytime`, `unlock_gl_bysessionid`. *Hard*: no mutex but the queue's;
every look at the cache can be stale when it is acted on; INIT and TERM
enqueue commands themselves. *Correct when*: the cache is what the decoder was
told; a lock belongs to its holder for its time, and to nobody who is gone.

**Accessories, GA** (`srcp-ga.c`). *State*: per address protocol, ports, lock.
*Operations*: as for GL; `termGA` clears the whole record. *Hard*: as for GL;
and pulses, an accessory that is switched on for a time must be switched off.

**Service mode, SM** (`srcp-sm.c`, `session_*wait` in `srcp-session.c`).
*State*: a queue of two slots, `cb_mutex`, `cb_cond`, one `cb_data` per bus.
*Operations*: `infoSM` enqueues and sleeps up to 90 s; the bus thread answers
by `session_endwait`. *Hard*: a condition variable without predicate, one
result for all sessions. *Correct when*: no wake-up is lost, a session gets
its own answer.

**Feedback, FB** (`srcp-fb.c`). *State*: per contact `state` and `change`, a
queue of delayed resets per bus. *Operations*: `updateFB` (bus thread, SET
FB), `check_reset_fb` (bus thread, each turn). *Hard*: an impulse against a
pending reset; the producer of the queue is also its only consumer. *Correct
when*: an open contact reads 0 in the end, a closed one 1, INFO agrees with GET.

**Sessions and INFO** (`srcp-session.c`, `clientservice.c`, `srcp-info.c`).
*State*: `session_list` under `session_list_mutex`, `runningsessions`, a pipe
per INFO session. *Operations*: create, register, destroy a session; write a
message into every pipe; terminate all. *Hard*: a write into a full pipe blocks
with the mutex held and is a cancellation point; sessions end while others
walk the list; a client joins while devices change. *Correct when*: no change is
lost to an INFO client, nobody blocks for ever, the shutdown ends after all sessions.

**Clock, WAIT** (`srcp-time.c`, `handleWAIT`). *State*: the model time under
`time_value_mutex`, its ratio under `time_distort_mutex`, the clock's thread.
*Operations*: SET, INIT, TERM, WAIT TIME; WAIT FB; the clock's turn; the end and the
new start of the clock's thread at a SIGHUP. *Hard*: SET TIME between the
clock's reading and its writing; WAIT for a time that another session moves; a
thread cancelled while it waits for a condition. *Correct when*: the time moves by
seconds, a WAIT ends and is answered for what it waited for.

**Power** (`srcp-power.c`). *State*: `power_state`, `power_changed`. *Hard*: with
the power off the bus thread takes nothing from its queues.

**Server, bus threads** (`srcp-server.c`, `srcpd.c`, `config-srcpd.c`). *State*:
`server_state`, per bus a thread id, a suspend flag with its condition, the
watchdog counter. *Hard*: a resume that comes before the suspend; a restart of
a thread whose cleanup has run; SIGHUP while sessions end.

**Command parser** (`srcp-command.c`, `srcp-error.c`, `srcp-descr.c`). No state
of its own; its handlers read the lock, decide, and call the device group.

**DDL driver** (`ddl.c`, `ddl_maerklin.c`, `ddl_nmra.c`), which makes the track
signal itself. *State*: a ring of packets (`QData`), the last packets of every
locomotive (two packet pools with their lists of addresses), the cursor of the
refresh, the lines of the interface, the power. *Operations*: the bus thread
takes commands, computes packets, updates the pool, fills the ring; the refresh
thread sends what is in the ring, repeats the pool when there is nothing, and
waits while the power is off; detached threads switch accessories off after a
delay. *Hard*: the refresh reads the pools without their mutexes, the ring is not
tested for room, what is left in the output buffer is discarded now and then, `power_changed` is reset after the state was read, the detached
threads work on a local variable of the bus thread. *Correct when*: the latest
command is the last a decoder gets, nothing is sent without power, the booster
follows the power, a pulse ends.

**DDL packets** (`ddl_nmra.c`, `ddl_maerklin.c`). *State*: the last packets and
settings of each locomotive, the translation under way, the decoder on the
programming track as far as its acknowledgments tell. *Operations*: compute the
packets of a command, translate an NMRA bit stream into bytes of a UART (three
algorithms), program a decoder. *Hard*: the bits of a serial line cannot be
chosen freely, so the translation has to search; one Maerklin packet carries
only a part of a command, the refresh has to bring the rest. *Correct when*: the
decoder understands the command, whichever way it went.

**Selectrix driver** (`selectrix.c`, `suspend_bus_thread` and `resume_bus_thread` of
`config-srcpd.c`). *State*: what the interface is asked for (`stateInterface`,
`currentFB`), the choice of the SX bus (`SXflags`), the suspend flag. *Operations*:
the bus thread sends commands, programs decoders and asks for modules; the timer
thread gives it the next turn or gives up a reply; the SIGIO handler takes a byte.
*Hard*: three threads over the same variables without a mutex; lost replies, lost
signals, a resume that comes before the suspend. *Correct when*: a command reaches
its bus, a byte its module, and neither commands nor the polling stand still.

**Intellibox driver** (`ib.c`). *State*: the power the server knows and whether the
box or the server switched it off (`emergency_on_ib`), what the last programming
command was (`last_type`, `last_value`), whether the programming track is on.
*Operations*: the bus thread tells the box the power, sends commands for locomotives
and the programming track, and asks it what has happened (`check_status_IB`). *Hard*: the
box has a will of its own, people drive and switch at it, and its events come later than
they happen; its answers to programming come some turns later. *Correct when*: clients
and box agree in the end, a stop at the box is not undone, a session gets its own
answer.

**Drivers with other hardware** (`ddl-s88.c`, `li100.c`, `loconet.c`,
`zimo.c`, `hsi-88.c`, `m605x.c`, `i2c-dev.c`, `dccar.c`). State per interface and
serial protocols.

**Helpers** (`io.c`, `syslogmessage.c`). Lines in and out.

### How they interact

Clients reach a device group through `srcp-command.c`; the device group puts a
command into the queue of the bus; the bus thread carries it out, calls back
`cacheSetGL`, `setGA`, `setSM`, `updateFB`, and each of these announces the change
through `enqueueInfoMessage`, which writes into the pipes of all INFO sessions
under `session_list_mutex`. Ending sessions release their locks in all device
groups. The main thread changes the same lock records once per second.

## 2. Modules

| module | models | composed of |
| --- | --- | --- |
| `CommandFifo` | abstract: what `PROGRAMMING-HOWTO` section 8 promises of a queue | |
| `CommandQueue` | the ring buffer, at the grain of single accesses | refines `CommandFifo` |
| `Locomotives` | GL cache, lock, bus thread, main thread, sessions | uses the queue as the sequence `CommandQueue` shows it to be |
| `AccessoryLocks` | locks and initialisation of GA, main thread, sessions | |
| `Accessories` | GA queue, switching and pulses, power, the loopback bus thread | uses the queue as `Locomotives` does |
| `ServiceMode` | `infoSM` against the bus thread | queue as a sequence, justified by `NoOverrun` |
| `Intellibox` | the Intellibox driver: power, locomotives, events, programming | an instance of `ServiceMode` for the sessions |
| `ServiceDrivers` | SM with either driver | extends `ServiceMode`, an instance of `Intellibox` over the same variables |
| `Feedback` | `updateFB`, delayed resets, bus thread, SET FB | |
| `Sessions` | client threads, INFO pipes, shutdown | |
| `DDL` | the DDL driver: bus thread, refresh thread, ring, pools, power, delayed resets | takes commands one by one, as `CommandQueue` delivers them |
| `Clock` | model clock, SET/INIT/TERM/WAIT TIME, WAIT FB, SIGHUP | |
| `Selectrix` | bus thread, timer thread and SIGIO handler of the Selectrix driver; suspend and resume | |
| `Nmra` | the bit streams of NMRA packets and the tables of the translation, no state | |
| `NmraDecoder` | what a decoder reads from the bytes on the line (not a part of srcpd) | |
| `NmraPackets` | one NMRA command: bit streams, translation, programming | extends `Nmra` and `NmraDecoder` |
| `Maerklin` | Maerklin commands: packets, pool, refresh, decoders | |
| `DDLPackets` | the choice of the protocol | instances of `NmraPackets` and `Maerklin`; a second specification, `PacketsSpec`, beside that of `DDL` |
| `MC...` | instances for TLC | |
| `Server_proofs` | theorems | extends `CommandQueue` and `Sessions` |
| `Feedback_proofs` | theorems | extends `Feedback` and `Selectrix` |
| `AccessoryLocks_proofs`, `Accessories_proofs`, `Locomotives_proofs`, `Clock_proofs`, `ServiceDrivers_proofs` | theorems | each extends its module |
| `DDL_proofs` | theorems | extends `DDL` and `DDLPackets` |

### Conventions

* One action is one access to the shared state together with the decision
  taken on it (under a mutex: what the mutex makes atomic is still split where
  other threads read without it). A thread's place in its function is `pc`,
  its local copies are in `th` (`th[s].job`, `.addr`, `.msg`): they can be
  stale when the thread acts, as in the code.
* History variables (`clash`, `overrun`, `unstopped`, `forgotten`, `mixed`, `own`, `asked`, `age`,
  `reported`, `informed`, `dangling`, `told`, `powerTold`, `full`, `owed`, `missed`,
  `timed`; in `Clock` `overtaken`, `disturbed`, `hit`; in `Selectrix` `torn`, `stray`; in
  `Maerklin` `wanted`, `switched`; in `Intellibox` `asked`, `missed`, `sure`, `blurred`) observe and never guard an action.
* Bounds are constants named `Max...` and appear in guards
  (`left > 0`); nothing else limits what clients do.
* A definition with the comment "X with a bug that P has to show" is not part
  of the model: it is X with a plausible fault (a dropped guard, an off-by-one,
  a missing wake-up), kept to show that P fails when the code is wrong that way.

### Module by module

**CommandQueue.** `Call`, `TestFull`, `LockQueue`, `WriteSlot`, `Publish`,
`UnlockQueue` are `enqueueGL` 103-165 in order; `TestEmpty`, `CopySlot`,
`Consume` are `dequeueNextGL` 186-197. The increment of a cursor and its wrap
to 0 are one step: in between it reads as `QUEUELEN`, which compares with the
other cursor as 0 does. A command is a model value.

**Locomotives.** `SetGL`, `HandleInit`, `HandleTerm`, `SetLock`, `TermLock`, `Quit`
are the handlers up to the decision on `lockid`; the other session actions are
the steps of `enqueueGL` (`EnqueueGL` asks for the record, `PutGL` for room,
`WriteGL` writes under the mutex; `InitStop`, `OwedStop`, `WriteStop` are the same
call out of `cacheInitGL`), `cacheTermGL`, `cacheLockGL`,
`cacheUnlockGL`, `unlock_gl_bysessionid`. `TestGL`, `CopyGL` and `HandleGLCommand` are
`dequeueNextGL` of the bus thread, the last one with the decoder, `CacheSetGL` the cache.
The queue is a sequence, the slots from `out` to `in`, and behaves as the ring does:
the test for room is outside the mutex, so that two sessions can pass it together, and the write that
makes the cursors equal loses what was waiting (`PutCommand`). `unstopped` is history: the
addresses whose INIT had its stop refused or lost that way. Details kept because they matter:
`cacheGetLockGL` does not set `lockid` for an uninitialised address (TERM then
decides on an indeterminate value, `LockId`); a SET for an unknown address
runs a default INIT first, if the bus can (`DefaultInit`), and that INIT
enqueues a stop whose refusal is ignored, and can nest if the record is
terminated meanwhile (`stops`). Speed is 0 or 1; functions, protocol and speed
steps are left out. State 2 ("terminating") is only ever set in a local copy.

**AccessoryLocks.** The same for GA, where each address has its own lock and the
lock functions do not ask for initialisation. `TermGA`/`ClearGA` are `termGA`,
`ReadDuration`/`StoreDuration`/`ReleaseByTime` are `unlock_ga_bytime`, whose
decrement goes below 0 (read as -1 here: only the sign and the step 1 -> 0 are
looked at).

**Accessories.** `TestPower` to `StorePulse` are one turn of
`thr_sendrec_LOOPBACK` (434-530): `handle_power_command` resets the flag before it
reads the state, `Gate` is the shortcut without power together with the one
`gettimeofday` of the loop over `tga[]` (`due`), `EndPulse`, `SwitchOff`, `InfoOff` are
that loop with `setGA` and `infoGA`, `TakeGA` to `StorePulse` are
`handle_ga_command`. The GL and SM parts of the turn touch none of this and are in
the modules of their groups. A session's part is cut where the code changes two
things one after the other: `setPower` (state, flag), `initGA` (protocol, action),
`termGA` (test, `memset`). As in the code a command for an address that is not
initialised is queued, refused by `setGA`, and its pulse is stored all the same;
a command for a full queue is refused, or overruns it (`EnqueueGA`); and there is one `action` for all ports of an address. `told` is the last INFO 100
of a port since its record was cleared, `full` that a pulse once found no entry.

**ServiceMode.** `Lock` to `Unlock` are `infoSM` with `session_lock_wait`,
`enqueueSM`, `session_condt_wait`, `session_unlock_wait`; `Take` to `UnlockBus`
are the bus thread's `dequeueNextSM`, `session_lock_wait`,
`handle_sm_command`, `session_endwait`. `Wake` is the time-out or a spurious
wake-up of `pthread_cond_timedwait`; as in the code nothing is re-tested.

**Intellibox, ServiceDrivers.** `BusPower` to `Announce` are the first part of a turn of
`thr_sendrec_IB` with `send_command_power_IB`, `SendGL` and `SendFunctions` are
`send_command_gl_IB`, `Poll` to `CheckPT` are `check_status_IB` with what it calls, `SendSM` is
`send_command_sm_IB`. `ret` is where the thread goes after `check_status_IB`, which it
calls from three places. `setPower` of a session is cut between its two stores. The other
side is the box: `SwitchesOff`, `SwitchesOn`, `Drives`, `Programmed` change what it does and
leave an event, which `Poll` reads and clears; switching its power on may be refused. A
locomotive is the part the box reports (`drive`) and the functions it does not (`high`). The
sessions' side of programming is `ServiceMode`'s, without the bus thread's `LockBus`:
`EndWait` frees whoever's mutex it is. After a command for a terminated locomotive the
thread may be at `"crashed"`. `ServiceDrivers` joins the two drivers: a behavior is
about one of them (`driver`), the waiting sessions are the same.

**Feedback.** `Report` is the entry of `updateFB` with its comparison, `Fall`,
`Change`, `Rise`, `Set`, `Info`, `Send` its branches; `WaitForRoom` and `Enqueue` are
`queue_reset_fb`, which looks for room before it takes its mutex. `TestNext` to `Reset`
are one turn of the loop of `check_reset_fb`: `getNextFB` (test and copy), the decision on the copy
(`Look`), `unqueueNextFB`, and what is done to the port. The queue is the ring from `out` to `in`
as in `Locomotives`: two threads that find the last slot free together make it read as
empty, and all resets in it are lost, unless the bus thread is just moving its cursor on. `forgotten` is history: the ports whose reset was lost that way and
that queued none since. The contacts and the clock are the environment.

**Sessions.** The client thread from `Connect` to `EndClient`, `ClosePipe`,
`Destroy`; `ReadHead`, `LockList`, `Visit`, `Write` are
`session_enqueue_info_message`, whose first look at the list is outside the
mutex; `Shutdown`, `JoinBus`, `TestSessions`, `CancelSessions`, `WaitSessions`,
`WakeMain` are `cancel_all_threads`. Cancellation is deferred: `cancelled`
holds the pending ones, `Die` lets one act at a cancellation point. Session ids
are reduced to "registered or not", `runningsessions` to the length of the list. The names `SessionsInit`,
`SessionsNext` and so on keep clear of those of `CommandQueue`, beside which `Server_proofs` extends it.

**DDL.** `TakeGL` to `ShowGL` are the GL part of `thr_sendrec_DDL` with
`comp_maerklin_2` or `comp_nmra_multi_func`, `update_*PacketPool` (the `memcpy`
begins and ends: `BeginCopy`, `EndCopy`), `queue_add`, `cacheSetGL`; `TakeGA` to
`SwitchOff` the GA part; `WakeReset`, `SendReset` are `thr_delayedGAResetCmd`. The
refresh thread is `power_is_off` (`Alarm` to `Gate`), called from three places
(`ret`), and `TestEmpty` to `NotDue`, the rest of `thr_refresh_cycle`. `send_packet` waits
until the output buffer is empty. A packet for a Maerklin decoder is out when it returns; one for an
NMRA decoder is left in the buffer (`uart`), until it goes out (`Drain`) or is discarded by
`tcflush` (`Discard`): when the power goes off, on Maerklin's turn of the refresh, and before
the first packet taken from the ring. In the buffer only what is news to the decoder is followed. The bits of
a packet are abstracted to the part of the locomotive they set (speed, or a group
of functions) and its value. As in the code, a Maerklin command queues only the
first function packet that changed, or else the speed packet, and leaves the rest
to the refresh; `owed` records what was not queued, or was lost in an overrun of the ring or with the
output buffer, unless a newer packet of the same part is on its way. The memory of a
record that was never written is `"raw"` and may compare either way.

**Clock.** `ClockStarts` to `ClockInfo` are `thr_clock` (242-342): it reads the time
(`ClockReads`), sleeps, and writes back what it read plus one second (`ClockWrites`, with the
carries in `Tick`). `SetTime`, `InitTime`, `TermTime` with their announcements are the commands;
`CallWait` to `WaitReturns` is WAIT TIME, which reads the time anew for its answer,
`CallWaitFB` to `WaitFBReturns` WAIT FB, which polls 20 times a second. `CancelClock`,
`CancelSessions`, `Recreate` are a SIGHUP: the clock's thread is cancelled where it can be, in
its sleep or in `pthread_cond_wait`; there it takes the mutex again and dies with it
(`distortMutex`).

**Selectrix.** `BusPower` to `BusRead` are one turn of `thr_commandSelectrix` with
`selRautenhaus`, `confRautenhaus`, `writeSXbus` and the programming of a decoder with a CC2000; `TimerReads`,
`TimerActs` are a turn of `thr_feedbackSelectrix`, `HandlerStarts` to `HandlerActs` are
`sigio_handler` with `sig_processSelectrix` and `readSXbus`; `Resume` is `resume_bus_thread`, which does nothing to a thread
that is not suspended yet. `BusRead` is also the end of `readSXDecoder` without a byte, when its own wait
ran out. `SXflags |= ...` is a load and a store. The interface is the
environment: it answers (`Arrives`), loses an answer (`Loses`), or reports a change
(`Reports`). A byte is what it is about and the module whose address it looks like; addresses
are reduced to their bus, speeds and contacts are left out. The names `SelectrixInit`, `SelectrixNext`,
`SelectrixSpec` and `SelectrixTypeOK` let one proof module extend `Feedback` and `Selectrix`.

**Nmra, NmraPackets.** `Encode` computes the bit streams of a command: address, speed in
28 or 128 steps, functions in their groups, accessory, programming on the main. `Translate` is one
turn of the loop of `translateBitstream2Packetstream_v1`, `_v2` or `_v3`: choose a byte whose
levels fit the bits that come next; take a choice back if nothing fits. `Queue` hands the packets
over; `Exchange` and `Transmit` are the service mode, with the packets of direct, paged and
register mode, and the bit by bit search. A bit stream is a sequence of bits, since what the
translation does depends on each of them; it is the one place in the project where data is spelled out.
`NmraDecoder` is written from the standard's side: it reads half waves from the bytes on the
line and knows nothing of how they were made. `Reacts` is a decoder on the programming track.
In `tr`, the translation under way, `at` is history: where in the bit buffer each byte begins.

**Maerklin.** `SetGL` is `comp_maerklin_1`, `_2` or `_4` for the kind of the locomotive, or
the first half of `_5`, whose second packet comes after a sleep (`SecondStep`); each computes
all five packets, puts them into the pool and queues one. `SwitchGA` is
`comp_maerklin_ms`. `SendQueued`, `refresh_loco` are what the refresh thread sends. What the
pool held before a locomotive was known is not initialised: 0 or 1. A speed that the code
refuses (above 15, or 28) can only come from a client that names 0 as the highest speed, for
`calcspeed` then scales nothing; such commands are left out, those it takes are not (`SpeedSteps`).

**DDLPackets.** `thr_sendrec_DDL`'s `switch` on the protocol. The ring, the threads and the
power are in `DDL`, which in turn knows of a packet only which part of a locomotive it sets.
What is defined here has names of its own (`PacketsInit`, `PacketsTypeOK`), so that one proof
module can extend `DDL` and `DDLPackets`.

## 3. What TLC checks

| run | question | result |
| --- | --- | --- |
| `queue` | is the ring a FIFO until it is overrun, is a read ever torn, is everything delivered? | hold, 58 697 states |
| `loco` | does the cache agree with the decoders once all is carried out; is a lock taken over; how long does it last? | hold, 374 689 states |
| `acc` | for GA, where each address has its lock: is a lock taken over, how long does it last, does it end, does one who is gone hold one? | hold, 185 956 states |
| `ga` | does a pulse that was told have its end kept, and end; do the clients know the power? | hold, 281 992 states |
| `sm` | does a session alone get its own answer, and each call of the loopback driver one; does the Intellibox stay stopped when somebody stops it, do clients and box agree in the end? | hold, 538 283 states |
| `fb` | does INFO agree with GET, does OFF arrive? | hold, 404 368 states |
| `sessions` | is an INFO client complete whenever it joins, does every announcement return, does the shutdown wait for all and end? | hold, 255 085 states |
| `ddl` | is the latest command the last a decoder gets, and does it get it; is anything sent without power; does the booster follow it? | hold, 864 619 states |
| `ddl_reset` | is an accessory that was switched on for a time switched off again? | no: the delayed reset acts on what a later command left in `gatmp` |
| `clock` | does the time move by seconds; is WAIT answered for what it waited for; does every WAIT end? | hold, 174 320 states |
| `selectrix` | does a command reach its SX bus and a byte its module; are commands taken and modules polled whatever is lost? | hold, 276 294 states |
| `packets` | does a decoder understand every packet, with each translation; does programming do what it says; do Maerklin locomotives end up as told; do packets and pool say what was meant? | hold, 127 018 states |

### The properties

Those marked (T) are in no run: they are theorems, for every value of the constants.

* `QueueBound` (T) - with *n* sessions, the waiting and admitted commands exceed the
  usable slots by at most *n* - 1. `FifoUntilOverrun` - every step of the ring
  is a step of `CommandFifo` or changes nothing, or overruns. `CopyUndisturbed`,
  `SlotWritten` (T) - the unlocked reader and the locked writers do not meet, nor do
  two writers. `Delivered` - liveness.
* `CacheMatchesTrack` - in a quiet state, for every initialised address, the
  speed clients see is the speed the decoder was told, except when the stop of
  an INIT was refused by a full queue, or lost when two sessions overran it, and no command was
  carried out for that address since (`unstopped`). `NoTakeover` - a lock passes from one
  session to another only over "free", unless two threads met between a look
  and a change (`clash`; the source comment admits that race).
  `LockLastsAShare` - at least an *N*-th of the seconds asked for: the one lock of
  the bus is counted down once per address in each second.
* `GoneHoldsNoLock`, `KeepsLock`, `LockTime`, `LockEnds` for GA.
* `PulseIsKept` - a port that was told on for a time has an entry in `tga[]`,
  whatever is switched, initialised or terminated against the bus thread;
  `PulseEnds` - it is told off again, or its record is cleared. Both except a table
  that was full once (the code forgets the pulse), `PulseEnds` also the power going
  off (the loop over the pulses stands still then). `PowerIsTold` - when no
  session is in `setPower` and the bus thread has nothing to announce, what was
  announced is what is. `NothingWithoutPower` (T) - what was begun before the power
  went off is over when that is announced.
* Service mode: `OwnAnswer` - a session that had the track for itself during its call
  gets the result of its own command, though a late answer may meet its next call.
  The same for both drivers. `LoopbackReturns` - every call returns, without the time-out; not
  so with the Intellibox, see section 5. `NoOverrun` (T),
  `NoLostWakeup` (T) - a sleeper has its command still before it.
* Intellibox: `StopHolds` - the bus thread switches the box on only if a client has asked for that
  since it was last told, or if the stop is still among the events it has not asked for: the
  setPower calls of the driver itself never undo a stop. `BoxAgrees` - in the end the power and the
  locomotive are, at the clients, what they are at the box, whoever changed them last; except after a
  SET POWER that was lost (`missed`), where the cache cannot know (`sure`: a record that was just
  initialised or that a client's command passed while it was terminated), for the functions the box does
  not report (`blurred`), and after a crash.
* Feedback: `InfoIsState` - on a port no two threads were active on at once, the last
  INFO message says what GET says. `ResetWaits` (T) - a port that reads 1 over an open
  contact has its reset queued, unless an overrun lost it and it was not reported open since
  (`forgotten`). `OffArrives` - liveness. It makes an exception for those ports, and for
  a thread that waits for room in the full reset queue: if it is the bus thread it waits for itself. That is a
  real state of the code, reached when resets of other contacts fill the queue.
* `InfoIsComplete`, `EndsAfterAll`, `EnqueueReturns`, `ShutdownOfRegistered` for
  sessions. `EnqueueReturns` and `ShutdownOfRegistered` except `Orphaned`: a
  thread cancelled in a pipe write dies with `session_list_mutex` locked.
  `InfoIsComplete` claims nothing after a thread used a freed node (`dangling`).

* `SentInOrder` - when the ring is drained and the bus thread is between two
  commands, each decoder has what clients see, in every part that was queued
  since it changed, and whose packet was not lost (`owed`): a refresh that overtook the ring, or read a packet in the
  middle of its `memcpy`, or an older packet in the output buffer, never has the last word. `LocosArrive` - if the power
  stays on, all parts arrive in the end and stay, also after an overrun or a discarded packet; except for address
  81, which the list of addresses confuses with its idle entry.
  `SilentWithoutPower` - once "off" was announced the refresh thread stays inside
  `power_is_off`. `LinesFollowPower` - the booster is on exactly when the power is,
  except when the power was set while the thread was setting the lines (`missed`):
  the flag is then reset though the new state was not acted on.
  `PulsesEnd` fails, see section 5.

* `MovesBySeconds` - the time moves by single seconds or by SET TIME, except once
  after a SET TIME between the clock's reading and its writing, which is lost
  (`overtaken`). `LateAnswer` - a WAIT TIME is answered with a later time than it
  waited for, although the time is read anew after the test; unless a SET TIME came
  in between (`disturbed`). `HonestWaitFB` (T) - WAIT FB is answered with the value only
  if it was seen, with a timeout only if no poll but the last saw it (the last one is
  not looked at in the code). `WaitEnds` - each WAIT FB ends; each WAIT TIME, if the clock is left running.
* `RightBus` - every command reaches the SX bus its address is on, unless an update
  of `SXflags` was torn. `RightModule` - the contacts of a module are set from the byte
  that was sent for it, also after a reply was given up. `CommandTaken` - a command is
  taken whatever wake-ups are lost: the timer thread resumes the bus thread again and
  again, so this is claimed only when there are modules to read. `PollingGoesOn` - the
  polling never stops, although replies and signals are lost. The last two make an exception
  for a bus thread that programs: it waits for the interface for ever.
* `Understood` - `NmraDecoder` reads from the bytes what the command says: address,
  direction, step, each function, coil, CV; whichever version translated it; at least
  50 ones between two packets to one address. Only version 1 may give up a command, and
  then wholly. On a decoder that reacts as the standard says, SET, GET and
  VERIFY of a CV, a bit, a register or a paged CV do and return what they say (`ProgramsRight`),
  and what programs fits into its buffer (`StreamFits`). `PacketsSay` - while a stream is translated
  the bytes found stand for its bits, each once and in order, whatever was taken back (`Spelled`);
  the orders for accessories keep their order (`CoilsFollow`); whichever packet of the pool is
  refreshed, its decoder takes from it what was said last and nothing else (`PoolSays`).
  `TranslationEnds` - liveness of a search that takes choices back. `PacketsTypeOK` has the
  sizes of packets and stack (`PacketsFit`) and the packets that programming needs (`AllThere`). `InStepComes` - when commands stop, every Maerklin locomotive does
  what the last one said, in speed, half steps, direction and functions; with the
  exceptions of `InStep`, which section 5 lists.

### Bounds

| run | bound | why it is enough |
| --- | --- | --- |
| `queue` | 2 sessions, `QUEUELEN` 3, 2 commands, no limit on calls | full, empty, wrapped and overrun rings all occur; the proofs cover the rest |
| `loco` | 2 sessions, 2 addresses, `QUEUELEN` 3, durations 0 and 2, 3 commands | each two commands of one session against one of the other; an INIT takes one of the two usable slots, and two commands that find the other one free together overrun the ring; a lock counted down twice per second. Ends of sessions count as commands |
| `acc` | 2 sessions, 2 addresses, durations 0 and 2, 3 commands | a walk over the addresses against a lock or TERM of the other session; the theorems cover the rest |
| `ga` | 2 sessions, 1 address with 2 ports, a table of 2 pulses, active times 0 and 1, `QUEUELEN` 3, 4 commands | INIT and three pulses fill the table; ports disturb each other through the one action; the theorems cover the rest |
| `sm` | loopback: 2 sessions, the real `QUEUELEN` 2, values 0 and 1, 3 calls. Intellibox: the same with 2 calls for SET and GET or 1 for INIT, TERM and VERIFY; or 3 changes of the power, by a client or at the box; or 3 of the locomotive; or 1 of each | a late answer meets the next call of its own session and a call of the other; a stop, a go and a SET POWER in each order, around each step of the thread; INIT, SET, TERM and the knob in each order |
| `fb` | 2 contacts, a queue of 3 resets, `min_time` 0 and 1, one SET FB; contacts and clock unlimited | the queue fills, is overrun by the bus thread and the SET FB together, holds several resets of one contact and one behind another |
| `sessions` | 2 clients, pipes of 1 message, 1 change | one announcement fills a pipe; joining and leaving against a change, an announcement and the shutdown |
| `ddl` | 1 session, a Maerklin and an NMRA locomotive, 1 port, a ring of 3, 1 function packet, 2 commands (settings of the power and shortcuts count), a function only on with the part before it (`Wants`) | an NMRA command alone fills the two usable slots, so two commands overrun the ring, and the second packet can discard the first; one part changes or both; a command against a refresh, a setting or a shortcut; the theorems cover the power for any number |
| `ddl_reset` | 1 locomotive, 2 ports, 2 commands | a second command during the delay of the first |
| `clock` | 2 sessions, days of 2 hours of 1 minute of 2 seconds, the clock stands still when day 0 (`MaxDay`) is over, 2 polls a second (20 in the code), a timeout of 1 s, 1 reload | each carry occurs, that of the day included; a SET TIME inside every window of the clock and of a WAIT; the end of the thread in each place |
| `selectrix` | three configurations: two polled modules on two buses, the same with reports, a CC2000 without modules that reports; `RespondLimit` 1 (50 in the code), queues of 1, a buffer of 4 bytes, 2 events (commands, settings of the power, lost replies and reports together) | one lost reply is given up and the next is asked for; a command during each state of the polling; what is one turn of 50 is one of 1 |
| `packets` | NMRA: 209 commands at the limits of addresses, speeds, functions and CVs, each with each version of the translation (`Cases`; in version 1 without those it needs ten thousands of turns for); Maerklin: one locomotive of each kind, 2 commands | every form of instruction and each branch of the translations occurs; a Maerklin command changes every part another one set |

Symmetry is used for the sessions of `loco` (safety only). Deadlock is
checked except in `sm` and `packets` (calls are bounded, a command is done with: nothing
is left to do), `sessions` (after the shutdown the process ends), `clock` (the model's time ends at `MaxDay`,
sessions that wait for a mutex no thread will release wait for ever) and `selectrix` (a
bus thread without modules may be suspended with nobody to resume it).

### Fairness

* `CommandQueue`, `Accessories`, `ServiceMode`, `Feedback`, `Sessions`: weak fairness of the bus
  thread, which is an endless loop that polls. In `Sessions`, `Feedback` and `Accessories` also of
  each thread in the middle of a call: the scheduler runs it in the end. A
  mutex is free again infinitely often only if its holder goes on, which is
  what those fairness conditions say; nothing beyond weak fairness is assumed.
* `AccessoryLocks`: weak fairness of the main thread's loop, and of a session
  inside a command.
* `ServiceDrivers`: weak fairness of the bus thread, and with the Intellibox of a session inside
  `setPower`; nobody has to touch the box.
* `ServiceMode`: `LoopbackReturns` does *not* use the 90 s time-out.
* `Feedback`, `Accessories`: the clock ticks; contacts need not move.
* `DDL`: weak fairness of both threads; strong fairness of `refresh_loco`: of the turns of
  the loop in which there is nothing to send, infinitely many come more than 100 ms
  after the last refresh, because each of the others sleeps 2.5 ms; strong fairness of
  `Drain`: what a refresh wrote is out in less than 50 ms, and the next refresh, which may
  discard, comes 100 ms later. For `ddl_reset` also weak fairness of the delayed threads (their sleep ends)
  and of a session inside `setPower` (`ResetSpec`).
* `Clock`: the clock's thread goes on, so does a session inside a command and a reload;
  nobody has to call a command, no contact has to change.
* `Selectrix`: the three threads go on and the interface sends what it was asked for; replies
  and signals may be lost, nobody has to enqueue a command.
* `DDLPackets`: the bus thread goes on with a command (`NmraPackets`: weak fairness of
  `Next`, written without `ENABLED`), so do `comp_maerklin_5` after its sleep and the refresh.
* `Sessions`: an INFO client reads what it is sent (`Forward` is fair). A client
  that never reads blocks the server: the code has no remedy, and so
  no property claims one. No client has to connect, to speak or to hang up.

## 4. What is proved

For all sessions, addresses, queue lengths, durations, contacts and lengths of the day (assumptions:
`QueueAssumption`, `SessionAssumption`, `LocoAssumption`, `AccessoryAssumption`, `AccessoriesAssumption`, `DDLAssumption`, `ServiceAssumption`,
`FeedbackAssumption`, `NmraAssumption`, `MaerklinAssumption`, `ModesAssumption`, `ModuleBusAssumption`, `LimitsAssumption`, `UnitsAssumption`, `CountsAssumption`, `InputsAssumption`, which ask for a ring of at least two slots (one in the DDL driver), finitely many
sessions, at least one address and port, a table of at least one pulse, session ids
other than 0, for Selectrix that two buses or reports come with a Rautenhaus interface, and for DDL that the addresses of locomotives, ports and idle packets
do not overlap where they do not in the code. Of the packets they ask for Maerklin addresses
of 1 to 255, directions 0 to 2 and speeds that are not refused; in the commands of NMRA and for Maerklin
accessories any number may stand).

**`Server_proofs`, the queues**

* `TypeCorrect`: `TypeOK` is inductive by itself.
* `BoundHolds` (`QueueBound`): not inductive alone, because a `Consume` on an
  empty ring would wrap the length; `BoundInv` adds `CopyUndisturbed`. The argument:
  a session is admitted only if the ring has a free slot at that moment, and
  `Publish` moves one from "admitted" to "waiting".
* `CopyHolds`, `SlotHolds`: the unlocked read and the writes never meet.
* `FifoHolds` (`FifoUntilOverrun`): the refinement. `FifoInv` adds that the mutex is
  held between `LockQueue` and `UnlockQueue`, that what is published was written
  by the publisher, and that it is a command. `Publish` maps to `Put`, `CopySlot`
  to `Take`, everything else to a stutter.
* `OneSessionFifo`: with one session `FifoQueue` holds without condition; the
  overrun takes two.

**`Server_proofs`, the sessions**

* `SessionsTypeCorrect` (`SessionsTypeOK`): the part with content is that a walk that goes on from a
  node that was freed finds some node or the end (`SuccessorTypes`), and that no pipe overflows.
* `EndsAfterAllHolds` (`EndsAfterAll`): `ListInv` says that a node is in the list once, from the
  connection until the session is destroyed, and that the list is empty when the main thread is
  through; `ThreadInv` what a thread inside `enqueueInfoMessage` says and where it returns to.
* `InfoIsCompleteHolds` (`InfoIsComplete`): `NewsInv` says of every client in its loop that it knows
  the device, or the last change is in its pipe with nothing but announcements behind it, or the walk
  of the bus thread has yet to come to its node. A node that is put in front shifts the others
  (`ConnectAhead`), one that is removed keeps their order (`DestroyAhead`), and the walk cannot pass
  the node of an INFO client without writing. It rests on `MutexInv` (one thread walks, and no node is
  removed under a write), `WalkInv` (the walk is at a node that has connected, and writes only where
  there is a pipe) and `PipeInv` (a new INFO client opens an empty pipe before it is told the device).

**`Locomotives_proofs`**

* `TypeCorrect`: with `Stored`, that the count of a lock is not stored when it was 0.
* `NoTakeoverHolds` (`NoTakeover`): `Seen` says that what `cacheLockGL` saw of the holder is still
  true when it acts, unless another thread met it there (`clash`).
* `LockLastsAShareHolds` (`LockLastsAShare`): `Counted` relates the seconds that are gone from the
  count to the calls of `unlock_gl_bytime` and the address the call under way is at.
* `CacheMatchesTrackHolds` (`CacheMatchesTrack`): `Settles` names, for every locomotive whose cache
  and decoder differ, what is still owed to it: a queued command, one in the hands of the bus thread,
  the stop of an INIT or the end of a TERM. An overrun takes the queued commands away: the stops
  of INITs among them are then in `unstopped`, and of the others neither cache nor decoder has heard.

**`AccessoryLocks_proofs`**

* `TypeCorrect`.
* `GoneHolds` (`GoneHoldsNoLock`): `GoneInv` says what the walk of
  `unlock_ga_bysessionid` has achieved, that the session holds none of the
  addresses it has passed; only the session itself could take one again and its
  thread does nothing else any more.
* `LockTimeHolds` (`LockTime`) and `KeepsHolds` (`KeepsLock`): `LockTimeInv` says,
  per address without overlapping changes, that what a thread saw is still true
  when it acts, what the main thread read is still there, and seconds counted
  plus seconds left are the seconds asked for.

**`Accessories_proofs`**

* `TypeCorrect`.
* `PowerToldHolds` (`PowerIsTold`), `PowerOffHolds` (`NothingWithoutPower`): inductive
  together. Who changes the state goes on to set the flag, who resets the flag goes
  on to read the state; the gate is passed only while the power is on.
* `PulseIsKeptHolds` (`PulseIsKept`): `PulseInv` adds the place where a pulse is told
  and not yet stored, that a port which was told on belongs to an initialised
  record (so `setGA` does not refuse its end), and that the end of a pulse tells
  "off", since only the bus thread sets an action to anything but 0.

**`DDL_proofs`**

* `TypeCorrect`: inductive by itself; the part that needs an argument is that the
  cursor of the refresh stays inside a list that grows, and loses its first entry,
  under it (`CursorInList`).
* `SilenceHolds` (`SilentWithoutPower`): `ToldInv` says that outside the steps that
  handle a change the announced power is the power, unless a change is pending,
  and that a thread that is on its way to send has seen it on.
* `LinesHold` (`LinesFollowPower`): `LinesInv` follows the lines through those steps.
  Neither holds without the other's knowledge of where the flag is reset; both need
  that the bus thread and the delayed threads leave the power alone
  (`BusLeavesPower`).
* `SentInOrderHolds` (`SentInOrder`): `OrderInv` says, per locomotive and part that owes nothing to an
  overrun and was not discarded, that every packet in the ring, in the hands of the refresh thread, in the output buffer and on the track is that
  of the pool or has a newer one behind it (`DiscardKeeps`: what `tcflush` takes away is owed, or has); the places of the ring are counted from the read
  cursor, modulo its length (`PlaceFrom`). `Overtaken` covers the look at the cursors before the mutex,
  `HandInv` that a packet is only taken with empty hands, `ShownInv` that the pool is what the
  clients see, but for the command under way.
* `PacketsTypeCorrect` (`PacketsTypeOK`) and `PacketsSayWhatIsMeant` (`PacketsSay`), for any commands,
  from `PacketsInv`, which is `NmraInv /\ MaerklinInv`. Neither property is inductive alone.
  - `NmraInv`. `ToTranslate`: what waits are bit streams, not empty and with a 1 at the end (shown
    once for every form of instruction, from the bits of a byte to several packets in one stream).
    `Right` is what a translation keeps to: in versions 1 and 2 (`Right12`) each byte of the packet is
    that of the row on the stack, stands for the bits at its place, and the next one begins where
    they end, so a choice taken back leaves the place where it was; in version 3 (`Right3`) the
    place to go back to is one where a byte begins, among those that are kept, and what follows it
    ends before the six bits that are added, so six bits can always be read. `ChosenRight`,
    `TakenBackRight` and `RestartedRight` are the moves of a turn. `CallsRight` and `There` follow
    the exchanges of the service mode: the eight questions for a byte, the search for a value, the packets
    each one finds.
  - `MaerklinInv`. `PoolRight` is `PoolSays` put in terms of how a packet was made; `SecondRight`
    says that the second packet of a half step is still the one of the last command, `StepsRight` that
    without 28 steps the speed is sent as it is. Behind it is `FunctionHeard`: of the sixteen
    second nibbles none for a function is heard as a direction or another function, at any speed.
    `CoilsFollow` needs a place in the queue for each order, which moves up by one with what is sent, and
    `TritsHeard`, that nine trits tell 324 addresses, two ports and two actions apart.

**`Clock_proofs`**

* `TypeCorrect`: `TickType` is the part with content, a valid time stays valid over all carries.
* `SecondsHold` (`MovesBySeconds`): `TickIsASecond` (over every carry, the day included) with
  `ReadInv`, that what the clock's thread read is the time until a SET TIME comes between.
* `WaitFBHolds` (`HonestWaitFB`): `HitInv` counts the polls that saw the value.
* `LateHolds` (`LateAnswer`): `LateInv` says that from the test to the answer of an undisturbed
  WAIT the time is later than the one waited for, and that the clock, if it writes
  meanwhile, writes something later still; this needs `ReadInv` again.

**`Feedback_proofs`, the contacts**

The invariant `TypeOK /\ Working /\ AllPorts` says what a thread inside `updateFB` or
`check_reset_fb` still owes its port: at each place, which of state, change, queue and message
are already made to agree.

* `TypeCorrect`, `InfoHolds` (`InfoIsState`), `ResetHolds` (`ResetWaits`).

**`Feedback_proofs`, the Selectrix driver**

* `SelectrixTypes` (`SelectrixTypeOK`): with `PollInv`, that only the timer thread lets a module be
  read, so that the current module is a configured one where its address is looked up; and `ProgInv`,
  that a step of the programming stays in its list until it is over.
* `RightBusHolds` (`RightBus`): `Chosen` says that `SXflags` name the bus the interface works on, but
  between the switching and the store, where the bus is that of the command under way; `confRautenhaus`
  enters `selRautenhaus` half way, with bus 0. `torn` is set when a store writes back a stale word.
* `RightModuleHolds` (`RightModule`), for the two ways contacts are read. `Polled`: at most one command
  or reply is under way, it is about `currentFB`, and `stateInterface` is 2 meanwhile; the timer gives
  up only when none is, which needs that a byte in the port's buffer has a signal or the handler behind
  it. This rests on an assumption of the model about time (`Overdue`): the limit of 50 turns is longer
  than anything that is under way takes, so what has not come by then is lost; that a reply comes
  later than the limit is not modelled. `InStep`: the bytes from the one the handler holds to the last one sent are pairs
  of address and data, and `SXflags` say which half comes first; a byte that moves from the interface
  to the buffer or to the handler changes nothing of that (`PassedOn`), one that is taken leaves pairs
  (`FirstTaken`), a report adds one (`ReportAdded`). TLC checked the invariant
  with a buffer of one byte, too.

**`ServiceDrivers_proofs`**

Service mode with the loopback driver: the invariant is `TypeOK /\ Mutex /\ NoOverrun /\ AllDue /\ AllOwn`: who holds `cb_mutex` is where the
code says; what a sleeper waits for is still in the queue, or on the track, or about to be
announced; a session that is alone has the only command, and `cb_data` is its result until it
has read it.

* `TypeCorrect`, `RoomHolds` (`NoOverrun`), `WakeUpHolds` (`NoLostWakeup`),
  `OwnAnswerHolds` (`OwnAnswer`). Only the mutex makes `NoOverrun` inductive: the test for
  a full queue and the writing are two steps.

The Intellibox: the invariant `IInv` is `Types /\ Emergency /\ FoundOn /\ Wakes`. `Wakes`: whenever the server takes the
power for on while the box is stopped, has told so, and no client asks for it, the thread is between
`XEvent` and the `setPower` that corrects it. This needs what `emergency_on_ib` says (`Emergency`: 1 is a stop
that is still to be announced, 2 one that is) and that the answer of `XStatus` is outdated only by an
event that is still to come (`FoundOn`).

* `PowerInvariant` (`DriverInv`: `IInv` while the driver is the Intellibox), `StopHoldsAlways`
  (`StopHolds`): for any number of sessions, of changes of the power, of commands for the locomotive
  and for the programming track. No assumption on the constants is used.

Only model-checked: all liveness (fairness and `ENABLED` are outside the proof
system; `BoxAgrees`, `InStepComes` and every `...Ends`, `...Arrives` and `...Returns` are liveness);
`OwnAnswer` for the Intellibox, whose driver does not take the mutex
the proof rests on; and `Understood`: `NmraDecoder` reads a line of any length with a recursive function, and
what that yields for all lines is an induction over data, which the proof system cannot do; the length of
`SendStream` (`StreamFits`) is that of bytes a search found, so it needs the same. What is proved up to
there is that the bytes stand for the bits of the stream (`Spelled`).

In the modules that are proved about, a new value inside a nested update is written out
(`th[s].stops + 1`) and not with `@`, which the prover binds at the wrong level.

## 5. Where the code and its words part

* `ddl_reset`: "sends a GA reset command after a delay" (`ddl.c` 1844) - for whatever
  accessory was switched last. Quotes and lines are in `PROJECT.json`, "findings".

Observed while modelling, without a run of their own. Queues, locks, sessions:

* "The queues are simple first-in-first-out queues" (`PROGRAMMING-HOWTO` 106-107) - not when
  two sessions enqueue into the last slot: `queue_isfull` is tested before the mutex is
  taken (`srcp-gl.c` 115), the ring then reads as empty. `FifoUntilOverrun` and `OneSessionFifo`
  are the boundary of this.
* A session that ends can keep the lock of a bus: when another session's TERM GL falls between
  the test and the locking, no initialised address is left to release it by (`srcp-gl.c` 431).
* A connection that ends before GO leaves its node in `session_list`, and the shutdown
  waits for it for ever (`clientservice.c` 70). `ShutdownOfRegistered` is claimed for the others.
* `unlock_gl_bytime` ("called once per second to unlock") decrements the one
  `lockduration` of the bus once per address; `LockLastsAShare` states what is left.
* `check_reset_fb` means to "drop this reset of feedback, because we've got an new
  impulse", but `updateFB` does not notice the impulse: it compares with a state that
  still is 1 (`srcp-fb.c` 180), and the port is reset although the contact is closed.
* An overrun of the reset queue (the bus thread and a SET FB find room together, `srcp-fb.c` 118) loses all
  resets that wait; a driver that reports changes only does not report those contacts again,
  and they read 1 until they close and open once more.
* The stop of an INIT is lost in the same way, or refused; the decoder then drives on while GET answers 0.
* A setting of the power that falls between `set_lines_on` and the reset of the flag
  (`ddl.c` 1161-1164) is announced but not carried out until the next one (`missed`).
* `update_MaerklinPacketPool` takes a locomotive on address 81 for the idle entry, so it
  is not refreshed once there is another locomotive.
* `init_gl_DDL` accepts Maerklin locomotives with 28 steps on addresses 81 to 255,
  for which `thr_sendrec_DDL` computes no packet (`ddl.c` 1391 and 1981).
* The watchdog (`config-srcpd.c` 739) looks at a bus only if both its GL and its GA queue hold
  commands, and restarts a thread whose cleanup has freed the driver's data.
* `server_state` has no mutex: a RESET SERVER can overwrite the `ssTerminating` of a signal
  (`srcp-server.c` 167).

Clock:

* A SIGHUP that comes while the clock's thread waits for INIT TIME leaves `time_distort_mutex`
  locked by a thread that is gone (`srcp-time.c` 344-364): each later command for TIME hangs.
* A SET TIME between `getTIME` and `set_time` of the clock's thread is announced, then lost.
* WAIT FB answers a timeout even if its last poll saw the value.

Selectrix:

* A torn `SXflags |= ...` against the choice of a bus sends a command to the other bus (`torn`).
* `enqueueSM` does not resume the bus thread; without modules to read a wake-up that comes between
  the test and the suspend is lost until the next command.
* `sigio_handler` runs on the main thread and takes mutexes there; its `select` overwrites the one `rfds`, so
  that after a signal with nothing to read the interface is never looked at again (`armed`). It also takes the byte that a programming bus thread is waiting for.
* With reports, an address that is no module's lets address and data change places
  (`stray`); an answer to a programming command is taken for contacts.
* `readSXDecoder` calls `sleep(250000)` (`selectrix.c` 533), which counts seconds; the
  timer thread sleeps 250000 microseconds by `usleep` (935).

Intellibox:

* A SET POWER between the sending of the power and `handle_power_command` (`ib.c` 1850-1859) is
  announced, then forgotten: the box is never told (`missed`).
* `cacheGetGL` leaves its result alone when the locomotive is not initialised, and
  `send_command_gl_IB` does not look at what it returns (`ib.c` 1108): a command that is still queued
  when TERM clears the record is compared with, and its speed divided by, what the stack happens
  to hold. The stop of TERM itself may be dropped that way.
* A command that says what the cache says is not sent (1111): the stop of an INIT does not
  stop a locomotive that runs, since INIT has just set the cache to 0.
* `check_status_gl_IB` never sets `n_func` and passes it to `cacheSetGL`, which also clears the
  functions above F8 in the cache: the next command for them is sent or not by chance.
* TERM SM switches the programming track off but does not reset `pt_initialized` (1464), so it is never
  switched on again. VERIFY is answered 0 without looking at the decoder, and an error of the
  programming is answered to nobody: its session waits for 90 s.
* `session_endwait` without `session_lock_wait` unlocks the mutex of a session inside
  `enqueueSM`, so that two sessions can overrun the queue, and a broadcast can come before the wait: the
  call ends by its time-out. `ddl.c` and `li100.c` do the same.
* With the power off, nothing is taken from the SM queue.

DDL, its ring and packets:

* An overrun of the DDL ring loses the packets of accessories for good; only
  locomotives are refreshed.
* `tcflush` discards NMRA packets that `send_packet` left in the output buffer: an NMRA command adds
  its two packets one after the other, and if the refresh thread finds the ring empty between them, it
  discards the first when it comes back for the second (`ddl.c` 1321). A locomotive is told by a later refresh, an
  accessory never.
* NMRA: CV 1025 is accepted; a paged CV from 1021 on is refused, and GET then returns 0; a
  GET of a register or a paged CV that nothing acknowledges returns 256; a verify of a register
  sends no page preset; steps 126 to 128 are one step; functions from F29 on are never sent; address
  0 can be initialised and gets no packet (so that its pool entry, 128 for a long address, stays that of the idle packet).
* Version 1 of the translation rejects about a quarter of the commands for locomotives with
  many functions, after 30 000 turns and more, and takes as many for some register packets.
* Maerklin: an emergency stop is never sent to an old decoder (M1): `ddl_maerklin.c` 339
  returns, although `ChangeLog` 445 speaks of an "emergency stop for GL (M protocols)" and
  `cacheTermGL` relies on it; the direction is inverted afterwards. Two reversals of an M1
  locomotive in a row lose one; a reversal drops the speed of the command.
* Maerklin: half steps are wrong after an emergency stop; a locomotive with 14 steps never
  gets decoder step 15, unless a client names 0 as the highest speed.
* Version 2 tests the length of a packet before its last byte, so 81 characters pass where versions
  1 and 3 stop at 80; the theorem has that number, no command of the run comes near it.

## 6. Not modelled, and the plan

Left out for good: parsing and formatting of SRCP lines, replies, logging, the
XML configuration, serial and socket I/O, daemonising; a failing
`pthread_create`; the re-use of file descriptors after `close`.

Left out within the modelled parts: programming of a DDL bus with `PROGRAM_TRACK` 0 (1 is the
default); `comp_maerklin_3` and `comp_maerklin_mf`, which nothing calls; the modes and the timing
of the UART, an accessory's packet in its output buffer, and what is left in it while the output is
stopped (taken as lost); WAIT FB for a contact that does not exist (`getFB` fails) and
with a negative timeout, which ends as 0 does.

`server_state` is written without a mutex, but nothing reads it except texts and
the end of the main loop. The drivers `li100.c`, `loconet.c`, `zimo.c`, `hsi-88.c`, `m605x.c`,
`i2c-dev.c` and `dccar.c` translate commands into the bytes of an interface, one after the
other, in a bus thread of the shape of those modelled; of `ib.c` accessories with their pulses, contacts,
programming on the main, Bidi messages and the search for the line are left out; what they could get wrong that the
modelled ones cannot is in their protocols, each of which would be a module of its own.

Next, in this order:

1. Proofs: what of `OwnAnswer` holds for the Intellibox.
2. The watchdog: that a thread that is restarted finds its mutexes and its data.
3. The state machines of `li100.c` and `loconet.c`, accessories and contacts of `ib.c`.
4. `Accessories`: that a pulse lasts its time. It does not when an older pulse of the
   same port ends first; and the pulses of `ib.c` and `li100.c`.
