------------------------------- MODULE Maerklin -------------------------------
(***************************************************************************)
(* What the Maerklin packets of the DDL driver say (ddl_maerklin.c): a     *)
(* locomotive has five, one for its speed and four for its functions. A    *)
(* command puts all of them into the packet pool, but only one into the    *)
(* queue; the decoder learns the rest when the pool is sent round.         *)
(*                                                                         *)
(* The ring of the queue, the threads and the lines are in DDL; here a     *)
(* command is one step, for 28 speed steps two, since comp_maerklin_5      *)
(* sleeps between the two packets it needs for a half step. The decoders   *)
(* are not part of srcpd.                                                  *)
(***************************************************************************)
EXTENDS Integers, Sequences

CONSTANTS
  Kinds,        \* address -> "M1", "M2" (14 speed steps) or "M2/28"
  GLCommands,   \* what may be said to one of a kind: [direction, speed, funcs]
  GACommands,   \* [id, port, action]: what may be said to accessories
  MaxToCome     \* bound: commands in a behavior

Addresses == DOMAIN Kinds

VARIABLES
  cached,          \* what cacheGetGL returns: direction and speed
  MaerklinPool,    \* packets[adr]: of the speed (0) and of F1 to F4
  knownAddresses,  \* the addresses in the pool, in the order of their coming
  last_refreshed,  \* the place in it and the packet that is sent next
  queue,           \* packets to be sent before any of the pool
  second,          \* comp_maerklin_5: the second packet that is still to come
  decoder,         \* what the decoders of the locomotives do
  wanted,          \* history: what the last command for a locomotive says
  switched,        \* history: the commands for accessories that are in the queue
  toCome           \* commands that may still come

vars == <<cached, MaerklinPool, knownAddresses, last_refreshed, queue, second,
          decoder, wanted, switched, toCome>>

Nothing == [adr |-> -1]
IdleAddress == 81

-----------------------------------------------------------------------------
(* Packets of locomotives. A trit is sent as two bits: L 00, H 11, O 10 and *)
(* U 01. Those for the speed are two numbers of four bits, the lowest       *)
(* first: the speed, and with it the direction or a function.               *)

Bits(n) == [i \in 1..4 |-> (n \div 2 ^ (i - 1)) % 2]
Flag(funcs, n) == IF n \in funcs THEN 1 ELSE 0
Packet(adr, funcs, speed, second4) ==
  [type |-> "GL", adr |-> adr, func |-> Flag(funcs, 0),
   first |-> Bits(speed), second |-> second4]

\* Speed 1 is obsolete: it is sent as 0.
Sent(speed) == IF speed = 1 THEN 0 ELSE speed

\* "HLHL", "HLHH", "LHLH", "LHLL": an emergency stop, 2, is forwards, too.
mask(direction, speed) ==
  CASE direction = 0 /\ speed > 7 -> <<1, 0, 1, 0>>
    [] direction = 0 /\ speed <= 7 -> <<1, 0, 1, 1>>
    [] direction # 0 /\ speed <= 7 -> <<0, 1, 0, 1>>
    [] direction # 0 /\ speed > 7 -> <<0, 1, 0, 0>>

\* A function would look like the old format, if it were sent in its own form
\* with this speed: 3, 4, 6, 7 if it is off, 11, 12, 14, 15 if it is on.
OffSpeed == <<3, 4, 6, 7>>
FunctionForm == <<<<1, 1, 0>>, <<0, 0, 1>>, <<0, 1, 1>>, <<1, 1, 1>>>>

\* FunctionBits with a bug that InStepComes has to show.
FunctionBitsPlain(n, speed, funcs) == Append(FunctionForm[n], Flag(funcs, n))

FunctionBits(n, speed, funcs) ==
  CASE n \notin funcs /\ speed = OffSpeed[n] -> <<1, 0, 1, 0>>
    [] n \in funcs /\ speed = OffSpeed[n] + 8 -> <<0, 1, 0, 1>>
    [] OTHER -> Append(FunctionForm[n], Flag(funcs, n))

Packets2(adr, direction, speed, funcs) ==
  [n \in 0..4 |->
     Packet(adr, funcs, speed,
            IF n = 0 THEN mask(direction, speed) ELSE FunctionBits(n, speed, funcs))]
Packets1(adr, speed, funcs) ==
  [n \in 0..4 |-> Packet(adr, funcs, speed, Bits(speed))]

\* update_MaerklinPacketPool: the first address takes the place of the idle one,
\* which is found in place of a locomotive 81.
update_MaerklinPacketPool(adr, packets) ==
  /\ MaerklinPool' = [MaerklinPool EXCEPT ![adr] = packets]
  /\ LET known == IF knownAddresses = <<IdleAddress>> THEN <<>> ELSE knownAddresses
         found == \E i \in DOMAIN knownAddresses : knownAddresses[i] = adr
     IN knownAddresses' = IF found THEN known ELSE Append(known, adr)

\* Into the queue goes the packet of the first function that changed, or else
\* that of the speed.
Compose(adr, direction, speed, funcs) ==
  LET packets == Packets2(adr, direction, speed, funcs)
      Changed(n) == MaerklinPool[adr][n].second[4] # packets[n].second[4]
      out == IF \E n \in 1..4 : Changed(n)
             THEN CHOOSE n \in 1..4 : Changed(n) /\ \A k \in 1..n - 1 : ~Changed(k)
             ELSE 0
  IN /\ update_MaerklinPacketPool(adr, packets)
     /\ queue' = Append(queue, packets[out])

comp_maerklin_2(adr, direction, speed, funcs) == Compose(adr, direction, Sent(speed), funcs)

\* For the addresses above 80.
comp_maerklin_4(adr, direction, speed, funcs) == Compose(adr, direction, speed, funcs)

\* comp_maerklin_1: to reverse, speed 1 is sent; direction 2 is refused, and an
\* address that those decoders cannot have.
comp_maerklin_1(adr, direction, speed, funcs) ==
  LET packets == Packets1(adr, IF direction # cached[adr].direction THEN 1 ELSE speed,
                          funcs)
  IN IF direction = 2 \/ adr > 80 THEN UNCHANGED <<MaerklinPool, knownAddresses, queue>>
     ELSE /\ update_MaerklinPacketPool(adr, packets)
          /\ queue' = Append(queue, packets[0])

-----------------------------------------------------------------------------
(* thr_sendrec_DDL: GL and GA *)

\* The two speeds of comp_maerklin_5, the second 0 if one is enough: half a
\* step is reached from above, a whole one from below.
Steps28(old, speed) ==
  LET whole == speed \div 2 + 1
      two == IF old < speed THEN speed % 2 = 1 ELSE speed % 2 = 0
  IN CASE speed = 0 -> <<0, 0>>
       [] speed > 0 /\ ~two -> <<whole, 0>>
       [] speed > 0 /\ two /\ speed % 2 = 1 -> <<whole + 1, whole>>
       [] OTHER -> <<IF whole = 2 THEN 0 ELSE whole - 1, whole>>

\* dequeueNextGL, the choice of the protocol, cacheSetGL; never speed step 1. For
\* 28 steps and an address above 80 nothing is sent.
\* What is wanted: the speed in steps of the decoder, for 28 in halves.
SetGL(adr, c) ==
  LET speed == CASE c.direction = 2 -> 0
                 [] c.direction # 2 /\ c.speed = 1 -> 2
                 [] OTHER -> c.speed
      steps == Steps28(cached[adr].speed, speed)
      reversed == c.direction # cached[adr].direction
      before == wanted[adr]
  IN /\ toCome > 0 /\ second = Nothing
     /\ toCome' = toCome - 1
     /\ CASE Kinds[adr] = "M1" ->
               /\ comp_maerklin_1(adr, c.direction, speed, c.funcs)
               /\ UNCHANGED second
          [] Kinds[adr] = "M2" ->
               /\ IF adr <= 80 THEN comp_maerklin_2(adr, c.direction, speed, c.funcs)
                               ELSE comp_maerklin_4(adr, c.direction, speed, c.funcs)
               /\ UNCHANGED second
          [] Kinds[adr] = "M2/28" /\ adr > 80 ->
               UNCHANGED <<MaerklinPool, knownAddresses, queue, second>>
          [] Kinds[adr] = "M2/28" /\ adr <= 80 ->
               /\ comp_maerklin_2(adr, c.direction, steps[1], c.funcs)
               /\ second' = IF steps[2] = 0 THEN Nothing
                            ELSE [adr |-> adr, direction |-> c.direction,
                                  speed |-> steps[2], funcs |-> c.funcs]
     /\ cached' = [cached EXCEPT ![adr] = [direction |-> c.direction, speed |-> c.speed]]
     /\ wanted' = [wanted EXCEPT ![adr] =
                     [direction |-> c.direction, funcs |-> c.funcs,
                      step |-> CASE Kinds[adr] = "M1" -> IF reversed THEN 1 ELSE speed
                                 [] Kinds[adr] = "M2" -> Sent(speed)
                                 [] OTHER -> IF speed = 0 THEN 0 ELSE speed + 2,
                      blurred |-> before.blurred \/ before.direction = 2
                                  \/ (Kinds[adr] = "M1" /\ before.step = 1 /\ reversed)]]
     /\ UNCHANGED <<last_refreshed, decoder, switched>>

\* After 50 ms the second packet of comp_maerklin_5.
SecondStep ==
  /\ second # Nothing
  /\ comp_maerklin_2(second.adr, second.direction, second.speed, second.funcs)
  /\ second' = Nothing
  /\ UNCHANGED <<cached, last_refreshed, decoder, wanted, switched, toCome>>

\* comp_maerklin_ms: the decoder, four trits, of which the lowest is first, a
\* dummy, the output of the decoder in three and the action.
Trit(n) == <<"L", "H", "O">>[n + 1]

SolenoidTrits(c) ==
  LET id == (c.id - 1) \div 4
      subid == 2 * ((c.id - 1) % 4) + c.port
  IN [i \in 1..9 |-> CASE i <= 4 -> Trit((id \div 3 ^ (i - 1)) % 3)
                       [] i = 5 -> "L"
                       [] i \in 6..8 -> Trit((subid \div 2 ^ (i - 6)) % 2)
                       [] i = 9 -> Trit(c.action)]

comp_maerklin_ms(c) ==
  IF c.id \in 1..324 /\ c.port \in 0..1 /\ c.action \in 0..1
  THEN /\ queue' = Append(queue, [type |-> "GA", trits |-> SolenoidTrits(c)])
       /\ switched' = Append(switched, c)
  ELSE UNCHANGED <<queue, switched>>

SwitchGA(c) ==
  /\ toCome > 0 /\ second = Nothing
  /\ toCome' = toCome - 1
  /\ comp_maerklin_ms(c)
  /\ UNCHANGED <<cached, MaerklinPool, knownAddresses, last_refreshed, second,
                 decoder, wanted>>

-----------------------------------------------------------------------------
(* The decoders *)

\* Of 1010 and 0101 some are a direction and some a function.
HeardFunction(p, speed) ==
  CASE p.second = <<1, 0, 1, 0>> /\ speed \in {3, 4, 6, 7} ->
         CHOOSE n \in 1..4 : OffSpeed[n] = speed
    [] p.second = <<0, 1, 0, 1>> /\ speed \in {11, 12, 14, 15} ->
         CHOOSE n \in 1..4 : OffSpeed[n] = speed - 8
    [] \E n \in 1..4 : FunctionForm[n] = SubSeq(p.second, 1, 3) ->
         CHOOSE n \in 1..4 : FunctionForm[n] = SubSeq(p.second, 1, 3)
    [] OTHER -> 0

\* An old decoder reverses when speed 1 comes; what is sent again is the same.
\* A new one has half steps below the speed that it comes down to.
Hears(d, p) ==
  LET speed == p.first[1] + 2 * p.first[2] + 4 * p.first[3] + 8 * p.first[4]
      n == HeardFunction(p, speed)
      heard == [d EXCEPT !.step = speed,
                         !.half = CASE speed = 0 \/ speed > d.step -> FALSE
                                    [] speed # 0 /\ speed < d.step -> TRUE
                                    [] OTHER -> d.half,
                         !.funcs = (@ \ {0}) \cup (IF p.func = 1 THEN {0} ELSE {})]
  IN CASE p.second = p.first ->
            [heard EXCEPT !.direction = IF speed = 1 /\ d.step # 1 THEN 1 - @ ELSE @]
       [] p.second # p.first /\ n > 0 ->
            [heard EXCEPT !.funcs = IF p.second[4] = 1 THEN @ \cup {n} ELSE @ \ {n}]
       [] OTHER -> [heard EXCEPT !.direction = 1 - p.second[1]]

HeardTrits(t) ==
  LET Value(x) == CASE x = "L" -> 0 [] x = "H" -> 1 [] x = "O" -> 2
      subid == Value(t[6]) + 2 * Value(t[7]) + 4 * Value(t[8])
      id == Value(t[1]) + 3 * Value(t[2]) + 9 * Value(t[3]) + 27 * Value(t[4])
  IN [id |-> 4 * id + subid \div 2 + 1, port |-> subid % 2, action |-> Value(t[9])]

Send(p) ==
  IF p.type = "GL"
  THEN /\ decoder' = [adr \in Addresses |-> IF adr = p.adr THEN Hears(decoder[adr], p)
                                            ELSE decoder[adr]]
       /\ UNCHANGED switched
  ELSE /\ switched' = Tail(switched)
       /\ UNCHANGED decoder

-----------------------------------------------------------------------------
(* thr_refresh_cycle: send_packet, refresh_loco *)

SendQueued ==
  /\ queue # <<>>
  /\ Send(queue[1])
  /\ queue' = Tail(queue)
  /\ UNCHANGED <<cached, MaerklinPool, knownAddresses, last_refreshed, second,
                 wanted, toCome>>

\* refresh_loco with a bug that PacketsTypeOK has to show.
refresh_locoPastLast ==
  /\ queue = <<>>
  /\ LET at == last_refreshed
         adr == IF knownAddresses = <<>> THEN IdleAddress ELSE knownAddresses[at.loco + 1]
     IN /\ Send(MaerklinPool[adr][at.fx + 1])
        /\ last_refreshed' =
             CASE at.fx < 3 -> [at EXCEPT !.fx = @ + 1]
               [] at.fx = 3 /\ at.loco + 1 <= Len(knownAddresses) ->
                    [loco |-> at.loco + 1, fx |-> -1]
               [] OTHER -> [loco |-> 0, fx |-> -1]
  /\ UNCHANGED <<cached, MaerklinPool, knownAddresses, queue, second, wanted, toCome>>

\* Round all addresses, of each the speed and the functions.
refresh_loco ==
  /\ queue = <<>>
  /\ LET at == last_refreshed
         adr == IF knownAddresses = <<>> THEN IdleAddress ELSE knownAddresses[at.loco + 1]
     IN /\ Send(MaerklinPool[adr][at.fx + 1])
        /\ last_refreshed' =
             CASE at.fx < 3 -> [at EXCEPT !.fx = @ + 1]
               [] at.fx = 3 /\ at.loco + 1 < Len(knownAddresses) ->
                    [loco |-> at.loco + 1, fx |-> -1]
               [] OTHER -> [loco |-> 0, fx |-> -1]
  /\ UNCHANGED <<cached, MaerklinPool, knownAddresses, queue, second, wanted, toCome>>

-----------------------------------------------------------------------------
\* The pool is not initialized, but for the packets that the idle address has,
\* OOOO LLLLL, which are for address 0; what is read of it are the functions' bits.
\* cached is what INIT left: direction 0, as the old decoders have it.
InitWith(raw) ==
  /\ cached = [adr \in Addresses |-> [direction |-> 0, speed |-> 0]]
  /\ MaerklinPool = [adr \in Addresses \cup {IdleAddress} |-> [n \in 0..4 |->
       IF adr = IdleAddress THEN Packet(0, {}, 0, Bits(0))
       ELSE Packet(adr, {}, 15 * raw, Bits(15 * raw))]]
  /\ knownAddresses = <<IdleAddress>>
  /\ last_refreshed = [loco |-> 0, fx |-> -1]
  /\ queue = <<>> /\ second = Nothing
  /\ decoder = [adr \in Addresses |->
                  [step |-> 0, half |-> FALSE, direction |-> 0, funcs |-> {}]]
  /\ wanted = [adr \in Addresses |->
                 [direction |-> 0, step |-> 0, funcs |-> {}, blurred |-> FALSE]]
  /\ switched = <<>>
  /\ toCome = MaxToCome
Init == \E raw \in 0..1 : InitWith(raw)

Next ==
  \/ \E adr \in Addresses : \E c \in GLCommands[Kinds[adr]] : SetGL(adr, c)
  \/ SecondStep
  \/ \E c \in GACommands : SwitchGA(c)
  \/ SendQueued
  \/ refresh_loco

\* Both threads run; commands need not come.
Fairness == WF_vars(SecondStep) /\ WF_vars(SendQueued) /\ WF_vars(refresh_loco)
Spec == Init /\ [][Next]_vars /\ Fairness

-----------------------------------------------------------------------------
(* Properties *)

\* The packets, also the one that stands for no locomotive, have four bits twice.
Nibbles == [1..4 -> 0..1]
GLPackets == [type : {"GL"}, adr : Addresses \cup {0}, func : 0..1,
              first : Nibbles, second : Nibbles]
GAPackets == [type : {"GA"}, trits : [1..9 -> {"L", "H", "O"}]]
Functions == SUBSET (0..4)

TypeOK ==
  /\ cached \in [Addresses -> [direction : 0..2, speed : 0..28]]
  /\ MaerklinPool \in [Addresses \cup {IdleAddress} -> [0..4 -> GLPackets]]
  /\ knownAddresses \in Seq(Addresses \cup {IdleAddress})
  /\ last_refreshed \in [loco : Nat, fx : -1..3]
  /\ last_refreshed.loco = 0 \/ last_refreshed.loco < Len(knownAddresses)
  /\ queue \in Seq(GLPackets \cup GAPackets)
  /\ second \in {Nothing} \cup [adr : Addresses, direction : 0..2, speed : 2..15,
                                funcs : Functions]
  /\ decoder \in [Addresses -> [step : 0..15, half : BOOLEAN, direction : 0..1,
                                funcs : Functions]]
  /\ wanted \in [Addresses -> [direction : 0..2, step : 0..30, funcs : Functions,
                               blurred : BOOLEAN]]
  /\ switched \in Seq(GACommands)
  /\ toCome \in 0..MaxToCome

\* A decoder does what the last command for it says. For the driver an old one
\* (M1) cannot be stopped at once, and its direction is lost after a try, or
\* when it is reversed twice at a standstill; so are half steps after a stop.
InStep(adr) ==
  LET d == decoder[adr]
      w == wanted[adr]
      halves == 2 * d.step + (IF d.half THEN 1 ELSE 0)
      old == Kinds[adr] = "M1"
  IN CASE w.direction = 2 -> old \/ d.step = 0
       [] w.direction # 2 ->
            /\ Kinds[adr] # "M2/28" => d.step = w.step
            /\ Kinds[adr] = "M2/28" =>
                 IF w.blurred THEN d.step = w.step \div 2 ELSE halves = w.step
            /\ (old /\ w.blurred) \/ d.direction = w.direction
            /\ d.funcs = (IF old THEN w.funcs \cap {0} ELSE w.funcs)

\* When no more commands come all locomotives end up doing what was said last:
\* though only one of five packets is queued for a command, and although the
\* packets for the functions carry a speed in a form that depends on it.
InStepComes == <>[](\A adr \in Addresses : InStep(adr))

\* The decoders of accessories will switch as told, in that order, although
\* their packets stand between those of locomotives in the queue.
CoilsFollow ==
  \E place \in [1..Len(switched) -> 1..Len(queue)] :
    /\ \A i, k \in 1..Len(switched) : i < k => place[i] < place[k]
    /\ \A k \in 1..Len(queue) :
         queue[k].type = "GA" <=> \E i \in 1..Len(switched) : place[i] = k
    /\ \A i \in 1..Len(switched) : HeardTrits(queue[place[i]].trits) = switched[i]

\* What the n-th packet of a locomotive tells its decoder of what is wanted.
Tells(adr, n) ==
  LET w == wanted[adr]
      d == decoder[adr]
      h == Hears(d, MaerklinPool[adr][n])
  IN /\ h.step = (IF Kinds[adr] = "M2/28" THEN w.step \div 2 ELSE w.step)
     /\ 0 \in h.funcs <=> 0 \in w.funcs
     /\ Kinds[adr] # "M1" =>
          /\ h.direction = IF n > 0 THEN d.direction ELSE IF w.direction = 0 THEN 0 ELSE 1
          /\ \A k \in 1..4 : k \in h.funcs <=> k \in (IF k = n THEN w ELSE d).funcs

\* The pool holds what was said last: whichever packet of a known locomotive is
\* refreshed, its decoder takes the speed and F0 from it, from the first one the
\* direction and from each of the others its function, and nothing else. (Not,
\* while a command is half done, or if it was refused.)
PoolSays ==
  knownAddresses # <<IdleAddress>> =>
    \A i \in DOMAIN knownAddresses :
      LET adr == knownAddresses[i]
      IN \/ second # Nothing /\ second.adr = adr
         \/ Kinds[adr] = "M1" /\ wanted[adr].direction = 2
         \/ \A n \in 0..4 : Tells(adr, n)
=============================================================================
