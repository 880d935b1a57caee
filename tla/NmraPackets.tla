----------------------------- MODULE NmraPackets -----------------------------
(***************************************************************************)
(* The bus thread of the DDL driver at work on one NMRA command: it makes  *)
(* bit streams of it (Nmra), translates them into bytes for the serial     *)
(* line with one of three algorithms (ddl_nmra.c), and queues the packets  *)
(* or, for the programming track, sends them and looks for the             *)
(* acknowledgment of the decoder, as often as the command needs it.        *)
(*                                                                         *)
(* One action is one turn of a loop of a translation, or one exchange with *)
(* the programming track. The decoders are not part of srcpd: NmraDecoder  *)
(* reads the packets, and Reacts is a decoder on the programming track.    *)
(***************************************************************************)
EXTENDS Nmra, NmraDecoder

CONSTANTS
  Cases,      \* <<version, command>>: what is tried, one of them in a behavior
  InitialCVs  \* the decoder on the programming track: a value for each CV

NMRA_STACKSIZE == 200
max_level_delta == 7

VARIABLES
  ver,        \* NMRADCC_TR_V: the version of the translation
  command,    \* the command
  pc,         \* what the bus thread does: "start", "translate", "send", "done"
  todo,       \* bit streams that are still to be translated
  tr,         \* the translation of the first of them
  packets,    \* the packets translated so far; <<>> if that failed
  smStreams,  \* resetstream, idlestream, pagepresetstream (sm_init), or <<>>
  calls,      \* exchanges with the programming track so far
  rc,         \* what the command found out
  cvs         \* the decoder on the programming track

vars == <<ver, command, pc, todo, tr, packets, smStreams, calls, rc, cvs>>

Rejected == \E i \in DOMAIN packets : packets[i] = <<>>

-----------------------------------------------------------------------------
(* translateBitstream2Packetstream_v1 and _v2 *)

\* Buffer, place in it, the row to try next, the packet and the rows chosen;
\* v1: the last bit is left to the end, and how far the packet once was.
\* v3: where to go back to, and how much of the packet is kept then.
\* History: at, the places in the buffer where the bytes of the packet begin.
NoTranslation == [buf |-> <<>>]
translateabel(bits) ==
  \E i \in 1..DataCnt :
    LET p == TranslateData[i].bits
    IN Len(p) <= Len(bits) /\ SubSeq(bits, Len(bits) - Len(p) + 1, Len(bits)) = p

Fresh(bits, correction) ==
  [buf |-> IF correction THEN SubSeq(bits, 1, Len(bits) - 1) ELSE bits,
   pos |-> 1, i |-> DataCnt, pkt |-> <<>>, stack |-> <<>>, at |-> <<>>, high |-> 0,
   correction |-> correction]

Begun(bits) ==
  CASE ver = 1 -> Fresh(bits, ~translateabel(bits))
    [] ver = 2 -> Fresh(bits, FALSE)
    [] ver = 3 -> [buf |-> <<1, 1>> \o bits \o Ones(6), end |-> Len(bits) + 2,
                   pos |-> 1, pkt |-> <<>>, at |-> <<>>, restart |-> 1, keep |-> 0]

\* The rows that fit, among those not yet tried here.
Fitting(t) == {i \in 1..t.i : Matches(i, t.buf, t.pos)}
Last(rows) == CHOOSE i \in rows : \A k \in rows : k <= i

Chosen(t, i) ==
  [t EXCEPT !.pkt = Append(@, TranslateData[i].byte), !.stack = Append(@, i),
            !.pos = @ + Len(TranslateData[i].bits), !.i = DataCnt,
            !.at = Append(@, t.pos),
            !.high = IF Len(t.pkt) + 1 > @ THEN Len(t.pkt) + 1 ELSE @]
\* The last choice is taken back, the rows below it are tried next.
Shorter(s) == SubSeq(s, 1, Len(s) - 1)

\* TakenBack with a bug that PacketsSay has to show.
TakenBackOneBit(t) ==
  [t EXCEPT !.pkt = Shorter(@), !.stack = Shorter(@), !.at = Shorter(@),
            !.i = t.stack[Len(t.stack)] - 1, !.pos = @ - 1]

TakenBack(t) ==
  LET i == t.stack[Len(t.stack)]
  IN [t EXCEPT !.pkt = Shorter(@), !.stack = Shorter(@), !.at = Shorter(@),
               !.i = i - 1, !.pos = @ - Len(TranslateData[i].bits)]

\* Restarted with a bug that TranslationEnds has to show.
RestartedAsIs(t) ==
  [t EXCEPT !.pos = 1, !.pkt = <<>>, !.stack = <<>>, !.at = <<>>, !.i = DataCnt]

\* "leading 1's don't make problems": but it is at the end that v1 adds a 1.
Restarted(t) ==
  [t EXCEPT !.buf = Append(@, 1), !.pos = 1, !.pkt = <<>>, !.stack = <<>>,
            !.at = <<>>, !.i = DataCnt, !.correction = FALSE]
GivesUpLevel(t) ==
  \/ t.stack = <<>>
  \/ Len(t.pkt) = 1
  \/ t.high - (Len(t.pkt) - 1) >= max_level_delta /\ ~Head(todo).force

\* A translation ends with a packet, or with <<>> if it fails.
Translated(pkt) ==
  /\ packets' = Append(packets, pkt)
  /\ todo' = Tail(todo)
  /\ tr' = IF Len(todo) > 1 THEN Begun(todo[2].bits) ELSE NoTranslation
  /\ pc' = IF Len(todo) > 1 THEN "translate" ELSE "send"
Goes(t) == tr' = t /\ UNCHANGED <<packets, todo, pc>>

\* 153 is the byte for 100, but only the 1 at its beginning is needed. (That the
\* stack overflows need not be tested: it is no deeper than the packet is long.)
Translate_v1 ==
  /\ ver = 1
  /\ IF tr.pos > Len(tr.buf)
     THEN Translated(tr.pkt \o (IF tr.correction THEN <<153>> ELSE <<>>) \o <<0>>)
     ELSE LET found == Fitting(tr) # {}
              next == CASE found -> Chosen(tr, Last(Fitting(tr)))
                        [] ~found /\ GivesUpLevel(tr) -> Restarted(tr)
                        [] OTHER -> TakenBack(tr)
          IN IF (found /\ Len(next.pkt) >= PKTSIZE - 1) \/ Len(tr.buf) = BUFFERSIZE
             THEN Translated(<<>>) ELSE Goes(next)

Translate_v2 ==
  /\ ver = 2
  /\ LET found == Fitting(tr) # {}
         ones == Len(tr.buf) - tr.pos < 5 /\ \A k \in tr.pos..Len(tr.buf) : tr.buf[k] = 1
         next == IF found THEN Chosen(tr, Last(Fitting(tr))) ELSE TakenBack(tr)
     IN CASE tr.pos > Len(tr.buf) -> Translated(Append(tr.pkt, 0))
          [] tr.pos <= Len(tr.buf) /\ ones -> Translated(tr.pkt \o <<85, 0>>)
          [] OTHER -> IF \/ ~found /\ tr.stack = <<>>
                         \/ found /\ Len(tr.pkt) = PKTSIZE - 1
                      THEN Translated(<<>>) ELSE Goes(next)

-----------------------------------------------------------------------------
(* translateBitstream2Packetstream_v3 *)

read_next_six_bits(t, at) ==
  32 * t.buf[at] + 16 * t.buf[at + 1] + 8 * t.buf[at + 2]
    + 4 * t.buf[at + 3] + 2 * t.buf[at + 4] + t.buf[at + 5]

\* Translate_v3 with a bug that Understood has to show.
Translate_v3Longer ==
  /\ ver = 3
  /\ IF Len(tr.pkt) = PKTSIZE \/ tr.pos > tr.end THEN Translated(tr.pkt)
     ELSE LET six == read_next_six_bits(tr, tr.pos)
              row == TranslateData_v3[six \div 2 + 1][1]
          IN Goes([tr EXCEPT !.pkt = Append(@, row.byte), !.at = Append(@, tr.pos),
                            !.pos = @ + row.length])

\* 111110 has no byte: the last choice that had a shorter form is made anew.
Translate_v3 ==
  /\ ver = 3
  /\ IF Len(tr.pkt) = PKTSIZE \/ tr.pos > tr.end THEN Translated(tr.pkt)
     ELSE LET again == read_next_six_bits(tr, tr.pos) = 62
              at == IF again THEN tr.restart ELSE tr.pos
              keep == IF again THEN tr.keep ELSE Len(tr.pkt)
              six == read_next_six_bits(tr, at)
              row == TranslateData_v3[six \div 2 + 1][IF again THEN 2 ELSE 1]
          IN Goes([tr EXCEPT
               !.pkt = Append(SubSeq(@, 1, keep), row.byte), !.pos = at + row.length,
               !.at = Append(SubSeq(@, 1, keep), at),
               !.restart = IF six < 62 THEN at ELSE @,
               !.keep = IF six < 62 THEN keep ELSE @])

Translate ==
  /\ pc = "translate"
  /\ Translate_v1 \/ Translate_v2 \/ Translate_v3
  /\ UNCHANGED <<ver, command, smStreams, calls, rc, cvs>>

-----------------------------------------------------------------------------
(* Locomotives, accessories, programming on the main *)

Forced(streams, force) ==
  [i \in DOMAIN streams |-> [bits |-> streams[i], force |-> force]]

\* thr_sendrec_DDL: never speed step 1, which is the emergency stop, and long
\* addresses are of version 2; for SM there is no version, but an address.
LocoStreams(c) ==
  LET pv == IF c.id > 127 THEN 2 ELSE c.protocolversion
      speed == IF c.speed > 0 THEN c.speed + 1 ELSE 0
  IN IF c.direction # 2
     THEN comp_nmra_multi_func(c.id, c.direction, speed, c.funcs, c.n_fs, c.n_func, pv)
     ELSE comp_nmra_multi_func(c.id, 0, 1, c.funcs, c.n_fs, c.n_func, pv)
PomStreams(c) ==
  LET mode == IF c.id > 127 THEN 2 ELSE 1
  IN CASE c.type = "CV" -> write_cvbyte_pom(c.id, c.cv, c.value, mode)
       [] c.type = "CV_BIT" -> write_cvbit_pom(c.id, c.cv, c.bit, c.value, mode)
       [] OTHER -> <<>>

OnMain(c) == c.group = "SM" => c.what = "SET" /\ c.id > 0
Streams(c) ==
  CASE c.group = "GL" -> Forced(LocoStreams(c), FALSE)
    [] c.group = "GA" -> Forced(comp_nmra_accessory(c.id, c.port, c.action, c.offset), TRUE)
    [] c.group = "SM" -> Forced(PomStreams(c), FALSE)

\* What the bus thread begins to translate; nothing, if the command is refused.
TranslateAll(streams) ==
  /\ todo' = streams
  /\ packets' = <<>>
  /\ tr' = IF streams = <<>> THEN NoTranslation ELSE Begun(streams[1].bits)
  /\ pc' = IF streams = <<>> THEN "done" ELSE "translate"

Encode ==
  /\ pc = "start" /\ OnMain(command)
  /\ TranslateAll(Streams(command))
  /\ rc' = IF Streams(command) = <<>> THEN 1 ELSE 0
  /\ UNCHANGED <<ver, command, smStreams, calls, cvs>>

\* update_NMRAPacketPool and queue_add, if every translation succeeded.
Queue ==
  /\ pc = "send" /\ OnMain(command)
  /\ pc' = "done"
  /\ rc' = IF Rejected THEN 1 ELSE 0
  /\ packets' = IF Rejected THEN <<>> ELSE packets
  /\ UNCHANGED <<ver, command, todo, tr, smStreams, calls, cvs>>

-----------------------------------------------------------------------------
(* The programming track *)

\* The exchange that comes next. protocol_nmra_sm_get_cvbyte asks for the bits,
\* _get_phregister and _get_page for one value after the other.
Search(c) == c.what = "GET" /\ c.type \in {"REGISTER", "PAGE"}
Call(c, n) ==
  LET verify == c.what # "SET"
      value == IF Search(c) THEN n ELSE c.value
      register(r) == [f |-> "register", reg |-> r, value |-> value, verify |-> verify]
  IN CASE c.type = "REGISTER" -> register(c.cv)
       [] c.type = "PAGE" ->
            [f |-> "page", page |-> calc_page(c.cv), reg |-> (c.cv - 1) % 4,
             value |-> value, verify |-> verify]
       [] c.type = "CV" /\ c.what = "GET" ->
            [f |-> "bit", cv |-> c.cv, bit |-> 7 - n, value |-> 1, verify |-> TRUE]
       [] c.type = "CV_BIT" ->
            [f |-> "bit", cv |-> c.cv, bit |-> c.bit,
             value |-> IF c.what = "GET" THEN 1 ELSE value, verify |-> verify]
       [] OTHER -> IF c.cv = 1 /\ value < 128 THEN register(1)
                   ELSE [f |-> "byte", cv |-> c.cv, value |-> value, verify |-> verify]

\* The tests at the beginning of the functions; a byte is written to CV 1025 too.
Accepted(call) ==
  CASE call.f = "register" -> call.reg \in 1..8 /\ call.value \in 0..255
    [] call.f = "page" -> /\ call.reg \in 0..3 /\ call.page \in 0..255
                          /\ call.value \in 0..255
    [] call.f = "byte" -> call.cv \in 1..1025 /\ call.value \in 0..255
    [] call.f = "bit" -> call.cv \in 1..1024 /\ call.bit \in 0..7 /\ call.value \in 0..1

\* calc_reg_stream translates at any price, as sm_init does the page preset.
CallStreams(call) ==
  CASE call.f = "register" ->
         Forced(<<calc_reg_stream(call.reg - 1, call.value, call.verify)>>, TRUE)
    [] call.f = "page" ->
         Forced(<<calc_reg_stream(call.reg, call.value, call.verify),
                  calc_reg_stream(5, call.page, FALSE)>>, TRUE)
    [] call.f = "byte" ->
         Forced(<<direct_byte_stream(call.cv, call.value, call.verify)>>, FALSE)
    [] call.f = "bit" ->
         Forced(<<direct_bit_stream(call.cv, call.bit, call.value, call.verify)>>, FALSE)
sm_init == Forced(<<reset_packet, idle_packet>>, FALSE)
           \o Forced(<<page_preset_packet>>, TRUE)

\* The rest of the command, when an exchange ended with result r.
Concluded(r) ==
  LET n == calls + 1
      more == IF Search(command) THEN r = 0 /\ n < 256
              ELSE command.what = "GET" /\ command.type = "CV" /\ n < 8
  IN /\ calls' = n
     /\ rc' = CASE Search(command) -> IF r = 0 THEN n ELSE n - 1
                [] command.what = "GET" /\ command.type = "CV" -> 2 * rc + r
                [] command.what = "VERIFY" -> IF r = 1 THEN command.value ELSE -1
                [] OTHER -> r
     /\ pc' = IF more THEN "start" ELSE "done"

Exchange ==
  /\ pc = "start" /\ ~OnMain(command)
  /\ LET call == Call(command, calls)
     IN IF Accepted(call)
        THEN /\ TranslateAll((IF smStreams = <<>> THEN sm_init ELSE <<>>)
                                 \o CallStreams(call))
             /\ UNCHANGED <<calls, rc>>
        ELSE Concluded(-1) /\ UNCHANGED <<todo, tr, packets>>
  /\ UNCHANGED <<ver, command, smStreams, cvs>>

Sent(pkt, n) == <<[pkt |-> pkt, times |-> n]>>

\* The packets of an exchange and how often each is sent: idle (power-on cycle),
\* reset, page preset; the instruction; time for the decoder to recover.
SendStream(call, t, p) ==
  LET rs == t[1]  is == t[2]  ps == t[3]
  IN CASE call.f = "register" /\ ~call.verify ->
            Sent(is, 50) \o Sent(rs, 6) \o Sent(ps, 10) \o Sent(rs, 24)
              \o Sent(p[1], 44) \o Sent(rs, 24)
       [] call.f = "page" ->
            Sent(is, 50) \o Sent(rs, 6) \o Sent(p[2], 10) \o Sent(rs, 24)
              \o Sent(p[1], 30) \o Sent(rs, 24)
       [] call.f = "byte" /\ ~call.verify ->
            Sent(is, 30) \o Sent(rs, 15) \o Sent(p[1], 20)
       [] call.f = "bit" ->
            Sent(is, 30) \o Sent(rs, 15) \o Sent(p[1], 20)
       [] OTHER -> Sent(is, 30) \o Sent(rs, 5) \o Sent(p[1], 20)
BufferOf(call) == IF call.f \in {"register", "page"} THEN 4096 ELSE 2048

\* y: the number of bytes that are written. Those of v1 and v2 end with a 0 that
\* strcat does not copy, but that y counts.
Bytes(stream) ==
  LET sum[i \in 0..Len(stream)] ==
        IF i = 0 THEN 0 ELSE sum[i - 1] + stream[i].times * Len(stream[i].pkt)
  IN sum[Len(stream)]
Copied(pkt) == IF pkt # <<>> /\ pkt[Len(pkt)] = 0 THEN SubSeq(pkt, 1, Len(pkt) - 1)
               ELSE pkt

(***************************************************************************)
(* A decoder on the programming track: it has a page register, which is 1  *)
(* when power comes on, and obeys an instruction it hears five times after *)
(* three reset packets. It acknowledges what it wrote or found equal, but  *)
(* not its page register.                                                  *)
(***************************************************************************)
NumberOfBit(value, bit) == (value \div 2 ^ bit) % 2
OfRegister(d, r) == CASE r < 4 -> (d.page - 1) * 4 + r + 1 [] r = 4 -> 29 [] OTHER -> r + 1
Compared(d, cv, value) ==
  IF cv \in DOMAIN d.cvs /\ d.cvs[cv] = value THEN [d EXCEPT !.ack = 1] ELSE d
Written(d, cv, value) ==
  IF cv \in DOMAIN d.cvs THEN [d EXCEPT !.ack = 1, !.cvs[cv] = value] ELSE d

Obeys(d, data) ==
  LET write == data[1][5] = 1
      reg == BitsOf(data[1], 6, 8)
      cv == BitsOf(data[1], 7, 8) * 256 + Number(data[2]) + 1
      value == Number(data[Len(data)])
      bit == BitsOf(data[3], 6, 8)
      with == d.cvs[cv] + (data[3][5] - NumberOfBit(d.cvs[cv], bit)) * 2 ^ bit
      Does(c, v, w) == IF w THEN Written(d, c, v) ELSE Compared(d, c, v)
  IN CASE Len(data) = 2 /\ reg = 5 -> [d EXCEPT !.page = value]
       [] Len(data) = 2 /\ reg # 5 -> Does(OfRegister(d, reg), value, write)
       [] Len(data) = 3 /\ BitsOf(data[1], 5, 6) \in {1, 3} -> Does(cv, value, write)
       [] Len(data) = 3 /\ BitsOf(data[1], 5, 6) = 2 ->
            IF cv \in DOMAIN d.cvs THEN Does(cv, with, data[3][4] = 1) ELSE d
       [] OTHER -> d

Hears(d, chunk) ==
  LET h == Heard(Copied(chunk.pkt) \o Copied(chunk.pkt))
      data == Data(h[1].bytes)
  IN IF \/ Len(h) # 2 \/ chunk.times < 5 \/ ~Sound(h[1].bytes)
        \/ h[1].bytes # h[2].bytes THEN d
     ELSE CASE Number(data[1]) = 0 -> [d EXCEPT !.listens = TRUE]
            [] d.listens /\ BitsOf(data[1], 1, 4) = 7 -> Obeys(d, data)
            [] OTHER -> d

Reacts(stream) ==
  LET after[i \in 0..Len(stream)] ==
        IF i = 0 THEN [cvs |-> cvs, page |-> 1, ack |-> 0, listens |-> FALSE]
        ELSE Hears(after[i - 1], stream[i])
  IN after[Len(stream)]

\* write, waitUARTempty_scanACK, handleACK: an acknowledgment that does not end
\* comes from a line that is always active, and does not count.
Transmit ==
  /\ pc = "send" /\ ~OnMain(command)
  /\ LET t == IF smStreams = <<>> THEN SubSeq(packets, 1, 3) ELSE smStreams
         p == IF smStreams = <<>> THEN SubSeq(packets, 4, Len(packets)) ELSE packets
         reaction == Reacts(SendStream(Call(command, calls), t, p))
     IN /\ smStreams' = t
        /\ cvs' = reaction.cvs
        /\ Concluded(IF reaction.ack = 1 /\ ~command.stuck THEN 1 ELSE 0)
  /\ packets' = <<>>
  /\ UNCHANGED <<ver, command, todo, tr>>

-----------------------------------------------------------------------------
InitWith(case) ==
  /\ ver = case[1] /\ command = case[2]
  /\ pc = "start"
  /\ todo = <<>> /\ tr = NoTranslation /\ packets = <<>> /\ smStreams = <<>>
  /\ calls = 0 /\ rc = 0
  /\ cvs = InitialCVs
Init == \E case \in Cases : InitWith(case)

Next == Encode \/ Exchange \/ Translate \/ Queue \/ Transmit

\* The bus thread goes on; an exchange ends, since write() and the wait for the
\* empty UART do. Next is enabled until the command is done with, so that this is
\* WF_vars(Next), without the ENABLED that TLC is slow at.
Fairness == []<>(pc = "done") \/ []<><<TRUE>>_vars
Spec == Init /\ [][Next]_vars /\ Fairness

-----------------------------------------------------------------------------
(* Properties *)

Streams01 == [bits : {b \in Seq(0..1) : b # <<>> /\ b[Len(b)] = 1}, force : BOOLEAN]
Translations ==
  IF ver = 3
  THEN [buf : Seq(0..1), end : Nat, pos : Nat \ {0}, pkt : Seq(0..255),
        at : Seq(Nat \ {0}), restart : Nat \ {0}, keep : Nat]
  ELSE [buf : Seq(0..1), pos : Nat \ {0}, i : 0..DataCnt, pkt : Seq(0..255),
        stack : Seq(1..DataCnt), at : Seq(Nat \ {0}), high : Nat, correction : BOOLEAN]

\* What fits: a packet into its PKTSIZE characters, though the test of version 2
\* alone lets one more through; the choices onto the stack of each version.
PacketsFit ==
  /\ \A i \in DOMAIN packets : Len(packets[i]) <= PKTSIZE + (IF ver = 2 THEN 1 ELSE 0)
  /\ pc = "translate" =>
       CASE ver = 1 -> Len(tr.pkt) < PKTSIZE - 1 /\ Len(tr.stack) < NMRA_STACKSIZE
         [] ver = 2 -> Len(tr.pkt) < PKTSIZE /\ Len(tr.stack) < PKTSIZE
         [] ver = 3 -> Len(tr.pkt) <= PKTSIZE

\* SendStream finds the packets that it is about; each call was accepted.
Expected(call) == (IF smStreams = <<>> THEN 3 ELSE 0) + (IF call.f = "page" THEN 2 ELSE 1)
AllThere ==
  pc \in {"translate", "send"} /\ ~OnMain(command) =>
    LET call == Call(command, calls)
    IN Accepted(call) /\ Len(packets) + Len(todo) = Expected(call)

TypeOK ==
  /\ <<ver, command>> \in Cases
  /\ pc \in {"start", "translate", "send", "done"}
  /\ todo \in Seq(Streams01) /\ (todo # <<>> <=> pc = "translate")
  /\ pc = "translate" => tr \in Translations
  /\ packets \in Seq(Seq(0..255))
  /\ smStreams # <<>> => smStreams \in Seq(Seq(0..255)) /\ Len(smStreams) = 3
  /\ calls \in 0..256 /\ rc \in -255..256
  /\ PacketsFit /\ AllThere

\* Where byte k + 1 of the packet that is being made begins.
Place(k) == IF k < Len(tr.pkt) THEN tr.at[k + 1] ELSE tr.pos

\* The bytes of a packet in the making stand for the bits of the stream, one after
\* the other from the first one and none left out or taken twice, however often
\* choices are taken back. Version 1 leaves the last 1 out as long as
\* "correction" says so, and adds others; version 3 has two 1 before the stream.
Spelled ==
  pc = "translate" =>
    LET bits == Head(todo).bits
    IN /\ Place(0) = 1
       /\ ver < 3 => \A k \in DOMAIN tr.pkt :
            LET row == TranslateData[tr.stack[k]]
            IN /\ tr.pkt[k] = row.byte
               /\ Matches(tr.stack[k], tr.buf, tr.at[k])
               /\ Place(k) = tr.at[k] + Len(row.bits)
       /\ ver = 3 => \A k \in DOMAIN tr.pkt :
            \E row \in {TranslateData_v3[read_next_six_bits(tr, tr.at[k]) \div 2 + 1][try] :
                         try \in 1..2} :
              tr.pkt[k] = row.byte /\ Place(k) = tr.at[k] + row.length
       /\ CASE ver = 1 ->
                 IF tr.correction THEN tr.buf = Shorter(bits)
                 ELSE /\ Len(tr.buf) >= Len(bits)
                      /\ \A k \in DOMAIN tr.buf :
                           tr.buf[k] = IF k <= Len(bits) THEN bits[k] ELSE 1
            [] ver = 2 -> tr.buf = bits
            [] ver = 3 -> tr.buf = <<1, 1>> \o bits \o Ones(6) /\ tr.end = Len(bits) + 2

\* What is written of SendStream lies within its buffer, as do the packets that
\* the commands need in PKTSIZE, and the CVs keep to a byte.
StreamFits ==
  /\ \A i \in DOMAIN packets : Len(packets[i]) <= PKTSIZE
  /\ DOMAIN cvs = DOMAIN InitialCVs /\ \A cv \in DOMAIN cvs : cvs[cv] \in 0..255
  /\ smStreams # <<>> /\ pc = "send" =>
       LET call == Call(command, calls)
       IN Bytes(SendStream(call, smStreams, packets)) <= BufferOf(call)

\* What a locomotive, with all functions set the other way, knows in the end.
Obeyed(heard, funcs) ==
  LET loco[i \in 0..Len(heard)] ==
        IF i = 0 THEN [step |-> -2, of |-> 0, direction |-> -1,
                       f |-> [n \in 0..28 |-> n \notin funcs]]
        ELSE Obey(loco[i - 1], Instruction(Data(heard[i].bytes)))
  IN loco[Len(heard)]

LocoUnderstands(c, heard) ==
  LET loco == Obeyed(heard, c.funcs)
      step == CASE c.direction = 2 -> -1
                [] c.direction # 2 /\ c.n_fs = 28 -> c.speed
                [] OTHER -> IF c.speed > 126 THEN 126 ELSE c.speed
  IN /\ \A i \in DOMAIN heard :
          LET a == Addressed(Data(heard[i].bytes))
          IN a.address = c.id /\ a.long = (c.id > 127 \/ c.protocolversion = 2)
     /\ loco.step = step
     /\ c.direction # 2 => loco.direction = c.direction
     /\ step > 0 => loco.of = (IF c.n_fs = 28 THEN 28 ELSE 126)
     /\ \A n \in 0..28 : n < c.n_func => loco.f[n] = (n \in c.funcs)

AccessoryUnderstands(c, heard) ==
  /\ Len(heard) = 1
  /\ Accessory(Data(heard[1].bytes)) =
       [pair |-> c.id + c.offset, output |-> c.port, activate |-> c.action]

PomUnderstands(c, heard) ==
  LET data == Data(heard[1].bytes)
  IN /\ Len(heard) = 1
     /\ Addressed(data) = [address |-> c.id, long |-> c.id > 127]
     /\ Programmed(Instruction(data)) =
          IF c.type = "CV" THEN [cv |-> c.cv, value |-> c.value]
          ELSE [cv |-> c.cv, bit |-> c.bit, value |-> c.value, write |-> TRUE]

\* A decoder that hears what is queued for a command does what the command
\* says, whichever version translates it; between two packets to one address
\* are the 50 ones that calc_function_stream speaks of. Only version 1 fails
\* to translate some commands, none of them is queued in part.
Understood ==
  pc = "done" /\ OnMain(command) =>
    LET each == [i \in DOMAIN packets |-> Heard(packets[i])]
        heard == IF Len(each) = 2 THEN each[1] \o each[2] ELSE each[1]
    IN IF packets = <<>> THEN ver = 1
       ELSE /\ \A i \in DOMAIN heard : Sound(heard[i].bytes)
            /\ \A i \in DOMAIN each : \A k \in 2..Len(each[i]) : each[i][k].ones >= 50
            /\ CASE command.group = "GL" -> LocoUnderstands(command, heard)
                 [] command.group = "GA" -> AccessoryUnderstands(command, heard)
                 [] command.group = "SM" -> PomUnderstands(command, heard)

\* Programming does to the decoder what the command says, and the answer is
\* what the decoder holds: with each way to address a CV, and with each version
\* of the translation. On a line that is always active nothing is acknowledged.
ProgramsRight ==
  pc = "done" /\ ~OnMain(command) =>
    LET cv == CASE command.type # "REGISTER" \/ command.cv < 5 -> command.cv
                [] command.cv = 5 -> 29 [] OTHER -> command.cv
        bit == command.type = "CV_BIT"
        held == IF bit THEN NumberOfBit(InitialCVs[cv], command.bit) ELSE InitialCVs[cv]
        asked == IF command.what = "GET" /\ bit THEN 1 ELSE command.value
    IN /\ command.what # "SET" => cvs = InitialCVs
       /\ command.what = "SET" => \A c \in DOMAIN cvs :
            cvs[c] = IF c # cv THEN InitialCVs[c]
                     ELSE IF bit THEN InitialCVs[cv] + (asked - held) * 2 ^ command.bit
                     ELSE asked
       /\ rc = CASE command.what = "SET" -> IF command.stuck THEN 0 ELSE 1
                 [] command.what = "VERIFY" ->
                      IF held = asked /\ ~command.stuck THEN asked ELSE -1
                 [] command.what = "GET" -> IF command.stuck THEN 0 ELSE held

\* Every command is done with in the end: the translations end, although they
\* take choices back and, in version 1, begin anew with a longer buffer.
TranslationEnds == <>(pc = "done")
=============================================================================
