--------------------------------- MODULE Nmra ---------------------------------
(***************************************************************************)
(* NMRA-DCC packets of the DDL driver (ddl_nmra.c): the bit streams that   *)
(* it computes for locomotives, accessories and programming, the tables    *)
(* with which it makes bytes for the serial line of them, and, to compare  *)
(* with, what a decoder reads from the levels of that line.                *)
(*                                                                         *)
(* A byte or a bit stream is a sequence of 0 and 1, as in the code (there  *)
(* of characters); functions are the set of the numbers that are on.       *)
(***************************************************************************)
EXTENDS Integers, Sequences, FiniteSets

PKTSIZE == 80
BUFFERSIZE == 1000
ADDR14BIT_OFFSET == 128

Ones(n) == [i \in 1..n |-> 1]
preamble == Ones(15)

\* At least 5 ms between two packets to one address: with the preamble that
\* follows 50 ones, five of which fit into a byte of 0.52 ms.
wait == Ones(35)

calc_single_byte(value) == [i \in 1..8 |-> (value \div 2 ^ (8 - i)) % 2]
WithBit(byte, n, bit) == [i \in 1..8 |-> IF i = n THEN bit ELSE byte[i]]

\* What xor_two_bytes makes of all bytes: of an odd number of ones a one.
Xor(bytes) ==
  [i \in 1..8 |-> Cardinality({k \in DOMAIN bytes : bytes[k][i] = 1}) % 2]

\* A packet: the bytes and their error detection byte, each after a 0, and a 1.
Framed(start, bytes) ==
  LET all == Append(bytes, Xor(bytes))
  IN start \o [i \in 1..9 * Len(all) |->
                 IF i % 9 = 1 THEN 0 ELSE all[(i - 1) \div 9 + 1][(i - 1) % 9]]
           \o <<1>>

-----------------------------------------------------------------------------
(* Locomotives *)

\* calc_address_stream, calc_14bit_address_byte: one byte in mode 1, in mode 2
\* two, 11AAAAAA AAAAAAAA.
AddressBytes(address, mode) ==
  IF mode = 1 THEN <<calc_single_byte(address % 128)>>
  ELSE <<calc_single_byte(192 + address \div 256), calc_single_byte(address)>>

On(func, n) == IF n \in func THEN 1 ELSE 0

\* 01DUSSSS, 01DSSSSS (the last bit of the speed comes first), 00111111 DSSSSSSS
calc_baseline_speed_byte(direction, speed, func) ==
  LET byte == calc_single_byte(64 + 32 * direction + speed)
  IN IF 0 \in func THEN WithBit(byte, 4, 1) ELSE byte
calc_28spst_speed_byte(direction, speed) ==
  LET s == speed + 2
      byte == calc_single_byte(64 + 32 * direction + (s \div 2))
  IN IF s % 2 = 1 THEN WithBit(byte, 4, 1) ELSE byte
calc_128spst_adv_op_bytes(direction, speed) ==
  LET byte2 == calc_single_byte(speed)
  IN <<calc_single_byte(63), IF direction = 1 THEN WithBit(byte2, 1, 1) ELSE byte2>>

\* Stop and emergency stop have one form for all decoders.
SpeedBytes(direction, speed, func, nspeed) ==
  CASE speed < 2 \/ nspeed < 15 ->
         <<calc_baseline_speed_byte(direction, speed, func)>>
    [] speed >= 2 /\ nspeed > 29 -> calc_128spst_adv_op_bytes(direction, speed)
    [] OTHER -> <<calc_28spst_speed_byte(direction, speed)>>

\* 100DDDDD with F0 before F4 to F1, 1011DDDD for F5 to F8, 1010DDDD for F9 to
\* F12, and two bytes for F13 to F20 and F21 to F28.
Functions(func, first, last) ==
  [i \in 1..last - first + 1 |-> On(func, last + 1 - i)]
calc_function_group_one_byte(func) == <<1, 0, 0, On(func, 0)>> \o Functions(func, 1, 4)
calc_function_group_two_byte(func, lower) ==
  IF lower THEN <<1, 0, 1, 1>> \o Functions(func, 5, 8)
  ELSE <<1, 0, 1, 0>> \o Functions(func, 9, 12)

\* calc_function_stream: what is sent after the speed, and the second stream.
MoreFunctions(address, func, nfuncs) ==
  (IF nfuncs > 5
   THEN wait \o Framed(preamble,
                  Append(address, calc_function_group_two_byte(func, TRUE)))
   ELSE <<>>) \o
  (IF nfuncs > 12
   THEN wait \o Framed(preamble, address \o <<calc_single_byte(222),
                                              Functions(func, 13, 20)>>)
   ELSE <<>>)
FunctionStream(address, func, nfuncs) ==
  Framed(preamble, Append(address, calc_function_group_one_byte(func))) \o
  (IF nfuncs > 8
   THEN wait \o Framed(preamble,
                  Append(address, calc_function_group_two_byte(func, FALSE)))
   ELSE <<>>) \o
  (IF nfuncs > 20
   THEN wait \o Framed(preamble, address \o <<calc_single_byte(223),
                                              Functions(func, 21, 28)>>)
   ELSE <<>>)

\* comp_nmra_multi_func: one bit stream, or two; none if it refuses.
comp_nmra_multi_func(adr, direction, speed, func, nspeed, nfuncs, mode) ==
  LET address == AddressBytes(adr, mode)
      v == IF speed > 127 THEN 127 ELSE speed
      first == Framed(preamble, address \o SpeedBytes(direction, v, func, nspeed))
  IN CASE \/ adr < 1 \/ adr > 10239 \/ direction \notin 0..1
          \/ speed \notin 0..nspeed + 1 \/ (adr > 127 /\ mode = 1) -> <<>>
       [] nfuncs > 0 /\ nspeed > 14 ->
            <<first \o MoreFunctions(address, func, nfuncs),
              FunctionStream(address, func, nfuncs)>>
       [] OTHER -> <<first>>

-----------------------------------------------------------------------------
(* Accessories, programming on the main *)

\* 10AAAAAA 1aaaCDDO, the upper bits of the address inverted.
comp_nmra_accessory(nr, output, activate, offset) ==
  LET address == (nr + offset) \div 4
      pairnr == (nr + offset) % 4
  IN IF nr \notin 1..2044 \/ output \notin 0..1 \/ activate \notin 0..1 THEN <<>>
     ELSE <<Framed(preamble,
              <<calc_single_byte(128 + (address % 64)),
                calc_single_byte(128 + ((511 - address) \div 64) * 16
                                   + activate * 8 + pairnr * 2 + output)>>)>>

\* The instructions, 1110CCAA on the main and 0111CCAA on the programming track;
\* bit 2 of cv >> 8, if cv is 1024, is set in the base anyway.
calc_byte_program_stream(cv, value, verify, pom) ==
  LET byte2 == calc_single_byte((IF pom THEN 236 ELSE 124) + ((cv \div 256) % 4))
  IN <<IF verify THEN WithBit(byte2, 5, 0) ELSE byte2,
       calc_single_byte(cv), calc_single_byte(value)>>
calc_bit_program_stream(cv, bit, value, verify, pom) ==
  LET byte4 == calc_single_byte(240 + 8 * value + bit)
  IN <<calc_single_byte((IF pom THEN 232 ELSE 120) + cv \div 256),
       calc_single_byte(cv), IF verify THEN WithBit(byte4, 4, 0) ELSE byte4>>

\* protocol_nmra_sm_write_cvbyte_pom and _cvbit_pom, which spares CV 1.
write_cvbyte_pom(address, cv, value, mode) ==
  IF \/ address \notin 1..10239 \/ cv \notin 1..1024 \/ value \notin 0..255
     \/ (address > 127 /\ mode = 1) THEN <<>>
  ELSE <<Framed(preamble, AddressBytes(address, mode)
                 \o calc_byte_program_stream(cv - 1, value, FALSE, TRUE))>>
write_cvbit_pom(address, cv, bit, value, mode) ==
  IF \/ address \notin 1..10239 \/ cv \notin 2..1024 \/ bit \notin 0..7
     \/ value \notin 0..1 \/ (address > 127 /\ mode = 1) THEN <<>>
  ELSE <<Framed(preamble, AddressBytes(address, mode)
                 \o calc_bit_program_stream(cv - 1, bit, value, FALSE, TRUE))>>

-----------------------------------------------------------------------------
(* Programming track *)

longpreamble == Ones(30)
reset_packet == Framed(longpreamble, <<calc_single_byte(0), calc_single_byte(0)>>)
idle_packet == Framed(longpreamble, <<calc_single_byte(255), calc_single_byte(0)>>)
page_preset_packet ==
  Framed(longpreamble, <<calc_single_byte(125), calc_single_byte(1)>>)

\* calc_reg_stream: 0111CRRR DDDDDDDD
calc_reg_stream(reg, value, verify) ==
  LET byte1 == calc_single_byte(120 + reg)
  IN Framed(longpreamble,
            <<IF verify THEN WithBit(byte1, 5, 0) ELSE byte1,
              calc_single_byte(value)>>)

direct_byte_stream(cv, value, verify) ==
  Framed(longpreamble, calc_byte_program_stream(cv - 1, value, verify, FALSE))
direct_bit_stream(cv, bit, value, verify) ==
  Framed(longpreamble, calc_bit_program_stream(cv - 1, bit, value, verify, FALSE))

calc_page(cv) == (cv - 1) \div 4 + 1

-----------------------------------------------------------------------------
(* Bytes for the serial line *)

\* TranslateData: bits and the byte that makes their half waves, a bit aligned
\* with a byte; in versions 1 and 2 a later row is preferred.
TranslateData ==
  << [bits |-> <<0>>,             byte |-> 240],
     [bits |-> <<0, 0>>,          byte |-> 198],
     [bits |-> <<0, 1>>,          byte |-> 120],
     [bits |-> <<1, 0>>,          byte |-> 225],
     [bits |-> <<0, 0, 1>>,       byte |-> 102],
     [bits |-> <<0, 1, 0>>,       byte |-> 150],
     [bits |-> <<0, 1, 1>>,       byte |->  92],
     [bits |-> <<1, 0, 0>>,       byte |-> 153],
     [bits |-> <<1, 0, 1>>,       byte |-> 113],
     [bits |-> <<1, 1, 0>>,       byte |-> 197],
     [bits |-> <<0, 1, 1, 1>>,    byte |->  86],
     [bits |-> <<1, 0, 1, 1>>,    byte |->  89],
     [bits |-> <<1, 1, 0, 1>>,    byte |-> 101],
     [bits |-> <<1, 1, 1, 0>>,    byte |-> 149],
     [bits |-> <<1, 1, 1, 1, 1>>, byte |->  85] >>
DataCnt == Len(TranslateData)

\* Do the bits of row i come next in the buffer?
Matches(i, buf, pos) ==
  LET bits == TranslateData[i].bits
  IN /\ pos + Len(bits) - 1 <= Len(buf)
     /\ \A k \in 1..Len(bits) : buf[pos + k - 1] = bits[k]

\* TranslateData_v3: for the next five of six bits the byte and the number of
\* bits it stands for, and the shorter way to take at a second try. A byte
\* begins and ends with half a bit.
TranslateData_v3 ==
  LET Row(v, n, w, m) == <<[byte |-> v, length |-> n], [byte |-> w, length |-> m]>>
      lLl   == Row(204, 2, 240, 1)
      lLHl  == Row(166, 3,  28, 2)
      lLHh  == Row( 76, 3,  28, 2)
      lHLl  == Row(154, 3, 232, 2)
      lHLh  == Row( 52, 3, 232, 2)
      lHHl  == Row(212, 3,  64, 2)
      lHHh  == Row( 80, 3,  64, 2)
      hLl   == Row(199, 2, 255, 1)
      hLHl  == Row(211, 3,  15, 2)
      hLHh  == Row( 71, 3,  15, 2)
      hHLl  == Row(205, 3, 253, 2)
      hHLh  == Row( 29, 3, 253, 2)
  IN << lLl, lLl, lLl, lLl, lLHl, lLHl, lLHh, lLHh,
        lHLl, lHLl, lHLh, lHLh, lHHl, lHHl, lHHh, Row(84, 4, 80, 3),
        hLl, hLl, hLl, hLl, hLHl, hLHl, hLHh, Row(83, 4, 71, 3),
        hHLl, hHLl, hHLh, Row(77, 4, 29, 3),
        Row(245, 3, 245, 3), Row(53, 4, 245, 3), Row(213, 4, 213, 4),
        Row(85, 5, 85, 5) >>
=============================================================================
