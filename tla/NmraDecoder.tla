----------------------------- MODULE NmraDecoder -----------------------------
(***************************************************************************)
(* What an NMRA decoder makes of the bytes on the serial line: no code of  *)
(* srcpd but what the bytes are computed for, to compare with.             *)
(*                                                                         *)
(* The UART sends a byte as a low bit, eight bits, the lowest first, and a *)
(* high bit, each 52 us long. A run of one bit is a short half wave, half  *)
(* of a 1, a longer run is half of a 0.                                    *)
(***************************************************************************)
EXTENDS Integers, Sequences

Short == 1
Long == 2

LineBits(byte) ==
  [i \in 1..10 |-> CASE i = 1 -> 0 [] i = 10 -> 1
                     [] OTHER -> (byte \div 2 ^ (i - 2)) % 2]

\* The lengths of the half waves of every byte.
HalfWaves ==
  [byte \in 0..255 |->
     LET bits == LineBits(byte)
         ends == {i \in 1..10 : i = 10 \/ bits[i] # bits[i + 1]}
         run[i \in 0..10] ==
           IF i = 0 THEN <<>>
           ELSE IF i \notin ends THEN run[i - 1]
           ELSE Append(run[i - 1],
                       IF i = 1 \/ i - 1 \in ends THEN Short ELSE Long)
     IN run[10]]

(***************************************************************************)
(* A decoder waits for ten 1 at least, that is 20 short half waves, and a  *)
(* 0. Then bytes follow, each after a 0, until a 1 follows a byte. A bit   *)
(* of two unlike half waves ends it all. heard are the packets, ones the   *)
(* number of 1 before each.                                                *)
(***************************************************************************)
Deaf == [mode |-> "seek", shorts |-> 0, first |-> 0, byte |-> <<>>,
         bytes |-> <<>>, ones |-> 0, heard |-> <<>>]

TakeBit(d, bit) ==
  IF Len(d.byte) < 8 THEN [d EXCEPT !.byte = Append(@, bit), !.first = 0]
  ELSE LET taken == [d EXCEPT !.bytes = Append(@, d.byte), !.byte = <<>>, !.first = 0]
       IN IF bit = 0 THEN taken
          ELSE [taken EXCEPT !.mode = "seek", !.shorts = 2,
                  !.heard = Append(@, [bytes |-> taken.bytes, ones |-> d.ones])]

TakeHalf(d, half) ==
  CASE d.mode = "seek" /\ half = Short -> [d EXCEPT !.shorts = @ + 1]
    [] d.mode = "seek" /\ half = Long /\ d.shorts < 20 -> [d EXCEPT !.shorts = 0]
    [] d.mode = "seek" /\ half = Long /\ d.shorts >= 20 ->
         [d EXCEPT !.mode = "start", !.ones = d.shorts \div 2,
                   !.byte = <<>>, !.bytes = <<>>, !.first = 0]
    [] d.mode = "start" /\ half = Long -> [d EXCEPT !.mode = "read"]
    [] d.mode = "read" /\ d.first = 0 -> [d EXCEPT !.first = half]
    [] d.mode = "read" /\ d.first = half -> TakeBit(d, IF half = Short THEN 1 ELSE 0)
    [] OTHER -> [d EXCEPT !.mode = "seek", !.shorts = IF half = Short THEN 1 ELSE 0]

\* The packets in the bytes that were written to the line. (TLC evaluates d[n - 1]
\* as the member of a set before it goes on to byte n, and not at the very end.)
TakeByte(d, halves) ==
  LET h[i \in 0..Len(halves)] ==
        IF i = 0 THEN d ELSE TakeHalf(h[i - 1], halves[i])
  IN h[Len(halves)]
Heard(line) ==
  LET d[n \in 0..Len(line)] ==
        IF n = 0 THEN Deaf
        ELSE CHOOSE after \in {TakeByte(before, HalfWaves[line[n]]) : before \in {d[n - 1]}} :
               TRUE
  IN d[Len(line)].heard

-----------------------------------------------------------------------------
(* Instructions *)

BitsOf(byte, first, last) ==
  LET v[i \in first - 1..last] ==
        IF i < first THEN 0 ELSE 2 * v[i - 1] + byte[i]
  IN v[last]
Number(byte) == BitsOf(byte, 1, 8)

\* The bytes of a packet without the error detection byte, if that is right.
Sound(bytes) ==
  \A bit \in 1..8 :
    LET odd[i \in 0..Len(bytes)] ==
          IF i = 0 THEN 0 ELSE (odd[i - 1] + bytes[i][bit]) % 2
    IN odd[Len(bytes)] = 0

Data(bytes) == SubSeq(bytes, 1, Len(bytes) - 1)

\* The address of a locomotive, short or long, and the instruction for it.
Addressed(data) ==
  IF Number(data[1]) < 128 THEN [long |-> FALSE, address |-> Number(data[1])]
  ELSE [long |-> TRUE,
        address |-> (Number(data[1]) - 192) * 256 + Number(data[2])]
Instruction(data) ==
  SubSeq(data, IF Number(data[1]) < 128 THEN 2 ELSE 3, Len(data))

\* The functions of a group, in the order of their bits.
Switched(f, byte, first, numbers) ==
  [n \in DOMAIN f |-> IF \E i \in DOMAIN numbers : numbers[i] = n
                      THEN byte[first + (CHOOSE i \in DOMAIN numbers : numbers[i] = n) - 1]
                           = 1
                      ELSE f[n]]
Falling(first, last) == [i \in 1..last - first + 1 |-> last + 1 - i]

\* A locomotive obeys an instruction: the step (0 stop, -1 emergency stop), of
\* 28 or 126, the direction and F0 to F28.
Obey(loco, instruction) ==
  LET b == instruction[1]
      Set(first, numbers) == [loco EXCEPT !.f = Switched(@, b, first, numbers)]
      Set2(numbers) == [loco EXCEPT !.f = Switched(@, instruction[2], 1, numbers)]
      s28 == 2 * BitsOf(b, 5, 8) + b[4]
      s126 == BitsOf(instruction[2], 2, 8)
      Step(s, stops) == IF s < stops THEN 0 ELSE IF s < 2 * stops THEN -1
                        ELSE s - 2 * stops + 1
  IN CASE BitsOf(b, 1, 2) = 1 ->
            [loco EXCEPT !.step = Step(s28, 2), !.of = 28, !.direction = b[3]]
       [] Number(b) = 63 ->
            [loco EXCEPT !.step = Step(s126, 1), !.of = 126,
                         !.direction = instruction[2][1]]
       [] BitsOf(b, 1, 3) = 4 -> Set(4, <<0, 4, 3, 2, 1>>)
       [] BitsOf(b, 1, 4) = 11 -> Set(5, Falling(5, 8))
       [] BitsOf(b, 1, 4) = 10 -> Set(5, Falling(9, 12))
       [] Number(b) = 222 -> Set2(Falling(13, 20))
       [] Number(b) = 223 -> Set2(Falling(21, 28))

\* 1110CCAA AAAAAAAA DDDDDDDD: writing a CV on the main, or a bit of it.
Programmed(instruction) ==
  LET cv == BitsOf(instruction[1], 7, 8) * 256 + Number(instruction[2]) + 1
  IN IF BitsOf(instruction[1], 5, 6) = 3
     THEN [cv |-> cv, value |-> Number(instruction[3])]
     ELSE [cv |-> cv, bit |-> BitsOf(instruction[3], 6, 8),
           value |-> instruction[3][5], write |-> instruction[3][4] = 1]

\* 10AAAAAA 1aaaCDDO, where aaa is inverted.
Accessory(data) ==
  [pair |-> ((7 - BitsOf(data[2], 2, 4)) * 64 + BitsOf(data[1], 3, 8)) * 4
              + BitsOf(data[2], 6, 7),
   output |-> data[2][8], activate |-> data[2][5]]
=============================================================================
