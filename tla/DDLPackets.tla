------------------------------ MODULE DDLPackets ------------------------------
(***************************************************************************)
(* The packets of the DDL driver: its bus thread looks at the protocol of  *)
(* a command and makes packets for Maerklin or for NMRA decoders of it     *)
(* (ddl.c, switch (p)). The two share the queue and the lines, that is in  *)
(* DDL, but no packets and no pool: a behavior is about one of them.       *)
(***************************************************************************)
EXTENDS Integers, Sequences

CONSTANTS
  Cases, InitialCVs,                              \* of NmraPackets
  Kinds, GLCommands, GACommands, MaxToCome        \* of Maerklin

\* NMRA: any number may stand in a command, srcpd does not look at most of them.
Commands ==
  [group : {"GL"}, id : Int, protocolversion : Int, direction : Int, speed : Int,
   n_fs : Int, n_func : Int, funcs : SUBSET (0..28)]
  \cup [group : {"GA"}, id : Int, port : Int, action : Int, offset : 0..1]
  \cup [group : {"SM"}, what : {"SET", "GET", "VERIFY"},
        type : {"CV", "CV_BIT", "REGISTER", "PAGE"}, id : Int, cv : Int, bit : Int,
        value : Int, stuck : BOOLEAN]
ASSUME NmraAssumption == Cases # {} /\ Cases \subseteq (1..3) \X Commands

\* Maerklin: srcp-gl.c scales a speed to the steps that INIT gave; from a client
\* that names 0 as the highest one it takes any, of which these are not refused.
SpeedSteps(kind) == IF kind = "M2/28" THEN 28 ELSE 15
ASSUME MaerklinAssumption ==
  /\ DOMAIN Kinds \subseteq 1..255
  /\ Kinds \in [DOMAIN Kinds -> {"M1", "M2", "M2/28"}]
  /\ \A kind \in {"M1", "M2", "M2/28"} :
       GLCommands[kind] \subseteq [direction : 0..2, speed : 0..SpeedSteps(kind),
                                   funcs : SUBSET (0..4)]
  /\ GACommands \subseteq [id : Int, port : Int, action : Int]
  /\ MaxToCome \in Nat

VARIABLES
  protocol,                                                     \* p in the code
  ver, command, pc, todo, tr, packets, smStreams, calls, rc,    \* NmraPackets
  cvs,
  cached, MaerklinPool, knownAddresses, last_refreshed, queue,  \* Maerklin
  second, decoder, wanted, switched, toCome

N == INSTANCE NmraPackets
M == INSTANCE Maerklin
nmra == <<ver, command, pc, todo, tr, packets, smStreams, calls, rc, cvs>>
maerklin == <<cached, MaerklinPool, knownAddresses, last_refreshed, queue, second,
              decoder, wanted, switched, toCome>>
packetVars == <<protocol, nmra, maerklin>>

\* Of the protocol that is not used one initial state is enough.
PacketsInit ==
  \/ protocol = "N" /\ N!Init /\ M!InitWith(0)
  \/ protocol = "M" /\ M!Init /\ N!InitWith(CHOOSE case \in Cases : TRUE)

NMRA(A) == protocol = "N" /\ A /\ UNCHANGED <<protocol, maerklin>>
Maerklin(A) == protocol = "M" /\ A /\ UNCHANGED <<protocol, nmra>>
PacketsNext == NMRA(N!Next) \/ Maerklin(M!Next)

\* As in the two modules, whose actions these are.
PacketsFairness ==
  /\ []<>(protocol = "M" \/ pc = "done") \/ []<><<TRUE>>_packetVars
  /\ WF_packetVars(Maerklin(M!SecondStep)) /\ WF_packetVars(Maerklin(M!SendQueued))
  /\ WF_packetVars(Maerklin(M!refresh_loco))
PacketsSpec == PacketsInit /\ [][PacketsNext]_packetVars /\ PacketsFairness

-----------------------------------------------------------------------------
\* As in the two modules, see there.
PacketsTypeOK == protocol \in {"M", "N"} /\ N!TypeOK /\ M!TypeOK

\* What is put into packets, queue and pool is what was commanded: no bit of a
\* stream of NMRA, no order or switching of an accessory, no speed, direction or
\* function of a Maerklin locomotive is lost or changed on the way.
PacketsSay == N!Spelled /\ M!CoilsFollow /\ M!PoolSays

\* The decoders of NMRA understand commands and are programmed as told, and the
\* streams that program them fit into their buffers.
Understood == N!Understood /\ N!ProgramsRight /\ N!StreamFits

\* Every NMRA command is done with in the end.
TranslationEnds == protocol = "N" => N!TranslationEnds

\* When no more commands come every Maerklin locomotive does what was said last.
InStepComes == M!InStepComes
=============================================================================
