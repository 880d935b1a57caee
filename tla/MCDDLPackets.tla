----------------------------- MODULE MCDDLPackets -----------------------------
EXTENDS DDLPackets, TLC

(* NMRA: commands that reach every form of instruction, the limits of       *)
(* addresses, speeds, functions and CVs.                                    *)

All == 0..28
Others == {0, 2, 3, 5, 8, 9, 12, 13, 14, 15, 16, 17, 20, 21, 28}
OnesInARow == {1, 2, 3, 4, 6, 7, 10, 11, 18, 19, 22, 25}

GL(id, pv, direction, speed, n_fs, n_func, funcs) ==
  [group |-> "GL", id |-> id, protocolversion |-> pv, direction |-> direction,
   speed |-> speed, n_fs |-> n_fs, n_func |-> n_func, funcs |-> funcs]
NmraLocos ==
  {GL(id, 1, 1, speed, 28, 5, {0, 3}) : id \in {1, 31, 127}, speed \in {0, 1, 2, 27, 28}}
  \cup {GL(id, 2, 0, speed, 128, n, f) :
          id \in {3, 10239}, speed \in {0, 1, 126, 128}, n \in {1, 9},
          f \in {{}, {0, 1, 2, 3, 4, 5, 6, 7, 8}}}
  \cup {GL(128, 2, 1, 14, 28, n, f) : n \in {0, 4, 6, 8, 12, 13, 20, 21, 29},
                                      f \in {All, Others, OnesInARow}}
  \cup {GL(4096, 2, 1, 78, 128, 29, {0, 2, 9, 11, 12, 14, 15, 16, 21, 25})}
  \cup {GL(id, 1, 2, 5, n_fs, 5, {0}) : id \in {3, 200}, n_fs \in {28, 128}}

GA == {[group |-> "GA", id |-> id, port |-> port, action |-> action, offset |-> offset] :
         id \in {1, 2, 255, 2044}, port \in 0..1, action \in 0..1, offset \in 0..1}

SM(what, type, id, cv, bit, value, stuck) ==
  [group |-> "SM", what |-> what, type |-> type, id |-> id, cv |-> cv, bit |-> bit,
   value |-> value, stuck |-> stuck]
Main ==
  {SM("SET", "CV", id, cv, 0, value, FALSE) :
     id \in {1, 127, 1000}, cv \in {1, 1024}, value \in {0, 255}}
  \cup {SM("SET", "CV_BIT", 1000, cv, bit, value, FALSE) :
          cv \in {29, 1024}, bit \in {0, 5}, value \in 0..1}
Whats == {"SET", "GET", "VERIFY"}
Track ==
  {SM(what, "CV", 0, cv, 0, value, FALSE) :
     what \in Whats, cv \in {1, 29, 1024}, value \in {3, 6, 200}}
  \cup {SM(what, "CV_BIT", -1, 29, bit, value, FALSE) :
          what \in Whats, bit \in {0, 5, 7}, value \in 0..1}
  \cup {SM(what, "REGISTER", 0, cv, 0, 3, FALSE) : what \in Whats, cv \in {1, 2, 5, 8}}
  \cup {SM(what, "PAGE", 0, cv, 0, value, FALSE) :
          what \in Whats, cv \in {1, 8, 1020}, value \in {2, 3}}
  \cup {SM(what, "CV", 0, 29, 0, 6, TRUE) : what \in Whats}

\* Version 1 needs ten thousands of turns for some packets, those it rejects
\* and 01111000 00000011 00000010 among them: these are left out.
Quick1(c) ==
  CASE c.group = "GL" -> c.n_func <= 9 /\ (c.speed = 1 => c.n_func < 9)
    [] c.group = "GA" -> ~(c.port = 1 /\ c.action = 1 /\ c.id + c.offset = 1)
    [] c.group = "SM" -> ~(c.what = "SET" /\ c.cv = 1 /\ c.value = 3)
MCCases ==
  LET all == NmraLocos \cup GA \cup Main \cup Track
  IN ({1} \X {c \in all : Quick1(c)}) \cup ({2, 3} \X all)
MCInitialCVs == (1 :> 3 @@ 2 :> 1 @@ 3 :> 0 @@ 4 :> 0 @@ 8 :> 2 @@ 29 :> 6
                   @@ 1020 :> 2 @@ 1023 :> 9 @@ 1024 :> 200)

-----------------------------------------------------------------------------
(* Maerklin: one locomotive of each kind; a second command may come at any  *)
(* time. With 28 steps each speed follows each other; functions and speeds   *)
(* meet that need another form.                                             *)

MCKinds == (5 :> "M1" @@ 255 :> "M2" @@ 80 :> "M2/28")

Say(direction, speed, funcs) ==
  [direction |-> direction, speed |-> speed, funcs |-> funcs]
Some ==
  {Say(0, 3, {}), Say(1, 12, {0, 1, 2}), Say(0, 14, {3}), Say(1, 1, {1, 2, 3, 4}),
   Say(0, 7, {4}), Say(1, 8, {1, 3}), Say(0, 11, {1}), Say(1, 0, {}),
   Say(1, 4, {2, 3, 4}), Say(0, 6, {1, 4}), Say(2, 9, {0, 4}), Say(1, 15, {2, 4})}
MCGLCommands ==
  [kind \in {"M1", "M2", "M2/28"} |->
     CASE kind = "M1" -> {Say(0, 1, {}), Say(0, 9, {0}), Say(1, 14, {1}), Say(2, 9, {0})}
       [] kind = "M2" -> Some
       [] OTHER -> {Say(0, speed, {2}) : speed \in (0..7) \cup {26, 27, 28}}
                     \cup {Say(2, 9, {4})}]
MCGACommands ==
  {[id |-> id, port |-> port, action |-> 1] : id \in {1, 324}, port \in 0..1}
    \cup {[id |-> 81, port |-> 0, action |-> 0]}
=============================================================================
