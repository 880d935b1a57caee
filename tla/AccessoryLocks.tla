---------------------------- MODULE AccessoryLocks ----------------------------
(* The locks of the GA device group (srcp-ga.c): one per address, taken and  *)
(* given back by the sessions (srcp-command.c), dropped with everything else *)
(* by TERM GA, counted down by the main thread.  No mutex protects them, so  *)
(* an action is one look at the shared record with the decision taken on it, *)
(* or one change of it.  Unlike GL, none of the lock functions asks whether  *)
(* the address is initialised.                                               *)
EXTENDS Integers

CONSTANTS Sessions,     \* client sessions; a session id is never 0
          N,            \* numberOfGa
          Durations,    \* lock durations that clients ask for, in seconds
          MaxCommands   \* bound: commands and ends of sessions altogether

ASSUME AccessoryAssumption == /\ N \in Nat \ {0} /\ 0 \notin Sessions
                              /\ Durations \subseteq Nat /\ MaxCommands \in Nat

VARIABLES protocol,     \* per address: is the protocol letter set, by INIT?
          locked_by,    \* per address: a session or 0
          lockduration, \* per address: seconds left; 0 or less counts on, for ever
          th,           \* per session thread: where it is, its command, its address
          mpc, j, count,\* main thread: its place in unlock_ga_bytime
          left,         \* commands the sessions may still issue
          clash,        \* history: addresses where two lock changes overlapped
          asked, age    \* history: per address the duration asked for, and the
                        \* calls of unlock_ga_bytime that counted it down

lockVars == <<locked_by, lockduration, clash, asked, age>>
mainVars == <<mpc, j, count>>
vars == <<protocol, lockVars, mainVars, th, left>>

Addr == 1 .. N

Idle == [pc |-> "idle", cmd |-> "none", addr |-> 1]

Init == /\ protocol = [a \in Addr |-> FALSE]
        /\ locked_by = [a \in Addr |-> 0]
        /\ lockduration = [a \in Addr |-> 0]
        /\ th = [s \in Sessions |-> Idle]
        /\ mpc = "read" /\ j = 1 /\ count = 0
        /\ left = MaxCommands
        /\ clash = {}
        /\ asked = [a \in Addr |-> 0] /\ age = [a \in Addr |-> 0]

At(s, p) == th[s].pc = p

Goto(s, p) == th' = [th EXCEPT ![s] = IF p = "idle" THEN Idle ELSE [@ EXCEPT !.pc = p]]

Begin(s, c, a, p) ==
    /\ At(s, "idle") /\ left > 0
    /\ left' = left - 1
    /\ th' = [th EXCEPT ![s] = IF p = "idle" THEN Idle
                               ELSE [pc |-> p, cmd |-> c, addr |-> a]]

Free(s, a) == locked_by[a] \in {0, s}

\* Between the look at the lock of a and the last change that follows from it.
Changing(s, a) ==
    th[s].addr = a /\ th[s].pc \in {"lock", "duration", "release", "term", "clear"}

Meets(s, a) == \/ j = a /\ mpc # "read"
               \/ \E t \in Sessions \ {s} : Changing(t, a)

\* The lock of a is changed by s; the overlap is remembered.
Changed(s, a) == clash' = IF Meets(s, a) THEN clash \cup {a} ELSE clash

-----------------------------------------------------------------------------
(* The commands of a session, up to the decision that lockid leads to. *)

\* SET LOCK: lockGA.
SetLock(s) == \E a \in Addr :
    /\ Begin(s, "lock", a, IF Free(s, a) THEN "lock" ELSE "idle")
    /\ UNCHANGED <<protocol, lockVars, mainVars>>

\* TERM LOCK: unlockGA.
TermLock(s) == \E a \in Addr :
    /\ Begin(s, "unlock", a, IF Free(s, a) THEN "release" ELSE "idle")
    /\ UNCHANGED <<protocol, lockVars, mainVars>>

\* HandleTerm with a bug that KeepsLock has to show.
HandleTermAny(s) == \E a \in Addr :
    /\ Begin(s, "term", a, IF locked_by[a] = s THEN "testlock" ELSE "term")
    /\ UNCHANGED <<protocol, lockVars, mainVars>>

\* TERM GA: termGA at once when nobody holds the lock, after unlockGA when the
\* session itself does.
HandleTerm(s) == \E a \in Addr :
    /\ Begin(s, "term", a, IF locked_by[a] = 0 THEN "term"
                           ELSE IF locked_by[a] = s THEN "testlock" ELSE "idle")
    /\ UNCHANGED <<protocol, lockVars, mainVars>>

\* INIT GA disregards the lock, and leaves it as it is.
HandleInit(s) == \E a \in Addr :
    /\ Begin(s, "init", a, "idle")
    /\ protocol' = [protocol EXCEPT ![a] = TRUE]
    /\ UNCHANGED <<lockVars, mainVars>>

\* The session's thread ends: stop_session calls unlock_ga_bysessionid.
Quit(s) == /\ Begin(s, "quit", 1, "bysession")
           /\ UNCHANGED <<protocol, lockVars, mainVars>>

-----------------------------------------------------------------------------
(* lockGA, unlockGA, termGA and unlock_ga_bysessionid, step by step. *)

LockGA(s) == LET a == th[s].addr IN
    /\ At(s, "lock")
    /\ locked_by' = [locked_by EXCEPT ![a] = s]
    /\ Changed(s, a)
    /\ Goto(s, "duration")
    /\ UNCHANGED <<protocol, lockduration, asked, age, mainVars, left>>

LockDuration(s) == LET a == th[s].addr IN
    /\ At(s, "duration")
    /\ \E d \in Durations : /\ lockduration' = [lockduration EXCEPT ![a] = d]
                            /\ asked' = [asked EXCEPT ![a] = d]
    /\ age' = [age EXCEPT ![a] = 0]
    /\ Changed(s, a)
    /\ Goto(s, "idle")
    /\ UNCHANGED <<protocol, locked_by, mainVars, left>>

\* NextAddress with a bug that GoneHoldsNoLock has to show.
NextAddressShort(s) ==
    th' = [th EXCEPT ![s] = IF @.addr >= N - 1 THEN [Idle EXCEPT !.pc = "gone"]
                            ELSE [pc |-> "bysession", cmd |-> "quit", addr |-> @.addr + 1]]

\* The next address of the loop in unlock_ga_bysessionid, or the thread's end.
NextAddress(s) ==
    th' = [th EXCEPT ![s] = IF @.addr = N THEN [Idle EXCEPT !.pc = "gone"]
                            ELSE [pc |-> "bysession", cmd |-> "quit", addr |-> @.addr + 1]]

UnlockBySession(s) ==
    /\ At(s, "bysession")
    /\ IF locked_by[th[s].addr] = s THEN Goto(s, "testlock") ELSE NextAddress(s)
    /\ UNCHANGED <<protocol, lockVars, mainVars, left>>

\* unlockGA looks again, whatever its caller saw.
TestLock(s) ==
    /\ At(s, "testlock")
    /\ IF Free(s, th[s].addr) THEN Goto(s, "release")
       ELSE IF th[s].cmd = "quit" THEN NextAddress(s) ELSE Goto(s, "idle")
    /\ UNCHANGED <<protocol, lockVars, mainVars, left>>

ReleaseGA(s) == LET a == th[s].addr IN
    /\ At(s, "release")
    /\ locked_by' = [locked_by EXCEPT ![a] = 0]
    /\ Changed(s, a)
    /\ IF th[s].cmd = "quit" THEN NextAddress(s)
       ELSE Goto(s, IF th[s].cmd = "term" THEN "term" ELSE "idle")
    /\ UNCHANGED <<protocol, lockduration, asked, age, mainVars, left>>

TermGA(s) ==
    /\ At(s, "term")
    /\ Goto(s, IF protocol[th[s].addr] THEN "clear" ELSE "idle")
    /\ UNCHANGED <<protocol, lockVars, mainVars, left>>

\* memset: the record is all zero, the lock with it.
ClearGA(s) == LET a == th[s].addr IN
    /\ At(s, "clear")
    /\ protocol' = [protocol EXCEPT ![a] = FALSE]
    /\ locked_by' = [locked_by EXCEPT ![a] = 0]
    /\ lockduration' = [lockduration EXCEPT ![a] = 0]
    /\ Changed(s, a)
    /\ Goto(s, "idle")
    /\ UNCHANGED <<asked, age, mainVars, left>>

-----------------------------------------------------------------------------
(* unlock_ga_bytime, which the main thread calls once per second.  The       *)
(* decrement goes on below 0; what is below -1 reads as -1 here.             *)

NextGA == mpc' = "read" /\ j' = IF j = N THEN 1 ELSE j + 1

ReadDuration ==
    /\ mpc = "read"
    /\ count' = lockduration[j]
    /\ mpc' = "store"
    /\ UNCHANGED <<protocol, lockVars, j, th, left>>

\* StoreDuration with a bug that LockTime has to show.
StoreDurationEarly ==
    /\ mpc = "store"
    /\ lockduration' = [lockduration EXCEPT ![j] = IF count > 0 THEN count - 1 ELSE -1]
    /\ age' = [age EXCEPT ![j] = IF count > 0 THEN @ + 1 ELSE @]
    /\ count' = 0
    /\ clash' = IF \E s \in Sessions : Changing(s, j) THEN clash \cup {j} ELSE clash
    /\ IF count = 2 THEN mpc' = "release" /\ UNCHANGED j ELSE NextGA
    /\ UNCHANGED <<protocol, locked_by, asked, th, left>>

StoreDuration ==
    /\ mpc = "store"
    /\ lockduration' = [lockduration EXCEPT ![j] = IF count > 0 THEN count - 1 ELSE -1]
    /\ age' = [age EXCEPT ![j] = IF count > 0 THEN @ + 1 ELSE @]
    /\ count' = 0
    /\ clash' = IF \E s \in Sessions : Changing(s, j) THEN clash \cup {j} ELSE clash
    /\ IF count = 1 THEN mpc' = "release" /\ UNCHANGED j ELSE NextGA
    /\ UNCHANGED <<protocol, locked_by, asked, th, left>>

\* ReleaseByTime with a bug that LockEnds has to show.
ReleaseAsNobody ==
    /\ mpc = "release"
    /\ NextGA
    /\ UNCHANGED <<protocol, lockVars, count, th, left>>

\* The holder is an argument of the call, so whoever it is, it matches.
ReleaseByTime ==
    /\ mpc = "release"
    /\ locked_by' = [locked_by EXCEPT ![j] = 0]
    /\ clash' = IF \E s \in Sessions : Changing(s, j) THEN clash \cup {j} ELSE clash
    /\ NextGA
    /\ UNCHANGED <<protocol, lockduration, asked, age, count, th, left>>

unlock_ga_bytime == ReadDuration \/ StoreDuration \/ ReleaseByTime

Request(s) == SetLock(s) \/ TermLock(s) \/ HandleTerm(s) \/ HandleInit(s) \/ Quit(s)

Step(s) == \/ LockGA(s) \/ LockDuration(s) \/ UnlockBySession(s) \/ TestLock(s)
           \/ ReleaseGA(s) \/ TermGA(s) \/ ClearGA(s)

Next == unlock_ga_bytime \/ \E s \in Sessions : Request(s) \/ Step(s)

Spec == Init /\ [][Next]_vars

\* The main loop calls unlock_ga_bytime every second until the server ends; a
\* thread in the middle of a command goes on.
FairSpec == Spec /\ WF_vars(unlock_ga_bytime) /\ \A s \in Sessions : WF_vars(Step(s))

-----------------------------------------------------------------------------
(* Properties. *)

\* Type invariant.
TypeOK ==
    /\ protocol \in [Addr -> BOOLEAN]
    /\ locked_by \in [Addr -> Sessions \cup {0}]
    /\ lockduration \in [Addr -> Nat \cup {-1}]
    /\ th \in [Sessions -> [pc : {"idle", "lock", "duration", "bysession", "testlock",
                                  "release", "term", "clear", "gone"},
                            cmd : {"none", "lock", "unlock", "init", "term", "quit"},
                            addr : Addr]]
    /\ mpc \in {"read", "store", "release"} /\ j \in Addr /\ count \in Nat \cup {-1}
    /\ left \in Nat
    /\ clash \in SUBSET Addr
    /\ asked \in [Addr -> Nat] /\ age \in [Addr -> Nat]

\* stop_session cleans all locks of the session that ends, although the loop
\* of unlock_ga_bysessionid runs against the main thread and other sessions.
GoneHoldsNoLock ==
    \A s \in Sessions : th[s].pc = "gone" => \A a \in Addr : locked_by[a] # s

\* A lock goes from its holder only by the holder's own command or because its
\* time is up, as long as no two changes of that lock overlapped.
KeepsLock == [][\A a \in Addr : \A s \in Sessions :
    locked_by[a] = s /\ locked_by'[a] # s =>
        \/ Changing(s, a)
        \/ j = a /\ mpc = "release" /\ asked[a] > 0
        \/ a \in clash']_vars

\* "must be called exactly once per second": a lock that the main thread takes
\* away was counted down as often as seconds were asked for.
LockTime == mpc = "release" /\ locked_by[j] # 0 /\ j \notin clash => age[j] = asked[j]

\* A lock with a duration does not outlive it: the holder gives it back, asks
\* for it without end, or the main thread takes it away, unless changes of that
\* lock overlapped.
LockEnds == \A a \in Addr :
    locked_by[a] # 0 /\ asked[a] > 0 ~> locked_by[a] = 0 \/ asked[a] = 0 \/ a \in clash
=============================================================================
