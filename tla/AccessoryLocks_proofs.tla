------------------------ MODULE AccessoryLocks_proofs ------------------------
(* Proofs about the locks of the GA group, for every set of sessions, every  *)
(* number of addresses, all lock durations and any number of commands.       *)
EXTENDS AccessoryLocks, TLAPS

-----------------------------------------------------------------------------
(* Type correctness. *)

Pcs == {"idle", "lock", "duration", "bysession", "testlock", "release", "term", "clear",
        "gone"}

Thread == [pc : Pcs, cmd : {"none", "lock", "unlock", "init", "term", "quit"}, addr : Addr]

LEMMA AddrFacts == N \in Nat \ {0} /\ 1 \in Addr /\ N \in Addr
  BY AccessoryAssumption DEF Addr

LEMMA TypeInit == Init => TypeOK
  BY AccessoryAssumption, AddrFacts DEF Init, TypeOK, Idle

LEMMA RequestType ==
    ASSUME TypeOK, NEW s \in Sessions, Request(s) PROVE TypeOK'
<1> USE DEF TypeOK, Begin, At, Idle
<1>1. CASE SetLock(s)
  BY <1>1, AddrFacts DEF SetLock, lockVars, mainVars
<1>2. CASE TermLock(s)
  BY <1>2, AddrFacts DEF TermLock, lockVars, mainVars
<1>3. CASE HandleTerm(s)
  BY <1>3, AddrFacts DEF HandleTerm, lockVars, mainVars
<1>4. CASE HandleInit(s)
  BY <1>4, AddrFacts DEF HandleInit, lockVars, mainVars
<1>5. CASE Quit(s)
  BY <1>5, AddrFacts DEF Quit, lockVars, mainVars
<1> QED
  BY <1>1, <1>2, <1>3, <1>4, <1>5 DEF Request

\* Where the loop over the addresses goes keeps the type of the thread.
LEMMA NextAddressType ==
    ASSUME TypeOK, NEW s \in Sessions, NextAddress(s)
    PROVE  th' \in [Sessions -> Thread]
<1>1. th[s].addr \in 1 .. N
  BY DEF TypeOK, Addr
<1>2. CASE th[s].addr = N
  BY <1>2, AddrFacts DEF TypeOK, Thread, Pcs, NextAddress, Idle
<1>3. CASE th[s].addr # N
  <2>1. th[s].addr + 1 \in Addr
    BY <1>1, <1>3, AddrFacts DEF Addr
  <2> QED
    BY <1>3, <2>1 DEF TypeOK, Thread, Pcs, NextAddress
<1> QED
  BY <1>2, <1>3

LEMMA GotoType ==
    ASSUME TypeOK, NEW s \in Sessions,
           NEW p \in Pcs,
           Goto(s, p)
    PROVE  th' \in [Sessions -> Thread]
<1>1. CASE p = "idle"
  BY <1>1, AddrFacts DEF TypeOK, Thread, Pcs, Goto, Idle
<1>2. CASE p # "idle"
  BY <1>2 DEF TypeOK, Thread, Pcs, Goto
<1> QED
  BY <1>1, <1>2

LEMMA StepType ==
    ASSUME TypeOK, NEW s \in Sessions, Step(s) PROVE TypeOK'
<1> USE DEF TypeOK, At, Idle, Goto, Changed
<1>1. CASE LockGA(s)
  BY <1>1, AddrFacts DEF LockGA, mainVars
<1>2. CASE LockDuration(s)
  BY <1>2, AddrFacts, AccessoryAssumption DEF LockDuration, mainVars
<1>3. CASE UnlockBySession(s)
  <2>1. th' \in [Sessions -> Thread]
    <3>1. Goto(s, "testlock") \/ NextAddress(s)
      BY <1>3, Zenon DEF UnlockBySession
    <3> HIDE DEF TypeOK, Goto
    <3> QED
      BY <3>1, GotoType, NextAddressType DEF Pcs
  <2> QED
    BY <1>3, <2>1 DEF Thread, Pcs, UnlockBySession, lockVars, mainVars
<1>4. CASE TestLock(s)
  <2>1. th' \in [Sessions -> Thread]
    <3>1. Goto(s, "release") \/ Goto(s, "idle") \/ NextAddress(s)
      BY <1>4, Zenon DEF TestLock
    <3> HIDE DEF TypeOK, Goto
    <3> QED
      BY <3>1, GotoType, NextAddressType DEF Pcs
  <2> QED
    BY <1>4, <2>1 DEF Thread, Pcs, TestLock, lockVars, mainVars
<1>5. CASE ReleaseGA(s)
  <2>1. th' \in [Sessions -> Thread]
    <3>1. Goto(s, "term") \/ Goto(s, "idle") \/ NextAddress(s)
      BY <1>5, Zenon DEF ReleaseGA
    <3> HIDE DEF TypeOK, Goto
    <3> QED
      BY <3>1, GotoType, NextAddressType DEF Pcs
  <2> QED
    BY <1>5, <2>1, AddrFacts DEF Thread, Pcs, ReleaseGA, mainVars
<1>6. CASE TermGA(s)
  BY <1>6, AddrFacts DEF TermGA, lockVars, mainVars
<1>7. CASE ClearGA(s)
  BY <1>7, AddrFacts DEF ClearGA, mainVars
<1> QED
  BY <1>1, <1>2, <1>3, <1>4, <1>5, <1>6, <1>7 DEF Step

LEMMA NextGAType ==
    ASSUME j \in Addr, NextGA PROVE j' \in Addr /\ mpc' = "read"
  BY AddrFacts DEF NextGA, Addr

LEMMA TimeType ==
    ASSUME TypeOK, unlock_ga_bytime PROVE TypeOK'
<1>1. CASE ReadDuration
  BY <1>1 DEF TypeOK, ReadDuration, lockVars
<1>2. CASE StoreDuration
  <2>1. lockduration' \in [Addr -> Nat \cup {-1}]
    BY <1>2 DEF TypeOK, StoreDuration
  <2>2. age' \in [Addr -> Nat]
    BY <1>2 DEF TypeOK, StoreDuration
  <2>3. j' \in Addr /\ mpc' \in {"read", "release"}
    BY <1>2, NextGAType DEF TypeOK, StoreDuration
  <2> QED
    BY <1>2, <2>1, <2>2, <2>3 DEF TypeOK, StoreDuration
<1>3. CASE ReleaseByTime
  BY <1>3, NextGAType DEF TypeOK, ReleaseByTime
<1> QED
  BY <1>1, <1>2, <1>3 DEF unlock_ga_bytime

LEMMA TypeStep == TypeOK /\ [Next]_vars => TypeOK'
<1>1. ASSUME TypeOK, UNCHANGED vars PROVE TypeOK'
  BY <1>1 DEF TypeOK, vars, lockVars, mainVars
<1> QED
  BY <1>1, RequestType, StepType, TimeType DEF Next

\* Everything stays in its type, whatever interleaves.
THEOREM TypeCorrect == Spec => []TypeOK
  BY TypeInit, TypeStep, PTL DEF Spec

-----------------------------------------------------------------------------
(* A session that is gone holds no lock.                                     *)
(*                                                                           *)
(* The invariant says what the loop of unlock_ga_bysessionid has achieved:   *)
(* the session holds none of the addresses it has passed, and as its thread  *)
(* does nothing else any more it never takes one of them again.              *)

Walked(s) == IF th[s].pc = "gone" THEN Addr
             ELSE IF th[s].cmd = "quit" THEN 1 .. th[s].addr - 1 ELSE {}

GoneInv == \A s \in Sessions :
    /\ \A a \in Walked(s) : locked_by[a] # s
    /\ th[s].pc \in {"lock", "duration"} => th[s].cmd = "lock"
    /\ th[s].pc = "gone" => th[s].cmd # "lock"
    /\ th[s].pc = "bysession" => th[s].cmd = "quit"

LEMMA GoneInit == Init => GoneInv
<1> SUFFICES ASSUME Init, NEW s \in Sessions
             PROVE  Walked(s) = {} /\ th[s].pc = "idle"
  BY DEF GoneInv
<1>1. th[s] = Idle
  BY DEF Init
<1> QED
  BY <1>1 DEF Walked, Idle

\* Others only ever take a lock for themselves or free it.
LEMMA OthersLock ==
    ASSUME TypeOK, [Next]_vars, NEW s \in Sessions, NEW a \in Addr,
           locked_by[a] # s, ~ (th[s].pc = "lock" /\ th[s].addr = a)
    PROVE  locked_by'[a] # s
<1> USE AccessoryAssumption DEF TypeOK, At
<1>1. CASE UNCHANGED locked_by
  BY <1>1
<1>2. ASSUME NEW t \in Sessions, LockGA(t) PROVE locked_by'[a] # s
  BY <1>2 DEF LockGA
<1>3. ASSUME NEW t \in Sessions, ReleaseGA(t) PROVE locked_by'[a] # s
  BY <1>3 DEF ReleaseGA
<1>4. ASSUME NEW t \in Sessions, ClearGA(t) PROVE locked_by'[a] # s
  BY <1>4 DEF ClearGA
<1>5. CASE ReleaseByTime
  BY <1>5 DEF ReleaseByTime
<1> QED
  BY <1>1, <1>2, <1>3, <1>4, <1>5
  DEF Next, vars, lockVars, Request, Step, unlock_ga_bytime, SetLock, TermLock, HandleTerm,
      HandleInit, Quit, LockDuration, UnlockBySession, TestLock, TermGA, ReadDuration,
      StoreDuration

\* The loop passes an address only when the session does not hold it.
LEMMA NextAddressWalked ==
    ASSUME TypeOK, NEW s \in Sessions, NextAddress(s), th[s].cmd = "quit",
           NEW a \in Walked(s)', a # th[s].addr, th[s].pc # "gone"
    PROVE  a \in Walked(s)
<1>1. th[s].addr \in 1 .. N /\ N \in Nat \ {0}
  BY AddrFacts DEF TypeOK, Addr
<1>2. CASE th[s].addr = N
  BY <1>1, <1>2 DEF TypeOK, NextAddress, Walked, Addr, Idle
<1>3. CASE th[s].addr # N
  BY <1>1, <1>3 DEF TypeOK, NextAddress, Walked, Addr
<1> QED
  BY <1>2, <1>3

\* A session that starts a command has passed nothing yet.
LEMMA RequestWalked ==
    ASSUME TypeOK, NEW s \in Sessions, Request(s)
    PROVE  /\ Walked(s)' = {}
           /\ th'[s].pc \in {"lock", "duration"} => th'[s].cmd = "lock"
           /\ th'[s].pc # "gone"
           /\ th'[s].pc = "bysession" => th'[s].cmd = "quit"
<1> USE DEF TypeOK, Begin, At, Idle, Walked
<1>1. CASE SetLock(s)
  BY <1>1 DEF SetLock
<1>2. CASE TermLock(s)
  BY <1>2 DEF TermLock
<1>3. CASE HandleTerm(s)
  BY <1>3 DEF HandleTerm
<1>4. CASE HandleInit(s)
  BY <1>4 DEF HandleInit
<1>5. CASE Quit(s)
  BY <1>5 DEF Quit
<1> QED
  BY <1>1, <1>2, <1>3, <1>4, <1>5 DEF Request

\* The part of the invariant that is about the place of the thread alone.
PlaceInv(s) ==
    /\ th[s].pc \in {"lock", "duration"} => th[s].cmd = "lock"
    /\ th[s].pc = "gone" => th[s].cmd # "lock"
    /\ th[s].pc = "bysession" => th[s].cmd = "quit"

LEMMA StepPlace ==
    ASSUME TypeOK, NEW s \in Sessions, Step(s), PlaceInv(s) PROVE PlaceInv(s)'
<1> USE DEF TypeOK, At, Goto, Idle, PlaceInv
<1>1. CASE LockGA(s)
  BY <1>1 DEF LockGA
<1>2. CASE LockDuration(s)
  BY <1>2 DEF LockDuration
<1>3. CASE UnlockBySession(s)
  BY <1>3 DEF UnlockBySession, NextAddress
<1>4. CASE TestLock(s)
  BY <1>4 DEF TestLock, NextAddress
<1>5. CASE ReleaseGA(s)
  BY <1>5 DEF ReleaseGA, NextAddress
<1>6. CASE TermGA(s)
  BY <1>6 DEF TermGA
<1>7. CASE ClearGA(s)
  BY <1>7 DEF ClearGA
<1> QED
  BY <1>1, <1>2, <1>3, <1>4, <1>5, <1>6, <1>7 DEF Step

\* Where the thread of a session gets to, the addresses it has passed are the
\* ones it had passed before, or it has just seen that it does not hold them.
LEMMA StepWalked ==
    ASSUME TypeOK, NEW s \in Sessions, Step(s), PlaceInv(s),
           \A a \in Walked(s) : locked_by[a] # s
    PROVE  \A a \in Walked(s)' : locked_by'[a] # s
<1> SUFFICES ASSUME NEW a \in Walked(s)' PROVE locked_by'[a] # s
  OBVIOUS
<1> USE AccessoryAssumption DEF At, PlaceInv
<1>0. th[s].pc # "gone" /\ a \in Addr /\ th[s].addr \in Addr
  <2>1. th[s].pc # "gone"
    BY DEF Step, LockGA, LockDuration, UnlockBySession, TestLock, ReleaseGA, TermGA, ClearGA
  <2>2. TypeOK'
    BY StepType
  <2>3. th'[s].addr \in Addr /\ th[s].addr \in Addr
    BY <2>2 DEF TypeOK
  <2> QED
    BY <2>1, <2>3 DEF Walked, Addr
<1>1. CASE LockGA(s)
  BY <1>0, <1>1 DEF TypeOK, LockGA, Goto, Walked
<1>2. CASE LockDuration(s)
  BY <1>2 DEF TypeOK, LockDuration, Goto, Walked, Idle
<1>3. CASE NextAddress(s) /\ th[s].cmd = "quit" /\ locked_by'[th[s].addr] # s
           /\ \A b \in Addr : locked_by[b] # s => locked_by'[b] # s
  BY <1>0, <1>3, NextAddressWalked
<1>4. CASE UnlockBySession(s)
  <2>1. CASE locked_by[th[s].addr] = s
    BY <1>4, <2>1 DEF TypeOK, UnlockBySession, Goto, Walked, lockVars
  <2>2. CASE locked_by[th[s].addr] # s
    BY <1>3, <1>4, <2>2 DEF UnlockBySession, lockVars
  <2> QED
    BY <2>1, <2>2
<1>5. CASE TestLock(s)
  <2>1. CASE Free(s, th[s].addr)
    BY <1>5, <2>1 DEF TypeOK, TestLock, Goto, Walked, lockVars
  <2>2. CASE ~Free(s, th[s].addr) /\ th[s].cmd = "quit"
    BY <1>3, <1>5, <2>2 DEF TestLock, Free, lockVars
  <2>3. CASE ~Free(s, th[s].addr) /\ th[s].cmd # "quit"
    BY <1>5, <2>3 DEF TypeOK, TestLock, Goto, Walked, Idle
  <2> QED
    BY <2>1, <2>2, <2>3
<1>6. CASE ReleaseGA(s)
  <2>1. \A b \in Addr : locked_by[b] # s => locked_by'[b] # s
    BY <1>6 DEF TypeOK, ReleaseGA
  <2>2. locked_by'[th[s].addr] # s
    BY <1>0, <1>6 DEF TypeOK, ReleaseGA
  <2>3. CASE th[s].cmd = "quit"
    BY <1>3, <1>6, <2>1, <2>2, <2>3 DEF ReleaseGA
  <2>4. CASE th[s].cmd # "quit"
    BY <1>6, <2>4 DEF TypeOK, ReleaseGA, Goto, Walked, Idle
  <2> QED
    BY <2>3, <2>4
<1>7. CASE TermGA(s)
  BY <1>0, <1>7 DEF TypeOK, TermGA, Goto, Walked, Idle, lockVars
<1>8. CASE ClearGA(s)
  BY <1>8 DEF TypeOK, ClearGA, Goto, Walked, Idle
<1> QED
  BY <1>1, <1>2, <1>4, <1>5, <1>6, <1>7, <1>8 DEF Step

LEMMA GoneStep == TypeOK /\ GoneInv /\ [Next]_vars => GoneInv'
<1> SUFFICES ASSUME TypeOK, GoneInv, [Next]_vars, NEW s \in Sessions
             PROVE  (\A a \in Walked(s)' : locked_by'[a] # s) /\ PlaceInv(s)'
  BY DEF GoneInv, PlaceInv
<1>1. PlaceInv(s) /\ \A a \in Walked(s) : locked_by[a] # s
  BY DEF GoneInv, PlaceInv
<1>2. CASE th'[s] = th[s]
  <2>1. PlaceInv(s)' /\ Walked(s)' = Walked(s)
    BY <1>1, <1>2 DEF PlaceInv, Walked
  <2>2. \A a \in Walked(s) : a \in Addr /\ th[s].pc # "lock"
    BY <1>1, AddrFacts DEF TypeOK, Walked, PlaceInv, Addr
  <2> QED
    BY <1>1, <2>1, <2>2, OthersLock
<1>3. CASE Request(s)
  BY <1>3, RequestWalked DEF PlaceInv
<1>4. CASE Step(s)
  BY <1>1, <1>4, StepPlace, StepWalked
<1>5. ASSUME NEW t \in Sessions, t # s, Request(t) \/ Step(t) PROVE th'[s] = th[s]
  BY <1>5 DEF TypeOK, Request, Step, SetLock, TermLock, HandleTerm, HandleInit, Quit, Begin,
     LockGA, LockDuration, UnlockBySession, TestLock, ReleaseGA, TermGA, ClearGA, Goto, NextAddress
<1>6. ASSUME unlock_ga_bytime \/ UNCHANGED vars PROVE th'[s] = th[s]
  BY <1>6 DEF unlock_ga_bytime, ReadDuration, StoreDuration, ReleaseByTime, vars
<1> QED
  BY <1>2, <1>3, <1>4, <1>5, <1>6 DEF Next

LEMMA GoneImplied == GoneInv => GoneHoldsNoLock
  BY DEF GoneInv, Walked, GoneHoldsNoLock

\* When the thread of a session has ended, no accessory is locked by it any
\* more, and it never will be, whatever the others did during the clean-up.
THEOREM GoneHolds == Spec => []GoneHoldsNoLock
  BY TypeInit, TypeStep, GoneInit, GoneStep, GoneImplied, PTL DEF Spec

-----------------------------------------------------------------------------
(* How long a lock lasts, and who ends it.                                   *)
(*                                                                           *)
(* The properties speak of one state or one step; the invariant adds what    *)
(* holds in between for an address on which no two changes overlapped: what  *)
(* a thread saw of the lock is still true when it acts, what the main thread *)
(* read is still there, and the seconds counted and the seconds left make up *)
(* the seconds asked for.                                                    *)

Setting(a) == \E s \in Sessions : th[s].addr = a /\ th[s].pc = "duration"

Counted(a) == asked[a] > 0 /\ lockduration[a] > 0 /\ age[a] + lockduration[a] = asked[a]

Endless(a) == asked[a] = 0 /\ lockduration[a] <= 0

SeenFree(a) == \A s \in Sessions :
    Changing(s, a) => locked_by[a] \in IF th[s].pc = "duration" THEN {s} ELSE {0, s}

CountRead(a) == j = a /\ mpc = "store" => count = lockduration[a]

TimeUp(a) == j = a /\ mpc = "release" /\ locked_by[a] # 0 => asked[a] > 0 /\ age[a] = asked[a]

TimeLeft(a) == locked_by[a] # 0 /\ ~Setting(a) =>
    Counted(a) \/ Endless(a) \/ (j = a /\ mpc = "release")

LockInv(a) == a \notin clash => SeenFree(a) /\ CountRead(a) /\ TimeUp(a) /\ TimeLeft(a)

LEMMA LockInvInit == Init => \A a \in Addr : LockInv(a)
<1> SUFFICES ASSUME Init, NEW a \in Addr PROVE LockInv(a)
  OBVIOUS
<1>1. \A s \in Sessions : th[s].pc = "idle"
  BY DEF Init, Idle
<1>2. SeenFree(a)
  BY <1>1 DEF SeenFree, Changing
<1> QED
  BY <1>2 DEF Init, LockInv, CountRead, TimeUp, TimeLeft

\* A thread that starts a command changes no lock, and what it goes on with
\* is what it has just seen.
LEMMA RequestLock ==
    ASSUME TypeOK, NEW s \in Sessions, Request(s), NEW a \in Addr, LockInv(a)
    PROVE  LockInv(a)'
<1>1. /\ UNCHANGED <<lockVars, mainVars>>
      /\ \A t \in Sessions \ {s} : th'[t] = th[t]
      /\ (th'[s].pc \in {"idle", "bysession", "testlock"} \/ Free(s, th'[s].addr))
      /\ th'[s].pc # "duration" /\ th[s].pc = "idle"
  <2> USE DEF TypeOK, Begin, At, Idle, Free
  <2>1. CASE SetLock(s)
    BY <2>1 DEF SetLock
  <2>2. CASE TermLock(s)
    BY <2>2 DEF TermLock
  <2>3. CASE HandleTerm(s)
    BY <2>3 DEF HandleTerm
  <2>4. CASE HandleInit(s)
    BY <2>4 DEF HandleInit
  <2>5. CASE Quit(s)
    BY <2>5 DEF Quit
  <2> QED
    BY <2>1, <2>2, <2>3, <2>4, <2>5 DEF Request
<1>2. SeenFree(a) => SeenFree(a)'
  BY <1>1 DEF SeenFree, Changing, Free, lockVars
<1>3. Setting(a)' <=> Setting(a)
  BY <1>1 DEF Setting
<1> QED
  BY <1>1, <1>2, <1>3
  DEF LockInv, CountRead, TimeUp, TimeLeft, Counted, Endless, lockVars, mainVars

\* A thread that goes on without touching any lock.
LEMMA QuietLock ==
    ASSUME TypeOK, NEW s \in Sessions, NEW a \in Addr, LockInv(a),
           UNCHANGED <<lockVars, mainVars>>,
           \A t \in Sessions \ {s} : th'[t] = th[t],
           th[s].pc # "duration", th'[s].pc # "duration",
           Changing(s, a)' => Changing(s, a) \/ Free(s, a)
    PROVE  LockInv(a)'
<1>1. SeenFree(a) => SeenFree(a)'
  BY DEF SeenFree, Changing, Free, lockVars
<1>2. Setting(a)' <=> Setting(a)
  BY DEF Setting
<1> QED
  BY <1>1, <1>2 DEF LockInv, CountRead, TimeUp, TimeLeft, Counted, Endless, lockVars, mainVars

\* A thread that changes the lock of an address while nobody else is about to:
\* the locks of the others stay as they are.
LEMMA ElsewhereLock ==
    ASSUME TypeOK, NEW s \in Sessions, NEW a \in Addr, LockInv(a), a \notin clash',
           a \notin clash, UNCHANGED mainVars,
           \A t \in Sessions \ {s} : th'[t] = th[t],
           ~Changing(s, a), ~Changing(s, a)',
           locked_by'[a] = locked_by[a], lockduration'[a] = lockduration[a],
           asked'[a] = asked[a], age'[a] = age[a]
    PROVE  LockInv(a)'
<1>1. SeenFree(a)'
  BY DEF LockInv, SeenFree, Changing
<1>2. Setting(a)' <=> Setting(a)
  BY DEF Setting, Changing
<1> QED
  BY <1>1, <1>2 DEF LockInv, CountRead, TimeUp, TimeLeft, Counted, Endless, mainVars

LEMMA StepLock ==
    ASSUME TypeOK, NEW s \in Sessions, Step(s), NEW a \in Addr, LockInv(a)
    PROVE  LockInv(a)'
<1> SUFFICES ASSUME a \notin clash' PROVE LockInv(a)'
  BY DEF LockInv
<1> USE DEF At
<1>1. /\ \A t \in Sessions \ {s} : th'[t] = th[t]
      /\ UNCHANGED mainVars
      /\ th[s].pc \notin {"idle", "gone"} /\ th[s].addr \in Addr
  BY DEF TypeOK, Step, LockGA, LockDuration, UnlockBySession, TestLock, ReleaseGA, TermGA,
     ClearGA, Goto, NextAddress
<1>2. CASE LockGA(s) \/ LockDuration(s) \/ ReleaseGA(s) \/ ClearGA(s)
  <2>1. Changed(s, th[s].addr) /\ Changing(s, th[s].addr)
    BY <1>2 DEF LockGA, LockDuration, ReleaseGA, ClearGA, Changing
  <2>2. a \notin clash
    BY <2>1 DEF Changed
  <2>3. CASE a = th[s].addr
    <3>1. ~Meets(s, a)
      BY <2>1, <2>3, <1>1 DEF TypeOK, Changed
    <3>2. ~(j' = a /\ mpc' # "read")
      BY <1>1, <3>1 DEF Meets, mainVars
    <3>3. \A t \in Sessions \ {s} : ~Changing(t, a)'
      BY <1>1, <3>1 DEF Meets, Changing
    <3>4. CountRead(a)' /\ TimeUp(a)'
      BY <3>2 DEF CountRead, TimeUp
    <3>5. CASE LockGA(s)
      <4>1. th'[s] = [th[s] EXCEPT !.pc = "duration"] /\ locked_by'[a] = s
        BY <2>3, <3>5 DEF TypeOK, LockGA, Goto
      <4>2. th'[s].pc = "duration" /\ th'[s].addr = a
        BY <2>3, <4>1 DEF TypeOK
      <4>3. SeenFree(a)'
        BY <3>3, <4>1, <4>2 DEF SeenFree
      <4>4. Setting(a)'
        BY <4>2 DEF Setting
      <4> QED
        BY <3>4, <4>3, <4>4 DEF LockInv, TimeLeft
    <3>6. CASE LockDuration(s)
      <4>1. th'[s].pc = "idle"
        BY <3>6 DEF TypeOK, LockDuration, Goto, Idle
      <4>2. SeenFree(a)'
        BY <3>3, <4>1 DEF SeenFree, Changing
      <4>3. PICK d \in Durations : asked'[a] = d /\ lockduration'[a] = d
        BY <2>3, <3>6 DEF TypeOK, LockDuration
      <4>4. age'[a] = 0
        BY <2>3, <3>6 DEF TypeOK, LockDuration
      <4>5. d \in Nat
        BY AccessoryAssumption
      <4>6. Counted(a)' \/ Endless(a)'
        BY <4>3, <4>4, <4>5 DEF Counted, Endless
      <4> QED
        BY <3>4, <4>2, <4>6 DEF LockInv, TimeLeft
    <3>7. CASE ReleaseGA(s) \/ ClearGA(s)
      <4>1. locked_by'[a] = 0
        BY <2>3, <3>7 DEF TypeOK, ReleaseGA, ClearGA
      <4>2. th'[s].pc # "duration"
        BY <3>7 DEF TypeOK, ReleaseGA, ClearGA, Goto, NextAddress, Idle
      <4>3. SeenFree(a)'
        BY <3>3, <4>1, <4>2 DEF SeenFree
      <4> QED
        BY <3>4, <4>1, <4>3 DEF LockInv, TimeLeft
    <3> QED
      BY <1>2, <3>5, <3>6, <3>7
  <2>4. CASE a # th[s].addr
    <3>1. /\ locked_by'[a] = locked_by[a] /\ lockduration'[a] = lockduration[a]
          /\ asked'[a] = asked[a] /\ age'[a] = age[a]
      BY <1>2, <2>4 DEF TypeOK, LockGA, LockDuration, ReleaseGA, ClearGA
    <3>2. ~Changing(s, a)
      BY <2>4 DEF Changing
    <3>3. ~Changing(s, a)'
      BY <1>2, <2>4 DEF TypeOK, LockGA, LockDuration, ReleaseGA, ClearGA, Goto, NextAddress,
         Idle, Changing
    <3> QED
      BY <1>1, <2>2, <3>1, <3>2, <3>3, ElsewhereLock
  <2> QED
    BY <2>3, <2>4
<1>3. CASE UnlockBySession(s) \/ TestLock(s) \/ TermGA(s)
  <2>1. UNCHANGED <<lockVars, mainVars>>
    BY <1>3 DEF UnlockBySession, TestLock, TermGA
  <2>2. th[s].pc # "duration" /\ th'[s].pc # "duration"
    BY <1>3 DEF TypeOK, UnlockBySession, TestLock, TermGA, Goto, NextAddress, Idle
  <2>3. Changing(s, a)' => Changing(s, a) \/ Free(s, a)
    BY <1>3 DEF TypeOK, UnlockBySession, TestLock, TermGA, Goto, NextAddress, Idle, Changing, Free
  <2> QED
    BY <1>1, <2>1, <2>2, <2>3, QuietLock
<1> QED
  BY <1>2, <1>3 DEF Step

LEMMA TimeLock ==
    ASSUME TypeOK, unlock_ga_bytime, NEW a \in Addr, LockInv(a)
    PROVE  LockInv(a)'
<1> SUFFICES ASSUME a \notin clash' PROVE LockInv(a)'
  BY DEF LockInv
<1>1. UNCHANGED <<th, asked>> /\ a \notin clash
  BY DEF unlock_ga_bytime, ReadDuration, StoreDuration, ReleaseByTime, lockVars
<1>2. Setting(a)' <=> Setting(a)
  BY <1>1 DEF Setting
<1>3. SeenFree(a) /\ CountRead(a) /\ TimeUp(a) /\ TimeLeft(a)
  BY <1>1 DEF LockInv
<1>4. CASE ReadDuration
  <2>1. SeenFree(a)'
    BY <1>1, <1>3, <1>4 DEF ReadDuration, lockVars, SeenFree, Changing
  <2> QED
    BY <1>2, <1>3, <1>4, <2>1
    DEF ReadDuration, lockVars, LockInv, CountRead, TimeUp, TimeLeft, Counted, Endless
<1>5. CASE StoreDuration
  <2>1. SeenFree(a)'
    BY <1>1, <1>3, <1>5 DEF StoreDuration, SeenFree, Changing
  <2>2. CASE j = a
    <3>1. ~Setting(a)
      BY <1>1, <1>5, <2>2 DEF StoreDuration, Setting, Changing, TypeOK
    <3>2. /\ count = lockduration[a] /\ locked_by' = locked_by
          /\ lockduration'[a] = IF count > 0 THEN count - 1 ELSE -1
          /\ age'[a] = IF count > 0 THEN age[a] + 1 ELSE age[a]
          /\ count = 1 => mpc' = "release" /\ j' = a
          /\ count # 1 => mpc' = "read"
      BY <1>3, <1>5, <2>2 DEF TypeOK, StoreDuration, CountRead, NextGA
    <3>3. lockduration[a] \in Nat \cup {-1} /\ age[a] \in Nat /\ asked[a] \in Nat
      BY DEF TypeOK
    <3>4. locked_by[a] # 0 => Counted(a) \/ Endless(a)
      BY <1>3, <1>5, <2>2, <3>1 DEF StoreDuration, TimeLeft
    <3>5. CountRead(a)' /\ TimeUp(a)'
      BY <1>1, <3>2, <3>3, <3>4 DEF CountRead, TimeUp, Counted, Endless
    <3>6. TimeLeft(a)'
      BY <1>1, <3>2, <3>3, <3>4 DEF TimeLeft, Counted, Endless
    <3> QED
      BY <2>1, <3>5, <3>6 DEF LockInv
  <2>3. CASE j # a
    <3>1. /\ locked_by' = locked_by /\ lockduration'[a] = lockduration[a] /\ age'[a] = age[a]
          /\ j' # a \/ mpc' = "read"
      BY <1>5, <2>3 DEF TypeOK, StoreDuration, NextGA
    <3> QED
      BY <1>1, <1>2, <1>3, <2>1, <2>3, <3>1
      DEF LockInv, CountRead, TimeUp, TimeLeft, Counted, Endless
  <2> QED
    BY <2>2, <2>3
<1>6. CASE ReleaseByTime
  <2>1. mpc' = "read" /\ UNCHANGED <<lockduration, age>>
    BY <1>6 DEF ReleaseByTime, NextGA
  <2>2. CASE j = a
    <3>1. locked_by'[a] = 0
      BY <1>6, <2>2 DEF TypeOK, ReleaseByTime
    <3>2. SeenFree(a)'
      BY <1>1, <1>6, <2>2 DEF TypeOK, ReleaseByTime, SeenFree, Changing
    <3> QED
      BY <2>1, <3>1, <3>2 DEF LockInv, CountRead, TimeUp, TimeLeft
  <2>3. CASE j # a
    <3>1. locked_by'[a] = locked_by[a]
      BY <1>6, <2>3 DEF TypeOK, ReleaseByTime
    <3>2. SeenFree(a)'
      BY <1>1, <1>3, <3>1 DEF SeenFree, Changing
    <3> QED
      BY <1>1, <1>2, <1>3, <2>1, <2>3, <3>1, <3>2
      DEF LockInv, CountRead, TimeUp, TimeLeft, Counted, Endless
  <2> QED
    BY <2>2, <2>3
<1> QED
  BY <1>4, <1>5, <1>6 DEF unlock_ga_bytime

LockTimeInv == \A a \in Addr : LockInv(a)

LEMMA LockTimeInit == Init => LockTimeInv
  BY LockInvInit DEF LockTimeInv

LEMMA LockTimeStep == TypeOK /\ LockTimeInv /\ [Next]_vars => LockTimeInv'
<1> SUFFICES ASSUME TypeOK, LockTimeInv, [Next]_vars, NEW a \in Addr PROVE LockInv(a)'
  BY DEF LockTimeInv, Addr
<1>1. LockInv(a)
  BY DEF LockTimeInv
<1>2. CASE UNCHANGED vars
  BY <1>1, <1>2
  DEF vars, lockVars, mainVars, LockInv, SeenFree, Changing, CountRead, TimeUp, TimeLeft,
      Setting, Counted, Endless
<1> QED
  BY <1>1, <1>2, RequestLock, StepLock, TimeLock DEF Next

LEMMA LockTimeImplied == TypeOK /\ LockTimeInv => LockTime
  BY DEF TypeOK, LockTimeInv, LockInv, TimeUp, LockTime

\* A lock that the main thread takes away has lasted exactly the seconds it
\* was asked for, on every address on which no two lock changes overlapped.
THEOREM LockTimeHolds == Spec => []LockTime
  BY TypeInit, TypeStep, LockTimeInit, LockTimeStep, LockTimeImplied, PTL DEF Spec

\* The step that takes a lock from a session is that session's own, or the end
\* of the time it asked for.
LEMMA KeepsStep ==
    ASSUME TypeOK, LockTimeInv, [Next]_vars, NEW a \in Addr, NEW s \in Sessions,
           locked_by[a] = s, locked_by'[a] # s, a \notin clash'
    PROVE  Changing(s, a) \/ (j = a /\ mpc = "release" /\ asked[a] > 0)
<1>1. ASSUME NEW t \in Sessions, LockGA(t) \/ ReleaseGA(t) \/ ClearGA(t) PROVE Changing(s, a)
  <2>1. th[t].addr = a /\ Changing(t, a) /\ a \notin clash /\ th[t].pc # "duration"
    BY <1>1 DEF TypeOK, LockGA, ReleaseGA, ClearGA, Changing, At, Changed
  <2>2. locked_by[a] \in {0, t}
    BY <2>1 DEF LockTimeInv, LockInv, SeenFree
  <2> QED
    BY <2>1, <2>2, AccessoryAssumption
<1>2. CASE ReleaseByTime
  <2>1. j = a /\ mpc = "release" /\ a \notin clash
    BY <1>2 DEF TypeOK, ReleaseByTime
  <2> QED
    BY <2>1, AccessoryAssumption DEF LockTimeInv, LockInv, TimeUp
<1> QED
  BY <1>1, <1>2
  DEF Next, vars, lockVars, Request, Step, unlock_ga_bytime, SetLock, TermLock, HandleTerm,
      HandleInit, Quit, LockDuration, UnlockBySession, TestLock, TermGA, ReadDuration,
      StoreDuration

LEMMA KeepsVars ==
    TypeOK /\ LockTimeInv /\ [Next]_vars =>
        [\A a \in Addr : \A s \in Sessions :
            locked_by[a] = s /\ locked_by'[a] # s =>
                \/ Changing(s, a)
                \/ j = a /\ mpc = "release" /\ asked[a] > 0
                \/ a \in clash']_vars
  BY KeepsStep

\* Nobody loses a lock to another session or to somebody else's time-out,
\* unless two changes of that very lock overlapped.
THEOREM KeepsHolds == Spec => KeepsLock
  BY TypeInit, TypeStep, LockTimeInit, LockTimeStep, KeepsVars, PTL DEF Spec, KeepsLock

=============================================================================
