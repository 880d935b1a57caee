------------------------------- MODULE Sessions -------------------------------
(* The sessions of the server: one thread per connection (clientservice.c),  *)
(* the list of all sessions under session_list_mutex (srcp-session.c), and   *)
(* the INFO messages, which every thread that changes a device writes into   *)
(* the pipes of the INFO sessions (srcp-info.c).  The main thread ends them  *)
(* all when the server shuts down (srcpd.c).                                 *)
(*                                                                           *)
(* One bus thread changes one device, whose state is counted up.  A thread   *)
(* is cancelled at its next cancellation point: a read or write of a socket, *)
(* a pipe, or the sleep of the bus thread, but not pthread_mutex_lock.  The  *)
(* cleanup routine of a session is not cancelled again.                      *)
EXTENDS Naturals, Sequences

CONSTANTS Clients,      \* connections, each opened at most once
          Bus, Main,    \* the bus thread; the main thread
          NoNode,       \* the end of the list
          PipeSize,     \* bound: messages a pipe holds
          MaxChanges    \* bound: changes of the device

ASSUME SessionAssumption ==
    /\ Bus \notin Clients /\ Main \notin Clients /\ NoNode \notin Clients /\ Bus # Main
    /\ PipeSize \in Nat \ {0} /\ MaxChanges \in Nat

VARIABLES list,         \* session_list, first node first; a node is its client
          mode, sid,    \* per node; sid is 0 until the session is registered
          pipefd,       \* per node: "none", "open" or "closed"
          pipe,         \* per node: the messages in the pipe
          view,         \* external: the device as the client was told it is
          mutex,        \* who holds session_list_mutex: nobody or one
          th,           \* per thread: its place, the node it walks at, its message
          cancelled,    \* threads with a pending cancellation
          dev,          \* the device
          mpc,          \* main thread: its place in cancel_all_threads
          dangling      \* history: a thread used a node that was freed

nodeVars == <<list, mode, sid, pipefd>>
sessionVars == <<nodeVars, pipe, view, mutex, th, cancelled, dev, mpc, dangling>>

Threads == Clients \cup {Bus}

Listed(c) == \E i \in DOMAIN list : list[i] = c

\* n->next; of a node that is no longer there it may be anything.
Successors(n) == IF Listed(n)
              THEN LET i == CHOOSE k \in DOMAIN list : list[k] = n
                   IN  {IF i = Len(list) THEN NoNode ELSE list[i + 1]}
              ELSE {NoNode} \cup {c \in Clients : Listed(c)}

Note == MaxChanges + 1      \* a 101 or 102 INFO message about a session

SessionsInit == /\ list = <<>>
                /\ mode = [c \in Clients |-> "undefined"]
                /\ sid = [c \in Clients |-> 0]
                /\ pipefd = [c \in Clients |-> "none"]
                /\ pipe = [c \in Clients |-> <<>>]
                /\ view = [c \in Clients |-> 0]
                /\ mutex = {}
                /\ th = [t \in Threads |-> [pc |-> IF t = Bus THEN "poll" ELSE "none",
                                            node |-> NoNode, msg |-> 0, return |-> "none"]]
                /\ cancelled = {} /\ dev = 0 /\ mpc = "run" /\ dangling = FALSE

At(t, p) == th[t].pc = p

Goto(t, p) == th' = [th EXCEPT ![t].pc = p, ![t].node = NoNode]

\* enqueueInfoMessage is called with message m and returns to p.
Enqueue(t, m, p) == th' = [th EXCEPT ![t] = [pc |-> "head", node |-> NoNode,
                                             msg |-> m, return |-> p]]

-----------------------------------------------------------------------------
(* session_enqueue_info_message. *)

\* The list is looked at before the mutex is taken.
ReadHead(t) == /\ At(t, "head")
               /\ IF list = <<>> THEN Goto(t, th[t].return)
                  ELSE th' = [th EXCEPT ![t].pc = "lock", ![t].node = Head(list)]
               /\ UNCHANGED <<nodeVars, pipe, view, mutex, cancelled, dev, mpc, dangling>>

LockList(t) == /\ At(t, "lock")
               /\ mutex = {} /\ mutex' = {t}
               /\ th' = [th EXCEPT ![t].pc = "visit"]
               /\ UNCHANGED <<nodeVars, pipe, view, cancelled, dev, mpc, dangling>>

Advance(t) == \E n \in Successors(th[t].node) : th' = [th EXCEPT ![t].pc = "visit", ![t].node = n]

Visit(t) ==
    /\ At(t, "visit")
    /\ LET n == th[t].node IN
       IF n = NoNode
         THEN /\ mutex' = {} /\ Goto(t, th[t].return)
              /\ UNCHANGED dangling
         ELSE /\ IF mode[n] = "info" /\ pipefd[n] # "none"
                   THEN th' = [th EXCEPT ![t].pc = "write"] ELSE Advance(t)
              /\ dangling' = (dangling \/ ~Listed(n))
              /\ UNCHANGED mutex
    /\ UNCHANGED <<nodeVars, pipe, view, cancelled, dev, mpc>>

\* Write with a bug that InfoIsComplete has to show.
WriteOrDrop(t) ==
    /\ At(t, "write")
    /\ LET n == th[t].node IN
       pipe' = IF pipefd[n] = "closed" \/ Len(pipe[n]) = PipeSize THEN pipe
               ELSE [pipe EXCEPT ![n] = Append(@, th[t].msg)]
    /\ Advance(t)
    /\ UNCHANGED <<nodeVars, view, mutex, cancelled, dev, mpc, dangling>>

\* A full pipe blocks; a closed one makes the write fail, which is ignored.
Write(t) ==
    /\ At(t, "write")
    /\ LET n == th[t].node IN
       IF pipefd[n] = "closed" THEN UNCHANGED pipe
       ELSE /\ Len(pipe[n]) < PipeSize
            /\ pipe' = [pipe EXCEPT ![n] = Append(@, th[t].msg)]
    /\ Advance(t)
    /\ UNCHANGED <<nodeVars, view, mutex, cancelled, dev, mpc, dangling>>

session_enqueue_info_message(t) == ReadHead(t) \/ LockList(t) \/ Visit(t) \/ Write(t)

\* The bus thread changes the device and tells the INFO sessions.
ChangeDevice == /\ At(Bus, "poll") /\ dev < MaxChanges
                /\ dev' = dev + 1
                /\ Enqueue(Bus, dev + 1, "poll")
                /\ UNCHANGED <<nodeVars, pipe, view, mutex, cancelled, mpc, dangling>>

-----------------------------------------------------------------------------
(* A client: the handshake, the two kinds of session. *)

\* thr_handlePort accepts the connection, adds a node in front of the list and
\* creates the thread; it is cancelled first when the server shuts down.
Connect(c) == /\ At(c, "none") /\ mpc = "run"
              /\ mutex = {}
              /\ list' = <<c>> \o list
              /\ Goto(c, "new")
              /\ UNCHANGED <<mode, sid, pipefd, pipe, view, mutex, cancelled, dev, mpc, dangling>>

\* thr_doClient enters its thread id into the node.
Begin(c) == /\ At(c, "new")
            /\ Goto(c, "handshake")
            /\ UNCHANGED <<nodeVars, pipe, view, mutex, cancelled, dev, mpc, dangling>>

SetConnectionMode(c) == /\ At(c, "handshake")
                        /\ \E m \in {"command", "info"} : mode' = [mode EXCEPT ![c] = m]
                        /\ UNCHANGED <<list, sid, pipefd, pipe, view, mutex, th, cancelled, dev,
                                       mpc, dangling>>

\* GO: register_session.
Register(c) == /\ At(c, "handshake")
               /\ mutex = {}
               /\ sid' = [sid EXCEPT ![c] = 1]
               /\ mode' = [mode EXCEPT ![c] = IF @ = "undefined" THEN "command" ELSE @]
               /\ Goto(c, "reply")
               /\ UNCHANGED <<list, pipefd, pipe, view, mutex, cancelled, dev, mpc, dangling>>

\* start_session tells everyone, then doCmdClient or doInfoClient runs.
StartSession(c) == /\ At(c, "reply")
                   /\ Enqueue(c, Note, IF mode[c] = "info" THEN "pipe" ELSE "command")
                   /\ UNCHANGED <<nodeVars, pipe, view, mutex, cancelled, dev, mpc, dangling>>

Pipe(c) == /\ At(c, "pipe")
           /\ pipefd' = [pipefd EXCEPT ![c] = "open"]
           /\ Goto(c, "data")
           /\ UNCHANGED <<list, mode, sid, pipe, view, mutex, cancelled, dev, mpc, dangling>>

\* The new client is told the state of every device.
SendData(c) == /\ At(c, "data")
               /\ view' = [view EXCEPT ![c] = dev]
               /\ Goto(c, "loop")
               /\ UNCHANGED <<nodeVars, pipe, mutex, cancelled, dev, mpc, dangling>>

\* Then it is told what comes through the pipe.
Forward(c) == /\ At(c, "loop") /\ pipe[c] # <<>>
              /\ pipe' = [pipe EXCEPT ![c] = Tail(@)]
              /\ view' = [view EXCEPT ![c] = IF Head(pipe[c]) = Note THEN @ ELSE Head(pipe[c])]
              /\ UNCHANGED <<nodeVars, mutex, th, cancelled, dev, mpc, dangling>>

-----------------------------------------------------------------------------
(* The end of a session: end_client_thread. *)

CancelPoint == {"handshake", "reply", "command", "data", "loop", "write"}

\* The client hangs up, or ends its session by TERM SESSION.
HangUp(c) == /\ th[c].pc \in CancelPoint \ {"write"}
             /\ Goto(c, "end")
             /\ UNCHANGED <<nodeVars, pipe, view, mutex, cancelled, dev, mpc, dangling>>

\* The cancellation takes effect; in a write, the mutex stays locked.
Die(t) == /\ t \in cancelled
          /\ t = Bus => th[t].pc \in {"poll", "write"}
          /\ t # Bus => th[t].pc \in CancelPoint /\ th[t].return # "gone"
          /\ Goto(t, IF t = Bus THEN "gone" ELSE "end")
          /\ UNCHANGED <<nodeVars, pipe, view, mutex, cancelled, dev, mpc, dangling>>

Unregistered(c) == mode[c] = "undefined" \/ sid[c] = 0

\* "first prevent receiving new messages".  An anonymous session ends here,
\* its node stays in the list.
EndClient(c) ==
    /\ At(c, "end")
    /\ mode' = [mode EXCEPT ![c] = "undefined"]
    /\ Goto(c, IF mode[c] = "info" /\ pipefd[c] = "open" THEN "close"
               ELSE IF Unregistered(c) THEN "gone" ELSE "destroy")
    /\ UNCHANGED <<list, sid, pipefd, pipe, view, mutex, cancelled, dev, mpc, dangling>>

\* ClosePipe with a bug that EnqueueReturns has to show.
ClosePipeNever(c) ==
    /\ At(c, "close")
    /\ Goto(c, "destroy")
    /\ UNCHANGED <<nodeVars, pipe, view, mutex, cancelled, dev, mpc, dangling>>

ClosePipe(c) == /\ At(c, "close")
                /\ pipefd' = [pipefd EXCEPT ![c] = "closed"]
                /\ Goto(c, "destroy")
                /\ UNCHANGED <<list, mode, sid, pipe, view, mutex, cancelled, dev, mpc, dangling>>

\* The list without the node of c.
Without(c) == LET i == CHOOSE k \in DOMAIN list : list[k] = c
              IN  IF Listed(c) THEN SubSeq(list, 1, i - 1) \o SubSeq(list, i + 1, Len(list))
                  ELSE list

\* Destroy with a bug that ShutdownOfRegistered has to show.
DestroySilently(c) ==
    /\ At(c, "destroy") /\ mutex = {}
    /\ list' = Without(c)
    /\ Enqueue(c, Note, "gone")
    /\ UNCHANGED <<mode, sid, pipefd, pipe, view, mutex, cancelled, dev, mpc, dangling>>

\* destroy_session: the node is freed, the main thread is woken, and only then
\* stop_session releases the locks and tells the others.
Destroy(c) == /\ At(c, "destroy")
              /\ mutex = {}
              /\ list' = Without(c)
              /\ mpc' = IF mpc = "sleep" THEN "woken" ELSE mpc
              /\ Enqueue(c, Note, "gone")
              /\ UNCHANGED <<mode, sid, pipefd, pipe, view, mutex, cancelled, dev, dangling>>

-----------------------------------------------------------------------------
(* cancel_all_threads: the netservice thread, the bus threads, the sessions. *)

Shutdown == /\ mpc = "run"
            /\ mpc' = "join"
            /\ cancelled' = {Bus}
            /\ UNCHANGED <<nodeVars, pipe, view, mutex, th, dev, dangling>>

JoinBus == /\ mpc = "join" /\ At(Bus, "gone")
           /\ mpc' = "head"
           /\ UNCHANGED <<nodeVars, pipe, view, mutex, th, cancelled, dev, dangling>>

TestSessions == /\ mpc = "head"
                /\ mpc' = IF list = <<>> THEN "done" ELSE "lock"
                /\ UNCHANGED <<nodeVars, pipe, view, mutex, th, cancelled, dev, dangling>>

\* pthread_cancel of a thread that is gone, or has not yet entered its id, is
\* undefined; here it has no effect.
CancelSessions ==
    /\ mpc = "lock" /\ mutex = {}
    /\ mutex' = {Main}
    /\ cancelled' = cancelled \cup {c \in Clients : Listed(c) /\ th[c].pc \notin {"new", "gone"}}
    /\ mpc' = "wait"
    /\ UNCHANGED <<nodeVars, pipe, view, th, dev, dangling>>

\* while (runningsessions != 0) pthread_cond_wait(...)
WaitSessions == /\ mpc = "wait"
                /\ mpc' = IF list = <<>> THEN "done" ELSE "sleep"
                /\ mutex' = {}
                /\ UNCHANGED <<nodeVars, pipe, view, th, cancelled, dev, dangling>>

\* WakeMain with a bug that EndsAfterAll has to show.
WakeOnce == /\ mpc = "woken" /\ mutex = {}
            /\ mpc' = "done"
            /\ UNCHANGED <<nodeVars, pipe, view, mutex, th, cancelled, dev, dangling>>

WakeMain == /\ mpc = "woken" /\ mutex = {}
            /\ mutex' = {Main}
            /\ mpc' = "wait"
            /\ UNCHANGED <<nodeVars, pipe, view, th, cancelled, dev, dangling>>

terminate_all_sessions == TestSessions \/ CancelSessions \/ WaitSessions \/ WakeMain

cancel_all_threads == JoinBus \/ terminate_all_sessions

BusThread == ChangeDevice \/ session_enqueue_info_message(Bus) \/ Die(Bus)

Request(c) == Connect(c) \/ SetConnectionMode(c) \/ Register(c) \/ HangUp(c)

thr_doClient(c) == \/ Begin(c) \/ StartSession(c) \/ session_enqueue_info_message(c)
                   \/ Pipe(c) \/ SendData(c) \/ Forward(c)
                   \/ Die(c) \/ EndClient(c) \/ ClosePipe(c) \/ Destroy(c)

SessionsNext == \/ BusThread \/ Shutdown \/ cancel_all_threads
                \/ \E c \in Clients : Request(c) \/ thr_doClient(c)

SessionsSpec == SessionsInit /\ [][SessionsNext]_sessionVars

\* A thread that can go on does so, and a client reads what its INFO session
\* sends.  No client has to connect, to say anything or to hang up, and the
\* server need not be shut down.
FairSessionsSpec == /\ SessionsSpec /\ WF_sessionVars(BusThread) /\ WF_sessionVars(cancel_all_threads)
                    /\ \A c \in Clients : WF_sessionVars(thr_doClient(c))

-----------------------------------------------------------------------------
(* Properties. *)

\* Type invariant.
SessionsTypeOK ==
    /\ list \in Seq(Clients)
    /\ mode \in [Clients -> {"undefined", "command", "info"}]
    /\ sid \in [Clients -> {0, 1}]
    /\ pipefd \in [Clients -> {"none", "open", "closed"}]
    /\ pipe \in [Clients -> Seq(0 .. Note)] /\ \A c \in Clients : Len(pipe[c]) <= PipeSize
    /\ view \in [Clients -> 0 .. MaxChanges]
    /\ mutex \in SUBSET (Threads \cup {Main})
    /\ th \in [Threads -> [pc : {"none", "new", "handshake", "reply", "head", "lock", "visit",
                                 "write", "pipe", "data", "loop", "command", "poll", "end",
                                 "close", "destroy", "gone"},
                           node : Clients \cup {NoNode}, msg : 0 .. Note,
                           return : {"none", "poll", "pipe", "command", "gone"}]]
    /\ cancelled \in SUBSET Threads /\ dev \in 0 .. MaxChanges
    /\ mpc \in {"run", "join", "head", "lock", "wait", "sleep", "woken", "done"}
    /\ dangling \in BOOLEAN

\* "there is no message loss": an INFO client that was told everything its
\* pipe holds knows the state of the device, whenever it joined.
InfoIsComplete == \A c \in Clients :
    At(c, "loop") /\ pipe[c] = <<>> /\ At(Bus, "poll") /\ ~dangling => view[c] = dev

\* When terminate_all_sessions returns, every registered session was destroyed
\* and has at most its farewell left to say.
EndsAfterAll == mpc = "done" => \A c \in Clients :
    th[c].pc \in {"none", "gone", "head", "lock", "visit", "write"}
    /\ (sid[c] = 1 => ~Listed(c))

\* A thread died in a write and left session_list_mutex locked for ever.
Orphaned == \E t \in Threads : t \in mutex /\ th[t].pc \notin {"visit", "write"}

\* A thread that tells the INFO sessions something gets through with it: full
\* pipes are emptied or closed, also when their sessions end meanwhile.
EnqueueReturns == \A t \in Threads :
    th[t].pc \in {"head", "lock", "visit", "write"} ~>
        th[t].pc \notin {"head", "lock", "visit", "write"} \/ Orphaned

\* A session that can be neither cancelled nor destroyed.
Anonymous == \E c \in Clients : Listed(c) /\ (sid[c] = 0 \/ c \notin cancelled)

\* "... then wait for complete termination": the shutdown comes to its end,
\* if every session was registered and no mutex is left locked.
ShutdownOfRegistered == mpc = "wait" ~> mpc = "done" \/ Orphaned \/ Anonymous
=============================================================================
