------------------------------- MODULE Server -------------------------------
(***************************************************************************)
(* The server: rocket::TcpServer (rocket/net/tcp/tcp_server.cc), its       *)
(* TcpAcceptor, the IOThreads of its IOThreadGroup (io_thread.cc,          *)
(* io_thread_group.cc) and the table of FdEvents (fd_event_group.cc).      *)
(*                                                                         *)
(* The main thread makes the IO threads, one after the other, and starts   *)
(* them; then it accepts connections and gives each to the next IO thread, *)
(* whose loop registers and reads it.  A connection becomes Connected on   *)
(* the main thread, after its IO thread has been told of it.               *)
(*                                                                         *)
(* Abstractions.  A loop is EventLoop without the order of its tasks (no   *)
(* two tasks of a batch are about one connection) and without its eventfd: *)
(* epoll_wait returns whenever it may, as it does after its timeout.  What *)
(* a peer sends is counted in requests; what becomes of a request that was *)
(* read is the subject of TcpConnection and Dispatch.                      *)
(***************************************************************************)
EXTENDS Integers, FiniteSets

CONSTANTS
  Peers,           \* the clients; each connects once
  Idle,            \* those of them that only connect
  MaxSend,         \* bound: the requests that each other one sends
  m_io_threads,    \* of the configuration: how many IO threads
  m_size,          \* of the FdEventGroup: its first size
  FirstFd          \* the descriptor of the first connection

ASSUME ServerAssumption ==
  /\ Idle \subseteq Peers
  /\ MaxSend \in Nat
  /\ m_io_threads \in Nat \ {0}
  /\ m_size \in Nat /\ m_size >= 2
  /\ FirstFd \in Nat

Threads == 0 .. m_io_threads - 1

NoThread == -1
NoFd == -1

Task == [to : {"add", "read"}, conn : Peers]

VARIABLES
  main,           \* the main thread: where, and with which IO thread or peer
  thread,         \* of each IO thread: where it is
  m_event_loop,   \* the IO threads that have made their loop
  m_init_semaphore, m_start_semaphore,
  m_stop_flag,    \* the loops told to stop; the main one is NoThread
  m_index,        \* IOThreadGroup: whose turn it is
  m_fd_group,     \* FdEventGroup: at each place, the descriptor of its FdEvent
  m_client,       \* TcpServer: the connections
  accepted,       \* how many connections were accepted
  io,             \* of each connection: its IO thread
  fd_event,       \* of each connection: the descriptor of its FdEvent
  m_state,        \* of each connection: its TcpState
  m_pending_tasks, tmp_tasks, \* of each IO loop
  m_listen_fds,   \* of each IO loop: the connections its epoll reports
  peer,           \* of each peer: not connected, in the backlog, accepted
  unread,         \* the requests that each peer sent and nobody read
  sent, eof,      \* how many requests each peer sent; the peers that closed
  reset           \* the peers that reset their connection

startup == <<m_event_loop, m_init_semaphore, m_start_semaphore>>
server  == <<m_index, m_fd_group, m_client, accepted, io, fd_event>>
loops   == <<m_pending_tasks, tmp_tasks, m_listen_fds>>
peers   == <<peer, unread, sent, eof, reset>>
vars == <<main, thread, startup, m_stop_flag, server, m_state, loops, peers>>

TypeOK ==
  /\ main \in [at : {"create", "sem_wait"}, who : Threads]
              \cup [at : {"loop", "accept", "undefined", "exited"},
                    who : {NoThread}]
              \cup [at : {"start"}, who : Threads]
              \cup [at : {"setState"}, who : Peers]
  /\ thread \in [Threads -> {"none", "created", "made", "waiting", "test", "run",
                             "exited"}]
  /\ m_event_loop \subseteq Threads
  /\ m_init_semaphore \in [Threads -> Nat]
  /\ m_start_semaphore \in [Threads -> Nat]
  /\ m_stop_flag \subseteq Threads \cup {NoThread}
  /\ m_index \in 0 .. m_io_threads
  /\ DOMAIN m_fd_group \subseteq Nat
  /\ m_client \subseteq Peers
  /\ accepted \in Nat
  /\ io \in [Peers -> Threads \cup {NoThread}]
  /\ fd_event \in [Peers -> Nat \cup {NoFd}]
  /\ m_state \in [Peers -> {"none", "NotConnected", "Connected", "Closed"}]
  /\ m_pending_tasks \in [Threads -> SUBSET Task]
  /\ tmp_tasks \in [Threads -> SUBSET Task]
  /\ m_listen_fds \in [Threads -> SUBSET Peers]
  /\ peer \in [Peers -> {"none", "backlog", "accepted"}]
  /\ unread \in [Peers -> 0 .. MaxSend]
  /\ sent \in [Peers -> 0 .. MaxSend]
  /\ eof \subseteq Peers
  /\ reset \subseteq eof

Init ==
  /\ main = [at |-> "create", who |-> 0]
  /\ thread = [t \in Threads |-> "none"]
  /\ m_event_loop = {}
  /\ m_init_semaphore = [t \in Threads |-> 0]
  /\ m_start_semaphore = [t \in Threads |-> 0]
  /\ m_stop_flag = {}
  /\ m_index = 0
  /\ m_fd_group = [fd \in 0 .. m_size - 1 |-> fd]
  /\ m_client = {}
  /\ accepted = 0
  /\ io = [p \in Peers |-> NoThread]
  /\ fd_event = [p \in Peers |-> NoFd]
  /\ m_state = [p \in Peers |-> "none"]
  /\ m_pending_tasks = [t \in Threads |-> {}]
  /\ tmp_tasks = [t \in Threads |-> {}]
  /\ m_listen_fds = [t \in Threads |-> {}]
  /\ peer = [p \in Peers |-> "none"]
  /\ unread = [p \in Peers |-> 0]
  /\ sent = [p \in Peers |-> 0]
  /\ eof = {}
  /\ reset = {}

-----------------------------------------------------------------------------
(* The main thread: construction and start.                                *)

MainAt(place, who) == main = [at |-> place, who |-> who]
MainGoTo(place, who) == main' = [at |-> place, who |-> who]

Post(semaphore, t) == [semaphore EXCEPT ![t] = @ + 1]
Taken(semaphore, t) == [semaphore EXCEPT ![t] = @ - 1]

\* The constructor of an IOThread makes its thread ...
NewIOThread(t) ==
  /\ MainAt("create", t)
  /\ thread' = [thread EXCEPT ![t] = "created"]
  /\ MainGoTo("sem_wait", t)
  /\ UNCHANGED <<startup, m_stop_flag, server, m_state, loops, peers>>

\* ... and waits until that has a loop.  The next IOThread follows; after the
\* last one the main loop watches the listening descriptor.
Created(t) ==
  /\ MainAt("sem_wait", t)
  /\ m_init_semaphore[t] > 0
  /\ m_init_semaphore' = Taken(m_init_semaphore, t)
  /\ IF t + 1 \in Threads THEN MainGoTo("create", t + 1) ELSE MainGoTo("start", 0)
  /\ UNCHANGED <<thread, m_event_loop, m_start_semaphore, m_stop_flag, server,
                 m_state, loops, peers>>

start(t) ==
  /\ MainAt("start", t)
  /\ m_start_semaphore' = Post(m_start_semaphore, t)
  /\ IF t + 1 \in Threads THEN MainGoTo("start", t + 1) ELSE MainGoTo("loop", NoThread)
  /\ UNCHANGED <<thread, m_event_loop, m_init_semaphore, m_stop_flag, server,
                 m_state, loops, peers>>

-----------------------------------------------------------------------------
(* The main thread: its loop, which watches the listening descriptor.      *)

Backlog == {p \in Peers : peer[p] = "backlog"}

\* A round of the loop that runs onAccept.
Acceptable ==
  /\ MainAt("loop", NoThread)
  /\ NoThread \notin m_stop_flag
  /\ Backlog # {}
  /\ MainGoTo("accept", NoThread)
  /\ UNCHANGED <<thread, startup, m_stop_flag, server, m_state, loops, peers>>

LeaveLoop ==
  /\ MainAt("loop", NoThread)
  /\ NoThread \in m_stop_flag
  /\ MainGoTo("exited", NoThread)
  /\ UNCHANGED <<thread, startup, m_stop_flag, server, m_state, loops, peers>>

\* getFdEvent grows the table to int(fd * 1.5) if the descriptor is beyond it.
GrownFlat(fd) == [i \in 0 .. fd - 1 |-> IF i \in DOMAIN m_fd_group THEN m_fd_group[i] ELSE i]    \* mutant
Grown(fd) ==
  [i \in 0 .. (3 * fd) \div 2 - 1 |-> IF i \in DOMAIN m_fd_group THEN m_fd_group[i] ELSE i]

getFdEvent(fd) == IF fd \in DOMAIN m_fd_group THEN m_fd_group ELSE Grown(fd)

\* getIOThread: the thread, and the index after it.
TurnLate == IF m_index > m_io_threads THEN 0 ELSE m_index    \* mutant
TurnFirst == 0    \* mutant
Turn == IF m_index >= m_io_threads THEN 0 ELSE m_index

\* No descriptor is ever closed: each connection gets a new one.
ClientFd == FirstFd + accepted

\* A task that another thread than the loop's pushes.
addTask(t, task) == m_pending_tasks' = [m_pending_tasks EXCEPT ![t] = @ \cup {task}]

Take(p) == peer' = [peer EXCEPT ![p] = "accepted"] /\ accepted' = accepted + 1

\* onAccept: accept, getIOThread, and the constructor of the connection, which
\* takes its FdEvent, sets its mask and has the IO loop register it.
Accept(p) ==
  /\ MainAt("accept", NoThread)
  /\ p \in Backlog
  /\ ClientFd \in DOMAIN getFdEvent(ClientFd)
  /\ Take(p)
  /\ io' = [io EXCEPT ![p] = Turn]
  /\ m_index' = Turn + 1
  /\ m_fd_group' = getFdEvent(ClientFd)
  /\ fd_event' = [fd_event EXCEPT ![p] = getFdEvent(ClientFd)[ClientFd]]
  /\ m_state' = [m_state EXCEPT ![p] = "NotConnected"]
  /\ addTask(Turn, [to |-> "add", conn |-> p])
  /\ MainGoTo("setState", p)
  /\ UNCHANGED <<thread, startup, m_stop_flag, m_client, tmp_tasks, m_listen_fds,
                 unread, sent, eof, reset>>

\* An access to the table beyond its end is undefined.  accept fails when the
\* descriptors are used up, for instance, and onAccept takes -1 for one.
Undefined ==
  /\ MainAt("accept", NoThread)
  /\ MainGoTo("undefined", NoThread)
  /\ UNCHANGED <<thread, startup, m_stop_flag, server, m_state, loops, peers>>

BeyondTable == ClientFd \notin DOMAIN getFdEvent(ClientFd)

SetState(p) ==
  /\ MainAt("setState", p)
  /\ m_state' = [m_state EXCEPT ![p] = "Connected"]
  /\ m_client' = m_client \cup {p}
  /\ MainGoTo("loop", NoThread)
  /\ UNCHANGED <<thread, startup, m_stop_flag, m_index, m_fd_group, accepted, io,
                 fd_event, loops, peers>>

-----------------------------------------------------------------------------
(* An IO thread.                                                           *)

ThreadGoTo(t, place) == thread' = [thread EXCEPT ![t] = place]

PostFirst(t) ==    \* mutant
  /\ thread[t] = "created"
  /\ m_init_semaphore' = Post(m_init_semaphore, t)
  /\ ThreadGoTo(t, "made")
  /\ UNCHANGED <<main, m_event_loop, m_start_semaphore, m_stop_flag, server,
                 m_state, loops, peers>>
MakeLoop(t) ==
  /\ thread[t] = "created"
  /\ m_event_loop' = m_event_loop \cup {t}
  /\ ThreadGoTo(t, "made")
  /\ UNCHANGED <<main, m_init_semaphore, m_start_semaphore, m_stop_flag, server,
                 m_state, loops, peers>>

Announce(t) ==
  /\ thread[t] = "made"
  /\ m_init_semaphore' = Post(m_init_semaphore, t)
  /\ ThreadGoTo(t, "waiting")
  /\ UNCHANGED <<main, m_event_loop, m_start_semaphore, m_stop_flag, server,
                 m_state, loops, peers>>

Started(t) ==
  /\ thread[t] = "waiting"
  /\ m_start_semaphore[t] > 0
  /\ m_start_semaphore' = Taken(m_start_semaphore, t)
  /\ ThreadGoTo(t, "test")
  /\ UNCHANGED <<main, m_event_loop, m_init_semaphore, m_stop_flag, server,
                 m_state, loops, peers>>

\* loop: while (!m_stop_flag) swap out the tasks ...
Swap(t) ==
  /\ thread[t] = "test" /\ t \notin m_stop_flag
  /\ tmp_tasks' = [tmp_tasks EXCEPT ![t] = m_pending_tasks[t]]
  /\ m_pending_tasks' = [m_pending_tasks EXCEPT ![t] = {}]
  /\ ThreadGoTo(t, "run")
  /\ UNCHANGED <<main, startup, m_stop_flag, server, m_state, m_listen_fds, peers>>

Leave(t) ==
  /\ thread[t] = "test" /\ t \in m_stop_flag
  /\ ThreadGoTo(t, "exited")
  /\ UNCHANGED <<main, startup, m_stop_flag, server, m_state, loops, peers>>

Run(t, task) ==
  /\ thread[t] = "run" /\ task \in tmp_tasks[t]
  /\ tmp_tasks' = [tmp_tasks EXCEPT ![t] = @ \ {task}]

\* ... register a connection ...
AddToEpoll(t, p) ==
  /\ Run(t, [to |-> "add", conn |-> p])
  /\ m_listen_fds' = [m_listen_fds EXCEPT ![t] = @ \cup {p}]
  /\ UNCHANGED <<main, thread, startup, m_stop_flag, server, m_state,
                 m_pending_tasks, peers>>

clearMask(t, p) ==    \* mutant
  /\ m_state' = [m_state EXCEPT ![p] = "Closed"]
  /\ UNCHANGED m_listen_fds
\* clear, in the loop's own thread.
clear(t, p) ==
  /\ m_listen_fds' = [m_listen_fds EXCEPT ![t] = @ \ {p}]
  /\ m_state' = [m_state EXCEPT ![p] = "Closed"]

RefusedClosed(p) == m_state[p] = "Closed"    \* mutant
\* onRead refuses to read unless the connection is Connected ...
Refused(p) == m_state[p] # "Connected"

\* ... and leaves the connection registered.
Ignore(t, p) == UNCHANGED <<m_state, m_listen_fds, unread>>

\* excute ends with listenWrite, which registers the connection, also where it no
\* longer was.
listenWrite(t, p) ==
  /\ m_listen_fds' = [m_listen_fds EXCEPT ![t] = @ \cup {p}]
  /\ UNCHANGED m_state

\* It reads everything, and sees the peer's close when the last read filled
\* the buffer or there was nothing left to read.
Read(t, p) ==
  /\ unread' = [unread EXCEPT ![p] = 0]
  /\ \/ (unread[p] > 0 \/ p \notin eof) /\ listenWrite(t, p)
     \/ p \in eof /\ clear(t, p)

OnRead(t, p) ==
  /\ Run(t, [to |-> "read", conn |-> p])
  /\ IF Refused(p) THEN Ignore(t, p) ELSE Read(t, p)
  /\ UNCHANGED <<main, thread, startup, m_stop_flag, server, m_pending_tasks,
                 peer, sent, eof, reset>>

\* ... and, with no task left, epoll_wait, which reports a connection as long as
\* there is something to read.
Readable(t) == {p \in m_listen_fds[t] : unread[p] > 0 \/ p \in eof}

\* The loop takes a connection that is in error out of epoll, with its read already
\* queued; no connection has a callback for errors.
EpollWait(t) ==
  /\ thread[t] = "run" /\ tmp_tasks[t] = {}
  /\ m_pending_tasks' = [m_pending_tasks EXCEPT ![t] =
       @ \cup {[to |-> "read", conn |-> p] : p \in Readable(t)}]
  /\ m_listen_fds' = [m_listen_fds EXCEPT ![t] = @ \ reset]
  /\ ThreadGoTo(t, "test")
  /\ UNCHANGED <<main, startup, m_stop_flag, server, m_state, tmp_tasks, peers>>

-----------------------------------------------------------------------------
(* TcpServer::stop, called by any thread, once.                            *)

Constructed == main.at \notin {"create", "sem_wait"}

MainLoopOnly == {NoThread}    \* mutant
\* The main loop and those of the IO threads.
Loops == {NoThread} \cup Threads

\* The main loop first, then the IO threads in their order.
stop(l) ==
  /\ Constructed
  /\ l \in Loops \ m_stop_flag
  /\ \A k \in Loops : k < l => k \in m_stop_flag
  /\ m_stop_flag' = m_stop_flag \cup {l}
  /\ UNCHANGED <<main, thread, startup, server, m_state, loops, peers>>

-----------------------------------------------------------------------------
(* The clients.                                                            *)

\* The server listens from the start.
Connect(p) ==
  /\ peer[p] = "none"
  /\ peer' = [peer EXCEPT ![p] = "backlog"]
  /\ UNCHANGED <<main, thread, startup, m_stop_flag, server, m_state, loops,
                 unread, sent, eof, reset>>

Send(p) ==
  /\ p \notin Idle /\ peer[p] # "none" /\ p \notin eof /\ sent[p] < MaxSend
  /\ sent' = [sent EXCEPT ![p] = @ + 1]
  /\ unread' = [unread EXCEPT ![p] = @ + 1]
  /\ UNCHANGED <<main, thread, startup, m_stop_flag, server, m_state, loops,
                 peer, eof, reset>>

Close(p) ==
  /\ p \notin Idle /\ peer[p] # "none" /\ p \notin eof
  /\ eof' = eof \cup {p}
  /\ UNCHANGED <<main, thread, startup, m_stop_flag, server, m_state, loops,
                 peer, unread, sent, reset>>

\* What the server has received can still be read; then the reset is an error of
\* read, once, and after it the end of the stream.
Reset(p) ==
  /\ p \notin Idle /\ peer[p] # "none" /\ p \notin reset
  /\ reset' = reset \cup {p}
  /\ eof' = eof \cup {p}
  /\ UNCHANGED <<main, thread, startup, m_stop_flag, server, m_state, loops,
                 peer, unread, sent>>

-----------------------------------------------------------------------------
OnAccept == \E p \in Peers : Accept(p) \/ SetState(p)

MainThread == \/ \E t \in Threads : NewIOThread(t) \/ Created(t) \/ start(t)
              \/ Acceptable \/ LeaveLoop \/ OnAccept

IOThread(t) == \/ MakeLoop(t) \/ Announce(t) \/ Started(t) \/ Swap(t) \/ Leave(t)
               \/ \E p \in Peers : AddToEpoll(t, p) \/ OnRead(t, p)
               \/ EpollWait(t)

Client(p) == Connect(p) \/ Send(p) \/ Close(p) \/ Reset(p)

Next ==
  /\ main.at # "undefined"
  /\ \/ MainThread
     \/ Undefined
     \/ \E t \in Threads : IOThread(t)
     \/ \E l \in Loops : stop(l)
     \/ \E p \in Peers : Client(p)

SafetySpec == Init /\ [][Next]_vars

\* The threads of the server are scheduled, and one that began to stop it goes
\* on; the clients do as they like.
Fairness ==
  /\ WF_vars(main.at # "undefined" /\ MainThread)
  /\ \A t \in Threads : WF_vars(main.at # "undefined" /\ IOThread(t))
  /\ WF_vars(/\ main.at # "undefined"
             /\ m_stop_flag # {} /\ \E l \in Loops : stop(l))

Spec == SafetySpec /\ Fairness

-----------------------------------------------------------------------------
(* Properties.                                                             *)

\* io_thread.cc:10-24, 41-62: the constructor of an IOThread returns only when
\* there is a loop to push to and to stop, and no thread enters its loop before
\* start.
StartInOrder ==
  \A t \in Threads :
    /\ t \notin m_event_loop =>
         ~ Constructed /\ \A p \in Peers : io[p] # t
    /\ thread[t] \in {"test", "run", "exited"} =>
         /\ Constructed
         /\ main.at = "start" => main.who > t

\* io_thread_group.cc:36-43: the connections are shared evenly.
Share(t) == Cardinality({p \in Peers : io[p] = t})
EvenShares == \A t, u \in Threads : Share(t) <= Share(u) + 1

\* tcp_connection.cc:217-230: a connection that was cleared is neither reported
\* by epoll nor about to be registered by a late task of its constructor.
ClosedIsGone ==
  \A p \in Peers, t \in Threads :
    m_state[p] = "Closed" =>
      /\ p \notin m_listen_fds[t]
      /\ [to |-> "add", conn |-> p] \notin m_pending_tasks[t] \cup tmp_tasks[t]

\* tcp_server.cc:49-50: setState, on the main thread, does not bring back a
\* connection that its IO thread has cleared.
ClosedForGood ==
  [][\A p \in Peers : m_state[p] = "Closed" => m_state'[p] = "Closed"]_vars

\* fd_event_group.cc:41-55: every connection gets the FdEvent of its own
\* descriptor, so that no two connections share one.
OwnFdEvent ==
  /\ main.at = "accept" => ~ BeyondTable
  /\ \A p, q \in Peers : fd_event[p] # NoFd /\ p # q => fd_event[p] # fd_event[q]

\* eventloop.cc:179-187, tcp_connection.cc:41-46: an accepted connection that is not
\* cleared and that its IO thread will never hear of again.
Lost(p) ==
  /\ m_state[p] \in {"NotConnected", "Connected"}
  /\ \A t \in Threads :
       /\ p \notin m_listen_fds[t]
       /\ \A task \in m_pending_tasks[t] \cup tmp_tasks[t] : task.conn # p

Excused == m_stop_flag # {} \/ main.at = "undefined"


\* tcp_server.cc:63-67: a server told to stop leaves its main loop and all its IO
\* loops.
StopEndsServer ==
  m_stop_flag # {} ~> \/ main.at = "undefined"
                      \/ main.at = "exited" /\ \A t \in Threads : thread[t] = "exited"
=============================================================================
