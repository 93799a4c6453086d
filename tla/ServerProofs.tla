---------------------------- MODULE ServerProofs ----------------------------
(***************************************************************************)
(* Proofs about Server, for any number of clients, requests and IO         *)
(* threads, any first descriptor and any size of the table of at least 2.  *)
(***************************************************************************)
EXTENDS Server, FiniteSetTheorems, TLAPS

\* The constants, as the provers need them.
LEMMA ThreadFacts ==
  /\ m_io_threads \in Nat \ {0}
  /\ Threads = 0 .. m_io_threads - 1
  /\ Threads \subseteq Nat
  /\ 0 \in Threads
  /\ NoThread \notin Threads /\ NoThread = -1
  /\ Loops = {-1} \cup Threads
BY ServerAssumption DEF Threads, NoThread, Loops

-----------------------------------------------------------------------------
(* The table of FdEvents.                                                  *)

\* At each place of the table is the FdEvent of the descriptor of that number.
IsTable(table) == \E n \in Nat : n >= 2 /\ table = [i \in 0 .. n - 1 |-> i]

\* getFdEvent gives a table that has the descriptor, and what stands there is
\* that descriptor's event.  A table of one entry would not grow for 1.
LEMMA TableHasFd ==
  ASSUME IsTable(m_fd_group), NEW fd \in Nat
  PROVE  /\ IsTable(getFdEvent(fd))
         /\ fd \in DOMAIN getFdEvent(fd)
         /\ getFdEvent(fd)[fd] = fd
<1> PICK n \in Nat : n >= 2 /\ m_fd_group = [i \in 0 .. n - 1 |-> i]
  BY DEF IsTable
<1>1. DOMAIN m_fd_group = 0 .. n - 1
  OBVIOUS
<1>2. CASE fd \in 0 .. n - 1
  BY <1>1, <1>2 DEF getFdEvent, IsTable
<1>3. CASE fd \notin 0 .. n - 1
  <2> DEFINE k == (3 * fd) \div 2
  <2>1. fd >= 2
    BY <1>3
  <2>2. k \in Nat /\ k >= 2 /\ fd \in 0 .. k - 1
    BY <2>1
  <2> HIDE DEF k
  <2>3. getFdEvent(fd) = [i \in 0 .. k - 1 |-> IF i \in DOMAIN m_fd_group THEN m_fd_group[i] ELSE i]
    BY <1>1, <1>3 DEF getFdEvent, Grown, k
  <2>4. getFdEvent(fd) = [i \in 0 .. k - 1 |-> i]
    BY <1>1, <2>3
  <2> QED
    BY <2>2, <2>4 DEF IsTable
<1> QED
  BY <1>2, <1>3

\* The connections have the events of their own descriptors.
FdInv ==
  /\ IsTable(m_fd_group)
  /\ \A p \in Peers : fd_event[p] # NoFd => fd_event[p] \in FirstFd .. FirstFd + accepted - 1
  /\ \A p, q \in Peers : fd_event[p] # NoFd /\ p # q => fd_event[p] # fd_event[q]

LEMMA FdFacts == NoFd = -1 /\ FirstFd \in Nat
BY ServerAssumption DEF NoFd

-----------------------------------------------------------------------------
(* Types.                                                                  *)

Place == [at : {"create", "sem_wait"}, who : Threads]
           \cup [at : {"loop", "accept", "undefined", "exited"}, who : {NoThread}]
           \cup [at : {"start"}, who : Threads]
           \cup [at : {"setState"}, who : Peers]

LEMMA TaskType == \A p \in Peers : /\ [to |-> "add", conn |-> p] \in Task
                                   /\ [to |-> "read", conn |-> p] \in Task
BY DEF Task

LEMMA InitType == Init => TypeOK /\ FdInv
<1> SUFFICES ASSUME Init PROVE TypeOK /\ FdInv
  OBVIOUS
<1>1. IsTable(m_fd_group)
  BY ServerAssumption DEF Init, IsTable
<1>2. DOMAIN m_fd_group \subseteq Nat
  BY <1>1 DEF IsTable
<1>3. m_index \in 0 .. m_io_threads
  BY ThreadFacts DEF Init
<1>4. main \in Place
  BY ThreadFacts DEF Init, Place
<1>5. \A p \in Peers : unread[p] = 0 /\ sent[p] = 0
  BY DEF Init
<1>6. unread \in [Peers -> 0 .. MaxSend] /\ sent \in [Peers -> 0 .. MaxSend]
  BY ServerAssumption DEF Init
<1>7. FdInv
  BY <1>1 DEF Init, FdInv
<1> QED
  BY <1>2, <1>3, <1>4, <1>6, <1>7 DEF Init, TypeOK, Place

LEMMA AcceptType ==
  ASSUME TypeOK, FdInv, NEW p \in Peers, Accept(p)
  PROVE  TypeOK' /\ FdInv'
<1>1. /\ m_index \in 0 .. m_io_threads /\ accepted \in Nat
      /\ io \in [Peers -> Threads \cup {NoThread}]
      /\ fd_event \in [Peers -> Nat \cup {NoFd}]
      /\ m_state \in [Peers -> {"none", "NotConnected", "Connected", "Closed"}]
      /\ m_pending_tasks \in [Threads -> SUBSET Task]
      /\ peer \in [Peers -> {"none", "backlog", "accepted"}]
  BY DEF TypeOK
<1>2. Turn \in Threads /\ Turn + 1 \in 0 .. m_io_threads
  BY <1>1, ThreadFacts DEF Turn
<1>3. ClientFd \in Nat /\ ClientFd = FirstFd + accepted
  BY <1>1, FdFacts DEF ClientFd
<1>4. IsTable(getFdEvent(ClientFd)) /\ getFdEvent(ClientFd)[ClientFd] = ClientFd
  BY <1>3, TableHasFd DEF FdInv
<1>5. /\ accepted' = accepted + 1
      /\ fd_event' = [fd_event EXCEPT ![p] = ClientFd]
      /\ m_fd_group' = getFdEvent(ClientFd)
      /\ peer' = [peer EXCEPT ![p] = "accepted"]
      /\ io' = [io EXCEPT ![p] = Turn]
      /\ m_index' = Turn + 1
      /\ m_state' = [m_state EXCEPT ![p] = "NotConnected"]
      /\ m_pending_tasks' = [m_pending_tasks EXCEPT ![Turn] = @ \cup {[to |-> "add", conn |-> p]}]
      /\ main' = [at |-> "setState", who |-> p]
      /\ UNCHANGED <<thread, startup, m_stop_flag, m_client, tmp_tasks, m_listen_fds,
                     unread, sent, eof, reset>>
  BY <1>4 DEF Accept, Take, addTask, MainGoTo
<1>6. FdInv'
  <2>1. \A q \in Peers : fd_event'[q] = IF q = p THEN ClientFd ELSE fd_event[q]
    BY <1>1, <1>5
  <2>2. \A q \in Peers : fd_event[q] # NoFd => fd_event[q] \in FirstFd .. FirstFd + accepted - 1
    BY DEF FdInv
  <2>3. \A q \in Peers : fd_event[q] # ClientFd
    BY <1>1, <1>3, <2>2, FdFacts
  <2>4. \A q \in Peers : fd_event'[q] # NoFd => fd_event'[q] \in FirstFd .. FirstFd + accepted' - 1
    BY <1>1, <1>3, <1>5, <2>1, <2>2, FdFacts
  <2>5. \A q, r \in Peers : fd_event'[q] # NoFd /\ q # r => fd_event'[q] # fd_event'[r]
    BY <1>3, <2>1, <2>3 DEF FdInv
  <2>6. IsTable(m_fd_group')
    BY <1>4, <1>5
  <2> QED
    BY <2>4, <2>5, <2>6 DEF FdInv, IsTable
<1>7. DOMAIN m_fd_group' \subseteq Nat
  BY <1>4, <1>5 DEF IsTable
<1>8. m_pending_tasks' \in [Threads -> SUBSET Task]
  BY <1>1, <1>2, <1>5, TaskType
<1>9. main' \in Place
  BY <1>5 DEF Place
<1>10. /\ io' \in [Peers -> Threads \cup {NoThread}]
       /\ fd_event' \in [Peers -> Nat \cup {NoFd}]
       /\ m_state' \in [Peers -> {"none", "NotConnected", "Connected", "Closed"}]
       /\ peer' \in [Peers -> {"none", "backlog", "accepted"}]
       /\ m_index' \in 0 .. m_io_threads /\ accepted' \in Nat
  BY <1>1, <1>2, <1>3, <1>5
<1> QED
  BY <1>5, <1>6, <1>7, <1>8, <1>9, <1>10 DEF TypeOK, Place, startup

\* What was not read was sent.
Unread == \A p \in Peers : unread[p] <= sent[p]

LEMMA StepUnread == TypeOK /\ Unread /\ [Next]_vars => Unread'
<1> SUFFICES ASSUME TypeOK, Unread, [Next]_vars PROVE Unread'
  OBVIOUS
<1> USE DEF startup, server, loops, peers
<1>1. /\ unread \in [Peers -> 0 .. MaxSend] /\ sent \in [Peers -> 0 .. MaxSend]
      /\ MaxSend \in Nat
  BY ServerAssumption DEF TypeOK
<1>2. CASE UNCHANGED <<unread, sent>>
  BY <1>2 DEF Unread
<1>3. ASSUME NEW t \in Threads, NEW p \in Peers, OnRead(t, p) PROVE Unread'
  <2>1. unread' = unread \/ unread' = [unread EXCEPT ![p] = 0]
    BY <1>3 DEF OnRead, Ignore, Read
  <2>2. sent' = sent
    BY <1>3 DEF OnRead
  <2> QED
    BY <1>1, <2>1, <2>2 DEF Unread
<1>4. ASSUME NEW p \in Peers, Send(p) PROVE Unread'
  BY <1>1, <1>4 DEF Send, Unread
<1> QED
  BY <1>2, <1>3, <1>4
     DEF Next, MainThread, OnAccept, IOThread, Client, NewIOThread, Created, start, Acceptable,
         LeaveLoop, Accept, SetState, Undefined, MakeLoop, Announce, Started, Swap, Leave,
         AddToEpoll, EpollWait, stop, Connect, Close, Reset, vars

LEMMA StepType == TypeOK /\ FdInv /\ Unread /\ [Next]_vars => TypeOK' /\ FdInv'
<1> SUFFICES ASSUME TypeOK, FdInv, Unread, [Next]_vars PROVE TypeOK' /\ FdInv'
  OBVIOUS
<1> USE DEF startup, server, loops, peers
<1>1. UNCHANGED <<m_fd_group, fd_event, accepted>> => FdInv'
  BY DEF FdInv, IsTable
<1>2. ASSUME NEW t \in Threads, NewIOThread(t) \/ Created(t) \/ start(t)
      PROVE  TypeOK' /\ FdInv'
  <2>1. main' \in Place
    BY <1>2, ThreadFacts DEF NewIOThread, Created, start, MainGoTo, Place
  <2>2. thread' \in [Threads -> {"none", "created", "made", "waiting", "test", "run", "exited"}]
    BY <1>2 DEF NewIOThread, Created, start, TypeOK
  <2>3. m_init_semaphore' \in [Threads -> Nat]
    BY <1>2 DEF NewIOThread, Created, start, Taken, TypeOK
  <2>4. m_start_semaphore' \in [Threads -> Nat]
    BY <1>2 DEF NewIOThread, Created, start, Post, TypeOK
  <2>5. UNCHANGED <<m_event_loop, m_stop_flag, server, m_state, loops, peers>>
    BY <1>2 DEF NewIOThread, Created, start
  <2> QED
    BY <1>1, <2>1, <2>2, <2>3, <2>4, <2>5 DEF TypeOK, Place
<1>3. CASE Acceptable \/ LeaveLoop \/ Undefined
  <2>1. main' \in Place /\ UNCHANGED <<thread, startup, m_stop_flag, server, m_state, loops, peers>>
    BY <1>3 DEF Acceptable, LeaveLoop, Undefined, MainGoTo, Place
  <2> QED
    BY <1>1, <2>1 DEF TypeOK, Place
<1>4. ASSUME NEW p \in Peers, SetState(p) PROVE TypeOK' /\ FdInv'
  <2>1. main' \in Place /\ m_client' \subseteq Peers
    BY <1>4 DEF SetState, MainGoTo, Place, TypeOK
  <2>2. m_state' \in [Peers -> {"none", "NotConnected", "Connected", "Closed"}]
    BY <1>4 DEF SetState, TypeOK
  <2> QED
    BY <1>1, <1>4, <2>1, <2>2 DEF SetState, TypeOK, Place
<1>5. ASSUME NEW t \in Threads, MakeLoop(t) \/ Announce(t) \/ Started(t)
      PROVE  TypeOK' /\ FdInv'
  <2>1. thread' \in [Threads -> {"none", "created", "made", "waiting", "test", "run", "exited"}]
    BY <1>5 DEF MakeLoop, Announce, Started, ThreadGoTo, TypeOK
  <2>2. m_init_semaphore' \in [Threads -> Nat] /\ m_event_loop' \subseteq Threads
    BY <1>5 DEF MakeLoop, Announce, Started, Post, TypeOK
  <2>3. m_start_semaphore' \in [Threads -> Nat]
    BY <1>5 DEF MakeLoop, Announce, Started, Taken, TypeOK
  <2>4. UNCHANGED <<main, m_stop_flag, server, m_state, loops, peers>>
    BY <1>5 DEF MakeLoop, Announce, Started
  <2> QED
    BY <1>1, <2>1, <2>2, <2>3, <2>4 DEF TypeOK
<1>6. ASSUME NEW t \in Threads, Swap(t) \/ Leave(t) \/ EpollWait(t)
      PROVE  TypeOK' /\ FdInv'
  <2>1. thread' \in [Threads -> {"none", "created", "made", "waiting", "test", "run", "exited"}]
    BY <1>6 DEF Swap, Leave, EpollWait, ThreadGoTo, TypeOK
  <2>2. tmp_tasks' \in [Threads -> SUBSET Task]
    BY <1>6 DEF Swap, Leave, EpollWait, TypeOK
  <2>3. \A p \in Readable(t) : p \in Peers
    BY DEF Readable, TypeOK
  <2>4. m_pending_tasks' \in [Threads -> SUBSET Task]
    <3> DEFINE reads == {[to |-> "read", conn |-> p] : p \in Readable(t)}
    <3>1. reads \subseteq Task
      BY <2>3, TaskType
    <3>2. \/ UNCHANGED m_pending_tasks
          \/ m_pending_tasks' = [m_pending_tasks EXCEPT ![t] = {}]
          \/ m_pending_tasks' = [m_pending_tasks EXCEPT ![t] = @ \cup reads]
      BY <1>6 DEF Swap, Leave, EpollWait
    <3> HIDE DEF reads
    <3> QED
      BY <3>1, <3>2 DEF TypeOK
  <2>5. UNCHANGED <<main, startup, m_stop_flag, server, m_state, peers>>
    BY <1>6 DEF Swap, Leave, EpollWait
  <2>6. m_listen_fds' \in [Threads -> SUBSET Peers]
    BY <1>6 DEF Swap, Leave, EpollWait, TypeOK
  <2> QED
    BY <1>1, <2>1, <2>2, <2>4, <2>5, <2>6 DEF TypeOK
<1>7. ASSUME NEW t \in Threads, NEW p \in Peers, AddToEpoll(t, p) \/ OnRead(t, p)
      PROVE  TypeOK' /\ FdInv'
  <2>1. tmp_tasks' \in [Threads -> SUBSET Task]
    BY <1>7 DEF AddToEpoll, OnRead, Run, TypeOK
  <2>2. m_listen_fds' \in [Threads -> SUBSET Peers]
    BY <1>7 DEF AddToEpoll, OnRead, Ignore, Read, listenWrite, clear, TypeOK
  <2>3. m_state' \in [Peers -> {"none", "NotConnected", "Connected", "Closed"}]
    BY <1>7 DEF AddToEpoll, OnRead, Ignore, Read, listenWrite, clear, TypeOK
  <2>4. unread' \in [Peers -> 0 .. MaxSend]
    <3>1. unread' = unread \/ unread' = [unread EXCEPT ![p] = 0]
      BY <1>7 DEF AddToEpoll, OnRead, Ignore, Read
    <3>2. unread \in [Peers -> 0 .. MaxSend] /\ MaxSend \in Nat
      BY ServerAssumption DEF TypeOK
    <3> QED
      BY <3>1, <3>2
  <2>5. UNCHANGED <<main, thread, startup, m_stop_flag, server, m_pending_tasks, peer, sent, eof,
                  reset>>
    BY <1>7 DEF AddToEpoll, OnRead
  <2> QED
    BY <1>1, <2>1, <2>2, <2>3, <2>4, <2>5 DEF TypeOK
<1>8. ASSUME NEW l \in Loops, stop(l) PROVE TypeOK' /\ FdInv'
  BY <1>1, <1>8 DEF stop, Loops, TypeOK
<1>9. ASSUME NEW p \in Peers, Client(p) PROVE TypeOK' /\ FdInv'
  <2>1. peer' \in [Peers -> {"none", "backlog", "accepted"}]
    BY <1>9 DEF Client, Connect, Send, Close, Reset, TypeOK
  <2>2. sent' \in [Peers -> 0 .. MaxSend] /\ unread' \in [Peers -> 0 .. MaxSend]
    BY <1>9, ServerAssumption DEF Unread, Client, Connect, Send, Close, Reset, TypeOK
  <2>3. eof' \subseteq Peers /\ reset' \subseteq eof'
    BY <1>9 DEF Client, Connect, Send, Close, Reset, TypeOK
  <2>4. UNCHANGED <<main, thread, startup, m_stop_flag, server, m_state, loops>>
    BY <1>9 DEF Client, Connect, Send, Close, Reset
  <2> QED
    BY <1>1, <2>1, <2>2, <2>3, <2>4 DEF TypeOK
<1>10. CASE UNCHANGED vars
  BY <1>1, <1>10 DEF vars, TypeOK
<1> QED
  BY <1>2, <1>3, <1>4, <1>5, <1>6, <1>7, <1>8, <1>9, <1>10, AcceptType
     DEF Next, MainThread, OnAccept, IOThread

\* Every reachable state is well typed.
THEOREM TypeCorrect == SafetySpec => [](TypeOK /\ FdInv /\ Unread)
<1>1. Init => TypeOK /\ FdInv /\ Unread
  BY InitType DEF Init, Unread
<1> QED
  BY <1>1, StepType, StepUnread, PTL DEF SafetySpec

\* No two connections share an FdEvent, and none is taken beyond the table.
THEOREM EachItsOwnFdEvent == SafetySpec => []OwnFdEvent
<1>1. TypeOK /\ FdInv => OwnFdEvent
  <2> SUFFICES ASSUME TypeOK, FdInv PROVE OwnFdEvent
    OBVIOUS
  <2>1. ClientFd \in Nat
    BY FdFacts DEF ClientFd, TypeOK
  <2>2. ClientFd \in DOMAIN getFdEvent(ClientFd)
    BY <2>1, TableHasFd DEF FdInv
  <2> QED
    BY <2>2 DEF OwnFdEvent, BeyondTable, FdInv
<1> QED
  BY <1>1, TypeCorrect, PTL

-----------------------------------------------------------------------------
(* The order of the start.                                                 *)

\* The IO threads that main made before the one it is making, and those that
\* main started.
Made(t) == Constructed \/ main.who > t
Released(t) == Constructed /\ (main.at = "start" => main.who > t)

StartInv ==
  /\ \A t \in Threads :
       /\ thread[t] \in {"made", "waiting", "test", "run", "exited"} => t \in m_event_loop
       /\ m_init_semaphore[t] > 0 => t \in m_event_loop
       /\ Made(t) => t \in m_event_loop
       /\ m_start_semaphore[t] > 0 => Released(t)
       /\ thread[t] \in {"test", "run", "exited"} => Released(t)
  /\ \A p \in Peers : io[p] # NoThread => Constructed

LEMMA StepStart == TypeOK /\ StartInv /\ [Next]_vars => StartInv'
<1> SUFFICES ASSUME TypeOK, StartInv, [Next]_vars PROVE StartInv'
  OBVIOUS
<1> USE DEF startup, server, loops, peers
<1>1. /\ thread \in [Threads -> {"none", "created", "made", "waiting", "test", "run", "exited"}]
      /\ m_init_semaphore \in [Threads -> Nat] /\ m_start_semaphore \in [Threads -> Nat]
      /\ m_event_loop \subseteq Threads
      /\ io \in [Peers -> Threads \cup {NoThread}]
  BY DEF TypeOK
<1>2. CASE UNCHANGED <<main, thread, startup, io>>
  BY <1>2 DEF StartInv, Made, Released, Constructed
<1>3. ASSUME NEW t \in Threads, NewIOThread(t) PROVE StartInv'
  <2>1. /\ main = [at |-> "create", who |-> t] /\ main' = [at |-> "sem_wait", who |-> t]
        /\ thread' = [thread EXCEPT ![t] = "created"]
        /\ UNCHANGED <<startup, io>>
    BY <1>3 DEF NewIOThread, MainAt, MainGoTo
  <2> QED
    BY <1>1, <2>1 DEF StartInv, Made, Released, Constructed
<1>4. ASSUME NEW t \in Threads, Created(t) PROVE StartInv'
  <2>1. /\ main = [at |-> "sem_wait", who |-> t]
        /\ main' = IF t + 1 \in Threads THEN [at |-> "create", who |-> t + 1]
                                        ELSE [at |-> "start", who |-> 0]
        /\ m_init_semaphore[t] > 0
        /\ m_init_semaphore' = [m_init_semaphore EXCEPT ![t] = @ - 1]
        /\ UNCHANGED <<thread, m_event_loop, m_start_semaphore, io>>
    BY <1>4 DEF Created, MainAt, MainGoTo, Taken
  <2>2. \A u \in Threads : u <= t => u \in m_event_loop
    BY <1>1, <2>1, ThreadFacts DEF StartInv, Made, Constructed
  <2>3. t + 1 \notin Threads => \A u \in Threads : u <= t
    BY ThreadFacts
  <2>4. \A u \in Threads : ~ Released(u)
    BY <2>1 DEF Released, Constructed
  <2>5. \A u \in Threads : Made(u)' => u <= t
    BY <2>1, <2>3, ThreadFacts DEF Made, Constructed
  <2>6. \A u \in Threads : m_init_semaphore'[u] > 0 => m_init_semaphore[u] > 0
    BY <1>1, <2>1
  <2>7. \A p \in Peers : io[p] = NoThread
    BY <2>1 DEF StartInv, Constructed
  <2> QED
    BY <2>1, <2>2, <2>4, <2>5, <2>6, <2>7 DEF StartInv
<1>5. ASSUME NEW t \in Threads, start(t) PROVE StartInv'
  <2>1. /\ main = [at |-> "start", who |-> t]
        /\ main' = IF t + 1 \in Threads THEN [at |-> "start", who |-> t + 1]
                                        ELSE [at |-> "loop", who |-> NoThread]
        /\ m_start_semaphore' = [m_start_semaphore EXCEPT ![t] = @ + 1]
        /\ UNCHANGED <<thread, m_event_loop, m_init_semaphore, io>>
    BY <1>5 DEF start, MainAt, MainGoTo, Post
  <2>2. Constructed /\ Constructed'
    BY <2>1 DEF Constructed
  <2>3. \A u \in Threads : Released(u) \/ u = t => Released(u)'
    BY <2>1, <2>2, ThreadFacts DEF Released
  <2>4. \A u \in Threads : u # t => m_start_semaphore'[u] = m_start_semaphore[u]
    BY <1>1, <2>1
  <2> QED
    BY <2>1, <2>2, <2>3, <2>4 DEF StartInv, Made
<1>6. ASSUME Acceptable \/ LeaveLoop \/ Undefined
             \/ \E p \in Peers : Accept(p) \/ SetState(p)
      PROVE  StartInv'
  <2>1. Constructed /\ Constructed' /\ main.at # "start" /\ main'.at # "start"
    <3>1. CASE Acceptable \/ LeaveLoop \/ Undefined
      BY <3>1 DEF Acceptable, LeaveLoop, Undefined, MainAt, MainGoTo, Constructed
    <3>2. ASSUME NEW p \in Peers, Accept(p)
          PROVE  Constructed /\ Constructed' /\ main.at # "start" /\ main'.at # "start"
      <4>1. main = [at |-> "accept", who |-> NoThread] /\ main' = [at |-> "setState", who |-> p]
        BY <3>2 DEF Accept, MainAt, MainGoTo
      <4> QED
        BY <4>1 DEF Constructed
    <3>3. ASSUME NEW p \in Peers, SetState(p)
          PROVE  Constructed /\ Constructed' /\ main.at # "start" /\ main'.at # "start"
      <4>1. main = [at |-> "setState", who |-> p] /\ main' = [at |-> "loop", who |-> NoThread]
        BY <3>3 DEF SetState, MainAt, MainGoTo
      <4> QED
        BY <4>1 DEF Constructed
    <3> QED
      BY <1>6, <3>1, <3>2, <3>3
  <2>2. UNCHANGED <<thread, startup>>
    BY <1>6 DEF Acceptable, LeaveLoop, Undefined, Accept, SetState
  <2> QED
    BY <2>1, <2>2 DEF StartInv, Made, Released
<1>7. ASSUME NEW t \in Threads, MakeLoop(t) PROVE StartInv'
  <2>1. /\ thread' = [thread EXCEPT ![t] = "made"]
        /\ m_event_loop' = m_event_loop \cup {t}
        /\ UNCHANGED <<main, m_init_semaphore, m_start_semaphore, io>>
    BY <1>7 DEF MakeLoop, ThreadGoTo
  <2> QED
    BY <1>1, <2>1 DEF StartInv, Made, Released, Constructed
<1>8. ASSUME NEW t \in Threads, Announce(t) PROVE StartInv'
  <2>1. /\ thread[t] = "made" /\ thread' = [thread EXCEPT ![t] = "waiting"]
        /\ m_init_semaphore' = [m_init_semaphore EXCEPT ![t] = @ + 1]
        /\ UNCHANGED <<main, m_event_loop, m_start_semaphore, io>>
    BY <1>8 DEF Announce, ThreadGoTo, Post
  <2> QED
    BY <1>1, <2>1 DEF StartInv, Made, Released, Constructed
<1>9. ASSUME NEW t \in Threads, Started(t) PROVE StartInv'
  <2>1. /\ thread[t] = "waiting" /\ thread' = [thread EXCEPT ![t] = "test"]
        /\ m_start_semaphore[t] > 0
        /\ m_start_semaphore' = [m_start_semaphore EXCEPT ![t] = @ - 1]
        /\ UNCHANGED <<main, m_event_loop, m_init_semaphore, io>>
    BY <1>9 DEF Started, ThreadGoTo, Taken
  <2>2. \A u \in Threads : m_start_semaphore'[u] > 0 => m_start_semaphore[u] > 0
    BY <1>1, <2>1
  <2> QED
    BY <1>1, <2>1, <2>2 DEF StartInv, Made, Released, Constructed
<1>10. ASSUME NEW t \in Threads, Swap(t) \/ Leave(t) \/ EpollWait(t) PROVE StartInv'
  <2>1. /\ thread[t] \in {"test", "run"}
        /\ \E to \in {"test", "run", "exited"} : thread' = [thread EXCEPT ![t] = to]
        /\ UNCHANGED <<main, startup, io>>
    BY <1>10 DEF Swap, Leave, EpollWait, ThreadGoTo
  <2> QED
    BY <1>1, <2>1 DEF StartInv, Made, Released, Constructed
<1> QED
  BY <1>2, <1>3, <1>4, <1>5, <1>6, <1>7, <1>8, <1>9, <1>10
     DEF Next, MainThread, OnAccept, IOThread, AddToEpoll, OnRead, stop, Client, Connect,
         Send, Close, Reset, vars

\* The IO threads have their loops before anybody uses them, and enter them
\* only when they are started.
THEOREM StartsInOrder == SafetySpec => []StartInOrder
<1>1. Init => StartInv
  BY ThreadFacts DEF Init, StartInv, Made, Released, Constructed
<1>2. TypeOK /\ StartInv => StartInOrder
  <2> SUFFICES ASSUME TypeOK, StartInv, NEW t \in Threads
               PROVE  /\ t \notin m_event_loop =>
                           ~ Constructed /\ \A p \in Peers : io[p] # t
                      /\ thread[t] \in {"test", "run", "exited"} =>
                           Constructed /\ (main.at = "start" => main.who > t)
    BY DEF StartInOrder
  <2>1. ASSUME t \notin m_event_loop
        PROVE  ~ Constructed /\ \A p \in Peers : io[p] # t
    BY <2>1, ThreadFacts DEF StartInv, Made
  <2> QED
    BY <2>1 DEF StartInv, Released
<1> QED
  BY <1>1, <1>2, StepStart, TypeCorrect, PTL DEF SafetySpec

-----------------------------------------------------------------------------
(* The start goes on.                                                      *)

\* Each semaphore of an IO thread is posted once, for the one that waits at it:
\* m_init_semaphore while main waits in the constructor and the thread is past
\* its sem_post, m_start_semaphore while the thread waits for its loop and main
\* is past its start.
Awaited(t) == MainAt("sem_wait", t)

Handed(t) ==
  /\ thread[t] = "none" <=> ~ (Made(t) \/ Awaited(t))
  /\ Made(t) => thread[t] \notin {"created", "made"}
  /\ thread[t] \in {"test", "run", "exited"} => Released(t)
  /\ m_init_semaphore[t] = IF Awaited(t) /\ thread[t] = "waiting" THEN 1 ELSE 0
  /\ m_start_semaphore[t] = IF Released(t) /\ thread[t] = "waiting" THEN 1 ELSE 0

HandedOver == \A t \in Threads : Handed(t)

\* io_thread.cc:10-26, 41-57 and io_thread_group.cc:20-26: no semaphore is ever
\* above one; while main waits for an IO thread, that thread has its sem_post
\* before it or has posted; and while an IO thread waits to be started, main has
\* its start before it or has posted.
StartGoesOn ==
  \A t \in Threads :
    /\ m_init_semaphore[t] <= 1 /\ m_start_semaphore[t] <= 1
    /\ MainAt("sem_wait", t) =>
         thread[t] \in {"created", "made"} \/ m_init_semaphore[t] = 1
    /\ thread[t] = "waiting" =>
         \/ main.at \in {"create", "sem_wait"}
         \/ main.at = "start" /\ main.who <= t
         \/ m_start_semaphore[t] = 1

LEMMA InitHanded == Init => HandedOver
<1> SUFFICES ASSUME Init, NEW t \in Threads PROVE Handed(t)
  BY DEF HandedOver
<1>1. /\ main = [at |-> "create", who |-> 0] /\ thread[t] = "none"
      /\ m_init_semaphore[t] = 0 /\ m_start_semaphore[t] = 0
  BY DEF Init
<1>2. ~ Made(t) /\ ~ Awaited(t) /\ ~ Released(t)
  BY <1>1, ThreadFacts DEF Made, Awaited, Released, Constructed, MainAt
<1> QED
  BY <1>1, <1>2 DEF Handed

\* A step that leaves alone what concerns thread t.
LEMMA HandedKept ==
  ASSUME NEW t, Handed(t), (Made(t)' <=> Made(t)), (Awaited(t)' <=> Awaited(t)),
         (Released(t)' <=> Released(t)), thread'[t] = thread[t],
         m_init_semaphore'[t] = m_init_semaphore[t],
         m_start_semaphore'[t] = m_start_semaphore[t]
  PROVE  Handed(t)'
BY DEF Handed

LEMMA StepHanded == TypeOK /\ HandedOver /\ [Next]_vars => HandedOver'
<1> SUFFICES ASSUME TypeOK, HandedOver, [Next]_vars, NEW t \in Threads PROVE Handed(t)'
  BY DEF HandedOver
<1> USE DEF startup, server, loops, peers
<1>1. /\ thread \in [Threads -> {"none", "created", "made", "waiting", "test", "run", "exited"}]
      /\ m_init_semaphore \in [Threads -> Nat] /\ m_start_semaphore \in [Threads -> Nat]
  BY DEF TypeOK
<1>2. Handed(t)
  BY DEF HandedOver
<1>3. CASE UNCHANGED <<main, thread, m_init_semaphore, m_start_semaphore>>
  BY <1>2, <1>3 DEF Handed, Made, Released, Awaited, Constructed, MainAt
<1>4. ASSUME NEW u \in Threads, NewIOThread(u) PROVE Handed(t)'
  <2>1. /\ main = [at |-> "create", who |-> u] /\ main' = [at |-> "sem_wait", who |-> u]
        /\ thread' = [thread EXCEPT ![u] = "created"]
        /\ UNCHANGED startup
    BY <1>4 DEF NewIOThread, MainAt, MainGoTo
  <2>2. ~ Constructed /\ ~ Constructed'
    BY <2>1 DEF Constructed
  <2>3. (Made(t)' <=> Made(t)) /\ (Released(t)' <=> Released(t)) /\ ~ Released(t)
    BY <2>1, <2>2 DEF Made, Released
  <2>4. ~ Awaited(t) /\ (Awaited(t)' <=> t = u)
    BY <2>1 DEF Awaited, MainAt
  <2>5. CASE t = u
    <3>1. ~ Made(t)
      BY <2>1, <2>2, <2>5, ThreadFacts DEF Made
    <3>2. thread'[t] = "created"
      BY <1>1, <2>1, <2>5
    <3> QED
      BY <1>2, <2>1, <2>3, <2>4, <2>5, <3>1, <3>2 DEF Handed
  <2>6. CASE t # u
    <3>1. thread'[t] = thread[t]
      BY <1>1, <2>1, <2>6
    <3> QED
      BY <1>2, <2>1, <2>3, <2>4, <2>6, <3>1, HandedKept
  <2> QED
    BY <2>5, <2>6
<1>5. ASSUME NEW u \in Threads, Created(u) PROVE Handed(t)'
  <2>1. /\ main = [at |-> "sem_wait", who |-> u]
        /\ main' = IF u + 1 \in Threads THEN [at |-> "create", who |-> u + 1]
                                        ELSE [at |-> "start", who |-> 0]
        /\ m_init_semaphore[u] > 0
        /\ m_init_semaphore' = [m_init_semaphore EXCEPT ![u] = @ - 1]
        /\ UNCHANGED <<thread, m_start_semaphore>>
    BY <1>5 DEF Created, MainAt, MainGoTo, Taken
  <2>2. ~ Constructed /\ ~ Released(t) /\ ~ Released(t)'
    BY <2>1, ThreadFacts DEF Constructed, Released
  <2>3. (Awaited(t) <=> t = u) /\ ~ Awaited(t)'
    BY <2>1 DEF Awaited, MainAt
  <2>4. (Made(t) <=> t < u) /\ (Made(t)' <=> t <= u)
    <3>1. Made(t) <=> t < u
      BY <2>1, <2>2, ThreadFacts DEF Made
    <3>2. CASE u + 1 \in Threads
      <4>1. main' = [at |-> "create", who |-> u + 1]
        BY <2>1, <3>2
      <4>2. Made(t)' <=> u + 1 > t
        BY <4>1 DEF Made, Constructed
      <4> QED
        BY <3>1, <4>2, ThreadFacts
    <3>3. CASE u + 1 \notin Threads
      <4>1. main' = [at |-> "start", who |-> 0]
        BY <2>1, <3>3
      <4>2. Made(t)'
        BY <4>1 DEF Made, Constructed
      <4>3. t <= u
        BY <3>3, ThreadFacts
      <4> QED
        BY <3>1, <4>2, <4>3
    <3> QED
      BY <3>2, <3>3
  <2>5. CASE t = u
    <3>1. thread[t] = "waiting" /\ m_init_semaphore[t] = 1
      BY <1>2, <2>1, <2>5 DEF Handed
    <3>2. m_init_semaphore'[t] = 0
      BY <1>1, <2>1, <2>5, <3>1
    <3>3. Made(t)'
      BY <2>4, <2>5, ThreadFacts
    <3> QED
      BY <1>2, <2>1, <2>2, <2>3, <3>1, <3>2, <3>3 DEF Handed
  <2>6. CASE t # u
    <3>1. m_init_semaphore'[t] = m_init_semaphore[t]
      BY <1>1, <2>1, <2>6
    <3>2. (Made(t)' <=> Made(t))
      BY <2>4, <2>6, ThreadFacts
    <3> QED
      BY <1>2, <2>1, <2>2, <2>3, <2>6, <3>1, <3>2, HandedKept
  <2> QED
    BY <2>5, <2>6
<1>6. ASSUME NEW u \in Threads, start(u) PROVE Handed(t)'
  <2>1. /\ main = [at |-> "start", who |-> u]
        /\ main' = IF u + 1 \in Threads THEN [at |-> "start", who |-> u + 1]
                                        ELSE [at |-> "loop", who |-> NoThread]
        /\ m_start_semaphore' = [m_start_semaphore EXCEPT ![u] = @ + 1]
        /\ UNCHANGED <<thread, m_init_semaphore>>
    BY <1>6 DEF start, MainAt, MainGoTo, Post
  <2>2. Made(t) /\ Made(t)' /\ Constructed /\ Constructed'
    BY <2>1 DEF Made, Constructed
  <2>3. ~ Awaited(t) /\ ~ Awaited(t)'
    BY <2>1 DEF Awaited, MainAt
  <2>4. (Released(t) <=> t < u) /\ (Released(t)' <=> t <= u)
    <3>1. Released(t) <=> t < u
      BY <2>1, <2>2, ThreadFacts DEF Released
    <3>2. CASE u + 1 \in Threads
      <4>1. main' = [at |-> "start", who |-> u + 1]
        BY <2>1, <3>2
      <4>2. Released(t)' <=> u + 1 > t
        BY <4>1 DEF Released, Constructed
      <4> QED
        BY <3>1, <4>2, ThreadFacts
    <3>3. CASE u + 1 \notin Threads
      <4>1. main' = [at |-> "loop", who |-> NoThread]
        BY <2>1, <3>3
      <4>2. Released(t)'
        BY <4>1 DEF Released, Constructed
      <4>3. t <= u
        BY <3>3, ThreadFacts
      <4> QED
        BY <3>1, <4>2, <4>3
    <3> QED
      BY <3>2, <3>3
  <2>5. CASE t = u
    <3>1. ~ Released(t) /\ Released(t)'
      BY <2>4, <2>5, ThreadFacts
    <3>2. thread[t] = "waiting" /\ m_start_semaphore[t] = 0
      BY <1>1, <1>2, <2>2, <3>1 DEF Handed
    <3>3. m_start_semaphore'[t] = 1
      BY <1>1, <2>1, <2>5, <3>2
    <3> QED
      BY <1>2, <2>1, <2>2, <2>3, <3>1, <3>2, <3>3 DEF Handed
  <2>6. CASE t # u
    <3>1. m_start_semaphore'[t] = m_start_semaphore[t]
      BY <1>1, <2>1, <2>6
    <3>2. (Released(t)' <=> Released(t))
      BY <2>4, <2>6, ThreadFacts
    <3> QED
      BY <1>2, <2>1, <2>2, <2>3, <2>6, <3>1, <3>2, HandedKept
  <2> QED
    BY <2>5, <2>6
<1>7. ASSUME Acceptable \/ LeaveLoop \/ Undefined
             \/ \E p \in Peers : Accept(p) \/ SetState(p)
      PROVE  Handed(t)'
  <2>1. /\ main.at \in {"loop", "accept", "setState"}
        /\ main'.at \in {"accept", "exited", "undefined", "setState", "loop"}
    <3>1. CASE Acceptable \/ LeaveLoop \/ Undefined
      BY <3>1 DEF Acceptable, LeaveLoop, Undefined, MainAt, MainGoTo
    <3>2. ASSUME NEW p \in Peers, Accept(p)
          PROVE  /\ main.at \in {"loop", "accept", "setState"}
                 /\ main'.at \in {"accept", "exited", "undefined", "setState", "loop"}
      BY <3>2 DEF Accept, MainAt, MainGoTo
    <3>3. ASSUME NEW p \in Peers, SetState(p)
          PROVE  /\ main.at \in {"loop", "accept", "setState"}
                 /\ main'.at \in {"accept", "exited", "undefined", "setState", "loop"}
      BY <3>3 DEF SetState, MainAt, MainGoTo
    <3> QED
      BY <1>7, <3>1, <3>2, <3>3
  <2>2. UNCHANGED <<thread, startup>>
    BY <1>7 DEF Acceptable, LeaveLoop, Undefined, Accept, SetState
  <2>3. /\ Made(t) /\ Made(t)' /\ Released(t) /\ Released(t)'
        /\ ~ Awaited(t) /\ ~ Awaited(t)'
    BY <2>1 DEF Made, Released, Awaited, Constructed, MainAt
  <2> QED
    BY <1>2, <2>2, <2>3, HandedKept
<1>8. ASSUME NEW u \in Threads, MakeLoop(u) \/ Announce(u) \/ Started(u)
                                \/ Swap(u) \/ Leave(u) \/ EpollWait(u)
      PROVE  Handed(t)'
  <2>1. UNCHANGED main
    BY <1>8 DEF MakeLoop, Announce, Started, Swap, Leave, EpollWait
  <2>2. (Made(t)' <=> Made(t)) /\ (Awaited(t)' <=> Awaited(t)) /\ (Released(t)' <=> Released(t))
    BY <2>1 DEF Made, Awaited, Released, Constructed, MainAt
  <2>3. CASE t # u
    <3>1. /\ thread'[t] = thread[t] /\ m_init_semaphore'[t] = m_init_semaphore[t]
          /\ m_start_semaphore'[t] = m_start_semaphore[t]
      BY <1>1, <1>8, <2>3
         DEF MakeLoop, Announce, Started, Swap, Leave, EpollWait, ThreadGoTo, Post, Taken
    <3> QED
      BY <1>2, <2>2, <3>1, HandedKept
  <2>4. CASE t = u /\ MakeLoop(u)
    BY <1>1, <1>2, <2>2, <2>4 DEF Handed, MakeLoop, ThreadGoTo
  <2>5. CASE t = u /\ Announce(u)
    <3>1. /\ thread[t] = "made" /\ thread'[t] = "waiting"
          /\ m_init_semaphore'[t] = m_init_semaphore[t] + 1
          /\ m_start_semaphore'[t] = m_start_semaphore[t]
      BY <1>1, <2>5 DEF Announce, ThreadGoTo, Post
    <3>2. Awaited(t) /\ ~ Made(t)
      BY <1>2, <3>1 DEF Handed
    <3>3. ~ Released(t)
      BY <3>2 DEF Made, Released
    <3> QED
      BY <1>2, <2>2, <3>1, <3>2, <3>3 DEF Handed
  <2>6. CASE t = u /\ Started(u)
    <3>1. /\ thread[t] = "waiting" /\ thread'[t] = "test"
          /\ m_start_semaphore[t] > 0
          /\ m_start_semaphore'[t] = m_start_semaphore[t] - 1
          /\ m_init_semaphore'[t] = m_init_semaphore[t]
      BY <1>1, <2>6 DEF Started, ThreadGoTo, Taken
    <3>2. Released(t) /\ m_start_semaphore[t] = 1
      BY <1>2, <3>1 DEF Handed
    <3>3. Constructed /\ ~ Awaited(t)
      BY <3>2 DEF Released, Awaited, Constructed, MainAt
    <3> QED
      BY <1>2, <2>2, <3>1, <3>2, <3>3 DEF Handed
  <2>7. CASE t = u /\ (Swap(u) \/ Leave(u) \/ EpollWait(u))
    <3>1. /\ thread[t] \in {"test", "run"} /\ thread'[t] \in {"test", "run", "exited"}
          /\ UNCHANGED startup
      BY <1>1, <2>7 DEF Swap, Leave, EpollWait, ThreadGoTo
    <3> QED
      BY <1>2, <2>2, <3>1 DEF Handed
  <2> QED
    BY <1>8, <2>3, <2>4, <2>5, <2>6, <2>7
<1> QED
  BY <1>3, <1>4, <1>5, <1>6, <1>7, <1>8
     DEF Next, MainThread, OnAccept, IOThread, AddToEpoll, OnRead, stop, Client, Connect,
         Send, Close, Reset, vars

\* No start of the server ends with main and an IO thread waiting for each
\* other, for any number of IO threads.
THEOREM StartNeverStuck == SafetySpec => []StartGoesOn
<1>1. TypeOK /\ HandedOver => StartGoesOn
  <2> SUFFICES ASSUME TypeOK, HandedOver, NEW t \in Threads
               PROVE  /\ m_init_semaphore[t] <= 1 /\ m_start_semaphore[t] <= 1
                      /\ MainAt("sem_wait", t) =>
                           thread[t] \in {"created", "made"} \/ m_init_semaphore[t] = 1
                      /\ thread[t] = "waiting" =>
                           \/ main.at \in {"create", "sem_wait"}
                           \/ main.at = "start" /\ main.who <= t
                           \/ m_start_semaphore[t] = 1
    BY DEF StartGoesOn
  <2>1. Handed(t)
    BY DEF HandedOver
  <2>2. /\ thread[t] \in {"none", "created", "made", "waiting", "test", "run", "exited"}
        /\ main.at = "start" => main.who \in Threads
    BY DEF TypeOK
  <2>3. MainAt("sem_wait", t) => ~ Constructed
    BY DEF MainAt, Constructed
  <2>4. Released(t) \/ main.at \in {"create", "sem_wait"}
        \/ (main.at = "start" /\ main.who <= t)
    BY <2>2, ThreadFacts DEF Released, Constructed
  <2> QED
    BY <2>1, <2>2, <2>3, <2>4 DEF Handed, Awaited, Released
<1> QED
  BY <1>1, InitHanded, StepHanded, TypeCorrect, PTL DEF SafetySpec

-----------------------------------------------------------------------------
(* Connections that were cleared.                                          *)

AddTask(p) == [to |-> "add", conn |-> p]
ReadTask(p) == [to |-> "read", conn |-> p]

LEMMA TasksDiffer ==
  \A p, q : AddTask(p) # ReadTask(q) /\ (AddTask(p) = AddTask(q) => p = q)
BY DEF AddTask, ReadTask

Tasks(t) == m_pending_tasks[t] \cup tmp_tasks[t]

\* A connection is at one IO thread only, which registers it once, before it
\* ever reads it.
Placed(p, t) ==
  /\ p \in m_listen_fds[t] \/ AddTask(p) \in Tasks(t) \/ ReadTask(p) \in Tasks(t) => io[p] = t
  /\ AddTask(p) \in tmp_tasks[t] => AddTask(p) \notin m_pending_tasks[t]
  /\ p \in m_listen_fds[t] \/ ReadTask(p) \in Tasks(t) => AddTask(p) \notin Tasks(t)
  /\ m_state[p] = "Closed" => p \notin m_listen_fds[t] /\ AddTask(p) \notin Tasks(t)

Age(p) ==
  /\ peer[p] # "accepted" => io[p] = NoThread
  /\ io[p] = NoThread => m_state[p] = "none"
  /\ MainAt("setState", p) => m_state[p] = "NotConnected"

ConnInv == \A p \in Peers : Age(p) /\ \A t \in Threads : Placed(p, t)

LEMMA StepConn ==
  TypeOK /\ ConnInv /\ [Next]_vars
    => ConnInv' /\ \A p \in Peers : m_state[p] = "Closed" => m_state'[p] = "Closed"
<1> DEFINE Goal == ConnInv' /\ \A p \in Peers : m_state[p] = "Closed" => m_state'[p] = "Closed"
<1> SUFFICES ASSUME TypeOK, ConnInv, [Next]_vars PROVE Goal
  OBVIOUS
<1> USE DEF startup, server, loops, peers
<1>1. /\ m_state \in [Peers -> {"none", "NotConnected", "Connected", "Closed"}]
      /\ io \in [Peers -> Threads \cup {NoThread}]
      /\ m_pending_tasks \in [Threads -> SUBSET Task] /\ tmp_tasks \in [Threads -> SUBSET Task]
      /\ m_listen_fds \in [Threads -> SUBSET Peers]
      /\ peer \in [Peers -> {"none", "backlog", "accepted"}]
      /\ NoThread \notin Threads
  BY ThreadFacts DEF TypeOK
<1>2. CASE UNCHANGED <<main, io, m_state, loops, peer>>
  BY <1>2 DEF ConnInv, Age, Placed, Tasks, MainAt
<1>3. ASSUME UNCHANGED <<io, m_state, loops, peer>>, main'.at # "setState" PROVE Goal
  BY <1>3 DEF ConnInv, Age, Placed, Tasks, MainAt
<1>4. ASSUME NEW t \in Threads, NewIOThread(t) \/ Created(t) \/ start(t) PROVE Goal
  <2>1. main'.at # "setState"
    BY <1>4 DEF NewIOThread, Created, start, MainGoTo
  <2> QED
    BY <1>3, <1>4, <2>1 DEF NewIOThread, Created, start
<1>5. CASE Acceptable \/ LeaveLoop \/ Undefined
  <2>1. main'.at # "setState"
    BY <1>5 DEF Acceptable, LeaveLoop, Undefined, MainGoTo
  <2> QED
    BY <1>3, <1>5, <2>1 DEF Acceptable, LeaveLoop, Undefined
<1>6. ASSUME NEW p \in Peers, Accept(p) PROVE Goal
  <2>1. /\ peer[p] = "backlog"
        /\ io' = [io EXCEPT ![p] = Turn]
        /\ m_state' = [m_state EXCEPT ![p] = "NotConnected"]
        /\ m_pending_tasks' = [m_pending_tasks EXCEPT ![Turn] = @ \cup {AddTask(p)}]
        /\ peer' = [peer EXCEPT ![p] = "accepted"]
        /\ UNCHANGED <<tmp_tasks, m_listen_fds>>
    BY <1>6 DEF Accept, Take, addTask, Backlog, AddTask
  <2>2. Turn \in Threads
    BY ThreadFacts DEF Turn, TypeOK
  <2>3. io[p] = NoThread /\ m_state[p] = "none"
    BY <2>1 DEF ConnInv, Age
  <2>4. \A t \in Threads : p \notin m_listen_fds[t] /\ AddTask(p) \notin Tasks(t)
                           /\ ReadTask(p) \notin Tasks(t)
    BY <1>1, <2>3 DEF ConnInv, Placed
  <2>5. main' = [at |-> "setState", who |-> p]
    BY <1>6 DEF Accept, MainGoTo
  <2>6. \A q \in Peers : Age(q)'
    BY <1>1, <2>1, <2>2, <2>5 DEF ConnInv, Age, MainAt
  <2>7. ASSUME NEW q \in Peers, q # p, NEW t \in Threads PROVE Placed(q, t)'
    <3>1. /\ AddTask(q) \in m_pending_tasks'[t] <=> AddTask(q) \in m_pending_tasks[t]
          /\ ReadTask(q) \in m_pending_tasks'[t] <=> ReadTask(q) \in m_pending_tasks[t]
      BY <1>1, <2>1, <2>2, <2>7, TasksDiffer
    <3>2. io'[q] = io[q] /\ m_state'[q] = m_state[q]
      BY <1>1, <2>1, <2>7
    <3> QED
      BY <2>1, <3>1, <3>2 DEF ConnInv, Placed, Tasks
  <2>8. ASSUME NEW t \in Threads PROVE Placed(p, t)'
    <3>1. /\ AddTask(p) \in m_pending_tasks'[t] => t = Turn
          /\ ReadTask(p) \notin m_pending_tasks'[t]
      BY <1>1, <2>1, <2>2, <2>4, TasksDiffer DEF Tasks
    <3>2. io'[p] = Turn /\ m_state'[p] = "NotConnected"
      BY <1>1, <2>1
    <3> QED
      BY <2>1, <2>4, <3>1, <3>2 DEF Placed, Tasks
  <2> QED
    BY <1>1, <2>1, <2>3, <2>6, <2>7, <2>8 DEF ConnInv
<1>7. ASSUME NEW p \in Peers, SetState(p) PROVE Goal
  <2>1. /\ MainAt("setState", p)
        /\ m_state' = [m_state EXCEPT ![p] = "Connected"]
        /\ main' = [at |-> "loop", who |-> NoThread]
        /\ UNCHANGED <<io, loops, peer>>
    BY <1>7 DEF SetState, MainGoTo
  <2>2. m_state[p] = "NotConnected" /\ io[p] # NoThread
    BY <2>1 DEF ConnInv, Age
  <2>3. \A q \in Peers : Age(q)'
    BY <1>1, <2>1, <2>2 DEF ConnInv, Age, MainAt
  <2>4. ASSUME NEW q \in Peers, NEW t \in Threads PROVE Placed(q, t)'
    BY <1>1, <2>1 DEF ConnInv, Placed, Tasks
  <2> QED
    BY <1>1, <2>1, <2>2, <2>3, <2>4 DEF ConnInv
<1>8. ASSUME NEW t \in Threads, Swap(t) PROVE Goal
  <2>1. /\ tmp_tasks' = [tmp_tasks EXCEPT ![t] = m_pending_tasks[t]]
        /\ m_pending_tasks' = [m_pending_tasks EXCEPT ![t] = {}]
        /\ UNCHANGED <<main, io, m_state, m_listen_fds, peer>>
    BY <1>8 DEF Swap
  <2>2. ASSUME NEW q \in Peers, NEW u \in Threads PROVE Placed(q, u)'
    BY <1>1, <2>1 DEF ConnInv, Placed, Tasks
  <2> QED
    BY <2>1, <2>2 DEF ConnInv, Age, MainAt
<1>9. ASSUME NEW t \in Threads, EpollWait(t) PROVE Goal
  <2>1. /\ m_pending_tasks' = [m_pending_tasks EXCEPT ![t] =
              @ \cup {ReadTask(p) : p \in Readable(t)}]
        /\ \A u \in Threads : m_listen_fds'[u] \subseteq m_listen_fds[u]
        /\ UNCHANGED <<main, io, m_state, tmp_tasks, peer>>
    BY <1>1, <1>9 DEF EpollWait, ReadTask
  <2>2. \A q \in Peers : ReadTask(q) \in {ReadTask(p) : p \in Readable(t)} => q \in m_listen_fds[t]
    BY DEF Readable, ReadTask
  <2>3. \A q \in Peers : AddTask(q) \notin {ReadTask(p) : p \in Readable(t)}
    BY TasksDiffer
  <2>4. ASSUME NEW q \in Peers, NEW u \in Threads PROVE Placed(q, u)'
    <3> HIDE DEF Goal
    <3>1. /\ AddTask(q) \in m_pending_tasks'[u] <=> AddTask(q) \in m_pending_tasks[u]
          /\ ReadTask(q) \in m_pending_tasks'[u]
               => ReadTask(q) \in m_pending_tasks[u] \/ q \in m_listen_fds[u]
      BY <1>1, <2>1, <2>2, <2>3
    <3> QED
      BY <2>1, <3>1 DEF ConnInv, Placed, Tasks
  <2> QED
    BY <2>1, <2>4 DEF ConnInv, Age, MainAt
<1>10. ASSUME NEW t \in Threads, NEW p \in Peers, AddToEpoll(t, p) PROVE Goal
  <2>1. /\ AddTask(p) \in tmp_tasks[t]
        /\ tmp_tasks' = [tmp_tasks EXCEPT ![t] = @ \ {AddTask(p)}]
        /\ m_listen_fds' = [m_listen_fds EXCEPT ![t] = @ \cup {p}]
        /\ UNCHANGED <<main, io, m_state, m_pending_tasks, peer>>
    BY <1>10 DEF AddToEpoll, Run, AddTask
  <2>2. io[p] = t /\ AddTask(p) \notin m_pending_tasks[t] /\ m_state[p] # "Closed"
    BY <2>1 DEF ConnInv, Placed, Tasks
  <2>3. ASSUME NEW q \in Peers, NEW u \in Threads PROVE Placed(q, u)'
    <3>1. CASE q = p /\ u = t
      BY <1>1, <2>1, <2>2, <3>1 DEF ConnInv, Placed, Tasks
    <3>2. CASE ~ (q = p /\ u = t)
      <4>1. /\ q \in m_listen_fds'[u] <=> q \in m_listen_fds[u]
            /\ AddTask(q) \in tmp_tasks'[u] <=> AddTask(q) \in tmp_tasks[u]
            /\ ReadTask(q) \in tmp_tasks'[u] => ReadTask(q) \in tmp_tasks[u]
        BY <1>1, <2>1, <3>2, TasksDiffer
      <4> QED
        BY <2>1, <4>1 DEF ConnInv, Placed, Tasks
    <3> QED
      BY <3>1, <3>2
  <2> QED
    BY <2>1, <2>3 DEF ConnInv, Age, MainAt
<1>11. ASSUME NEW t \in Threads, NEW p \in Peers, OnRead(t, p) PROVE Goal
  <2>1. /\ ReadTask(p) \in tmp_tasks[t]
        /\ tmp_tasks' = [tmp_tasks EXCEPT ![t] = @ \ {ReadTask(p)}]
        /\ UNCHANGED <<main, io, m_pending_tasks, peer>>
    BY <1>11 DEF OnRead, Run, ReadTask
  <2>2. \A q \in Peers, u \in Threads :
          /\ AddTask(q) \in tmp_tasks'[u] <=> AddTask(q) \in tmp_tasks[u]
          /\ ReadTask(q) \in tmp_tasks'[u] => ReadTask(q) \in tmp_tasks[u]
    BY <1>1, <2>1, TasksDiffer
  <2>3. CASE UNCHANGED <<m_state, m_listen_fds>>
    BY <2>1, <2>2, <2>3 DEF ConnInv, Age, Placed, Tasks, MainAt
  <2>5. CASE m_state[p] = "Connected" /\ listenWrite(t, p)
    <3>1. /\ m_listen_fds' = [m_listen_fds EXCEPT ![t] = @ \cup {p}]
          /\ m_state' = m_state
      BY <2>5 DEF listenWrite
    <3>2. io[p] = t /\ AddTask(p) \notin Tasks(t)
      BY <2>1 DEF ConnInv, Placed, Tasks
    <3>3. ASSUME NEW q \in Peers, NEW u \in Threads PROVE Placed(q, u)'
      <4>1. CASE q = p /\ u = t
        BY <1>1, <2>1, <2>2, <2>5, <3>1, <3>2, <4>1 DEF ConnInv, Placed, Tasks
      <4>2. CASE ~ (q = p /\ u = t)
        <5>1. q \in m_listen_fds'[u] <=> q \in m_listen_fds[u]
          BY <1>1, <3>1, <4>2
        <5> QED
          BY <2>1, <2>2, <3>1, <5>1 DEF ConnInv, Placed, Tasks
      <4> QED
        BY <4>1, <4>2
    <3> QED
      BY <2>1, <3>1, <3>3 DEF ConnInv, Age, MainAt
  <2>4. CASE m_state[p] = "Connected" /\ clear(t, p)
    <3>1. /\ m_listen_fds' = [m_listen_fds EXCEPT ![t] = @ \ {p}]
          /\ m_state' = [m_state EXCEPT ![p] = "Closed"]
      BY <2>4 DEF clear
    <3>2. io[p] = t /\ AddTask(p) \notin Tasks(t)
      BY <2>1 DEF ConnInv, Placed, Tasks
    <3>3. \A q \in Peers : Age(q)'
      BY <1>1, <2>1, <2>4, <3>1, <3>2 DEF ConnInv, Age, MainAt
    <3>4. ASSUME NEW u \in Threads PROVE Placed(p, u)'
      <4>1. p \notin m_listen_fds'[u] /\ AddTask(p) \notin Tasks(u)
        BY <1>1, <3>1, <3>2 DEF ConnInv, Placed, Tasks
      <4> QED
        BY <2>1, <2>2, <4>1 DEF ConnInv, Placed, Tasks
    <3>5. ASSUME NEW q \in Peers, q # p, NEW u \in Threads PROVE Placed(q, u)'
      <4>1. /\ m_state'[q] = m_state[q]
            /\ q \in m_listen_fds'[u] <=> q \in m_listen_fds[u]
        BY <1>1, <3>1, <3>5
      <4> QED
        BY <2>1, <2>2, <4>1 DEF ConnInv, Placed, Tasks
    <3> QED
      BY <1>1, <3>1, <3>3, <3>4, <3>5 DEF ConnInv
  <2> QED
    BY <1>1, <1>11, <2>3, <2>4, <2>5 DEF OnRead, Refused, Ignore, Read
<1>12. ASSUME NEW p \in Peers, Connect(p) PROVE Goal
  <2>1. /\ peer' = [peer EXCEPT ![p] = "backlog"] /\ peer[p] = "none"
        /\ UNCHANGED <<main, io, m_state, loops>>
    BY <1>12 DEF Connect
  <2> QED
    BY <1>1, <2>1 DEF ConnInv, Age, Placed, Tasks, MainAt
<1> HIDE DEF Goal
<1> QED
  BY <1>2, <1>4, <1>5, <1>6, <1>7, <1>8, <1>9, <1>10, <1>11, <1>12
     DEF Next, MainThread, OnAccept, IOThread, MakeLoop, Announce, Started, Leave, stop,
         Client, Send, Close, Reset, vars

LEMMA ConnAlways == SafetySpec => []ConnInv
<1>1. Init => ConnInv
  BY DEF Init, ConnInv, Age, Placed, Tasks, MainAt
<1>2. TypeOK /\ ConnInv /\ [Next]_vars => ConnInv'
  BY StepConn
<1> QED
  BY <1>1, <1>2, TypeCorrect, PTL DEF SafetySpec

\* A connection that was cleared is nowhere reported and will not be.
THEOREM ClosedStaysGone == SafetySpec => []ClosedIsGone
<1>1. ConnInv => ClosedIsGone
  BY DEF ConnInv, Placed, Tasks, AddTask, ClosedIsGone
<1> QED
  BY <1>1, ConnAlways, PTL

\* A connection that was cleared does not come back to life.
THEOREM ClosedStaysClosed == SafetySpec => ClosedForGood
<1>1. TypeOK /\ ConnInv /\ [Next]_vars
        => [\A p \in Peers : m_state[p] = "Closed" => m_state'[p] = "Closed"]_vars
  BY StepConn
<1> QED
  BY <1>1, ConnAlways, TypeCorrect, PTL DEF SafetySpec, ClosedForGood

-----------------------------------------------------------------------------
(* No connection is left behind.                                           *)

\* The loop of its IO thread reports the connection, or has the task to register it.
Watched(p) == p \in m_listen_fds[io[p]] \/ AddTask(p) \in Tasks(io[p])

\* An accepted connection is watched until it is cleared or its client resets it, it
\* becomes Connected and is one of the server's, and it is cleared only once its
\* client has closed.
Kept(p) ==
  /\ peer[p] = "accepted" => m_state[p] # "none"
  /\ m_state[p] # "none" => io[p] \in Threads
  /\ m_state[p] \in {"NotConnected", "Connected"} => Watched(p) \/ p \in reset
  /\ m_state[p] = "NotConnected" => MainAt("setState", p)
  /\ m_state[p] \in {"Connected", "Closed"} => p \in m_client
  /\ m_state[p] = "Closed" => p \in eof

NoneAbandoned == \A p \in Peers : Kept(p)

\* A round of an IO loop ends with its tasks.
RoundsEnd == \A t \in Threads : thread[t] # "run" => tmp_tasks[t] = {}

LEMMA StepRounds == TypeOK /\ StartInOrder /\ RoundsEnd /\ [Next]_vars => RoundsEnd'
<1> SUFFICES ASSUME TypeOK, StartInOrder, RoundsEnd, [Next]_vars, NEW u \in Threads, thread'[u] # "run"
             PROVE  tmp_tasks'[u] = {}
  BY DEF RoundsEnd
<1> USE DEF loops, ThreadGoTo
<1>1. thread \in [Threads -> {"none", "created", "made", "waiting", "test", "run", "exited"}]
      /\ tmp_tasks \in [Threads -> SUBSET Task]
  BY DEF TypeOK
<1>2. CASE UNCHANGED <<thread, tmp_tasks>>
  BY <1>2 DEF RoundsEnd
<1>3. ASSUME NEW t \in Threads,
             \/ MakeLoop(t) \/ Announce(t) \/ Started(t) \/ Leave(t) \/ EpollWait(t)
             \/ NewIOThread(t)
      PROVE  tmp_tasks'[u] = {}
  <2>1. tmp_tasks' = tmp_tasks /\ (u # t => thread'[u] = thread[u])
    BY <1>1, <1>3 DEF MakeLoop, Announce, Started, Leave, EpollWait, NewIOThread
  <2>2. NewIOThread(t) => thread[t] # "run"
    BY DEF NewIOThread, MainAt, StartInOrder, Constructed
  <2>3. thread[t] = "run" => tmp_tasks[t] = {}
    BY <1>3, <2>2 DEF MakeLoop, Announce, Started, Leave, EpollWait
  <2> QED
    BY <1>1, <2>1, <2>3 DEF RoundsEnd
<1>4. ASSUME NEW t \in Threads, Swap(t) PROVE tmp_tasks'[u] = {}
  BY <1>1, <1>4 DEF RoundsEnd, Swap
<1>5. ASSUME NEW t \in Threads, NEW p \in Peers, AddToEpoll(t, p) \/ OnRead(t, p)
      PROVE  tmp_tasks'[u] = {}
  BY <1>1, <1>5 DEF RoundsEnd, AddToEpoll, OnRead, Run
<1> QED
  BY <1>2, <1>3, <1>4, <1>5
     DEF Next, MainThread, OnAccept, Created, start, Acceptable, LeaveLoop, Undefined, Accept,
         SetState, IOThread, stop, Client, Connect, Send, Close, Reset, vars

LEMMA StepKept ==
  TypeOK /\ ConnInv /\ RoundsEnd /\ NoneAbandoned /\ [Next]_vars => NoneAbandoned'
<1> SUFFICES ASSUME TypeOK, ConnInv, RoundsEnd, NoneAbandoned, [Next]_vars, NEW x \in Peers
             PROVE  Kept(x)'
  BY DEF NoneAbandoned
<1> USE DEF startup, server, loops, peers
<1>1. /\ m_state \in [Peers -> {"none", "NotConnected", "Connected", "Closed"}]
      /\ io \in [Peers -> Threads \cup {NoThread}]
      /\ m_pending_tasks \in [Threads -> SUBSET Task] /\ tmp_tasks \in [Threads -> SUBSET Task]
      /\ m_listen_fds \in [Threads -> SUBSET Peers]
      /\ peer \in [Peers -> {"none", "backlog", "accepted"}]
      /\ NoThread \notin Threads
      /\ Kept(x) /\ Age(x) /\ \A t \in Threads : Placed(x, t)
  BY ThreadFacts DEF TypeOK, NoneAbandoned, ConnInv
<1>2. CASE UNCHANGED <<main, io, m_state, m_client, loops, peer>> /\ eof \subseteq eof'
              /\ reset \subseteq reset'
  BY <1>1, <1>2 DEF Kept, Watched, Tasks, MainAt
<1>3. ASSUME UNCHANGED <<io, m_state, m_client, loops, peer, eof, reset>>, main.at # "setState"
      PROVE  Kept(x)'
  BY <1>1, <1>3 DEF Kept, Watched, Tasks, MainAt
<1>4. ASSUME NEW t \in Threads, NewIOThread(t) \/ Created(t) \/ start(t) PROVE Kept(x)'
  BY <1>3, <1>4 DEF NewIOThread, Created, start, MainAt
<1>5. CASE Acceptable \/ LeaveLoop \/ Undefined
  BY <1>3, <1>5 DEF Acceptable, LeaveLoop, Undefined, MainAt
<1>6. ASSUME NEW p \in Peers, Accept(p) PROVE Kept(x)'
  <2>1. /\ peer[p] = "backlog" /\ MainAt("accept", NoThread)
        /\ io' = [io EXCEPT ![p] = Turn]
        /\ m_state' = [m_state EXCEPT ![p] = "NotConnected"]
        /\ m_pending_tasks' = [m_pending_tasks EXCEPT ![Turn] = @ \cup {AddTask(p)}]
        /\ peer' = [peer EXCEPT ![p] = "accepted"]
        /\ MainAt("setState", p)'
        /\ UNCHANGED <<tmp_tasks, m_listen_fds, m_client, eof, reset>>
    BY <1>6 DEF Accept, Take, addTask, Backlog, AddTask, MainGoTo, MainAt
  <2>2. Turn \in Threads
    BY ThreadFacts DEF Turn, TypeOK
  <2>3. CASE x = p
    BY <1>1, <2>1, <2>2, <2>3 DEF Kept, Watched, Tasks
  <2>4. CASE x # p
    <3>1. io'[x] = io[x] /\ m_state'[x] = m_state[x] /\ peer'[x] = peer[x]
      BY <1>1, <2>1, <2>4
    <3>2. \A t \in Threads : Tasks(t) \subseteq Tasks(t)'
      BY <1>1, <2>1 DEF Tasks
    <3>3. m_state[x] # "NotConnected"
      BY <1>1, <2>1 DEF Kept, MainAt
    <3> QED
      BY <1>1, <2>1, <3>1, <3>2, <3>3 DEF Kept, Watched
  <2> QED
    BY <2>3, <2>4
<1>7. ASSUME NEW p \in Peers, SetState(p) PROVE Kept(x)'
  <2>1. /\ MainAt("setState", p)
        /\ m_state' = [m_state EXCEPT ![p] = "Connected"]
        /\ m_client' = m_client \cup {p}
        /\ UNCHANGED <<io, loops, peer, eof, reset>>
    BY <1>7 DEF SetState
  <2>2. x # p => m_state[x] # "NotConnected"
    BY <1>1, <2>1 DEF Kept, MainAt
  <2>3. x = p => m_state[x] = "NotConnected"
    BY <1>1, <2>1 DEF Age
  <2> QED
    BY <1>1, <2>1, <2>2, <2>3 DEF Kept, Watched, Tasks
<1>8. ASSUME NEW t \in Threads,
             \/ Swap(t)
             \/ EpollWait(t)
             \/ \E p \in Peers : AddToEpoll(t, p)
      PROVE  Kept(x)'
  <2>1. UNCHANGED <<main, io, m_state, m_client, peer, eof, reset>>
    BY <1>8 DEF Swap, EpollWait, AddToEpoll
  <2>2. ASSUME m_state[x] \in {"NotConnected", "Connected"}
        PROVE  Watched(x)' \/ x \in reset
    <3>1. io[x] \in Threads
      BY <1>1, <2>2 DEF Kept
    <3> SUFFICES ASSUME Watched(x), x \notin reset PROVE Watched(x)'
      BY <1>1, <2>2 DEF Kept
    <3>2. CASE Swap(t)
      <4>1. /\ tmp_tasks[t] = {} /\ UNCHANGED m_listen_fds
            /\ tmp_tasks' = [tmp_tasks EXCEPT ![t] = m_pending_tasks[t]]
            /\ m_pending_tasks' = [m_pending_tasks EXCEPT ![t] = {}]
        BY <3>2 DEF Swap, RoundsEnd
      <4> QED
        BY <1>1, <2>1, <3>1, <4>1 DEF Watched, Tasks
    <3>3. CASE EpollWait(t)
      BY <1>1, <2>1, <3>1, <3>3 DEF EpollWait, Watched, Tasks
    <3>4. ASSUME NEW p \in Peers, AddToEpoll(t, p)
          PROVE  Watched(x)'
      <4>1. /\ tmp_tasks' = [tmp_tasks EXCEPT ![t] = @ \ {AddTask(p)}]
            /\ m_listen_fds' = [m_listen_fds EXCEPT ![t] = @ \cup {p}]
            /\ m_pending_tasks' = m_pending_tasks
        BY <3>4 DEF AddToEpoll, Run, AddTask
      <4> QED
        BY <1>1, <2>1, <3>1, <4>1, TasksDiffer DEF Watched, Tasks
    <3> QED
      BY <1>8, <3>2, <3>3, <3>4
  <2> QED
    BY <1>1, <2>1, <2>2 DEF Kept, MainAt
<1>9. ASSUME NEW t \in Threads, NEW p \in Peers, OnRead(t, p) PROVE Kept(x)'
  <2>1. /\ ReadTask(p) \in tmp_tasks[t]
        /\ tmp_tasks' = [tmp_tasks EXCEPT ![t] = @ \ {ReadTask(p)}]
        /\ UNCHANGED <<main, io, m_client, m_pending_tasks, peer, eof, reset>>
    BY <1>9 DEF OnRead, Run, ReadTask
  <2>2. \A u \in Threads : AddTask(x) \in Tasks(u) => AddTask(x) \in Tasks(u)'
    BY <1>1, <2>1, TasksDiffer DEF Tasks
  <2>3. CASE UNCHANGED <<m_state, m_listen_fds>>
    BY <1>1, <2>1, <2>2, <2>3 DEF Kept, Watched, MainAt
  <2>5. CASE listenWrite(t, p)
    <3>1. \A u \in Threads : m_listen_fds[u] \subseteq m_listen_fds'[u]
      BY <1>1, <2>5 DEF listenWrite
    <3> QED
      BY <1>1, <2>1, <2>2, <2>5, <3>1 DEF listenWrite, Kept, Watched, MainAt
  <2>4. CASE p \in eof /\ m_state[p] = "Connected" /\ clear(t, p)
    <3>1. /\ m_listen_fds' = [m_listen_fds EXCEPT ![t] = @ \ {p}]
          /\ m_state' = [m_state EXCEPT ![p] = "Closed"]
      BY <2>4 DEF clear
    <3> QED
      BY <1>1, <2>1, <2>2, <2>4, <3>1 DEF Kept, Watched, MainAt
  <2> QED
    BY <1>9, <2>3, <2>4, <2>5 DEF OnRead, Refused, Ignore, Read
<1>10. ASSUME NEW p \in Peers, Connect(p) PROVE Kept(x)'
  <2>1. /\ peer' = [peer EXCEPT ![p] = "backlog"]
        /\ UNCHANGED <<main, io, m_state, m_client, loops, eof, reset>>
    BY <1>10 DEF Connect
  <2> QED
    BY <1>1, <2>1 DEF Kept, Watched, Tasks, MainAt
<1>11. CASE \E p \in Peers : Close(p) \/ Reset(p)
  BY <1>2, <1>11 DEF Close, Reset
<1> QED
  BY <1>2, <1>4, <1>5, <1>6, <1>7, <1>8, <1>9, <1>10, <1>11
     DEF Next, MainThread, OnAccept, IOThread, MakeLoop, Announce, Started, Leave, stop,
         Client, Send, vars

\* tcp_server.cc:39-55, tcp_connection.cc:10-25: the server forgets no connection.
\* What onAccept took is registered with the loop of its IO thread, or that loop has
\* yet to run the task for it, unless its client has reset it; it is made Connected,
\* and it is cleared only for a client that closed.
THEOREM NoConnectionAbandoned == SafetySpec => []NoneAbandoned
<1>1. Init => NoneAbandoned /\ RoundsEnd
  BY DEF Init, NoneAbandoned, RoundsEnd, Kept
<1> QED
  BY <1>1, StepKept, StepRounds, ConnAlways, StartsInOrder, TypeCorrect, PTL DEF SafetySpec

\* The loop of an IO thread knows of the connection.
Known(p) == \E t \in Threads : p \in m_listen_fds[t] \/ \E task \in Tasks(t) : task.conn = p

LEMMA LostUnknown ==
  ASSUME NEW p
  PROVE  Lost(p) <=> m_state[p] \in {"NotConnected", "Connected"} /\ ~ Known(p)
BY DEF Lost, Known, Tasks

\* eventloop.cc:179-187, tcp_connection.cc:41-46: a connection is lost only in one way:
\* its client has reset it, and the read callback queued with the error finds it not
\* yet Connected.
LostOnlyEarly ==
  [][\A p \in Peers :
       ~ Lost(p) /\ Lost(p)' => m_state[p] = "NotConnected" /\ p \in reset]_vars

LEMMA StepLost ==
  ASSUME TypeOK, ConnInv, RoundsEnd, NoneAbandoned, NoneAbandoned', Next,
         NEW x \in Peers, ~ Lost(x), Lost(x)'
  PROVE  m_state[x] = "NotConnected" /\ x \in reset
<1> USE DEF startup, server, loops, peers
<1>1. /\ m_state \in [Peers -> {"none", "NotConnected", "Connected", "Closed"}]
      /\ m_pending_tasks \in [Threads -> SUBSET Task] /\ tmp_tasks \in [Threads -> SUBSET Task]
      /\ m_listen_fds \in [Threads -> SUBSET Peers]
      /\ reset \subseteq eof
  BY DEF TypeOK
<1>2. m_state'[x] \in {"NotConnected", "Connected"} /\ ~ Known(x)'
  BY DEF Lost, Known, Tasks
<1>3. x \in reset'
  <2>1. Kept(x)'
    BY DEF NoneAbandoned
  <2>2. io'[x] \in Threads
    BY <1>2, <2>1 DEF Kept
  <2>3. AddTask(x).conn = x
    BY DEF AddTask
  <2>4. ~ Watched(x)'
    BY <1>2, <2>2, <2>3 DEF Known, Watched
  <2> QED
    BY <1>2, <2>1, <2>4 DEF Kept
<1>4. m_state[x] \in {"NotConnected", "Connected"} => Known(x)
  BY LostUnknown
<1>5. ASSUME UNCHANGED <<m_state, loops>> PROVE FALSE
  <2>1. m_state[x] \in {"NotConnected", "Connected"} /\ ~ Known(x)
    BY <1>2, <1>5 DEF Known, Tasks
  <2> QED
    BY <1>4, <2>1
<1>6. ASSUME NEW p \in Peers, Accept(p) PROVE FALSE
  <2>1. /\ m_state' = [m_state EXCEPT ![p] = "NotConnected"]
        /\ m_pending_tasks' = [m_pending_tasks EXCEPT ![Turn] = @ \cup {AddTask(p)}]
        /\ UNCHANGED <<tmp_tasks, m_listen_fds>>
    BY <1>6 DEF Accept, addTask, AddTask
  <2>2. Turn \in Threads
    BY ThreadFacts DEF Turn, TypeOK
  <2>3. CASE x = p
    <3>1. AddTask(x).conn = x
      BY DEF AddTask
    <3>2. PICK t \in Threads : t = Turn
      BY <2>2
    <3>3. AddTask(x) \in m_pending_tasks'[t]
      BY <1>1, <2>1, <2>3, <3>2
    <3> QED
      BY <1>2, <3>1, <3>3 DEF Known, Tasks
  <2>4. CASE x # p
    <3>1. m_state[x] \in {"NotConnected", "Connected"}
      BY <1>1, <1>2, <2>1, <2>4
    <3>2. \A t \in Threads : Tasks(t) \subseteq m_pending_tasks'[t] \cup tmp_tasks'[t]
      BY <1>1, <2>1 DEF Tasks
    <3> QED
      BY <1>2, <1>4, <2>1, <3>1, <3>2 DEF Known, Tasks
  <2> QED
    BY <2>3, <2>4
<1>7. ASSUME NEW p \in Peers, SetState(p) PROVE FALSE
  <2>1. /\ MainAt("setState", p) /\ UNCHANGED loops
        /\ m_state' = [m_state EXCEPT ![p] = "Connected"]
    BY <1>7 DEF SetState
  <2>2. m_state[p] = "NotConnected"
    BY <2>1 DEF ConnInv, Age
  <2>3. m_state[x] \in {"NotConnected", "Connected"}
    BY <1>1, <1>2, <2>1, <2>2
  <2> QED
    BY <1>2, <1>4, <2>1, <2>3 DEF Known, Tasks
<1>8. ASSUME NEW t \in Threads, Swap(t) \/ EpollWait(t) \/ \E p \in Peers : AddToEpoll(t, p)
      PROVE  FALSE
  <2>1. m_state[x] \in {"NotConnected", "Connected"}
    BY <1>2, <1>8 DEF Swap, EpollWait, AddToEpoll
  <2>2. PICK u \in Threads : x \in m_listen_fds[u] \/ \E task \in Tasks(u) : task.conn = x
    BY <1>4, <2>1 DEF Known
  <2>3. CASE Swap(t)
    <3>1. /\ tmp_tasks[t] = {} /\ UNCHANGED m_listen_fds
          /\ tmp_tasks' = [tmp_tasks EXCEPT ![t] = m_pending_tasks[t]]
          /\ m_pending_tasks' = [m_pending_tasks EXCEPT ![t] = {}]
      BY <2>3 DEF Swap, RoundsEnd
    <3>2. Tasks(u) \subseteq m_pending_tasks'[u] \cup tmp_tasks'[u]
      BY <1>1, <3>1 DEF Tasks
    <3> QED
      BY <1>2, <2>2, <3>1, <3>2 DEF Known, Tasks
  <2>4. CASE EpollWait(t)
    <3>1. /\ m_pending_tasks' = [m_pending_tasks EXCEPT ![t] =
               @ \cup {ReadTask(p) : p \in Readable(t)}]
          /\ m_listen_fds' = [m_listen_fds EXCEPT ![t] = @ \ reset]
          /\ UNCHANGED tmp_tasks
      BY <2>4 DEF EpollWait, ReadTask
    <3>2. Tasks(u) \subseteq m_pending_tasks'[u] \cup tmp_tasks'[u]
      BY <1>1, <3>1 DEF Tasks
    <3>3. ASSUME x \in m_listen_fds[u], x \notin m_listen_fds'[u]
          PROVE  ReadTask(x) \in m_pending_tasks'[u]
      <4>1. u = t /\ x \in reset
        BY <1>1, <3>1, <3>3
      <4>2. x \in Readable(t)
        BY <1>1, <3>3, <4>1 DEF Readable
      <4> QED
        BY <1>1, <3>1, <4>1, <4>2
    <3>4. ReadTask(x).conn = x
      BY DEF ReadTask
    <3> QED
      BY <1>2, <2>2, <3>2, <3>3, <3>4 DEF Known, Tasks
  <2>5. ASSUME NEW p \in Peers, AddToEpoll(t, p) PROVE FALSE
    <3>1. /\ tmp_tasks' = [tmp_tasks EXCEPT ![t] = @ \ {AddTask(p)}]
          /\ m_listen_fds' = [m_listen_fds EXCEPT ![t] = @ \cup {p}]
          /\ m_pending_tasks' = m_pending_tasks
      BY <2>5 DEF AddToEpoll, Run, AddTask
    <3>2. CASE x = p
      <4>1. x \in m_listen_fds'[t]
        BY <1>1, <3>1, <3>2
      <4> QED
        BY <1>2, <4>1 DEF Known
    <3>3. CASE x # p
      <4>1. AddTask(p).conn = p
        BY DEF AddTask
      <4>2. \A task \in Tasks(u) : task.conn = x => task \in m_pending_tasks'[u] \cup tmp_tasks'[u]
        BY <1>1, <3>1, <3>3, <4>1 DEF Tasks
      <4>3. m_listen_fds[u] \subseteq m_listen_fds'[u]
        BY <1>1, <3>1
      <4> QED
        BY <1>2, <2>2, <4>2, <4>3 DEF Known, Tasks
    <3> QED
      BY <3>2, <3>3
  <2> QED
    BY <1>8, <2>3, <2>4, <2>5
<1>9. ASSUME NEW t \in Threads, NEW p \in Peers, OnRead(t, p)
      PROVE  m_state[x] = "NotConnected" /\ x \in reset
  <2>1. /\ ReadTask(p) \in tmp_tasks[t]
        /\ tmp_tasks' = [tmp_tasks EXCEPT ![t] = @ \ {ReadTask(p)}]
        /\ UNCHANGED <<m_pending_tasks, reset>>
    BY <1>9 DEF OnRead, Run, ReadTask
  <2>2. ASSUME x # p PROVE FALSE
    <3>1. m_state'[x] = m_state[x]
      BY <1>1, <1>9, <2>2 DEF OnRead, Ignore, Read, listenWrite, clear
    <3>2. \A u \in Threads : x \in m_listen_fds[u] => x \in m_listen_fds'[u]
      BY <1>1, <1>9, <2>2 DEF OnRead, Ignore, Read, listenWrite, clear
    <3>3. ReadTask(p).conn = p
      BY DEF ReadTask
    <3>4. \A u \in Threads : \A task \in Tasks(u) :
            task.conn = x => task \in m_pending_tasks'[u] \cup tmp_tasks'[u]
      BY <1>1, <2>1, <2>2, <3>3 DEF Tasks
    <3> QED
      BY <1>2, <1>4, <3>1, <3>2, <3>4 DEF Known, Tasks
  <2>3. ASSUME ~ Refused(p), x = p PROVE FALSE
    <3>1. CASE listenWrite(t, p)
      <4>1. x \in m_listen_fds'[t]
        BY <1>1, <2>3, <3>1 DEF listenWrite
      <4> QED
        BY <1>2, <4>1 DEF Known
    <3>2. CASE clear(t, p)
      BY <1>1, <1>2, <2>3, <3>2 DEF clear
    <3> QED
      BY <1>9, <2>3, <3>1, <3>2 DEF OnRead, Read
  <2>4. Refused(p) /\ x = p /\ m_state' = m_state
    BY <1>9, <2>2, <2>3 DEF OnRead, Ignore
  <2> QED
    BY <1>1, <1>2, <1>3, <2>1, <2>4 DEF Refused
<1> QED
  BY <1>5, <1>6, <1>7, <1>8, <1>9
     DEF Next, MainThread, OnAccept, NewIOThread, Created, start, Acceptable, LeaveLoop,
         Undefined, IOThread, MakeLoop, Announce, Started, Leave, stop, Client, Connect,
         Send, Close, Reset

\* Whatever the clients do, no connection that is Connected becomes lost, and none that
\* its client has not reset.
THEOREM OnlyEarlyResetLost == SafetySpec => LostOnlyEarly
<1>1. Init => NoneAbandoned /\ RoundsEnd
  BY DEF Init, NoneAbandoned, RoundsEnd, Kept
<1>2. TypeOK /\ ConnInv /\ RoundsEnd /\ NoneAbandoned /\ [Next]_vars
        => [\A p \in Peers :
              ~ Lost(p) /\ Lost(p)' => m_state[p] = "NotConnected" /\ p \in reset]_vars
  BY StepKept, StepLost
<1> QED
  BY <1>1, <1>2, StepKept, StepRounds, ConnAlways, StartsInOrder, TypeCorrect, PTL
     DEF SafetySpec, LostOnlyEarly

-----------------------------------------------------------------------------
(* The connections are shared out in turn.                                 *)

Of(t) == {p \in Peers : io[p] = t}

\* The IO threads before the index have one connection more than the others.
Rounds(n) == \A t \in Threads : Cardinality(Of(t)) = IF t < m_index THEN n + 1 ELSE n

ShareInv == /\ \A t \in Threads : IsFiniteSet(Of(t))
            /\ \E n \in Nat : Rounds(n)

LEMMA AcceptShares ==
  ASSUME TypeOK, ConnInv, ShareInv, NEW p \in Peers, Accept(p)
  PROVE  ShareInv'
<1>0. Turn \in Threads
  BY ThreadFacts DEF Turn, TypeOK
<1> PICK turn \in Threads : turn = Turn
  BY <1>0
<1>1. /\ m_index \in 0 .. m_io_threads
      /\ turn = IF m_index = m_io_threads THEN 0 ELSE m_index
  BY ThreadFacts DEF Turn, TypeOK
<1>2. io' = [io EXCEPT ![p] = turn] /\ m_index' = turn + 1 /\ peer[p] = "backlog"
  BY DEF Accept, Backlog
<1>3. io[p] = NoThread /\ NoThread \notin Threads /\ io \in [Peers -> Threads \cup {NoThread}]
  BY <1>2, ThreadFacts DEF ConnInv, Age, TypeOK
<1>4. Of(turn)' = Of(turn) \cup {p} /\ p \notin Of(turn)
  BY <1>1, <1>2, <1>3 DEF Of
<1>5. ASSUME NEW t \in Threads, t # turn PROVE Of(t)' = Of(t)
  <2>1. \A q \in Peers : io'[q] = t <=> io[q] = t
    BY <1>2, <1>3, <1>5
  <2> QED
    BY <2>1 DEF Of
<1>6. IsFiniteSet(Of(turn)) /\ Cardinality(Of(turn)) \in Nat
  BY <1>1, FS_CardinalityType DEF ShareInv
<1>7. IsFiniteSet(Of(turn)') /\ Cardinality(Of(turn)') = Cardinality(Of(turn)) + 1
  BY <1>4, <1>6, FS_AddElement
<1>8. ASSUME NEW t \in Threads PROVE IsFiniteSet(Of(t)')
  <2>1. CASE t = turn
    BY <1>7, <2>1
  <2>2. CASE t # turn
    BY <1>5, <2>2 DEF ShareInv
  <2> QED
    BY <2>1, <2>2
<1> PICK n \in Nat : Rounds(n)
  BY DEF ShareInv
<1>9. ASSUME NEW t \in Threads
      PROVE  Cardinality(Of(t)') = Cardinality(Of(t)) + (IF t = turn THEN 1 ELSE 0)
  <2>1. CASE t = turn
    BY <1>7, <2>1
  <2>2. CASE t # turn
    <3>1. Cardinality(Of(t)) \in Nat
      BY FS_CardinalityType DEF ShareInv
    <3>2. Of(t)' = Of(t)
      BY <1>5, <2>2
    <3> QED
      BY <2>2, <3>1, <3>2
  <2> QED
    BY <2>1, <2>2
<1>10. CASE m_index = m_io_threads
  <2>1. turn = 0 /\ \A t \in Threads : t \in Nat /\ t < m_index
    BY <1>1, <1>10, ThreadFacts
  <2>2. \A t \in Threads : Cardinality(Of(t)) = n + 1
    BY <2>1 DEF Rounds
  <2>3. \A t \in Threads : Cardinality(Of(t)') = IF t < m_index' THEN (n + 1) + 1 ELSE n + 1
    BY <1>2, <1>9, <2>1, <2>2
  <2>4. n + 1 \in Nat /\ Rounds(n + 1)'
    BY <2>3 DEF Rounds
  <2>5. \E k \in Nat : Rounds(k)'
    BY <2>4
  <2> QED
    BY <1>8, <2>5 DEF ShareInv
<1>11. CASE m_index # m_io_threads
  <2>1. turn = m_index /\ m_index \in Nat /\ m_index' = m_index + 1
        /\ \A t \in Threads : t \in Nat
    BY <1>1, <1>2, <1>11, ThreadFacts
  <2>2. \A t \in Threads : Cardinality(Of(t)) = IF t < m_index THEN n + 1 ELSE n
    BY DEF Rounds
  <2>3. \A t \in Threads : Cardinality(Of(t)') = IF t < m_index' THEN n + 1 ELSE n
    BY <1>9, <2>1, <2>2
  <2>4. Rounds(n)'
    BY <2>3 DEF Rounds
  <2>5. \E k \in Nat : Rounds(k)'
    BY <2>4
  <2> QED
    BY <1>8, <2>5 DEF ShareInv
<1> QED
  BY <1>10, <1>11

LEMMA StepShares == TypeOK /\ ConnInv /\ ShareInv /\ [Next]_vars => ShareInv'
<1> SUFFICES ASSUME TypeOK, ConnInv, ShareInv, [Next]_vars PROVE ShareInv'
  OBVIOUS
<1> USE DEF startup, server, loops, peers
<1>1. CASE UNCHANGED <<io, m_index>>
  BY <1>1 DEF ShareInv, Rounds, Of
<1> QED
  BY <1>1, AcceptShares
     DEF Next, MainThread, OnAccept, IOThread, Client, NewIOThread, Created, start, Acceptable,
         LeaveLoop, SetState, Undefined, MakeLoop, Announce, Started, Swap, Leave, AddToEpoll,
         OnRead, EpollWait, stop, Connect, Send, Close, Reset, vars

\* No IO thread has two connections more than another.
THEOREM SharedEvenly == SafetySpec => []EvenShares
<1>1. Init => ShareInv
  <2> SUFFICES ASSUME Init PROVE ShareInv
    OBVIOUS
  <2>1. \A t \in Threads : Of(t) = {} /\ t \in Nat
    BY ThreadFacts DEF Init, Of
  <2>2. Rounds(0)
    <3>1. Cardinality({}) = 0
      BY FS_EmptySet
    <3>2. \A t \in Threads : ~ (t < m_index)
      BY <2>1 DEF Init
    <3> QED
      BY <2>1, <3>1, <3>2 DEF Rounds
  <2> QED
    BY <2>1, <2>2, FS_EmptySet DEF ShareInv
<1>2. ShareInv => EvenShares
  <2> SUFFICES ASSUME ShareInv, NEW t \in Threads, NEW u \in Threads
               PROVE  Share(t) <= Share(u) + 1
    BY DEF EvenShares
  <2> PICK n \in Nat : Rounds(n)
    BY DEF ShareInv
  <2>1. /\ Cardinality(Of(t)) \in {n, n + 1}
        /\ Cardinality(Of(u)) \in {n, n + 1}
    BY DEF Rounds
  <2> QED
    BY <2>1 DEF Share, Of
<1> QED
  BY <1>1, <1>2, StepShares, ConnAlways, TypeCorrect, PTL DEF SafetySpec
=============================================================================
