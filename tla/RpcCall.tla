------------------------------ MODULE RpcCall ------------------------------
(***************************************************************************)
(* Remote procedure calls seen from the client: rocket::RpcChannel with    *)
(* its RpcController, RpcClosure, TcpClient and timeout                    *)
(* (rocket/net/rpc/rpc_channel.cc, rocket/net/tcp/tcp_client.cc).          *)
(*                                                                         *)
(* Several channels, each for one call as CALLRPC makes it, live on one    *)
(* thread and its loop.  CallMethod starts the timeout and connects;       *)
(* connect enters the loop if nobody has.  In the loop the request is      *)
(* written, the reply read, and the timeout runs, each as a callback of    *)
(* the loop, and the caller's closure reports the end of the call.         *)
(*                                                                         *)
(* Abstractions.  A callback of the loop is one step.  The connection      *)
(* (module TcpConnection) appears by what it does for a single call at its *)
(* best: a request is written whole or not at all, and a reply arrives     *)
(* once, whole, and long enough for decode to return.                      *)
(* The timer (module Timer) appears by what it guarantees: an event whose  *)
(* time has come is collected in a later round, a cancelled one never.     *)
(* Error codes are named by their cause.  The callback for EPOLLERR, which *)
(* runs after a refused connect, only replaces one connect error by        *)
(* another and is left out.                                                *)
(***************************************************************************)
EXTENDS Naturals, Sequences

CONSTANTS
  Channels,    \* the channels, each with its client, controller and closure
  TimerFd      \* the descriptor of the loop's timer

ASSUME CallAssumption == TimerFd \notin Channels

VARIABLES
  inLoop,            \* the thread is inside EventLoop::loop
  m_is_looping,
  m_stop_flag,
  tasks,             \* callbacks of this round that have not run yet
  socket,            \* of each client: what the kernel knows of it
  listening,         \* of each client: the triggers epoll watches for it
  m_state,           \* of each client: the state of its connection
  m_connect_error,   \* of each client: m_connect_error_code is not 0
  timer,             \* of each channel: its TimerEvent
  m_err_code,        \* of each controller
  wire,              \* between each client and the server
  results            \* of each channel: what the runs of its closure saw

vars == <<inLoop, m_is_looping, m_stop_flag, tasks, socket, listening, m_state,
          m_connect_error, timer, m_err_code, wire, results>>
loop   == <<inLoop, m_is_looping, m_stop_flag>>
client == <<socket, listening, m_state, m_connect_error>>
call   == <<timer, m_err_code, results>>

Reply == {"ok", "error", "garbled"}
Error == {"refused", "connect", "timeout", "service", "deserialize"}
Callback == ({TimerFd} \X {"onTimer"}) \cup (Channels \X {"connected", "onWrite", "onRead"})

TypeOK ==
  /\ {inLoop, m_is_looping, m_stop_flag} \subseteq BOOLEAN
  /\ tasks \subseteq Callback
  /\ socket \in [Channels -> {"new", "connecting", "connected", "refused", "replaced", "closed"}]
  /\ listening \in [Channels -> SUBSET {"in", "out"}]
  /\ m_state \in [Channels -> {"NotConnected", "Connected", "Closed"}]
  /\ m_connect_error \in [Channels -> BOOLEAN]
  /\ timer \in [Channels -> {"none", "pending", "due", "cancelled", "run"}]
  /\ m_err_code \in [Channels -> Error \cup {"none"}]
  /\ wire \in [Channels -> Reply \cup {"none", "request"}]
  /\ results \in [Channels -> Seq({"ok", "failed", "timeout"})]

Init ==
  /\ inLoop = FALSE /\ m_is_looping = FALSE /\ m_stop_flag = FALSE
  /\ tasks = {}
  /\ socket = [c \in Channels |-> "new"]
  /\ listening = [c \in Channels |-> {}]
  /\ m_state = [c \in Channels |-> "NotConnected"]
  /\ m_connect_error = [c \in Channels |-> FALSE]
  /\ timer = [c \in Channels |-> "none"]
  /\ m_err_code = [c \in Channels |-> "none"]
  /\ wire = [c \in Channels |-> "none"]
  /\ results = [c \in Channels |-> <<>>]

-----------------------------------------------------------------------------
(* The caller.                                                             *)

\* CallMethod has been called and has not refused.
Called(c) == timer[c] # "none"

\* The call has not been reported, and may still be.
Open(c) == Called(c) /\ results[c] = <<>> /\ m_err_code[c] # "deserialize"

\* The thread is free for the caller: outside the loop, or in a task of it.  A task that
\* has stopped its loop is the program's last there, as in the test client: the caller
\* goes on when loop() has returned (DoneRuns is about the calls that it makes then).
Free == inLoop => ~m_stop_flag

\* Closure::Run for the channels in D, which report what they find in their controller.
\* A closure may stop the loop, as the test client's does, when no call is open any
\* longer.
Run(D, report) ==
  /\ results' = [c \in Channels |-> IF c \in D THEN Append(results[c], report) ELSE results[c]]
  /\ \/ UNCHANGED m_stop_flag
     \/ /\ D # {} /\ \A c \in Channels : Open(c) => c \in D
        /\ m_stop_flag' = TRUE

-----------------------------------------------------------------------------
(* connect, and the callback done that CallMethod gives it.                *)

SetError(c, code) == m_err_code' = [m_err_code EXCEPT ![c] = code]

\* The connection is there: done has the request written (writeMessage).
Established(c) ==
  /\ m_state' = [m_state EXCEPT ![c] = "Connected"]
  /\ listening' = [listening EXCEPT ![c] = {"out"}]
  /\ UNCHANGED <<m_connect_error, m_err_code>>

\* It is not: done returns without running the closure.
NotEstablished(c) ==
  /\ m_connect_error' = [m_connect_error EXCEPT ![c] = TRUE]
  /\ listening' = [listening EXCEPT ![c] = {}]
  /\ SetError(c, "connect")
  /\ UNCHANGED m_state

\* CallMethod returns early: the channel has no Init, or the request does not
\* serialize.
CallRefused(c) ==
  /\ Free
  /\ ~Called(c)
  /\ SetError(c, "refused")
  /\ UNCHANGED <<loop, tasks, client, timer, wire, results>>

\* CallMethod starts the timeout and connects: at once, ...
CallConnected(c) ==
  /\ Free
  /\ ~Called(c)
  /\ timer' = [timer EXCEPT ![c] = "pending"]
  /\ socket' = [socket EXCEPT ![c] = "connected"]
  /\ Established(c)
  /\ UNCHANGED <<loop, tasks, wire, results>>

\* ... not at all, ...
CallFailed(c) ==
  /\ Free
  /\ ~Called(c)
  /\ timer' = [timer EXCEPT ![c] = "pending"]
  /\ NotEstablished(c)
  /\ UNCHANGED <<loop, tasks, socket, wire, results>>

\* ... or later (EINPROGRESS): the loop is entered, unless it is or was running.
CallConnecting(c) ==
  /\ Free
  /\ ~Called(c)
  /\ timer' = [timer EXCEPT ![c] = "pending"]
  /\ socket' = [socket EXCEPT ![c] = "connecting"]
  /\ listening' = [listening EXCEPT ![c] = {"out"}]
  /\ inLoop' = (inLoop \/ ~m_is_looping)
  /\ m_is_looping' = TRUE
  /\ UNCHANGED <<m_stop_flag, tasks, m_state, m_connect_error, m_err_code,
                 wire, results>>

\* The caller enters the loop: it returns at once when it has been stopped.
Loop ==
  /\ ~inLoop
  /\ inLoop' = ~m_stop_flag
  /\ m_is_looping' = TRUE
  /\ UNCHANGED <<m_stop_flag, tasks, client, call, wire>>

-----------------------------------------------------------------------------
(* The kernel and the server.                                              *)

ConnectEnds(c, outcome) ==
  /\ socket[c] = "connecting"
  /\ socket' = [socket EXCEPT ![c] = outcome]
  /\ UNCHANGED <<loop, tasks, listening, m_state, m_connect_error, call, wire>>

Respond(c, reply) ==
  /\ wire[c] = "request"
  /\ socket[c] = "connected"
  /\ wire' = [wire EXCEPT ![c] = reply]
  /\ UNCHANGED <<loop, tasks, client, call>>

PeerCloses(c) ==
  /\ socket[c] = "connected"
  /\ socket' = [socket EXCEPT ![c] = "closed"]
  /\ UNCHANGED <<loop, tasks, listening, m_state, m_connect_error, call, wire>>

\* The time of a pending event comes.
Expire(c) ==
  /\ timer[c] = "pending"
  /\ timer' = [timer EXCEPT ![c] = "due"]
  /\ UNCHANGED <<loop, tasks, client, m_err_code, results, wire>>

-----------------------------------------------------------------------------
(* The loop.                                                               *)

\* What epoll reports.
Ready ==
  {t \in Callback :
     LET c == t[1]
     IN  CASE t[2] = "onTimer"   -> \E d \in Channels : timer[d] = "due"
           [] t[2] = "connected" -> /\ "out" \in listening[c]
                                    /\ m_state[c] = "NotConnected"
                                    /\ socket[c] # "connecting"
           [] t[2] = "onWrite"   -> "out" \in listening[c] /\ m_state[c] = "Connected"
           [] t[2] = "onRead"    -> "in" \in listening[c] /\ (wire[c] \in Reply \/ socket[c] = "closed")}

Poll ==
  /\ inLoop /\ ~m_stop_flag
  /\ tasks = {}
  /\ Ready # {}
  /\ tasks' = Ready
  /\ UNCHANGED <<loop, client, call, wire>>

\* The stop flag ends the loop after the round.
Leave ==
  /\ inLoop /\ m_stop_flag
  /\ tasks = {}
  /\ inLoop' = FALSE
  /\ UNCHANGED <<m_is_looping, m_stop_flag, tasks, client, call, wire>>

\* Tasks of one round run in the order of epoll's report, which is any, but a
\* descriptor's reading comes before its writing.
Take(c, callback) ==
  /\ <<c, callback>> \in tasks
  /\ callback = "onWrite" => <<c, "onRead">> \notin tasks
  /\ tasks' = tasks \ {<<c, callback>>}

\* Mutant: the failure stops the timeout too.
ConnectedOrDone(c) ==
  /\ Take(c, "connected")
  /\ \/ /\ socket[c] \in {"connected", "closed"}
        /\ Established(c)
        /\ UNCHANGED <<socket, timer>>
     \/ /\ socket[c] = "refused"
        /\ NotEstablished(c)
        /\ socket' = [socket EXCEPT ![c] = "replaced"]
        /\ timer' = [timer EXCEPT ![c] = "cancelled"]
  /\ UNCHANGED <<loop, wire, results>>

\* The callback of connect asks the kernel again and unregisters the descriptor;
\* after a failure it makes a new socket.
Connected(c) ==
  /\ Take(c, "connected")
  /\ \/ /\ socket[c] \in {"connected", "closed"}
        /\ Established(c)
        /\ UNCHANGED socket
     \/ /\ socket[c] = "refused"
        /\ NotEstablished(c)
        /\ socket' = [socket EXCEPT ![c] = "replaced"]
  /\ UNCHANGED <<loop, timer, wire, results>>

\* onWrite and its send callback, which has the reply read (readMessage): the
\* read callback it registers is never withdrawn.  After EAGAIN the descriptor is
\* still watched for writing.
OnWrite(c) ==
  /\ Take(c, "onWrite")
  /\ IF m_state[c] # "Connected"
     THEN UNCHANGED <<listening, wire>>
     ELSE \/ /\ listening' = [listening EXCEPT ![c] = {"in"}]
             /\ wire' = [wire EXCEPT ![c] = IF socket[c] = "closed" THEN @ ELSE "request"]
          \/ /\ listening' = [listening EXCEPT ![c] = {"in", "out"}]
             /\ UNCHANGED wire
  /\ UNCHANGED <<loop, socket, m_state, m_connect_error, call>>

\* Mutant: the closure is handed the error code.
ReadDoneCode(c) ==
  /\ wire[c] # "garbled"
  /\ UNCHANGED m_err_code
  /\ Run({c}, m_err_code[c])

\* The read callback, after it has cancelled the timeout: a reply that cannot be
\* read has no closure run; an error of the server replaces the controller's.
ReadDone(c) ==
  LET error == IF wire[c] = "error" THEN "service" ELSE m_err_code[c]
  IN  IF wire[c] = "garbled"
      THEN SetError(c, "deserialize") /\ UNCHANGED <<results, m_stop_flag>>
      ELSE SetError(c, error) /\ Run({c}, IF error = "none" THEN "ok" ELSE "failed")

NotCancelled(c) == timer[c]    \* mutant: the timeout is left alone

\* setCancled(true) on the timeout.
Cancelled(c) == IF timer[c] \in {"pending", "due"} THEN "cancelled" ELSE timer[c]

\* onRead finds the reply, whose read callback cancels the timeout ...
OnReply(c) ==
  /\ Take(c, "onRead")
  /\ wire[c] \in Reply
  /\ wire' = [wire EXCEPT ![c] = "none"]
  /\ timer' = [timer EXCEPT ![c] = Cancelled(c)]
  /\ ReadDone(c)
  /\ UNCHANGED <<inLoop, m_is_looping, client>>

\* ... or the end of the stream (clear).
OnEnd(c) ==
  /\ Take(c, "onRead")
  /\ wire[c] \notin Reply
  /\ m_state' = [m_state EXCEPT ![c] = "Closed"]
  /\ listening' = [listening EXCEPT ![c] = {}]
  /\ UNCHANGED <<loop, socket, m_connect_error, call, wire>>

\* onTimer: the timeouts whose time has come set the error and run the closures.
OnTimer ==
  LET due == {c \in Channels : timer[c] = "due"}
  IN  /\ Take(TimerFd, "onTimer")
      /\ timer' = [c \in Channels |-> IF c \in due THEN "run" ELSE timer[c]]
      /\ m_err_code' = [c \in Channels |-> IF c \in due THEN "timeout" ELSE m_err_code[c]]
      /\ Run(due, "timeout")
      /\ UNCHANGED <<inLoop, m_is_looping, client, wire>>

-----------------------------------------------------------------------------
User ==
  \/ Loop
  \/ \E c \in Channels : CallRefused(c) \/ CallConnected(c) \/ CallFailed(c) \/ CallConnecting(c)

Outside(c) ==
  \/ \E outcome \in {"connected", "refused"} : ConnectEnds(c, outcome)
  \/ \E reply \in Reply : Respond(c, reply)
  \/ PeerCloses(c)

LoopThread ==
  \/ Poll \/ Leave \/ OnTimer
  \/ \E c \in Channels : Connected(c) \/ OnWrite(c) \/ OnReply(c) \/ OnEnd(c)

Next == User \/ LoopThread \/ \E c \in Channels : Outside(c) \/ Expire(c)

\* The loop thread runs and time passes; the server owes nothing.
Fairness == WF_vars(LoopThread) /\ \A c \in Channels : WF_vars(Expire(c))

SafetySpec == Init /\ [][Next]_vars
Spec == SafetySpec /\ Fairness

-----------------------------------------------------------------------------
(* Properties.                                                             *)

\* What the closure of a call reports stands.  The response cancels the timeout,
\* whichever of the two a round runs first, but the timeout does not withdraw the
\* read callback: the closure runs again for a late response, with the
\* controller's error still set.
Outcome == INSTANCE CallOutcome WITH Calls <- Channels
OutcomeStands == Outcome!Spec

\* A call ends: with the loop running, and whatever the server, the network and
\* the other calls do, its closure runs, unless the reply cannot be read.
CallEnds ==
  \A c \in Channels : Called(c) /\ inLoop ~> results[c] # <<>> \/ m_err_code[c] = "deserialize"

\* A connect that is under way has done called, or the timeout ends the call.
DoneRuns ==
  \A c \in Channels :
    socket[c] = "connecting" ~>
      m_state[c] = "Connected" \/ m_connect_error[c] \/ results[c] # <<>>
=============================================================================
