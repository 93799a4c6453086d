------------------------------ MODULE Dispatch ------------------------------
(***************************************************************************)
(* A call from end to end: what RpcChannel::CallMethod puts into a request *)
(* (rocket/net/rpc/rpc_channel.cc), what rocket::RpcDispatcher makes of it *)
(* on an IO thread (rpc_dispatcher.cc), and how the answer finds its       *)
(* caller.                                                                 *)
(*                                                                         *)
(* Several IO threads dispatch at the same time.  While it is in a service *)
(* each of them keeps the id and the method of its request in its RunTime  *)
(* (rocket/common/run_time.cc), with which every line that it logs is      *)
(* stamped (LogEvent::toString, rocket/common/log.cc).                     *)
(*                                                                         *)
(* Abstractions.  A name is a sequence of identifiers, the parts between   *)
(* the dots.  Each call has a connection of its own, as the macro CALLRPC  *)
(* makes it, which is TcpConnection's subject; any of the IO threads may   *)
(* serve it.  Timeouts and failing connections are RpcCall's.              *)
(***************************************************************************)
EXTENDS MsgID

CONSTANTS
  Clients,     \* the threads that make calls
  None,        \* no client, no thread, no message
  Threads,     \* the IO threads
  Services,    \* full names of the services that may be registered
  Methods,     \* the names of the methods; every service has them all
  Messages,    \* what is called: a full name, with data that parses or not
  Randoms,     \* bound: the numbers that /dev/urandom gives
  SetIds,      \* ids that callers set themselves
  MaxCalls     \* bound: how many calls each client makes

ASSUME DispatchAssumption ==
  /\ Services \subseteq Seq(STRING) \ {<<>>}
  /\ Methods \subseteq STRING
  /\ Messages \subseteq [method_name : Seq(STRING), parses : BOOLEAN]
  /\ Randoms \subseteq Id
  /\ SetIds \subseteq Id
  /\ MaxCalls \in [Clients -> Nat]

Names == {message.method_name : message \in Messages}

AnyId == Id \cup {NoId}

Request == [msg_id : AnyId, method_name : Names, parses : BOOLEAN]

ErrorCode == {"0", "ERROR_PARSE_SERVICE_NAME", "ERROR_SERVICE_NOT_FOUND",
              "ERROR_FAILED_DESERILIZE", "ERROR_FAILED_SERILIZE"}

Response == [msg_id : AnyId, method_name : Names, err_code : ErrorCode]

ASSUME NoneAssumption == None \notin Clients \cup Threads \cup Request \cup Response

RunTime == [msg_id : AnyId, method_name : {<<>>} \cup {Tail(n) : n \in Names \ {<<>>}}]

VARIABLES
  m_service_map,   \* the services registered
  serving,         \* the server was started
  generator,       \* the id generator of each client's thread
  m_msg_id,        \* of each client: the id in its controller
  made,            \* of each client: how many calls it made
  call,            \* of each client: where its call is
  request,         \* of each client: the request of that call
  response,        \* and the response to it
  current,         \* of each IO thread: the client whose call it has begun
  t_run_time       \* of each IO thread: its RunTime

server == <<m_service_map, serving>>
vars == <<server, generator, m_msg_id, made, call, request, response, current, t_run_time>>

TypeOK ==
  /\ m_service_map \subseteq Services
  /\ serving \in BOOLEAN
  /\ generator \in [Clients -> Generator]
  /\ m_msg_id \in [Clients -> AnyId]
  /\ made \in [Clients -> Nat] /\ \A c \in Clients : made[c] <= MaxCalls[c]
  /\ call \in [Clients -> {"none", "sent", "taken", "answered"}]
  /\ request \in [Clients -> Request \cup {None}]
  /\ response \in [Clients -> Response \cup {None}]
  /\ \A c \in Clients : /\ call[c] = "none" <=> request[c] = None
                        /\ call[c] = "answered" <=> response[c] # None
  /\ current \in [Threads -> Clients \cup {None}]
  /\ t_run_time \in [Threads -> RunTime]

Init ==
  /\ m_service_map = {}
  /\ serving = FALSE
  /\ generator = [c \in Clients |-> NewGenerator]
  /\ m_msg_id = [c \in Clients |-> NoId]
  /\ made = [c \in Clients |-> 0]
  /\ call = [c \in Clients |-> "none"]
  /\ request = [c \in Clients |-> None]
  /\ response = [c \in Clients |-> None]
  /\ current = [t \in Threads |-> None]
  /\ t_run_time = [t \in Threads |-> [msg_id |-> NoId, method_name |-> <<>>]]

-----------------------------------------------------------------------------
(* The server's main thread.                                               *)

\* The program registers its services, each under its full name, before it
\* starts the server.
registerService(s) ==
  /\ ~ serving
  /\ m_service_map' = m_service_map \cup {s}
  /\ UNCHANGED <<serving, generator, m_msg_id, made, call, request, response,
                 current, t_run_time>>

Serve ==
  /\ ~ serving
  /\ m_service_map = Services
  /\ serving' = TRUE
  /\ UNCHANGED <<m_service_map, generator, m_msg_id, made, call, request,
                 response, current, t_run_time>>

-----------------------------------------------------------------------------
(* The client.                                                             *)

\* Before its next call a client may reset its controller or set an id; a
\* controller that is used again as it is keeps its id.
Ready(c) == call[c] = "none" /\ made[c] < MaxCalls[c]

Reset(c) ==
  /\ Ready(c)
  /\ m_msg_id' = [m_msg_id EXCEPT ![c] = NoId]
  /\ UNCHANGED <<server, generator, made, call, request, response, current,
                 t_run_time>>

SetMsgId(c, id) ==
  /\ Ready(c)
  /\ m_msg_id' = [m_msg_id EXCEPT ![c] = id]
  /\ UNCHANGED <<server, generator, made, call, request, response,
                 current, t_run_time>>

\* The next id; none if /dev/urandom cannot be read.
GenMsgID(c, id) ==
  IF Exhausted(generator[c])
    THEN \/ id \in Randoms /\ generator' = [generator EXCEPT ![c] = Seeded(@, id)]
         \/ id = NoId /\ UNCHANGED generator
    ELSE /\ id = Successor(generator[c].num)
         /\ generator' = [generator EXCEPT ![c] = Counted(@)]

\* CallMethod on a new channel.
CallMethod(c, message, id) ==
  /\ serving /\ Ready(c)
  /\ IF m_msg_id[c] = NoId THEN GenMsgID(c, id)
                           ELSE id = m_msg_id[c] /\ UNCHANGED generator
  /\ m_msg_id' = [m_msg_id EXCEPT ![c] = id]
  /\ made' = [made EXCEPT ![c] = @ + 1]
  /\ call' = [call EXCEPT ![c] = "sent"]
  /\ request' = [request EXCEPT ![c] =
                   [msg_id |-> id, method_name |-> message.method_name,
                    parses |-> message.parses]]
  /\ UNCHANGED <<server, response, current, t_run_time>>

\* The read callback.  The connection finds it by the id of the response.
OnReply(c) ==
  /\ call[c] = "answered"
  /\ response[c].msg_id = request[c].msg_id
  /\ call' = [call EXCEPT ![c] = "none"]
  /\ request' = [request EXCEPT ![c] = None]
  /\ response' = [response EXCEPT ![c] = None]
  /\ UNCHANGED <<server, generator, m_msg_id, made, current, t_run_time>>

-----------------------------------------------------------------------------
(* RpcDispatcher::dispatch, on an IO thread.                               *)

\* parseServiceFullName: the name is split at its first dot.
HasDot(name) == Len(name) > 1
ServiceName(name) == SubSeq(name, 1, 1)
MethodName(name) == Tail(name)

FindMethodByName(name) == \E m \in Methods : MethodName(name) = <<m>>

\* What dispatch finds wrong with a request before it calls the service.
RefusalUnparsed(r) ==    \* mutant
  IF ~ HasDot(r.method_name) THEN "ERROR_PARSE_SERVICE_NAME"
  ELSE IF ServiceName(r.method_name) \notin m_service_map THEN "ERROR_SERVICE_NOT_FOUND"
  ELSE IF ~ FindMethodByName(r.method_name) THEN "ERROR_SERVICE_NOT_FOUND"
  ELSE "0"
Refusal(r) ==
  IF ~ HasDot(r.method_name) THEN "ERROR_PARSE_SERVICE_NAME"
  ELSE IF ServiceName(r.method_name) \notin m_service_map THEN "ERROR_SERVICE_NOT_FOUND"
  ELSE IF ~ FindMethodByName(r.method_name) THEN "ERROR_SERVICE_NOT_FOUND"
  ELSE IF ~ r.parses THEN "ERROR_FAILED_DESERILIZE"
  ELSE "0"

AnswerEmpty(c, err_code) ==    \* mutant
  /\ call' = [call EXCEPT ![c] = "answered"]
  /\ UNCHANGED response
AnswerUnnamed(c, err_code) ==    \* mutant
  /\ call' = [call EXCEPT ![c] = "answered"]
  /\ response' = [response EXCEPT ![c] =
       [msg_id |-> NoId, method_name |-> request[c].method_name, err_code |-> err_code]]
\* The response carries the id and the method of its request.
Answer(c, err_code) ==
  /\ call' = [call EXCEPT ![c] = "answered"]
  /\ response' = [response EXCEPT ![c] =
       [msg_id |-> request[c].msg_id, method_name |-> request[c].method_name,
        err_code |-> err_code]]

Idle(t) == current[t] = None

Refuse(t, c) ==
  /\ call[c] = "sent" /\ Idle(t)
  /\ Refusal(request[c]) # "0"
  /\ Answer(c, Refusal(request[c]))
  /\ UNCHANGED <<server, generator, m_msg_id, made, request, current, t_run_time>>

SetRunTimeOfAll(t, r) ==    \* mutant
  t_run_time' = [u \in Threads |-> [msg_id |-> r.msg_id, method_name |-> MethodName(r.method_name)]]
\* GetRunTime gives each thread its own.
SetRunTime(t, r) ==
  t_run_time' = [t_run_time EXCEPT ![t] =
                   [msg_id |-> r.msg_id, method_name |-> MethodName(r.method_name)]]

\* dispatch up to service->CallMethod ...
EnterMethod(t, c) ==
  /\ call[c] = "sent" /\ Idle(t)
  /\ Refusal(request[c]) = "0"
  /\ SetRunTime(t, request[c])
  /\ call' = [call EXCEPT ![c] = "taken"]
  /\ current' = [current EXCEPT ![t] = c]
  /\ UNCHANGED <<server, generator, m_msg_id, made, request, response>>

\* ... and after it.
LeaveMethod(t, err_code) ==
  /\ ~ Idle(t)
  /\ err_code \in {"0", "ERROR_FAILED_SERILIZE"}
  /\ Answer(current[t], err_code)
  /\ current' = [current EXCEPT ![t] = None]
  /\ UNCHANGED <<server, generator, m_msg_id, made, request, t_run_time>>

-----------------------------------------------------------------------------
MainThread == (\E s \in Services : registerService(s)) \/ Serve

Client(c) ==
  \/ Reset(c)
  \/ \E id \in SetIds : SetMsgId(c, id)
  \/ \E message \in Messages, id \in AnyId : CallMethod(c, message, id)
  \/ OnReply(c)

IOThread(t) == \/ \E c \in Clients : Refuse(t, c) \/ EnterMethod(t, c)
               \/ \E err_code \in ErrorCode : LeaveMethod(t, err_code)

Next == MainThread \/ (\E c \in Clients : Client(c)) \/ (\E t \in Threads : IOThread(t))

SafetySpec == Init /\ [][Next]_vars

Fairness == /\ \A t \in Threads : WF_vars(IOThread(t))
            /\ \A c \in Clients : WF_vars(OnReply(c))

Spec == SafetySpec /\ Fairness

-----------------------------------------------------------------------------
(* Properties.                                                             *)

\* rpc_dispatcher.cc:95-98, log.cc:136-147: what a service logs is stamped with
\* the id and the method of the request that it serves, whatever the other IO
\* threads are doing.
Stamp(r) == [msg_id |-> r.msg_id, method_name |-> MethodName(r.method_name)]
StampsOwnRequest ==
  \A t \in Threads : ~ Idle(t) => t_run_time[t] = Stamp(request[current[t]])

\* rpc_dispatcher.cc:30-153: a service is called exactly for the requests that
\* parse and name a method of a registered service that is in no package.
Callable(name) == \E s \in m_service_map, m \in Methods : Len(s) = 1 /\ name = Append(s, m)
CalledIfCallable ==
  \A c \in Clients :
    /\ call[c] = "taken" =>
         request[c].parses /\ Callable(request[c].method_name)
    /\ call[c] = "answered" =>
         (response[c].err_code \in {"0", "ERROR_FAILED_SERILIZE"}
            <=> request[c].parses /\ Callable(request[c].method_name))

\* tcp_connection.cc:131-139: the caller of every request gets its answer, which
\* it knows by its id.
CallReturns == \A c \in Clients : call[c] = "sent" ~> call[c] = "none"

\* The number that an id stands for.
Value(num) ==
  LET value[i \in 0 .. Len(num)] ==
        IF i = 0 THEN 0 ELSE value[i - 1] * (Nine + 1) + num[i]
  IN value[Len(num)]
\* The call that a client makes has an id from the generator of its thread.
Generates(c) == made'[c] # made[c] /\ m_msg_id[c] = NoId /\ request'[c].msg_id # NoId

\* msg_id_util.cc:17-58: a thread takes a random number for its first id, and again
\* after all nines, as long as these are the maximum.  Otherwise an id is the one
\* before it counted up by one; but after a second random number the maximum has
\* become longer than an id, and all nines are handed out again and again.
OnlyNinesRepeat ==
  [][\A c \in Clients :
       Generates(c) =>
         LET before == generator[c].num
             id     == request'[c].msg_id
             nines  == before = Nines(g_msg_id_length)
             again  == Len(generator[c].max) > g_msg_id_length
         IN  IF before = NoId \/ (nines /\ ~ again) THEN id \in Randoms
             ELSE IF nines THEN id = before
             ELSE Value(id) = Value(before) + 1]_vars
=============================================================================
