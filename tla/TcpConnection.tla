---------------------------- MODULE TcpConnection ----------------------------
(***************************************************************************)
(* The two ends of a connection: rocket::TcpConnection as TcpServer and as *)
(* TcpClient use it (rocket/net/tcp/tcp_connection.cc, tcp_client.cc).     *)
(*                                                                         *)
(* Each end is driven by the loop of its thread: onRead reads the socket   *)
(* until it is empty, then decodes and handles what came; onWrite encodes  *)
(* and writes.  A step of an end is one system call or one turn of a loop  *)
(* on its buffers; decoding that finds nothing and does not return spins,  *)
(* which is a thread without a step.                                       *)
(*                                                                         *)
(* Abstractions.  The ends are connected and the server listens.  epoll    *)
(* reports a descriptor only when it can be read or written; callbacks     *)
(* that are still queued when a connection is cleared return at once.  A   *)
(* call of the dispatcher makes one reply.  Bytes sent to an end that has  *)
(* gone are dropped, without SIGPIPE.  read and write fail with EAGAIN     *)
(* only.                                                                   *)
(***************************************************************************)
EXTENDS TinyPB, SequencesExt

CONSTANTS
  Messages,    \* the requests a client may send
  Reply,       \* what the dispatcher answers to each
  BufferSize,  \* the 128 of TcpClient::TcpClient and TcpServer::onAccept
  Capacity,    \* how many bytes the kernel holds for each direction
  Cuts,        \* whether a read may find less than what was written
  MaxSends,    \* bound: how many messages the client sends
  MaxWrites    \* bound: how many times write(2) takes bytes

ASSUME ConnectionAssumption ==
  /\ Messages \subseteq Seq(Byte) \ {<<>>}
  /\ Reply \in [Messages -> Seq(Byte) \ {<<>>}]
  /\ \A m \in Messages : {Len(m) + 3, Len(Reply[m]) + 3} \subseteq Byte
  /\ {PB_START, PB_END, 4} \subseteq Byte
  /\ BufferSize \in Nat \ {0}
  /\ Capacity \in Nat \ {0}
  /\ Cuts \in BOOLEAN
  /\ MaxSends \in Nat
  /\ MaxWrites \in Nat

VARIABLES
  m_in_buffer, m_out_buffer, m_state,
  listening,       \* of each end: the triggers epoll watches for it
  pc,              \* of each end: where its thread is
  messages,        \* of each end: decoded so far, or yet to be encoded
  m_write_dones,   \* of the client: messages whose send callback waits
  m_read_dones,    \* of the client: the msg_ids with a read callback
  stream,          \* of each end: the bytes on their way to it
  ended,           \* the ends that shut down or closed their socket
  sent,            \* history: the messages given to writeMessage
  handled,         \* history: the requests dispatched by the server
  answered,        \* history: the replies given to read callbacks
  taken,           \* history: of each end, how many bytes decode took
  writes           \* how many times write(2) took bytes

vars == <<m_in_buffer, m_out_buffer, m_state, listening, pc, messages,
          m_write_dones, m_read_dones, stream, ended, sent, handled, answered, taken, writes>>
buffers == <<m_in_buffer, m_out_buffer>>
dones   == <<m_write_dones, m_read_dones>>
history == <<sent, handled, answered, taken>>

End == {"client", "server"}
Peer(x) == IF x = "client" THEN "server" ELSE "client"

TypeOK ==
  /\ \A x \in End : IsBuffer(m_in_buffer[x]) /\ IsBuffer(m_out_buffer[x])
  /\ m_in_buffer = [x \in End |-> m_in_buffer[x]]
  /\ m_out_buffer = [x \in End |-> m_out_buffer[x]]
  /\ m_state \in [End -> {"Connected", "HalfClosing", "Closed"}]
  /\ listening \in [End -> SUBSET {"in", "out"}]
  /\ pc \in [End -> {"idle", "read", "decode", "answer", "encode", "write"}]
  /\ messages \in [End -> Seq(Seq(Byte) \ {<<>>})]
  /\ m_write_dones \in Seq(Messages)
  /\ m_read_dones \subseteq Byte
  /\ stream \in [End -> Seq(Byte)]
  /\ ended \subseteq {"client"}
  /\ sent \in Seq(Messages)
  /\ handled \in Seq(Seq(Byte))
  /\ answered \in Seq(Seq(Byte))
  /\ taken \in [End -> Nat]
  /\ writes \in 0 .. MaxWrites

Init ==
  /\ m_in_buffer = [x \in End |-> NewBuffer(BufferSize)]
  /\ m_out_buffer = [x \in End |-> NewBuffer(BufferSize)]
  /\ m_state = [x \in End |-> "Connected"]
  /\ listening = [x \in End |-> IF x = "server" THEN {"in"} ELSE {}]
  /\ pc = [x \in End |-> "idle"]
  /\ messages = [x \in End |-> <<>>]
  /\ m_write_dones = <<>>
  /\ m_read_dones = {}
  /\ stream = [x \in End |-> <<>>]
  /\ ended = {}
  /\ sent = <<>>
  /\ handled = <<>>
  /\ answered = <<>>
  /\ taken = [x \in End |-> 0]
  /\ writes = 0

Goto(x, label) == pc' = [pc EXCEPT ![x] = label]
Listen(x, trigger) == listening' = [listening EXCEPT ![x] = @ \cup {trigger}]

-----------------------------------------------------------------------------
(* The user of the client, on the client's thread.                         *)

writeMessage(m) ==
  /\ pc["client"] = "idle"
  /\ Len(sent) < MaxSends
  /\ "client" \notin ended
  /\ sent' = Append(sent, m)
  /\ m_write_dones' = Append(m_write_dones, m)
  /\ Listen("client", "out")
  /\ UNCHANGED <<buffers, m_state, pc, messages, m_read_dones, stream, ended,
                 handled, answered, taken, writes>>

shutdown ==
  /\ pc["client"] = "idle"
  /\ m_state["client"] = "Connected"
  /\ m_state' = [m_state EXCEPT !["client"] = "HalfClosing"]
  /\ ended' = ended \cup {"client"}
  /\ UNCHANGED <<buffers, listening, pc, messages, dones, stream, history, writes>>

-----------------------------------------------------------------------------
(* onRead.                                                                 *)

\* The peer's end of stream is all that is left to read.
AtEnd(x) == stream[x] = <<>> /\ Peer(x) \in ended

\* The same for an end that is not Connected logs and returns.
OnRead(x) ==
  /\ pc[x] = "idle"
  /\ "in" \in listening[x]
  /\ stream[x] # <<>> \/ Peer(x) \in ended
  /\ m_state[x] = "Connected"
  /\ Goto(x, "read")
  /\ UNCHANGED <<buffers, m_state, listening, messages, dones, stream, ended, history, writes>>

Read(x, n) ==
  LET b == IF writeAble(m_in_buffer[x]) = 0
           THEN resizeBuffer(m_in_buffer[x], 2 * Len(m_in_buffer[x].m_buffer))
           ELSE m_in_buffer[x]
      count == writeAble(b)
      rest  == Len(stream[x])
  IN  /\ pc[x] = "read"
      /\ 0 < n /\ n <= count /\ n <= rest
      /\ Cuts \/ n = count \/ n = rest
      /\ m_in_buffer' = [m_in_buffer EXCEPT ![x] =
                           moveWriteIndex(Store(b, SubSeq(stream[x], 1, n)), n)]
      /\ stream' = [stream EXCEPT ![x] = SubSeq(@, n + 1, rest)]
      /\ Goto(x, IF n = count THEN "read" ELSE "decode")
      /\ UNCHANGED <<m_out_buffer, m_state, listening, messages, dones, ended, history, writes>>

ReadNothing(x) ==
  /\ pc[x] = "read"
  /\ Cuts \/ (stream[x] = <<>> /\ Peer(x) \notin ended)
  /\ Goto(x, "decode")
  /\ UNCHANGED <<buffers, m_state, listening, messages, dones, stream, ended, history, writes>>

\* Mutant: the end of the stream is taken for EAGAIN.
ReadEndIgnored(x) ==
  /\ pc[x] = "read"
  /\ AtEnd(x)
  /\ Goto(x, "decode")
  /\ UNCHANGED <<buffers, m_state, listening, messages, dones, stream, ended, history, writes>>

\* read returns 0: clear().
ReadEnd(x) ==
  /\ pc[x] = "read"
  /\ AtEnd(x)
  /\ m_state' = [m_state EXCEPT ![x] = "Closed"]
  /\ listening' = [listening EXCEPT ![x] = {}]
  /\ Goto(x, "idle")
  /\ UNCHANGED <<buffers, messages, dones, stream, ended, history, writes>>

-----------------------------------------------------------------------------
(* excute: decode takes the frames out of the in buffer one by one ...     *)

DecodeFrame(x) ==
  LET b == m_in_buffer[x]
  IN  /\ pc[x] = "decode"
      /\ FrameStarts(b) # {}
      /\ m_in_buffer' = [m_in_buffer EXCEPT ![x] = moveReadIndex(b, pk_len(b))]
      /\ messages' = [messages EXCEPT ![x] = IF Message(b) = <<>> THEN @
                                             ELSE Append(@, Message(b))]
      /\ taken' = [taken EXCEPT ![x] = @ + pk_len(b)]
      /\ UNCHANGED <<m_out_buffer, m_state, listening, pc, dones, stream, ended,
                     sent, handled, answered, writes>>

echo(m) == m    \* mutant: the request is sent back

\* The dispatcher answers a request it does not know with an error.
dispatch(m) == IF m \in Messages THEN Reply[m] ELSE <<msg_id(m)>>

\* ... and returns once the write index is back at 0.
Decoded(x) ==
  /\ pc[x] = "decode"
  /\ m_in_buffer[x].m_write_index = 0

\* The server dispatches the messages.
excuteRequests ==
  /\ Decoded("server")
  /\ handled' = handled \o messages["server"]
  /\ messages' = [messages EXCEPT !["server"] = [i \in DOMAIN @ |-> dispatch(@[i])]]
  /\ Goto("server", "encode")
  /\ UNCHANGED <<buffers, m_state, listening, dones, stream, ended, sent, answered,
                 taken, writes>>

\* The client hands each of them to the read callback of its msg_id, if any.
excuteReplies ==
  /\ Decoded("client")
  /\ Goto("client", "answer")
  /\ UNCHANGED <<buffers, m_state, listening, messages, dones, stream, ended, history, writes>>

Answer ==
  /\ pc["client"] = "answer"
  /\ messages["client"] # <<>>
  /\ messages' = [messages EXCEPT !["client"] = Tail(@)]
  /\ answered' = IF msg_id(Head(messages["client"])) \in m_read_dones
                 THEN Append(answered, Head(messages["client"])) ELSE answered
  /\ UNCHANGED <<buffers, m_state, listening, pc, dones, stream, ended, sent, handled,
                 taken, writes>>

Answered ==
  /\ pc["client"] = "answer"
  /\ messages["client"] = <<>>
  /\ Goto("client", "idle")
  /\ UNCHANGED <<buffers, m_state, listening, messages, dones, stream, ended, history, writes>>

-----------------------------------------------------------------------------
(* encode: of the replies in excute, of what the client sends in onWrite.  *)

Encode(x) ==
  /\ pc[x] = "encode"
  /\ messages[x] # <<>>
  /\ m_out_buffer' = [m_out_buffer EXCEPT ![x] =
                        writeToBuffer(@, encodeTinyPB(Head(messages[x])))]
  /\ messages' = [messages EXCEPT ![x] = Tail(@)]
  /\ UNCHANGED <<m_in_buffer, m_state, listening, pc, dones, stream, ended, history, writes>>

Encoded(x) ==
  /\ pc[x] = "encode"
  /\ messages[x] = <<>>
  /\ IF x = "server" THEN Listen(x, "out") /\ Goto(x, "idle")
                     ELSE Goto(x, "write") /\ UNCHANGED listening
  /\ UNCHANGED <<buffers, m_state, messages, dones, stream, ended, history, writes>>

-----------------------------------------------------------------------------
(* onWrite.                                                                *)

Room(x) == Capacity - Len(stream[Peer(x)])

OnWrite(x) ==
  /\ pc[x] = "idle"
  /\ "out" \in listening[x]
  /\ Room(x) > 0
  /\ m_state[x] = "Connected"
  /\ IF x = "client" THEN /\ Goto(x, "encode")
                          /\ messages' = [messages EXCEPT ![x] = m_write_dones]
                     ELSE Goto(x, "write") /\ UNCHANGED messages
  /\ UNCHANGED <<buffers, m_state, listening, dones, stream, ended, history, writes>>

\* The end of onWrite: without more to send the descriptor is not watched for
\* writing any longer; the client's send callbacks run, and each has the reply
\* read, as RpcChannel's does.
Finish(x, is_write_all) ==
  /\ Goto(x, "idle")
  /\ IF x = "client"
     THEN /\ m_read_dones' = m_read_dones \cup {msg_id(m) : m \in Range(m_write_dones)}
          /\ m_write_dones' = <<>>
     ELSE UNCHANGED dones
  /\ listening' = [listening EXCEPT ![x] =
                     (IF is_write_all THEN @ \ {"out"} ELSE @)
                       \cup (IF x = "client" /\ m_write_dones # <<>> THEN {"in"} ELSE {})]

\* One write(2): the kernel takes what it has room for.  The read index does not
\* move, so that after a part the whole is written again.
Write(x) ==
  LET data == Readable(m_out_buffer[x])
      n    == IF Len(data) < Room(x) THEN Len(data) ELSE Room(x)
  IN  /\ pc[x] = "write"
      /\ n > 0
      /\ writes < MaxWrites
      /\ writes' = writes + 1
      /\ stream' = [stream EXCEPT ![Peer(x)] =
                      IF Peer(x) \in ended THEN @ ELSE @ \o SubSeq(data, 1, n)]
      /\ IF n = Len(data) THEN Finish(x, TRUE) ELSE UNCHANGED <<pc, listening, dones>>
      /\ UNCHANGED <<buffers, m_state, messages, ended, history>>

WriteNothing(x) ==
  /\ pc[x] = "write"
  /\ \/ readAble(m_out_buffer[x]) = 0 /\ Finish(x, TRUE)
     \/ readAble(m_out_buffer[x]) > 0 /\ Room(x) = 0 /\ Finish(x, FALSE)   \* EAGAIN
  /\ UNCHANGED <<buffers, m_state, messages, stream, ended, history, writes>>

-----------------------------------------------------------------------------
User == shutdown \/ \E m \in Messages : writeMessage(m)

Loop(x) ==
  \/ OnRead(x) \/ ReadNothing(x) \/ ReadEnd(x)
  \/ \E n \in 1 .. Len(stream[x]) : Read(x, n)
  \/ DecodeFrame(x)
  \/ x = "server" /\ excuteRequests
  \/ x = "client" /\ (excuteReplies \/ Answer \/ Answered)
  \/ Encode(x) \/ Encoded(x)
  \/ OnWrite(x) \/ Write(x) \/ WriteNothing(x)

Next == User \/ \E x \in End : Loop(x)

\* Both ends' threads run.
Fairness == \A x \in End : WF_vars(Loop(x))

SafetySpec == Init /\ [][Next]_vars
Spec == SafetySpec /\ Fairness

-----------------------------------------------------------------------------
(* Properties.                                                             *)

\* The in buffer always has room for one more byte and keeps its first size: a
\* read never asks for 0 bytes, and the branch that would grow it is dead.
InBufferNeverGrows ==
  \A x \in End :
    /\ writeAble(m_in_buffer[x]) > 0
    /\ Len(m_in_buffer[x].m_buffer) = BufferSize

\* What is on its way to the server, and what its in buffer holds, is a stream
\* of bytes of which nothing is lost.  The code keeps it only while a read
\* leaves room in the buffer.
ToServer == INSTANCE ByteStream WITH
              queue <- Readable(m_in_buffer["server"]) \o stream["server"],
              taken <- taken["server"]
NothingLost == ToServer!Spec

\* The server dispatches the requests that were sent, each once and in order,
\* and the client's read callbacks get the reply to each once.
HandledOnce ==
  /\ IsPrefix(handled, sent)
  /\ IsPrefix(answered, [i \in DOMAIN sent |-> Reply[sent[i]]])

\* Decoding ends.
DecodeReturns == \A x \in End : pc[x] = "decode" ~> pc[x] # "decode"

\* A request is answered, unless the client gives the connection up.
CallAnswered == sent # <<>> ~> answered # <<>> \/ "client" \in ended

\* The server notices that the client has gone.
ServerCloses == "client" \in ended ~> m_state["server"] = "Closed"
=============================================================================
