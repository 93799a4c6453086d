-------------------------------- MODULE TinyPB --------------------------------
(***************************************************************************)
(* The frames of rocket::TinyPBCoder (rocket/net/coder/tinypb_coder.cc).   *)
(*                                                                         *)
(* Abstraction.  A message is the sequence of bytes between the length and *)
(* the end mark, of which the first stands for msg_id; the other fields    *)
(* are not told apart.  The length is one byte instead of four: it arrives *)
(* whole or not at all.  Frames come from encodeTinyPB, so the errors of   *)
(* decode about fields longer than their frame cannot happen; the frame    *)
(* without a msg_id can.                                                   *)
(***************************************************************************)
EXTENDS TcpBuffer

PB_START == 2
PB_END   == 3

msg_id(message) == message[1]

\* Mutant: the length without the end mark.
encodeShort(message) == <<PB_START, Len(message) + 2>> \o message \o <<PB_END>>

encodeTinyPB(message) == <<PB_START, Len(message) + 3>> \o message \o <<PB_END>>

\* decode's scan: where between the indices a whole frame begins.
At(b, i) == b.m_buffer[i + 1]

FrameStarts(b) ==
  {i \in b.m_read_index .. b.m_write_index - 2 :
     LET j == i + At(b, i + 1) - 1
     IN  At(b, i) = PB_START /\ j < b.m_write_index /\ At(b, j) = PB_END}

\* The one decode takes, its length, and the message inside it.
FrameStart(b) == CHOOSE i \in FrameStarts(b) : \A k \in FrameStarts(b) : i <= k
pk_len(b) == At(b, FrameStart(b) + 1)
Message(b) == LET i == FrameStart(b)
              IN  SubSeq(b.m_buffer, i + 3, i + pk_len(b) - 1)
=============================================================================
