------------------------------ MODULE TcpBuffer ------------------------------
(***************************************************************************)
(* rocket::TcpBuffer (rocket/net/tcp/tcp_buffer.cc): a vector of bytes     *)
(* with a read and a write index, as operators from buffer to buffer.  The *)
(* indices count from 0 as in the code, the vector from 1 as sequences do. *)
(* m_size is never used and left out; indices do not overflow an int.      *)
(***************************************************************************)
EXTENDS Integers, Sequences

CONSTANT Byte    \* the values of a byte

ASSUME ByteAssumption ==
  /\ Byte \subseteq Nat
  /\ 0 \in Byte    \* a new vector holds zeros

\* A buffer the code can produce.
IsBuffer(b) ==
  /\ b \in [m_buffer : Seq(Byte), m_read_index : Nat, m_write_index : Nat]
  /\ b.m_read_index <= b.m_write_index
  /\ b.m_write_index <= Len(b.m_buffer)

NewBuffer(size) ==
  [m_buffer |-> [i \in 1 .. size |-> 0], m_read_index |-> 0, m_write_index |-> 0]

\* What a buffer holds.
Readable(b) == SubSeq(b.m_buffer, b.m_read_index + 1, b.m_write_index)

readAble(b)  == b.m_write_index - b.m_read_index
writeAble(b) == Len(b.m_buffer) - b.m_write_index

\* The first count readable bytes, copied to the start of a new vector.
CopyFrom(b, from, size, count) ==
  [m_buffer |-> [i \in 1 .. size |-> IF i <= count THEN b.m_buffer[from + i] ELSE 0],
   m_read_index |-> 0,
   m_write_index |-> count]

\* Mutant: the bytes are copied from the start of the vector.
CopyFront(b, size, count) == CopyFrom(b, 0, size, count)
Copied(b, size, count) == CopyFrom(b, b.m_read_index, size, count)

\* Once a third of the vector has been read, the rest moves to its start.
adjustBuffer(b) ==
  IF b.m_read_index < Len(b.m_buffer) \div 3 THEN b
  ELSE Copied(b, Len(b.m_buffer), readAble(b))

resizeBuffer(b, new_size) ==
  adjustBuffer(Copied(b, new_size,
                      IF new_size < readAble(b) THEN new_size ELSE readAble(b)))

\* The bytes s stored from the write index on, by memcpy or by read(2).
Store(b, s) ==
  [b EXCEPT !.m_buffer = [i \in 1 .. Len(b.m_buffer) |->
                            IF i - b.m_write_index \in 1 .. Len(s)
                            THEN s[i - b.m_write_index] ELSE b.m_buffer[i]]]

\* Mutant: the vector does not grow.
writeNoGrow(b, s) == [Store(b, s) EXCEPT !.m_write_index = @ + Len(s)]

\* The vector grows to (int)1.5 * (m_write_index + size), which is 1 times it.
writeToBuffer(b, s) ==
  LET c == IF Len(s) > writeAble(b) THEN resizeBuffer(b, b.m_write_index + Len(s)) ELSE b
  IN  [Store(c, s) EXCEPT !.m_write_index = @ + Len(s)]

moveReadIndex(b, size) ==
  IF b.m_read_index + size >= Len(b.m_buffer) THEN b
  ELSE adjustBuffer([b EXCEPT !.m_read_index = @ + size])

\* Mutant: the vector may be filled to its last byte.
moveToEnd(b, size) ==
  IF b.m_write_index + size > Len(b.m_buffer) THEN b
  ELSE adjustBuffer([b EXCEPT !.m_write_index = @ + size])

moveWriteIndex(b, size) ==
  IF b.m_write_index + size >= Len(b.m_buffer) THEN b
  ELSE adjustBuffer([b EXCEPT !.m_write_index = @ + size])
=============================================================================
