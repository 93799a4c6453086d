------------------------- MODULE TcpConnectionProofs -------------------------
(***************************************************************************)
(* Proofs about TcpBuffer.tla and TcpConnection.tla, for every size of the *)
(* buffers and of the kernel's, and every set of messages.                 *)
(***************************************************************************)
EXTENDS TcpConnection, SequenceTheorems, Induction, TLAPS

USE ByteAssumption

-----------------------------------------------------------------------------
(* The buffer keeps its bytes.                                             *)

LEMMA BufferFields ==
  ASSUME NEW b, IsBuffer(b)
  PROVE  /\ b.m_buffer \in Seq(Byte)
         /\ b.m_read_index \in Nat
         /\ b.m_write_index \in Nat
         /\ b.m_read_index <= b.m_write_index
         /\ b.m_write_index <= Len(b.m_buffer)
         /\ Len(b.m_buffer) \in Nat
         /\ readAble(b) \in 0 .. Len(b.m_buffer)
         /\ Readable(b) \in Seq(Byte)
         /\ Len(Readable(b)) = readAble(b)
         /\ \A i \in 1 .. readAble(b) : Readable(b)[i] = b.m_buffer[b.m_read_index + i]
BY SubSeqProperties DEF IsBuffer, readAble, Readable

\* A buffer is made of its fields.
LEMMA MakeBuffer ==
  ASSUME NEW s \in Seq(Byte), NEW r \in Nat, NEW w \in Nat, r <= w, w <= Len(s)
  PROVE  IsBuffer([m_buffer |-> s, m_read_index |-> r, m_write_index |-> w])
BY DEF IsBuffer

LEMMA NewBufferHolds ==
  ASSUME NEW size \in Nat
  PROVE  /\ IsBuffer(NewBuffer(size))
         /\ Len(NewBuffer(size).m_buffer) = size
         /\ NewBuffer(size).m_write_index = 0
         /\ Readable(NewBuffer(size)) = <<>>
<1>1. [i \in 1 .. size |-> 0] \in Seq(Byte) /\ Len([i \in 1 .. size |-> 0]) = size
  BY IsASeq, LenProperties
<1>2. IsBuffer(NewBuffer(size))
  BY <1>1, MakeBuffer DEF NewBuffer
<1> QED
  BY <1>1, <1>2, SubSeqEmpty DEF NewBuffer, Readable

LEMMA CopiedHolds ==
  ASSUME NEW b, IsBuffer(b), NEW size \in Nat, NEW count \in 0 .. readAble(b),
         count <= size
  PROVE  /\ IsBuffer(Copied(b, size, count))
         /\ Len(Copied(b, size, count).m_buffer) = size
         /\ Copied(b, size, count).m_read_index = 0
         /\ Copied(b, size, count).m_write_index = count
         /\ Readable(Copied(b, size, count)) = SubSeq(Readable(b), 1, count)
<1> DEFINE s == [i \in 1 .. size |-> IF i <= count THEN b.m_buffer[b.m_read_index + i] ELSE 0]
<1>1. Copied(b, size, count) = [m_buffer |-> s, m_read_index |-> 0, m_write_index |-> count]
  BY DEF Copied, CopyFrom
<1>2. \A i \in 1 .. size : s[i] \in Byte
  <2> SUFFICES ASSUME NEW i \in 1 .. size, i <= count PROVE b.m_buffer[b.m_read_index + i] \in Byte
    OBVIOUS
  <2>1. b.m_read_index + i \in 1 .. Len(b.m_buffer)
    BY BufferFields DEF readAble
  <2> QED
    BY <2>1, BufferFields, ElementOfSeq
<1>3. s \in Seq(Byte) /\ Len(s) = size
  BY <1>2, IsASeq, LenProperties
<1>4. count \in Nat
  BY BufferFields
<1>5. /\ IsBuffer(Copied(b, size, count))
      /\ Len(Copied(b, size, count).m_buffer) = size
      /\ Copied(b, size, count).m_read_index = 0
      /\ Copied(b, size, count).m_write_index = count
  <2> HIDE DEF s
  <2>1. IsBuffer([m_buffer |-> s, m_read_index |-> 0, m_write_index |-> count])
    BY <1>3, <1>4 DEF IsBuffer
  <2> QED
    BY <1>1, <1>3, <2>1
<1>6. Readable(Copied(b, size, count)) = SubSeq(s, 1, count)
  BY <1>1 DEF Readable
<1>7. SubSeq(s, 1, count) = SubSeq(Readable(b), 1, count)
  <2>1. SubSeq(s, 1, count) \in Seq(Byte) /\ Len(SubSeq(s, 1, count)) = count
    BY <1>3, <1>4, SubSeqProperties
  <2>2. SubSeq(Readable(b), 1, count) \in Seq(Byte) /\ Len(SubSeq(Readable(b), 1, count)) = count
    BY <1>4, BufferFields, SubSeqProperties
  <2>3. \A i \in 1 .. count : SubSeq(s, 1, count)[i] = SubSeq(Readable(b), 1, count)[i]
    <3> SUFFICES ASSUME NEW i \in 1 .. count
                 PROVE  SubSeq(s, 1, count)[i] = SubSeq(Readable(b), 1, count)[i]
      OBVIOUS
    <3>1. SubSeq(s, 1, count)[i] = s[i]
      BY <1>3, <1>4, SubSeqProperties
    <3>2. SubSeq(Readable(b), 1, count)[i] = Readable(b)[i]
      BY <1>4, BufferFields, SubSeqProperties
    <3>3. s[i] = b.m_buffer[b.m_read_index + i]
      BY <1>4
    <3> QED
      BY <3>1, <3>2, <3>3, BufferFields
  <2> QED
    BY <2>1, <2>2, <2>3, SeqEqual
<1> QED
  BY <1>5, <1>6, <1>7

LEMMA AdjustHolds ==
  ASSUME NEW b, IsBuffer(b)
  PROVE  /\ IsBuffer(adjustBuffer(b))
         /\ Len(adjustBuffer(b).m_buffer) = Len(b.m_buffer)
         /\ adjustBuffer(b).m_write_index <= b.m_write_index
         /\ Readable(adjustBuffer(b)) = Readable(b)
<1>1. CASE b.m_read_index < Len(b.m_buffer) \div 3
  BY <1>1, BufferFields DEF adjustBuffer
<1>2. CASE ~ (b.m_read_index < Len(b.m_buffer) \div 3)
  <2>1. adjustBuffer(b) = Copied(b, Len(b.m_buffer), readAble(b))
    BY <1>2 DEF adjustBuffer
  <2>2. readAble(b) \in 0 .. readAble(b) /\ readAble(b) <= Len(b.m_buffer)
    BY BufferFields
  <2>3. SubSeq(Readable(b), 1, readAble(b)) = Readable(b)
    BY BufferFields, SubSeqFull
  <2>4. readAble(b) <= b.m_write_index
    BY BufferFields DEF readAble
  <2>5. LET c == Copied(b, Len(b.m_buffer), readAble(b))
        IN  /\ IsBuffer(c)
            /\ Len(c.m_buffer) = Len(b.m_buffer)
            /\ c.m_write_index = readAble(b)
            /\ Readable(c) = SubSeq(Readable(b), 1, readAble(b))
    <3>1. Len(b.m_buffer) \in Nat
      BY BufferFields
    <3> QED
      BY <2>2, <3>1, CopiedHolds
  <2> QED
    BY <2>1, <2>3, <2>4, <2>5
<1> QED
  BY <1>1, <1>2

LEMMA ResizeHolds ==
  ASSUME NEW b, IsBuffer(b), NEW size \in Nat, readAble(b) <= size
  PROVE  /\ IsBuffer(resizeBuffer(b, size))
         /\ Len(resizeBuffer(b, size).m_buffer) = size
         /\ resizeBuffer(b, size).m_write_index <= readAble(b)
         /\ Readable(resizeBuffer(b, size)) = Readable(b)
<1> DEFINE c == Copied(b, size, readAble(b))
<1>1. resizeBuffer(b, size) = adjustBuffer(c)
  <2>1. (IF size < readAble(b) THEN size ELSE readAble(b)) = readAble(b)
    BY BufferFields
  <2> QED
    BY <2>1 DEF resizeBuffer
<1>2. SubSeq(Readable(b), 1, readAble(b)) = Readable(b)
  BY BufferFields, SubSeqFull
<1>3. /\ IsBuffer(c)
      /\ Len(c.m_buffer) = size
      /\ c.m_write_index = readAble(b)
      /\ Readable(c) = Readable(b)
  <2>1. readAble(b) \in 0 .. readAble(b)
    BY BufferFields
  <2> QED
    BY <1>2, <2>1, CopiedHolds
<1> HIDE DEF c
<1> QED
  BY <1>1, <1>3, AdjustHolds

\* What Store does to the vector.
Put(v, w, s) == [i \in 1 .. Len(v) |-> IF i - w \in 1 .. Len(s) THEN s[i - w] ELSE v[i]]

\* The bytes s put at position w of a vector v follow what is there from r to w.
LEMMA PutAfter ==
  ASSUME NEW v \in Seq(Byte), NEW r \in Nat, NEW w \in Nat, NEW s \in Seq(Byte),
         r <= w, w + Len(s) <= Len(v)
  PROVE  /\ Put(v, w, s) \in Seq(Byte)
         /\ Len(Put(v, w, s)) = Len(v)
         /\ SubSeq(Put(v, w, s), r + 1, w + Len(s)) = SubSeq(v, r + 1, w) \o s
<1> DEFINE L == Len(v)
           n == Len(s)
           t == Put(v, w, s)
<1>0. t = [i \in 1 .. L |-> IF i - w \in 1 .. n THEN s[i - w] ELSE v[i]]
  BY DEF Put
<1>a. L = Len(v) /\ n = Len(s)
  OBVIOUS
<1> HIDE DEF L, n, t
<1>1. L \in Nat /\ n \in Nat
  BY <1>a, LenProperties
<1>b. w + n <= L
  BY <1>a
<1>2. \A i \in 1 .. L : t[i] \in Byte
  <2> SUFFICES ASSUME NEW i \in 1 .. L PROVE t[i] \in Byte
    OBVIOUS
  <2>1. v[i] \in Byte
    BY <1>a, ElementOfSeq
  <2>2. i - w \in 1 .. n => s[i - w] \in Byte
    BY <1>a, ElementOfSeq
  <2> QED
    BY <1>0, <2>1, <2>2
<1>3. t \in Seq(Byte) /\ Len(t) = L
  <2>1. t \in [1 .. L -> Byte]
    BY <1>0, <1>2
  <2>2. t \in Seq(Byte)
    BY <1>1, <2>1, SeqDef
  <2>3. DOMAIN t = 1 .. L
    BY <2>1
  <2> QED
    BY <1>1, <2>2, <2>3, LenProperties
<1> DEFINE lhs == SubSeq(t, r + 1, w + n)
           old == SubSeq(v, r + 1, w)
           rhs == old \o s
<1>4. /\ lhs \in Seq(Byte)
      /\ Len(lhs) = (w - r) + n
      /\ \A i \in 1 .. (w - r) + n : lhs[i] = t[r + i]
  <2>1. \A i \in r + 1 .. w + n : t[i] \in Byte
    BY <1>1, <1>b, <1>2
  <2>2. r + 1 \in Int /\ w + n \in Int
    BY <1>1
  <2>3. /\ lhs \in Seq(Byte)
        /\ Len(lhs) = IF r + 1 <= w + n THEN (w + n) - (r + 1) + 1 ELSE 0
        /\ \A i \in 1 .. (w + n) - (r + 1) + 1 : lhs[i] = t[(r + 1) + i - 1]
    BY <2>1, <2>2, SubSeqProperties
  <2> HIDE DEF lhs
  <2>4. Len(lhs) = (w - r) + n
    BY <1>1, <2>3
  <2>5. ASSUME NEW i \in 1 .. (w - r) + n PROVE lhs[i] = t[r + i]
    <3>1. i \in 1 .. (w + n) - (r + 1) + 1 /\ (r + 1) + i - 1 = r + i
      BY <1>1
    <3> QED
      BY <2>3, <3>1
  <2> QED
    BY <2>3, <2>4, <2>5
<1>5. /\ old \in Seq(Byte)
      /\ Len(old) = w - r
      /\ \A i \in 1 .. w - r : old[i] = v[r + i]
  <2>1. \A i \in r + 1 .. w : v[i] \in Byte
    BY <1>1, <1>a, <1>b, ElementOfSeq
  <2>2. r + 1 \in Int /\ w \in Int
    OBVIOUS
  <2>3. /\ old \in Seq(Byte)
        /\ Len(old) = IF r + 1 <= w THEN w - (r + 1) + 1 ELSE 0
        /\ \A i \in 1 .. w - (r + 1) + 1 : old[i] = v[(r + 1) + i - 1]
    BY <2>1, <2>2, SubSeqProperties
  <2> HIDE DEF old
  <2> QED
    BY <2>3
<1> HIDE DEF lhs, old
<1>6. /\ rhs \in Seq(Byte)
      /\ Len(rhs) = (w - r) + n
      /\ \A i \in 1 .. (w - r) + n : rhs[i] = IF i <= w - r THEN old[i] ELSE s[i - (w - r)]
  <2>1. /\ rhs \in Seq(Byte)
        /\ Len(rhs) = Len(old) + Len(s)
        /\ \A i \in 1 .. Len(old) + Len(s) :
             rhs[i] = IF i <= Len(old) THEN old[i] ELSE s[i - Len(old)]
    BY <1>5, ConcatProperties
  <2> HIDE DEF rhs
  <2> QED
    BY <1>1, <1>a, <1>5, <2>1, SMTT(30)
<1> HIDE DEF rhs
<1>7. \A i \in 1 .. (w - r) + n : lhs[i] = rhs[i]
  <2> SUFFICES ASSUME NEW i \in 1 .. (w - r) + n PROVE lhs[i] = rhs[i]
    OBVIOUS
  <2>1. r + i \in 1 .. L
    BY <1>1, <1>b
  <2>2. t[r + i] = IF (r + i) - w \in 1 .. n THEN s[(r + i) - w] ELSE v[r + i]
    BY <1>0, <2>1
  <2>3. CASE i <= w - r
    <3>1. ~ ((r + i) - w \in 1 .. n) /\ i \in 1 .. w - r
      BY <1>1, <2>3
    <3> QED
      BY <1>4, <1>5, <1>6, <2>2, <2>3, <3>1
  <2>4. CASE ~ (i <= w - r)
    <3>1. (r + i) - w \in 1 .. n /\ (r + i) - w = i - (w - r)
      BY <1>1, <2>4
    <3> QED
      BY <1>4, <1>6, <2>2, <2>4, <3>1
  <2> QED
    BY <2>3, <2>4
<1>8. lhs = rhs
  BY <1>1, <1>4, <1>6, <1>7, SeqEqual
<1> QED
  BY <1>3, <1>8 DEF lhs, rhs, old, L, n, t

\* The bytes s, stored where there is room for them and counted as written, are
\* appended to what the buffer holds.
LEMMA StoreHolds ==
  ASSUME NEW b, IsBuffer(b), NEW s \in Seq(Byte), Len(s) <= writeAble(b),
         NEW c, c = [Store(b, s) EXCEPT !.m_write_index = @ + Len(s)]
  PROVE  /\ IsBuffer(c)
         /\ Len(c.m_buffer) = Len(b.m_buffer)
         /\ c.m_read_index = b.m_read_index
         /\ c.m_write_index = b.m_write_index + Len(s)
         /\ Readable(c) = Readable(b) \o s
<1> DEFINE t == Put(b.m_buffer, b.m_write_index, s)
<1>1. c = [m_buffer |-> t, m_read_index |-> b.m_read_index,
           m_write_index |-> b.m_write_index + Len(s)]
  BY DEF Store, IsBuffer, Put
<1>2. Len(s) \in Nat /\ b.m_write_index + Len(s) <= Len(b.m_buffer)
  BY BufferFields, LenProperties DEF writeAble
<1>3. /\ t \in Seq(Byte)
      /\ Len(t) = Len(b.m_buffer)
      /\ SubSeq(t, b.m_read_index + 1, b.m_write_index + Len(s))
           = SubSeq(b.m_buffer, b.m_read_index + 1, b.m_write_index) \o s
  <2>2. /\ b.m_buffer \in Seq(Byte) /\ b.m_read_index \in Nat /\ b.m_write_index \in Nat
        /\ b.m_read_index <= b.m_write_index
    BY BufferFields
  <2>3. \A v \in Seq(Byte), r, w \in Nat :
          r <= w /\ w + Len(s) <= Len(v) =>
            /\ Put(v, w, s) \in Seq(Byte)
            /\ Len(Put(v, w, s)) = Len(v)
            /\ SubSeq(Put(v, w, s), r + 1, w + Len(s)) = SubSeq(v, r + 1, w) \o s
    BY PutAfter, ZenonT(40)
  <2> QED
    BY <1>2, <2>2, <2>3, ZenonT(40)
<1> HIDE DEF t
<1>4. /\ c.m_buffer = t
      /\ c.m_read_index = b.m_read_index
      /\ c.m_write_index = b.m_write_index + Len(s)
  BY <1>1
<1>5. IsBuffer(c)
  <2>1. /\ b.m_read_index \in Nat
        /\ b.m_write_index + Len(s) \in Nat
        /\ b.m_read_index <= b.m_write_index + Len(s)
    BY <1>2, BufferFields
  <2> QED
    BY <1>1, <1>2, <1>3, <1>4, <2>1 DEF IsBuffer
<1> QED
  BY <1>3, <1>4, <1>5 DEF Readable

\* writeToBuffer appends, however small the buffer was.
LEMMA WriteAppends ==
  ASSUME NEW b, IsBuffer(b), NEW s \in Seq(Byte)
  PROVE  /\ IsBuffer(writeToBuffer(b, s))
         /\ Readable(writeToBuffer(b, s)) = Readable(b) \o s
<1> DEFINE c == IF Len(s) > writeAble(b) THEN resizeBuffer(b, b.m_write_index + Len(s)) ELSE b
<1>1. writeToBuffer(b, s) = [Store(c, s) EXCEPT !.m_write_index = @ + Len(s)]
  BY DEF writeToBuffer
<1>2. IsBuffer(c) /\ Readable(c) = Readable(b) /\ Len(s) <= writeAble(c)
  <2>1. CASE Len(s) > writeAble(b)
    <3>1. b.m_write_index + Len(s) \in Nat /\ readAble(b) <= b.m_write_index + Len(s)
      BY BufferFields, LenProperties DEF readAble
    <3>2. /\ IsBuffer(c)
          /\ Readable(c) = Readable(b)
          /\ Len(c.m_buffer) = b.m_write_index + Len(s)
          /\ c.m_write_index <= readAble(b)
      BY <2>1, <3>1, ResizeHolds
    <3>3. readAble(b) <= b.m_write_index /\ c.m_write_index \in Nat /\ Len(s) \in Nat
      BY <3>2, BufferFields, LenProperties DEF readAble
    <3> HIDE DEF c
    <3> QED
      BY <3>2, <3>3, BufferFields DEF writeAble
  <2>2. CASE ~ (Len(s) > writeAble(b))
    BY <2>2, BufferFields, LenProperties DEF writeAble
  <2> QED
    BY <2>1, <2>2
<1> HIDE DEF c
<1> QED
  BY <1>1, <1>2, StoreHolds, SMTT(30)

\* A read that leaves room is appended, one that fills the buffer is dropped.
LEMMA MoveWriteHolds ==
  ASSUME NEW b, IsBuffer(b), NEW s \in Seq(Byte), Len(s) <= writeAble(b),
         NEW c, c = moveWriteIndex(Store(b, s), Len(s))
  PROVE  /\ IsBuffer(c)
         /\ Len(c.m_buffer) = Len(b.m_buffer)
         /\ writeAble(b) > 0 => writeAble(c) > 0
         /\ Len(s) < writeAble(b) => Readable(c) = Readable(b) \o s
         /\ Len(s) = writeAble(b) => Readable(c) = Readable(b)
<1> DEFINE d == [Store(b, s) EXCEPT !.m_write_index = @ + Len(s)]
<1>1. /\ IsBuffer(d)
      /\ Len(d.m_buffer) = Len(b.m_buffer)
      /\ d.m_read_index = b.m_read_index
      /\ d.m_write_index = b.m_write_index + Len(s)
      /\ Readable(d) = Readable(b) \o s
  BY StoreHolds
<1>2. /\ Store(b, s).m_buffer = d.m_buffer
      /\ Store(b, s).m_read_index = b.m_read_index
      /\ Store(b, s).m_write_index = b.m_write_index
  BY DEF Store, IsBuffer
<1>3. Len(s) \in Nat /\ Len(b.m_buffer) \in Nat /\ b.m_write_index \in Nat
  BY BufferFields, LenProperties
<1>4. CASE Len(s) < writeAble(b)
  <2>1. c = adjustBuffer(d)
    <3>1. ~ (Store(b, s).m_write_index + Len(s) >= Len(Store(b, s).m_buffer))
      BY <1>1, <1>2, <1>3, <1>4 DEF writeAble
    <3> QED
      BY <3>1 DEF moveWriteIndex
  <2> HIDE DEF d
  <2>2. /\ IsBuffer(c)
        /\ Len(c.m_buffer) = Len(b.m_buffer)
        /\ c.m_write_index <= d.m_write_index
        /\ Readable(c) = Readable(b) \o s
    BY <1>1, <2>1, AdjustHolds
  <2>3. writeAble(c) > 0
    <3>1. c.m_write_index \in Nat /\ d.m_write_index \in Nat
      BY <1>1, <2>2, BufferFields
    <3> QED
      BY <1>1, <1>3, <1>4, <2>2, <3>1 DEF writeAble
  <2> QED
    BY <1>3, <1>4, <2>2, <2>3
<1>5. CASE Len(s) = writeAble(b)
  <2>1. c = Store(b, s)
    <3>1. Store(b, s).m_write_index + Len(s) >= Len(Store(b, s).m_buffer)
      BY <1>1, <1>2, <1>3, <1>5 DEF writeAble
    <3> QED
      BY <3>1 DEF moveWriteIndex
  <2>2. c = [m_buffer |-> d.m_buffer, m_read_index |-> b.m_read_index,
             m_write_index |-> b.m_write_index]
    BY <2>1, <1>2 DEF Store, IsBuffer
  <2>3. d.m_buffer \in Seq(Byte)
    BY <1>1, BufferFields
  <2> HIDE DEF d
  <2>4. IsBuffer(c)
    BY <1>1, <2>2, <2>3, BufferFields DEF IsBuffer
  <2>5. Readable(c) = Readable(b)
    <3>1. c.m_buffer = d.m_buffer /\ c.m_read_index = b.m_read_index
      BY <2>2
    <3>2. readAble(c) = readAble(b)
      BY <2>2 DEF readAble
    <3>3. \A i \in 1 .. readAble(b) : Readable(c)[i] = Readable(b)[i]
      <4> SUFFICES ASSUME NEW i \in 1 .. readAble(b) PROVE Readable(c)[i] = Readable(b)[i]
        OBVIOUS
      <4>1. Readable(c)[i] = d.m_buffer[b.m_read_index + i]
        BY <2>4, <3>1, <3>2, BufferFields
      <4>2. Readable(b)[i] = b.m_buffer[b.m_read_index + i]
        BY BufferFields
      <4>3. b.m_read_index + i \in 1 .. Len(b.m_buffer) /\ b.m_read_index + i <= b.m_write_index
        BY BufferFields DEF readAble
      <4>4. d.m_buffer[b.m_read_index + i] = b.m_buffer[b.m_read_index + i]
        <5>1. ~ ((b.m_read_index + i) - b.m_write_index \in 1 .. Len(s))
          BY <1>3, <4>3, BufferFields
        <5> QED
          BY <1>2, <4>3, <5>1 DEF Store
      <4> QED
        BY <4>1, <4>2, <4>4
    <3> QED
      BY <2>4, <3>2, <3>3, BufferFields, SeqEqual
  <2> QED
    BY <1>1, <1>3, <1>5, <2>2, <2>4, <2>5 DEF writeAble
<1> QED
  BY <1>3, <1>4, <1>5, BufferFields DEF writeAble

LEMMA MoveReadHolds ==
  ASSUME NEW b, IsBuffer(b), writeAble(b) > 0, NEW n \in 0 .. readAble(b)
  PROVE  /\ IsBuffer(moveReadIndex(b, n))
         /\ Len(moveReadIndex(b, n).m_buffer) = Len(b.m_buffer)
         /\ writeAble(moveReadIndex(b, n)) > 0
         /\ Readable(moveReadIndex(b, n)) = SubSeq(Readable(b), n + 1, readAble(b))
<1> DEFINE d == [b EXCEPT !.m_read_index = @ + n]
<1>1. d = [m_buffer |-> b.m_buffer, m_read_index |-> b.m_read_index + n,
           m_write_index |-> b.m_write_index]
  BY DEF IsBuffer
<1>2. n \in Nat /\ b.m_read_index + n <= b.m_write_index /\ b.m_write_index < Len(b.m_buffer)
  BY BufferFields DEF readAble, writeAble
<1>3. moveReadIndex(b, n) = adjustBuffer(d)
  BY <1>2, BufferFields DEF moveReadIndex
<1> HIDE DEF d
<1>4. IsBuffer(d)
  BY <1>1, <1>2, BufferFields DEF IsBuffer
<1>5. Readable(d) = SubSeq(Readable(b), n + 1, readAble(b))
  <2> DEFINE rest == SubSeq(Readable(b), n + 1, readAble(b))
  <2>1. readAble(d) = readAble(b) - n /\ readAble(b) \in Nat
    BY <1>1, <1>2, BufferFields DEF readAble
  <2>2. /\ rest \in Seq(Byte)
        /\ Len(rest) = readAble(b) - n
        /\ \A i \in 1 .. readAble(b) - n : rest[i] = Readable(b)[n + i]
    <3>1. \A i \in n + 1 .. readAble(b) : Readable(b)[i] \in Byte
      BY <1>2, <2>1, BufferFields, ElementOfSeq
    <3>2. /\ rest \in Seq(Byte)
          /\ Len(rest) = IF n + 1 <= readAble(b) THEN readAble(b) - (n + 1) + 1 ELSE 0
          /\ \A i \in 1 .. readAble(b) - (n + 1) + 1 : rest[i] = Readable(b)[(n + 1) + i - 1]
      BY <1>2, <2>1, <3>1, SubSeqProperties
    <3> HIDE DEF rest
    <3>3. ASSUME NEW i \in 1 .. readAble(b) - n PROVE rest[i] = Readable(b)[n + i]
      <4>1. i \in 1 .. readAble(b) - (n + 1) + 1 /\ (n + 1) + i - 1 = n + i
        BY <1>2, <2>1
      <4> QED
        BY <3>2, <4>1
    <3> QED
      BY <1>2, <2>1, <3>2, <3>3
  <2> HIDE DEF rest
  <2>3. ASSUME NEW i \in 1 .. readAble(b) - n PROVE Readable(d)[i] = rest[i]
    <3>1. Readable(d)[i] = b.m_buffer[(b.m_read_index + n) + i]
      BY <1>1, <1>4, <2>1, BufferFields
    <3>2. n + i \in 1 .. readAble(b) /\ (b.m_read_index + n) + i = b.m_read_index + (n + i)
      BY <1>2, <2>1, BufferFields
    <3>3. Readable(b)[n + i] = b.m_buffer[b.m_read_index + (n + i)]
      BY <3>2, BufferFields
    <3> QED
      BY <2>2, <3>1, <3>2, <3>3
  <2>4. Readable(d) \in Seq(Byte) /\ Len(Readable(d)) = readAble(b) - n
    BY <1>4, <2>1, BufferFields
  <2>5. Readable(d) = rest
    BY <2>2, <2>3, <2>4, SeqEqual
  <2> QED
    BY <2>5 DEF rest
<1>6. d.m_buffer = b.m_buffer /\ d.m_write_index = b.m_write_index
  BY <1>1
<1>7. /\ IsBuffer(adjustBuffer(d))
      /\ Len(adjustBuffer(d).m_buffer) = Len(b.m_buffer)
      /\ adjustBuffer(d).m_write_index <= b.m_write_index
      /\ Readable(adjustBuffer(d)) = Readable(d)
  BY <1>4, <1>6, AdjustHolds
<1>8. writeAble(adjustBuffer(d)) > 0
  BY <1>2, <1>7, BufferFields DEF writeAble
<1> QED
  BY <1>3, <1>5, <1>7, <1>8

-----------------------------------------------------------------------------
(* Cutting a sequence in two.                                              *)

LEMMA SplitHolds ==
  ASSUME NEW S, NEW s \in Seq(S), NEW n \in 0 .. Len(s)
  PROVE  /\ SubSeq(s, 1, n) \in Seq(S)
         /\ Len(SubSeq(s, 1, n)) = n
         /\ SubSeq(s, n + 1, Len(s)) \in Seq(S)
         /\ Len(SubSeq(s, n + 1, Len(s))) = Len(s) - n
         /\ SubSeq(s, 1, n) \o SubSeq(s, n + 1, Len(s)) = s
<1> DEFINE L == Len(s)
           a == SubSeq(s, 1, n)
           b == SubSeq(s, n + 1, L)
<1>1. L \in Nat /\ n \in Nat /\ n <= L /\ \A i \in 1 .. L : s[i] \in S
  BY LenProperties, ElementOfSeq
<1>2. L = Len(s)
  OBVIOUS
<1> HIDE DEF L
<1>3. a \in Seq(S) /\ Len(a) = n /\ \A i \in 1 .. n : a[i] = s[i]
  <2>1. \A i \in 1 .. n : s[i] \in S
    BY <1>1
  <2>2. /\ a \in Seq(S)
        /\ Len(a) = IF 1 <= n THEN n - 1 + 1 ELSE 0
        /\ \A i \in 1 .. n - 1 + 1 : a[i] = s[1 + i - 1]
    BY <1>1, <2>1, SubSeqProperties
  <2> HIDE DEF a
  <2> QED
    BY <1>1, <2>2
<1>4. b \in Seq(S) /\ Len(b) = L - n /\ \A i \in 1 .. L - n : b[i] = s[n + i]
  <2>1. \A i \in n + 1 .. L : s[i] \in S
    BY <1>1
  <2>2. n + 1 \in Int /\ L \in Int
    BY <1>1
  <2>3. /\ b \in Seq(S)
        /\ Len(b) = IF n + 1 <= L THEN L - (n + 1) + 1 ELSE 0
        /\ \A i \in 1 .. L - (n + 1) + 1 : b[i] = s[(n + 1) + i - 1]
    BY <2>1, <2>2, SubSeqProperties
  <2> HIDE DEF b
  <2>4. ASSUME NEW i \in 1 .. L - n PROVE b[i] = s[n + i]
    <3>1. i \in 1 .. L - (n + 1) + 1 /\ (n + 1) + i - 1 = n + i
      BY <1>1
    <3> QED
      BY <2>3, <3>1
  <2> QED
    BY <1>1, <2>3, <2>4
<1> HIDE DEF a, b
<1>5. /\ a \o b \in Seq(S)
      /\ Len(a \o b) = L
      /\ \A i \in 1 .. L : (a \o b)[i] = IF i <= n THEN a[i] ELSE b[i - n]
  <2>1. /\ a \o b \in Seq(S)
        /\ Len(a \o b) = Len(a) + Len(b)
        /\ \A i \in 1 .. Len(a) + Len(b) : (a \o b)[i] = IF i <= Len(a) THEN a[i] ELSE b[i - Len(a)]
    BY <1>3, <1>4, ConcatProperties
  <2> QED
    BY <1>1, <1>3, <1>4, <2>1, SMTT(30)
<1> DEFINE ab == a \o b
<1>6. ab = s
  <2>1. \A i \in 1 .. L : ab[i] = s[i]
    <3> SUFFICES ASSUME NEW i \in 1 .. L PROVE ab[i] = s[i]
      OBVIOUS
    <3>1. CASE i <= n
      BY <1>1, <1>3, <1>5, <3>1
    <3>2. CASE ~ (i <= n)
      <4>1. i - n \in 1 .. L - n /\ n + (i - n) = i
        BY <1>1, <3>2
      <4> QED
        BY <1>4, <1>5, <3>2, <4>1
    <3> QED
      BY <3>1, <3>2
  <2>2. ab \in Seq(S) /\ Len(ab) = Len(s)
    BY <1>2, <1>5
  <2> HIDE DEF ab
  <2> QED
    BY <1>2, <2>1, <2>2, SeqEqual
<1> QED
  BY <1>1, <1>3, <1>4, <1>6 DEF a, b, L

LEMMA Associative == \A p, q, r \in Seq(Byte) : (p \o q) \o r = p \o (q \o r)
<1> SUFFICES ASSUME NEW p \in Seq(Byte), NEW q \in Seq(Byte), NEW r \in Seq(Byte)
             PROVE  (p \o q) \o r = p \o (q \o r)
  OBVIOUS
<1> QED
  BY ConcatAssociative, SMTT(30)

-----------------------------------------------------------------------------
(* decode.                                                                 *)

\* A frame of n bytes between read index r and write index w of l bytes.
LEMMA FrameRange ==
  ASSUME NEW r \in Nat, NEW w \in Nat, NEW l \in Nat, r <= w, w <= l, NEW i \in r .. w - 2
  PROVE  /\ i \in Nat /\ i + 2 \in 1 .. l
         /\ \A n \in Nat : i + n - 1 < w =>
              /\ n \in 0 .. w - r
              /\ \A k \in i + 3 .. i + n - 1 : k \in 1 .. l
OBVIOUS

\* What decode takes is in the buffer, and a message found there fits a frame.
LEMMA FrameHolds ==
  ASSUME NEW b, IsBuffer(b), FrameStarts(b) # {}
  PROVE  /\ pk_len(b) \in 0 .. readAble(b)
         /\ Message(b) \in Seq(Byte)
         /\ Message(b) # <<>> => Len(Message(b)) + 3 \in Byte
<1> DEFINE i == FrameStart(b)
           n == pk_len(b)
<1>1. i \in FrameStarts(b)
  <2>1. FrameStarts(b) \subseteq Nat
    BY BufferFields DEF FrameStarts
  <2>2. \E s \in FrameStarts(b) : \A k \in FrameStarts(b) : s <= k
    BY <2>1, LeastNatural
  <2> QED
    BY <2>2 DEF FrameStart
<1>2. /\ i \in b.m_read_index .. b.m_write_index - 2
      /\ i + n - 1 < b.m_write_index
      /\ n = b.m_buffer[i + 2]
  <2>1. n = At(b, i + 1)
    BY DEF pk_len
  <2>2. i + 1 + 1 = i + 2
    BY <1>1, BufferFields DEF FrameStarts
  <2> QED
    BY <1>1, <2>1, <2>2 DEF FrameStarts, At
<1> HIDE DEF i, n
<1>a. /\ b.m_buffer \in Seq(Byte) /\ Len(b.m_buffer) \in Nat
      /\ b.m_read_index \in Nat /\ b.m_write_index \in Nat
      /\ b.m_read_index <= b.m_write_index /\ b.m_write_index <= Len(b.m_buffer)
  BY BufferFields
<1>b. /\ i \in Nat /\ i + 2 \in 1 .. Len(b.m_buffer)
      /\ \A p \in Nat : i + p - 1 < b.m_write_index =>
           /\ p \in 0 .. b.m_write_index - b.m_read_index
           /\ \A k \in i + 3 .. i + p - 1 : k \in 1 .. Len(b.m_buffer)
  <2>1. i \in b.m_read_index .. b.m_write_index - 2
    BY <1>2
  <2> QED
    BY <1>a, <2>1, FrameRange
<1>3. i \in Nat /\ i + 2 \in 1 .. Len(b.m_buffer)
  BY <1>b
<1>4. n \in Byte /\ n \in Nat
  <2>1. b.m_buffer[i + 2] \in Byte
    BY <1>a, <1>b, ElementOfSeq
  <2> QED
    BY <1>2, <2>1, ByteAssumption
<1>5. n \in 0 .. readAble(b)
  BY <1>2, <1>4, <1>b DEF readAble
<1> DEFINE m == SubSeq(b.m_buffer, i + 3, i + n - 1)
<1>6. Message(b) = m
  BY DEF Message, i, n
<1>7. /\ m \in Seq(Byte)
      /\ Len(m) = IF i + 3 <= i + n - 1 THEN (i + n - 1) - (i + 3) + 1 ELSE 0
  <2>1. \A k \in i + 3 .. i + n - 1 : b.m_buffer[k] \in Byte
    <3> SUFFICES ASSUME NEW k \in i + 3 .. i + n - 1 PROVE b.m_buffer[k] \in Byte
      OBVIOUS
    <3>1. k \in 1 .. Len(b.m_buffer)
      BY <1>2, <1>4, <1>b
    <3> QED
      BY <3>1, <1>a, ElementOfSeq
  <2>2. i + 3 \in Int /\ i + n - 1 \in Int
    BY <1>3, <1>4
  <2> QED
    BY <2>1, <2>2, SubSeqProperties
<1> HIDE DEF m
<1>8. m # <<>> => Len(m) + 3 = n
  <2>1. m # <<>> => Len(m) # 0
    BY <1>7, EmptySeq
  <2> QED
    BY <1>3, <1>4, <1>7, <2>1
<1> QED
  BY <1>4, <1>5, <1>6, <1>7, <1>8 DEF n

-----------------------------------------------------------------------------
(* The types and the size of the in buffers.                               *)

\* The messages that fit a frame.
Fitting == {m \in Seq(Byte) \ {<<>>} : Len(m) + 3 \in Byte}

\* The inductive invariant, in three parts: TypeOK with the messages an end holds
\* fitting a frame, so that the out buffer keeps its bytes, and the in buffers'
\* room, which moveReadIndex needs not to drop what it is given.
Plain ==
  /\ m_state \in [End -> {"Connected", "HalfClosing", "Closed"}]
  /\ listening \in [End -> SUBSET {"in", "out"}]
  /\ pc \in [End -> {"idle", "read", "decode", "answer", "encode", "write"}]
  /\ m_write_dones \in Seq(Messages)
  /\ m_read_dones \subseteq Byte
  /\ stream \in [End -> Seq(Byte)]
  /\ ended \subseteq {"client"}
  /\ sent \in Seq(Messages)
  /\ handled \in Seq(Seq(Byte))
  /\ answered \in Seq(Seq(Byte))
  /\ taken \in [End -> Nat]
  /\ writes \in 0 .. MaxWrites
  /\ messages \in [End -> Seq(Fitting)]

InBuffers ==
  /\ m_in_buffer = [x \in End |-> m_in_buffer[x]]
  /\ \A x \in End : /\ IsBuffer(m_in_buffer[x])
                    /\ writeAble(m_in_buffer[x]) > 0
                    /\ Len(m_in_buffer[x].m_buffer) = BufferSize

OutBuffers ==
  /\ m_out_buffer = [x \in End |-> m_out_buffer[x]]
  /\ \A x \in End : IsBuffer(m_out_buffer[x])

Inv == Plain /\ InBuffers /\ OutBuffers

LEMMA FittingHolds ==
  /\ Fitting \subseteq Seq(Byte) \ {<<>>}
  /\ Messages \subseteq Fitting
  /\ \A m \in Fitting : /\ msg_id(m) \in Byte
                        /\ dispatch(m) \in Fitting
                        /\ encodeTinyPB(m) \in Seq(Byte)
<1>1. Fitting \subseteq Seq(Byte) \ {<<>>}
  BY DEF Fitting
<1>2. Messages \subseteq Fitting
  BY ConnectionAssumption DEF Fitting
<1>3. ASSUME NEW m \in Fitting
      PROVE  /\ msg_id(m) \in Byte
             /\ dispatch(m) \in Fitting
             /\ encodeTinyPB(m) \in Seq(Byte)
  <2>1. m \in Seq(Byte) /\ m # <<>> /\ Len(m) + 3 \in Byte
    BY DEF Fitting
  <2>2. msg_id(m) \in Byte
    <3>1. Len(m) \in Nat \ {0}
      BY <2>1, EmptySeq
    <3> QED
      BY <2>1, <3>1, ElementOfSeq DEF msg_id
  <2>3. dispatch(m) \in Fitting
    <3>1. CASE m \in Messages
      BY <3>1, ConnectionAssumption DEF dispatch, Fitting
    <3>2. CASE m \notin Messages
      <4>1. <<msg_id(m)>> \in Seq(Byte) /\ Len(<<msg_id(m)>>) = 1 /\ <<msg_id(m)>> # <<>>
        BY <2>2
      <4>2. 1 + 3 \in Byte
        BY ConnectionAssumption
      <4>3. dispatch(m) = <<msg_id(m)>>
        BY <3>2 DEF dispatch
      <4> HIDE DEF msg_id, dispatch
      <4> QED
        BY <4>1, <4>2, <4>3 DEF Fitting
    <3> QED
      BY <3>1, <3>2
  <2>4. encodeTinyPB(m) \in Seq(Byte)
    <3>1. PB_START \in Byte /\ PB_END \in Byte
      BY ConnectionAssumption
    <3>2. <<PB_START, Len(m) + 3>> \in Seq(Byte) /\ <<PB_END>> \in Seq(Byte)
      BY <2>1, <3>1
    <3> HIDE DEF PB_START, PB_END
    <3>3. <<PB_START, Len(m) + 3>> \o m \in Seq(Byte)
      BY <2>1, <3>2, ConcatProperties
    <3> QED
      BY <3>2, <3>3, ConcatProperties DEF encodeTinyPB
  <2> QED
    BY <2>2, <2>3, <2>4
<1> QED
  BY <1>1, <1>2, <1>3

\* One buffer of a pair replaced.
LEMMA UpdateBuffer ==
  ASSUME NEW f, f = [x \in End |-> f[x]], NEW y \in End, NEW v,
         NEW g, g = [f EXCEPT ![y] = v]
  PROVE  /\ g = [x \in End |-> g[x]]
         /\ g[y] = v
         /\ \A x \in End : x # y => g[x] = f[x]
OBVIOUS

LEMMA InvImplies == Inv => TypeOK /\ InBufferNeverGrows
<1> SUFFICES ASSUME Inv PROVE TypeOK /\ InBufferNeverGrows
  OBVIOUS
<1>1. messages \in [End -> Seq(Seq(Byte) \ {<<>>})]
  <2>1. Fitting \subseteq Seq(Byte) \ {<<>>}
    BY FittingHolds
  <2>2. \A s \in Seq(Fitting) : s \in Seq(Seq(Byte) \ {<<>>})
    BY <2>1, SeqMonotonic
  <2> QED
    BY <2>2 DEF Inv, Plain
<1> QED
  BY <1>1 DEF Inv, TypeOK, InBufferNeverGrows, Plain, InBuffers, OutBuffers

LEMMA InitHolds == Init => Inv
<1> SUFFICES ASSUME Init PROVE Inv
  OBVIOUS
<1>1. BufferSize \in Nat \ {0}
  BY ConnectionAssumption
<1>2. /\ IsBuffer(NewBuffer(BufferSize))
      /\ Len(NewBuffer(BufferSize).m_buffer) = BufferSize
      /\ writeAble(NewBuffer(BufferSize)) > 0
  BY <1>1, NewBufferHolds DEF writeAble
<1>3. \A S : <<>> \in Seq(S)
  BY EmptySeq
<1>4. 0 \in Nat /\ 0 \in 0 .. MaxWrites
  BY ConnectionAssumption
<1>5. Plain
  BY <1>3, <1>4 DEF Init, Plain
<1>6. InBuffers /\ OutBuffers
  BY <1>2 DEF Init, InBuffers, OutBuffers
<1> QED
  BY <1>5, <1>6 DEF Inv

\* A read appends what it took off the stream, unless it fills the buffer.
LEMMA ReadHolds ==
  ASSUME Inv, NEW x \in End, NEW n \in 1 .. Len(stream[x]), Read(x, n)
  PROVE  /\ InBuffers'
         /\ stream' \in [End -> Seq(Byte)]
         /\ \A y \in End : y # x => m_in_buffer'[y] = m_in_buffer[y] /\ stream'[y] = stream[y]
         /\ n \in 1 .. writeAble(m_in_buffer[x])
         /\ n < writeAble(m_in_buffer[x]) =>
              Readable(m_in_buffer'[x]) \o stream'[x] = Readable(m_in_buffer[x]) \o stream[x]
<1> DEFINE b == m_in_buffer[x]
           s == SubSeq(stream[x], 1, n)
           t == SubSeq(stream[x], n + 1, Len(stream[x]))
           c == moveWriteIndex(Store(b, s), n)
<1>1. /\ IsBuffer(b)
      /\ writeAble(b) > 0
      /\ Len(b.m_buffer) = BufferSize
      /\ stream[x] \in Seq(Byte)
      /\ m_in_buffer = [y \in End |-> m_in_buffer[y]]
      /\ stream \in [End -> Seq(Byte)]
  BY DEF Inv, InBuffers, Plain
<1>2. writeAble(b) \in Nat /\ Len(stream[x]) \in Nat
  BY <1>1, BufferFields, LenProperties DEF writeAble
<1>3. /\ n \in 1 .. writeAble(b)
      /\ m_in_buffer' = [m_in_buffer EXCEPT ![x] = c]
      /\ stream' = [stream EXCEPT ![x] = t]
  <2>1. ~ (writeAble(m_in_buffer[x]) = 0)
    BY <1>1
  <2> QED
    BY <1>2, <2>1 DEF Read
<1>4. s \in Seq(Byte) /\ Len(s) = n /\ t \in Seq(Byte) /\ s \o t = stream[x]
  <2>1. n \in 0 .. Len(stream[x])
    BY <1>2
  <2> QED
    BY <1>1, <2>1, SplitHolds
<1> HIDE DEF s, t
<1>5. /\ IsBuffer(c)
      /\ Len(c.m_buffer) = Len(b.m_buffer)
      /\ writeAble(b) > 0 => writeAble(c) > 0
      /\ n < writeAble(b) => Readable(c) = Readable(b) \o s
  <2>1. Len(s) <= writeAble(b) /\ c = moveWriteIndex(Store(b, s), Len(s))
    BY <1>2, <1>3, <1>4
  <2> HIDE DEF b, c
  <2> QED
    BY <1>1, <1>4, <2>1, MoveWriteHolds
<1> HIDE DEF b, c
<1>6. n < writeAble(b) => Readable(c) \o t = Readable(b) \o stream[x]
  <2>1. Readable(b) \in Seq(Byte)
    BY <1>1, BufferFields
  <2>2. (Readable(b) \o s) \o t = Readable(b) \o (s \o t)
    <3>1. s \in Seq(Byte) /\ t \in Seq(Byte)
      BY <1>4
    <3> QED
      BY <2>1, <3>1, Associative
  <2> QED
    BY <1>4, <1>5, <2>2
<1>7. stream' \in [End -> Seq(Byte)] /\ stream'[x] = t
  BY <1>1, <1>3, <1>4
<1>8. /\ m_in_buffer' = [y \in End |-> m_in_buffer'[y]]
      /\ m_in_buffer'[x] = c
      /\ \A y \in End : y # x => m_in_buffer'[y] = m_in_buffer[y] /\ stream'[y] = stream[y]
  BY <1>1, <1>3, UpdateBuffer
<1>9. InBuffers'
  BY <1>1, <1>5, <1>8 DEF InBuffers, Inv, b
<1> QED
  BY <1>3, <1>6, <1>7, <1>8, <1>9 DEF b

\* Decoding takes as many bytes as the frame has off the front.
LEMMA DecodeHolds ==
  ASSUME Inv, NEW x \in End, DecodeFrame(x)
  PROVE  /\ InBuffers'
         /\ messages' \in [End -> Seq(Fitting)]
         /\ taken' \in [End -> Nat]
         /\ \A y \in End : y # x => m_in_buffer'[y] = m_in_buffer[y] /\ taken'[y] = taken[y]
         /\ LET b == m_in_buffer[x]
            IN  /\ pk_len(b) \in 0 .. readAble(b)
                /\ Readable(m_in_buffer'[x]) = SubSeq(Readable(b), pk_len(b) + 1, readAble(b))
                /\ taken'[x] = taken[x] + pk_len(b)
<1> DEFINE b == m_in_buffer[x]
           n == pk_len(b)
           m == Message(b)
           c == moveReadIndex(b, n)
<1>1. /\ IsBuffer(b)
      /\ writeAble(b) > 0
      /\ Len(b.m_buffer) = BufferSize
      /\ m_in_buffer = [y \in End |-> m_in_buffer[y]]
      /\ messages \in [End -> Seq(Fitting)]
      /\ taken \in [End -> Nat]
  BY DEF Inv, InBuffers, Plain
<1>2. /\ n \in 0 .. readAble(b)
      /\ m # <<>> => m \in Fitting
  BY <1>1, FrameHolds DEF DecodeFrame, Fitting
<1>3. /\ m_in_buffer' = [m_in_buffer EXCEPT ![x] = c]
      /\ messages' = [messages EXCEPT ![x] = IF m = <<>> THEN @ ELSE Append(@, m)]
      /\ taken' = [taken EXCEPT ![x] = @ + n]
  BY DEF DecodeFrame
<1>4. /\ IsBuffer(c)
      /\ Len(c.m_buffer) = Len(b.m_buffer)
      /\ writeAble(c) > 0
      /\ Readable(c) = SubSeq(Readable(b), n + 1, readAble(b))
  BY <1>1, <1>2, MoveReadHolds
<1>5. n \in Nat
  BY <1>1, <1>2, BufferFields
<1> HIDE DEF b, n, m, c
<1>6. /\ m_in_buffer' = [y \in End |-> m_in_buffer'[y]]
      /\ m_in_buffer'[x] = c
      /\ \A y \in End : y # x => m_in_buffer'[y] = m_in_buffer[y]
  BY <1>1, <1>3, UpdateBuffer
<1>7. InBuffers'
  BY <1>1, <1>4, <1>6 DEF InBuffers, Inv, b
<1>8. messages' \in [End -> Seq(Fitting)]
  <2>1. messages[x] \in Seq(Fitting)
    BY <1>1
  <2>2. m # <<>> => Append(messages[x], m) \in Seq(Fitting)
    BY <1>2, <2>1, AppendProperties
  <2> QED
    BY <1>1, <1>3, <2>1, <2>2
<1>9. /\ taken' \in [End -> Nat]
      /\ taken'[x] = taken[x] + n
      /\ \A y \in End : y # x => taken'[y] = taken[y]
  BY <1>1, <1>3, <1>5
<1> QED
  BY <1>2, <1>4, <1>6, <1>7, <1>8, <1>9 DEF b, n

\* What leaves the buffers and the messages alone keeps them.
LEMMA SameBuffers ==
  /\ InBuffers /\ UNCHANGED m_in_buffer => InBuffers'
  /\ OutBuffers /\ UNCHANGED m_out_buffer => OutBuffers'
BY DEF InBuffers, OutBuffers

LEMMA FinishHolds ==
  ASSUME Plain, NEW x \in End, NEW b \in BOOLEAN, Finish(x, b)
  PROVE  /\ pc' \in [End -> {"idle", "read", "decode", "answer", "encode", "write"}]
         /\ listening' \in [End -> SUBSET {"in", "out"}]
         /\ m_write_dones' \in Seq(Messages)
         /\ m_read_dones' \subseteq Byte
<1>1. /\ pc' \in [End -> {"idle", "read", "decode", "answer", "encode", "write"}]
      /\ listening' \in [End -> SUBSET {"in", "out"}]
  BY DEF Plain, Finish, Goto
<1>2. m_write_dones' \in Seq(Messages)
  BY EmptySeq DEF Plain, Finish, dones
<1>3. m_read_dones' \subseteq Byte
  <2>1. \A m \in Range(m_write_dones) : msg_id(m) \in Byte
    <3> SUFFICES ASSUME NEW i \in DOMAIN m_write_dones
                 PROVE  msg_id(m_write_dones[i]) \in Byte
      BY DEF Range
    <3>1. m_write_dones[i] \in Messages
      BY ElementOfSeq, LenProperties DEF Plain
    <3> QED
      BY <3>1, FittingHolds
  <2>2. {msg_id(m) : m \in Range(m_write_dones)} \subseteq Byte
    BY <2>1
  <2>3. CASE x = "client"
    BY <2>2, <2>3 DEF Plain, Finish
  <2>4. CASE x # "client"
    BY <2>4 DEF Plain, Finish, dones
  <2> QED
    BY <2>3, <2>4
<1> QED
  BY <1>1, <1>2, <1>3

\* write(2) moves a part of what the out buffer holds.
LEMMA WriteHolds ==
  ASSUME Inv, NEW x \in End, Write(x)
  PROVE  \E part \in Seq(Byte) :
           /\ part # <<>>
           /\ stream' = [stream EXCEPT ![Peer(x)] = IF Peer(x) \in ended THEN @ ELSE @ \o part]
<1> DEFINE data == Readable(m_out_buffer[x])
           n == IF Len(data) < Room(x) THEN Len(data) ELSE Room(x)
           part == SubSeq(data, 1, n)
<1>0. Plain /\ OutBuffers
  BY DEF Inv
<1>1. /\ n > 0
      /\ stream' = [stream EXCEPT ![Peer(x)] = IF Peer(x) \in ended THEN @ ELSE @ \o part]
  BY DEF Write
<1>2. data \in Seq(Byte) /\ Len(data) \in Nat
  BY <1>0, BufferFields, LenProperties DEF OutBuffers
<1>3. Room(x) \in Int
  <2>1. Peer(x) \in End
    BY DEF Peer, End
  <2>2. Len(stream[Peer(x)]) \in Nat /\ Capacity \in Nat
    BY <1>0, <2>1, LenProperties, ConnectionAssumption DEF Plain
  <2> QED
    BY <2>2 DEF Room
<1> HIDE DEF data
<1>4. n \in 1 .. Len(data)
  BY <1>1, <1>2, <1>3
<1> HIDE DEF n
<1>5. part \in Seq(Byte) /\ Len(part) = n
  <2>1. n \in 0 .. Len(data)
    BY <1>2, <1>4
  <2> QED
    BY <1>2, <2>1, SplitHolds
<1> HIDE DEF part
<1>6. part # <<>>
  BY <1>2, <1>4, <1>5, EmptySeq
<1> QED
  BY <1>1, <1>5, <1>6

LEMMA StepHolds == Inv /\ [Next]_vars => Inv'
<1> SUFFICES ASSUME Inv, [Next]_vars PROVE Inv'
  OBVIOUS
<1> USE SameBuffers DEF Goto, Listen, buffers, dones, history
<1>0. Plain /\ InBuffers /\ OutBuffers
  BY DEF Inv
<1>1. ASSUME NEW m \in Messages, writeMessage(m) PROVE Inv'
  <2>1. sent' \in Seq(Messages) /\ m_write_dones' \in Seq(Messages)
    BY <1>0, <1>1, AppendProperties DEF Plain, writeMessage
  <2>2. Plain'
    BY <1>0, <1>1, <2>1 DEF Plain, writeMessage, End
  <2> QED
    BY <1>0, <1>1, <2>2 DEF Inv, writeMessage
<1>2. CASE shutdown
  BY <1>0, <1>2 DEF Inv, Plain, shutdown
<1>3. ASSUME NEW x \in End, Loop(x) PROVE Inv'
  <2>1. CASE OnRead(x) \/ ReadNothing(x)
    BY <1>0, <2>1 DEF Inv, Plain, OnRead, ReadNothing
  <2>2. CASE ReadEnd(x)
    BY <1>0, <2>2 DEF Inv, Plain, ReadEnd
  <2>3. ASSUME NEW n \in 1 .. Len(stream[x]), Read(x, n) PROVE Inv'
    <3>1. InBuffers' /\ stream' \in [End -> Seq(Byte)]
      BY <2>3, ReadHolds
    <3>2. Plain'
      BY <1>0, <2>3, <3>1 DEF Plain, Read
    <3> QED
      BY <1>0, <2>3, <3>1, <3>2 DEF Inv, Read
  <2>4. CASE DecodeFrame(x)
    <3>1. InBuffers' /\ messages' \in [End -> Seq(Fitting)] /\ taken' \in [End -> Nat]
      BY <2>4, DecodeHolds
    <3>2. Plain'
      BY <1>0, <2>4, <3>1 DEF Plain, DecodeFrame
    <3> QED
      BY <1>0, <2>4, <3>1, <3>2 DEF Inv, DecodeFrame
  <2>5. CASE excuteRequests
    <3> DEFINE s == messages["server"]
               t == [i \in DOMAIN s |-> dispatch(s[i])]
    <3>1. s \in Seq(Fitting) /\ Len(s) \in Nat /\ DOMAIN s = 1 .. Len(s)
      BY <1>0, LenProperties DEF Plain, End
    <3>2. \A i \in 1 .. Len(s) : dispatch(s[i]) \in Fitting
      BY <3>1, ElementOfSeq, FittingHolds
    <3>3. t \in Seq(Fitting)
      <4>1. t \in [1 .. Len(s) -> Fitting]
        BY <3>1, <3>2
      <4> QED
        BY <3>1, <4>1, SeqDef
    <3>4. s \in Seq(Seq(Byte))
      <4>1. Fitting \subseteq Seq(Byte)
        BY FittingHolds
      <4> QED
        BY <3>1, <4>1, SeqMonotonic
    <3>5. handled' \in Seq(Seq(Byte))
      <4>1. handled \in Seq(Seq(Byte)) /\ handled' = handled \o s
        BY <1>0, <2>5 DEF Plain, excuteRequests
      <4> QED
        BY <3>4, <4>1, ConcatProperties
    <3>6. messages' = [messages EXCEPT !["server"] = t]
      BY <2>5 DEF excuteRequests
    <3> HIDE DEF s, t
    <3>7. messages' \in [End -> Seq(Fitting)]
      BY <1>0, <3>3, <3>6 DEF Plain
    <3>8. Plain'
      BY <1>0, <2>5, <3>5, <3>7 DEF Plain, excuteRequests
    <3> QED
      BY <1>0, <2>5, <3>8 DEF Inv, excuteRequests
  <2>6. CASE excuteReplies \/ Answered
    BY <1>0, <2>6 DEF Inv, Plain, excuteReplies, Answered
  <2>7. CASE Answer
    <3>1. messages["client"] \in Seq(Fitting) /\ messages["client"] # <<>>
      BY <1>0, <2>7 DEF Plain, End, Answer
    <3>2. /\ Head(messages["client"]) \in Fitting
          /\ Tail(messages["client"]) \in Seq(Fitting)
      BY <3>1, HeadTailProperties
    <3>3. Head(messages["client"]) \in Seq(Byte)
      BY <3>2, FittingHolds
    <3>4. answered' \in Seq(Seq(Byte))
      <4>1. answered \in Seq(Seq(Byte))
        BY <1>0 DEF Plain
      <4>2. Append(answered, Head(messages["client"])) \in Seq(Seq(Byte))
        BY <3>3, <4>1, AppendProperties
      <4> QED
        BY <2>7, <4>1, <4>2 DEF Answer
    <3>5. messages' \in [End -> Seq(Fitting)]
      BY <1>0, <2>7, <3>2 DEF Plain, Answer
    <3>6. Plain'
      BY <1>0, <2>7, <3>4, <3>5 DEF Plain, Answer
    <3> QED
      BY <1>0, <2>7, <3>6 DEF Inv, Answer
  <2>8. CASE Encode(x)
    <3> DEFINE s == encodeTinyPB(Head(messages[x]))
               c == writeToBuffer(m_out_buffer[x], s)
    <3>1. /\ Head(messages[x]) \in Fitting
          /\ Tail(messages[x]) \in Seq(Fitting)
      <4>1. messages[x] \in Seq(Fitting) /\ messages[x] # <<>>
        BY <1>0, <2>8 DEF Plain, Encode
      <4> QED
        BY <4>1, HeadTailProperties
    <3>2. s \in Seq(Byte)
      BY <3>1, FittingHolds
    <3>3. IsBuffer(c)
      <4> HIDE DEF s
      <4> QED
        BY <1>0, <3>2, WriteAppends DEF OutBuffers
    <3>4. m_out_buffer' = [m_out_buffer EXCEPT ![x] = c]
      BY <2>8 DEF Encode
    <3> HIDE DEF s, c
    <3>5. OutBuffers'
      <4>1. /\ m_out_buffer' = [y \in End |-> m_out_buffer'[y]]
            /\ m_out_buffer'[x] = c
            /\ \A y \in End : y # x => m_out_buffer'[y] = m_out_buffer[y]
        BY <1>0, <3>4, UpdateBuffer DEF OutBuffers
      <4> QED
        BY <1>0, <3>3, <4>1 DEF OutBuffers
    <3>6. messages' \in [End -> Seq(Fitting)]
      BY <1>0, <2>8, <3>1 DEF Plain, Encode
    <3>7. Plain'
      BY <1>0, <2>8, <3>6 DEF Plain, Encode
    <3> QED
      BY <1>0, <2>8, <3>5, <3>7 DEF Inv, Encode
  <2>9. CASE Encoded(x)
    <3>1. /\ pc' \in [End -> {"idle", "read", "decode", "answer", "encode", "write"}]
          /\ listening' \in [End -> SUBSET {"in", "out"}]
      <4>1. CASE x = "server"
        <5>1. /\ pc' = [pc EXCEPT ![x] = "idle"]
              /\ listening' = [listening EXCEPT ![x] = @ \cup {"out"}]
          BY <2>9, <4>1 DEF Encoded
        <5> QED
          BY <1>0, <5>1 DEF Plain
      <4>2. CASE x # "server"
        BY <1>0, <2>9, <4>2 DEF Plain, Encoded
      <4> QED
        BY <4>1, <4>2
    <3>2. Plain'
      BY <1>0, <2>9, <3>1 DEF Plain, Encoded
    <3> QED
      BY <1>0, <2>9, <3>2 DEF Inv, Encoded
  <2>10. CASE OnWrite(x)
    <3>1. m_write_dones \in Seq(Fitting)
      BY <1>0, FittingHolds, SeqMonotonic DEF Plain
    <3>2. /\ pc' \in [End -> {"idle", "read", "decode", "answer", "encode", "write"}]
          /\ messages' \in [End -> Seq(Fitting)]
      <4>1. CASE x = "client"
        <5>1. /\ pc' = [pc EXCEPT ![x] = "encode"]
              /\ messages' = [messages EXCEPT ![x] = m_write_dones]
          BY <2>10, <4>1 DEF OnWrite
        <5> QED
          BY <1>0, <3>1, <5>1 DEF Plain
      <4>2. CASE x # "client"
        BY <1>0, <2>10, <4>2 DEF Plain, OnWrite
      <4> QED
        BY <4>1, <4>2
    <3>3. Plain'
      BY <1>0, <2>10, <3>2 DEF Plain, OnWrite
    <3> QED
      BY <1>0, <2>10, <3>3 DEF Inv, OnWrite
  <2>11. CASE Write(x)
    <3> DEFINE all == Len(Readable(m_out_buffer[x]))
               n == IF all < Room(x) THEN all ELSE Room(x)
    <3>1. /\ writes < MaxWrites
          /\ writes' = writes + 1
          /\ IF n = all THEN Finish(x, TRUE) ELSE UNCHANGED <<pc, listening, dones>>
          /\ UNCHANGED <<buffers, m_state, messages, ended, history>>
      BY <2>11 DEF Write
    <3> HIDE DEF n, all
    <3>2. stream' \in [End -> Seq(Byte)]
      <4>1. PICK part \in Seq(Byte) :
              stream' = [stream EXCEPT ![Peer(x)] = IF Peer(x) \in ended THEN @ ELSE @ \o part]
        BY <2>11, WriteHolds
      <4>2. Peer(x) \in End
        BY DEF Peer, End
      <4>3. stream[Peer(x)] \o part \in Seq(Byte)
        BY <1>0, <4>2, ConcatProperties DEF Plain
      <4> QED
        BY <1>0, <4>1, <4>2, <4>3 DEF Plain
    <3>3. writes' \in 0 .. MaxWrites
      BY <1>0, <3>1, ConnectionAssumption DEF Plain
    <3>4. /\ pc' \in [End -> {"idle", "read", "decode", "answer", "encode", "write"}]
          /\ listening' \in [End -> SUBSET {"in", "out"}]
          /\ m_write_dones' \in Seq(Messages)
          /\ m_read_dones' \subseteq Byte
      <4>1. CASE n = all
        BY <1>0, <3>1, <4>1, FinishHolds
      <4>2. CASE n # all
        BY <1>0, <3>1, <4>2 DEF Plain
      <4> QED
        BY <4>1, <4>2
    <3>5. Plain'
      BY <1>0, <3>1, <3>2, <3>3, <3>4 DEF Plain
    <3> QED
      BY <1>0, <3>1, <3>5 DEF Inv
  <2>12. CASE WriteNothing(x)
    <3>1. /\ Finish(x, TRUE) \/ Finish(x, FALSE)
          /\ UNCHANGED <<buffers, m_state, messages, stream, ended, history, writes>>
      BY <2>12 DEF WriteNothing
    <3>2. /\ pc' \in [End -> {"idle", "read", "decode", "answer", "encode", "write"}]
          /\ listening' \in [End -> SUBSET {"in", "out"}]
          /\ m_write_dones' \in Seq(Messages)
          /\ m_read_dones' \subseteq Byte
      BY <1>0, <3>1, FinishHolds
    <3>3. Plain'
      BY <1>0, <3>1, <3>2 DEF Plain
    <3> QED
      BY <1>0, <3>1, <3>3 DEF Inv
  <2> QED
    BY <1>3, <2>1, <2>2, <2>3, <2>4, <2>5, <2>6, <2>7, <2>8, <2>9, <2>10, <2>11, <2>12 DEF Loop
<1>4. CASE UNCHANGED vars
  BY <1>0, <1>4 DEF Inv, Plain, vars
<1> QED
  BY <1>1, <1>2, <1>3, <1>4 DEF Next, User

\* The types hold, for every size of the buffers and of the kernel's, however the
\* bytes are cut and whatever is lost.
THEOREM TypeCorrect == SafetySpec => []TypeOK
BY InitHolds, StepHolds, InvImplies, PTL DEF SafetySpec

\* The in buffer never fills up and never grows: onRead's resizeBuffer is dead.
THEOREM InBuffersNeverGrow == SafetySpec => []InBufferNeverGrows
BY InitHolds, StepHolds, InvImplies, PTL DEF SafetySpec

-----------------------------------------------------------------------------
(* What is on its way to the server implements ByteStream.                 *)

LEMMA SuffixHolds ==
  ASSUME NEW a \in Seq(Byte), NEW u \in Seq(Byte)
  PROVE  SubSeq(a \o u, Len(a) + 1, Len(a) + Len(u)) = u
<1>1. Len(a) \in Nat /\ Len(u) \in Nat
  BY LenProperties
<1>2. CASE u = <<>>
  <2>1. Len(u) = 0
    BY <1>2, EmptySeq
  <2>2. Len(a) + 1 \in Int /\ Len(a) + Len(u) \in Int /\ Len(a) + Len(u) < Len(a) + 1
    BY <1>1, <2>1
  <2> QED
    BY <1>2, <2>2, SubSeqEmpty
<1>3. CASE u # <<>>
  <2>1. Len(u) \in Nat \ {0}
    BY <1>3, EmptySeq
  <2>2. /\ Len(a) + 1 \in Len(a) + 1 .. Len(a) + Len(u)
        /\ Len(a) + Len(u) \in Len(a) + 1 .. Len(a) + Len(u)
    BY <1>1, <2>1
  <2>3. SubSeq(a \o u, Len(a) + 1, Len(a) + Len(u))
          = SubSeq(u, (Len(a) + 1) - Len(a), (Len(a) + Len(u)) - Len(a))
    BY <2>2, SubSeqOfConcat2
  <2>4. (Len(a) + 1) - Len(a) = 1 /\ (Len(a) + Len(u)) - Len(a) = Len(u)
    BY <1>1
  <2>5. SubSeq(u, 1, Len(u)) = u
    BY SubSeqFull
  <2> QED
    BY <2>3, <2>4, <2>5
<1> QED
  BY <1>2, <1>3

LEMMA EnterHolds ==
  ASSUME NEW q \in Seq(Byte), NEW s \in Seq(Byte), s # <<>>
  PROVE  IsStrictPrefix(q, q \o s)
<1>1. Len(q) \in Nat /\ Len(s) \in Nat \ {0}
  BY LenProperties, EmptySeq
<1>2. q \o s \in Seq(Byte) /\ Len(q \o s) = Len(q) + Len(s)
  BY ConcatProperties
<1>3. SubSeq(q, 1, Len(q)) = SubSeq(q \o s, 1, Len(q))
  <2>1. CASE q = <<>>
    <3>1. Len(q) < 1 /\ Len(q) \in Int /\ 1 \in Int
      BY <2>1, EmptySeq
    <3> QED
      BY <3>1, SubSeqEmpty
  <2>2. CASE q # <<>>
    <3>1. 1 \in 1 .. Len(q) /\ Len(q) \in 1 .. Len(q)
      BY <2>2, EmptySeq
    <3> QED
      BY <3>1, SubSeqOfConcat1
  <2> QED
    BY <2>1, <2>2
<1>4. q # q \o s
  <2>1. Len(q) # Len(q \o s)
    BY <1>1, <1>2
  <2> QED
    BY <2>1
<1>5. Len(q) <= Len(q \o s)
  BY <1>1, <1>2
<1> QED
  BY <1>3, <1>4, <1>5 DEF IsStrictPrefix, IsPrefix

LEMMA TakeHolds ==
  ASSUME NEW r \in Seq(Byte), NEW s \in Seq(Byte), NEW n \in 0 .. Len(r)
  PROVE  /\ SubSeq(r, n + 1, Len(r)) \o s = SubSeq(r \o s, n + 1, Len(r \o s))
         /\ n <= Len(r \o s)
         /\ n = 0 => SubSeq(r, n + 1, Len(r)) = r
<1> DEFINE a == SubSeq(r, 1, n)
           b == SubSeq(r, n + 1, Len(r))
<1>1. /\ a \in Seq(Byte)
      /\ Len(a) = n
      /\ b \in Seq(Byte)
      /\ Len(b) = Len(r) - n
      /\ a \o b = r
  BY SplitHolds
<1>2. Len(r) \in Nat /\ Len(s) \in Nat
  BY LenProperties
<1>3. Len(r \o s) = Len(r) + Len(s)
  BY ConcatProperties
<1> HIDE DEF a, b
<1>4. (a \o b) \o s = a \o (b \o s)
  BY <1>1, Associative, ZenonT(40)
<1>5. b \o s \in Seq(Byte) /\ Len(b \o s) = Len(b) + Len(s)
  BY <1>1, ConcatProperties, ZenonT(40)
<1> DEFINE u == b \o s
<1>6. SubSeq(a \o u, Len(a) + 1, Len(a) + Len(u)) = u
  <2>1. u \in Seq(Byte)
    BY <1>5
  <2> HIDE DEF u
  <2> QED
    BY <1>1, <2>1, SuffixHolds
<1>7. Len(a) + Len(u) = Len(r \o s) /\ n <= Len(r \o s)
  BY <1>1, <1>2, <1>3, <1>5
<1>8. n = 0 => SubSeq(r, n + 1, Len(r)) = r
  BY SubSeqFull
<1> QED
  BY <1>1, <1>4, <1>6, <1>7, <1>8 DEF b

\* No read of the server fills its in buffer.
ReadFills ==
  \E n \in 1 .. Len(stream["server"]) :
    Read("server", n) /\ n = writeAble(m_in_buffer["server"])

RoomySpec == Init /\ [][Next /\ ~ ReadFills]_vars

\* The bytes on their way, as NothingLost maps them.
Way == Readable(m_in_buffer["server"]) \o stream["server"]

LEMMA WayHolds ==
  ASSUME Inv
  PROVE  /\ IsBuffer(m_in_buffer["server"])
         /\ Readable(m_in_buffer["server"]) \in Seq(Byte)
         /\ stream["server"] \in Seq(Byte)
         /\ Len(Readable(m_in_buffer["server"])) = readAble(m_in_buffer["server"])
         /\ Way \in Seq(Byte)
<1>1. "server" \in End
  BY DEF End
<1>2. IsBuffer(m_in_buffer["server"]) /\ stream["server"] \in Seq(Byte)
  BY <1>1 DEF Inv, InBuffers, Plain
<1>3. /\ Readable(m_in_buffer["server"]) \in Seq(Byte)
      /\ Len(Readable(m_in_buffer["server"])) = readAble(m_in_buffer["server"])
  BY <1>2, BufferFields
<1> QED
  BY <1>2, <1>3, ConcatProperties DEF Way

LEMMA StepImplements ==
  Inv /\ [Next /\ ~ ReadFills]_vars => [ToServer!Enter \/ ToServer!Take]_<<Way, taken["server"]>>
<1> SUFFICES ASSUME Inv, [Next /\ ~ ReadFills]_vars
             PROVE  \/ ToServer!Enter \/ ToServer!Take
                    \/ UNCHANGED <<Way, taken["server"]>>
  OBVIOUS
<1> DEFINE b == m_in_buffer["server"]
           Same == UNCHANGED <<b, stream["server"], taken["server"]>>
<1>0. "server" \in End /\ "client" \in End /\ "server" # "client"
  BY DEF End
<1>a. Same => UNCHANGED <<Way, taken["server"]>>
  BY DEF Way
<1>1. CASE UNCHANGED vars
  <2>1. Same
    BY <1>1 DEF vars
  <2> QED
    BY <1>a, <2>1
<1>2. CASE User
  <2>1. Same
    BY <1>2 DEF User, writeMessage, shutdown, buffers, history
  <2> QED
    BY <1>a, <2>1
<1>3. ASSUME NEW x \in End, Loop(x), ~ ReadFills
      PROVE  \/ ToServer!Enter \/ ToServer!Take
             \/ UNCHANGED <<Way, taken["server"]>>
  <2> USE DEF buffers, history, dones
  <2>1. CASE \/ OnRead(x) \/ ReadNothing(x) \/ ReadEnd(x)
             \/ excuteRequests \/ excuteReplies \/ Answer \/ Answered
             \/ Encode(x) \/ Encoded(x) \/ OnWrite(x) \/ WriteNothing(x)
    <3>1. Same
      BY <2>1 DEF OnRead, ReadNothing, ReadEnd, excuteRequests, excuteReplies, Answer,
                  Answered, Encode, Encoded, OnWrite, WriteNothing
    <3> QED
      BY <1>a, <3>1
  <2>2. ASSUME NEW n \in 1 .. Len(stream[x]), Read(x, n)
        PROVE  UNCHANGED <<Way, taken["server"]>>
    <3>1. taken'["server"] = taken["server"]
      BY <2>2 DEF Read
    <3>2. CASE x = "client"
      <4>1. m_in_buffer'["server"] = m_in_buffer["server"] /\ stream'["server"] = stream["server"]
        BY <1>0, <2>2, <3>2, ReadHolds
      <4> QED
        BY <3>1, <4>1 DEF Way
    <3>3. CASE x = "server"
      <4>1. n \in 1 .. writeAble(b) /\ n # writeAble(b)
        BY <1>3, <2>2, <3>3, ReadHolds DEF ReadFills
      <4>2. writeAble(b) \in Nat
        BY WayHolds, BufferFields DEF writeAble
      <4>3. n < writeAble(b)
        BY <4>1, <4>2
      <4>4. Readable(m_in_buffer'["server"]) \o stream'["server"] = Readable(b) \o stream["server"]
        BY <2>2, <3>3, <4>3, ReadHolds
      <4> QED
        BY <3>1, <4>4 DEF Way
    <3> QED
      BY <3>2, <3>3 DEF End
  <2>3. ASSUME DecodeFrame(x)
        PROVE  ToServer!Take \/ UNCHANGED <<Way, taken["server"]>>
    <3>1. stream'["server"] = stream["server"]
      BY <2>3 DEF DecodeFrame
    <3>2. CASE x = "client"
      <4>1. m_in_buffer'["server"] = m_in_buffer["server"] /\ taken'["server"] = taken["server"]
        BY <1>0, <2>3, <3>2, DecodeHolds
      <4> QED
        BY <3>1, <4>1 DEF Way
    <3>3. CASE x = "server"
      <4> DEFINE n == pk_len(b)
                 r == Readable(b)
                 s == stream["server"]
      <4>1. /\ n \in 0 .. readAble(b)
            /\ Readable(m_in_buffer'["server"]) = SubSeq(r, n + 1, readAble(b))
            /\ taken'["server"] = taken["server"] + n
        BY <2>3, <3>3, DecodeHolds
      <4>2. r \in Seq(Byte) /\ s \in Seq(Byte) /\ Len(r) = readAble(b) /\ Way = r \o s
        BY WayHolds DEF Way
      <4>3. taken["server"] \in Nat
        BY <1>0 DEF Inv, Plain
      <4>4. Way' = SubSeq(r, n + 1, Len(r)) \o s
        BY <3>1, <4>1, <4>2 DEF Way
      <4>5. n \in 0 .. Len(r)
        BY <4>1, <4>2
      <4> HIDE DEF n, r, s
      <4>6. /\ SubSeq(r, n + 1, Len(r)) \o s = SubSeq(r \o s, n + 1, Len(r \o s))
            /\ n <= Len(r \o s)
            /\ n = 0 => SubSeq(r, n + 1, Len(r)) = r
        BY <4>2, <4>5, TakeHolds
      <4>7. CASE n = 0
        <5>1. Way' = Way
          BY <4>2, <4>4, <4>6, <4>7
        <5>2. taken'["server"] = taken["server"]
          BY <4>1, <4>3, <4>7
        <5> QED
          BY <5>1, <5>2
      <4>8. CASE n # 0
        <5>1. Len(r) \in Nat /\ Len(r \o s) \in Nat
          BY <4>2, LenProperties, ConcatProperties
        <5>2. n \in 1 .. Len(Way)
          BY <4>2, <4>5, <4>6, <4>8, <5>1
        <5>3. Way' = SubSeq(Way, n + 1, Len(Way)) /\ taken'["server"] = taken["server"] + n
          BY <4>1, <4>2, <4>4, <4>6
        <5> QED
          BY <5>2, <5>3 DEF ToServer!Take, Way
      <4> QED
        BY <4>7, <4>8
    <3> QED
      BY <3>2, <3>3 DEF End
  <2>4. ASSUME Write(x)
        PROVE  ToServer!Enter \/ UNCHANGED <<Way, taken["server"]>>
    <3>1. m_in_buffer'["server"] = m_in_buffer["server"] /\ taken'["server"] = taken["server"]
      BY <2>4 DEF Write
    <3>2. PICK part \in Seq(Byte) :
            /\ part # <<>>
            /\ stream' = [stream EXCEPT ![Peer(x)] = IF Peer(x) \in ended THEN @ ELSE @ \o part]
      BY <2>4, WriteHolds
    <3>3. stream \in [End -> Seq(Byte)]
      BY DEF Inv, Plain
    <3>4. CASE x = "client" /\ "server" \notin ended
      <4>1. stream'["server"] = stream["server"] \o part
        BY <1>0, <3>2, <3>3, <3>4 DEF Peer
      <4>2. Way' = Way \o part
        <5> DEFINE r == Readable(m_in_buffer["server"])
                   s == stream["server"]
        <5>1. r \in Seq(Byte) /\ s \in Seq(Byte) /\ Way = r \o s
          BY WayHolds DEF Way
        <5>2. Way' = r \o (s \o part)
          BY <3>1, <4>1 DEF Way
        <5> HIDE DEF r, s
        <5> QED
          BY <5>1, <5>2, Associative
      <4>3. IsStrictPrefix(Way, Way \o part)
        BY <3>2, WayHolds, EnterHolds
      <4> QED
        <5>1. IsStrictPrefix(Way, Way')
          BY <4>2, <4>3
        <5> QED
          BY <3>1, <5>1 DEF ToServer!Enter, ToServer!IsStrictPrefix, ToServer!IsPrefix,
                            IsStrictPrefix, IsPrefix, Way
    <3>5. CASE ~ (x = "client" /\ "server" \notin ended)
      <4>1. stream'["server"] = stream["server"]
        BY <1>0, <3>2, <3>3, <3>5 DEF Peer, End
      <4> QED
        BY <3>1, <4>1 DEF Way
    <3> QED
      BY <3>4, <3>5
  <2> QED
    BY <1>3, <2>1, <2>2, <2>3, <2>4 DEF Loop
<1> QED
  BY <1>1, <1>2, <1>3 DEF Next

\* Unless a read of the server fills its in buffer, nothing of what the client writes
\* is lost, changed or repeated before decode takes it.
THEOREM NothingLostUnlessFilled == RoomySpec => NothingLost
<1>1. Init => ToServer!Init
  <2> SUFFICES ASSUME Init PROVE Way = <<>> /\ taken["server"] = 0
    BY DEF ToServer!Init, Way
  <2>1. Readable(NewBuffer(BufferSize)) = <<>>
    BY ConnectionAssumption, NewBufferHolds
  <2>2. Readable(m_in_buffer["server"]) = <<>> /\ stream["server"] = <<>> /\ taken["server"] = 0
    BY <2>1 DEF Init, End
  <2>3. <<>> \o <<>> = <<>>
    OBVIOUS
  <2> QED
    BY <2>2, <2>3 DEF Way
<1>2. Inv /\ [Next /\ ~ ReadFills]_vars => Inv'
  BY StepHolds
<1> QED
  BY <1>1, <1>2, InitHolds, StepImplements, PTL DEF RoomySpec, NothingLost, ToServer!Spec, Way

-----------------------------------------------------------------------------
(* The frame of one message, whole and torn.                               *)

LEMMA FrameBytes ==
  ASSUME NEW m \in Fitting, NEW s, s = encodeTinyPB(m)
  PROVE  /\ s \in Seq(Byte)
         /\ Len(m) \in Nat \ {0}
         /\ Len(s) = Len(m) + 3
         /\ s[1] = PB_START /\ s[2] = Len(m) + 3 /\ s[Len(m) + 3] = PB_END
         /\ \A i \in 1 .. Len(m) : s[i + 2] = m[i]
<1> DEFINE a == <<PB_START, Len(m) + 3>>
           z == <<PB_END>>
           k == Len(m)
<1>1. m \in Seq(Byte) /\ k \in Nat \ {0} /\ k + 3 \in Byte
  BY LenProperties, EmptySeq DEF Fitting
<1>2. /\ a \in Seq(Byte) /\ Len(a) = 2 /\ a[1] = PB_START /\ a[2] = k + 3
      /\ z \in Seq(Byte) /\ Len(z) = 1 /\ z[1] = PB_END
  BY <1>1, ConnectionAssumption
<1>3. s = (a \o m) \o z
  BY DEF encodeTinyPB
<1> HIDE DEF a, z
<1> DEFINE am == a \o m
           amz == am \o z
<1>4. /\ am \in Seq(Byte)
      /\ Len(am) = Len(a) + Len(m)
      /\ \A i \in 1 .. Len(a) + Len(m) : am[i] = IF i <= Len(a) THEN a[i] ELSE m[i - Len(a)]
  BY <1>1, <1>2, ConcatProperties
<1> HIDE DEF am
<1>5. /\ amz \in Seq(Byte)
      /\ Len(amz) = Len(am) + Len(z)
      /\ \A i \in 1 .. Len(am) + Len(z) : amz[i] = IF i <= Len(am) THEN am[i] ELSE z[i - Len(am)]
  <2>1. am \in Seq(Byte) /\ z \in Seq(Byte)
    BY <1>2, <1>4
  <2> QED
    BY <2>1, ConcatProperties
<1> HIDE DEF amz
<1>6. s = amz
  BY <1>3 DEF am, amz
<1>a. Len(m) = k
  OBVIOUS
<1> HIDE DEF k
<1>7. /\ am[1] = PB_START /\ am[2] = k + 3
      /\ \A i \in 1 .. k : am[i + 2] = m[i]
  <2>1. ASSUME NEW i \in 1 .. k PROVE am[i + 2] = m[i]
    <3>1. i + 2 \in 1 .. 2 + k /\ ~ (i + 2 <= 2) /\ (i + 2) - 2 = i
      BY <1>1
    <3> QED
      BY <1>2, <1>4, <1>a, <3>1
  <2>2. 1 \in 1 .. 2 + k /\ 2 \in 1 .. 2 + k /\ 1 <= 2 /\ 2 <= 2
    BY <1>1
  <2>3. am[1] = a[1] /\ am[2] = a[2]
    BY <1>2, <1>4, <1>a, <2>2
  <2> QED
    BY <1>2, <2>1, <2>3
<1>8. Len(amz) = k + 3 /\ Len(am) = k + 2
  BY <1>1, <1>2, <1>4, <1>5, <1>a
<1>9. \A i \in 1 .. k + 2 : amz[i] = am[i]
  BY <1>1, <1>2, <1>5, <1>8
<1>10. amz[k + 3] = PB_END
  <2>1. k + 3 \in 1 .. (k + 2) + 1 /\ ~ (k + 3 <= k + 2) /\ (k + 3) - (k + 2) = 1
    BY <1>1
  <2> QED
    BY <1>2, <1>5, <1>8, <2>1
<1>11. amz[1] = PB_START /\ amz[2] = k + 3 /\ \A i \in 1 .. k : amz[i + 2] = m[i]
  <2>1. 1 \in 1 .. k + 2 /\ 2 \in 1 .. k + 2 /\ \A i \in 1 .. k : i + 2 \in 1 .. k + 2
    BY <1>1
  <2> QED
    BY <1>7, <1>9, <2>1
<1> QED
  BY <1>1, <1>5, <1>6, <1>8, <1>10, <1>11, <1>a

\* What decode looks at, in terms of what the buffer holds.
LEMMA ReadableAt ==
  ASSUME NEW b, IsBuffer(b), NEW k \in 0 .. readAble(b) - 1
  PROVE  At(b, b.m_read_index + k) = Readable(b)[k + 1]
<1>1. readAble(b) \in Nat /\ b.m_read_index \in Nat
  BY BufferFields
<1>2. k + 1 \in 1 .. readAble(b) /\ b.m_read_index + (k + 1) = b.m_read_index + k + 1
  BY <1>1
<1> QED
  BY <1>2, BufferFields DEF At

\* decode finds nothing in an empty buffer, ...
LEMMA NothingDecoded ==
  ASSUME NEW b, IsBuffer(b)
  PROVE  /\ readAble(b) = 0 => FrameStarts(b) = {}
         /\ b.m_write_index = 0 => readAble(b) = 0
         /\ readAble(b) = 0 <=> Readable(b) = <<>>
<1>1. /\ b.m_read_index \in Nat /\ b.m_write_index \in Nat /\ b.m_read_index <= b.m_write_index
      /\ Readable(b) \in Seq(Byte) /\ Len(Readable(b)) = readAble(b)
  BY BufferFields
<1>2. readAble(b) = 0 => FrameStarts(b) = {}
  BY <1>1 DEF readAble, FrameStarts
<1>3. readAble(b) = 0 <=> Readable(b) = <<>>
  BY <1>1, EmptySeq
<1> QED
  BY <1>1, <1>2, <1>3 DEF readAble

\* ... takes the frame at the front of it, whatever is behind, ...
LEMMA FrontDecoded ==
  ASSUME NEW b, IsBuffer(b), NEW m \in Fitting, Len(m) + 3 <= readAble(b),
         \A i \in 1 .. Len(m) + 3 : Readable(b)[i] = encodeTinyPB(m)[i]
  PROVE  /\ FrameStarts(b) # {}
         /\ pk_len(b) = Len(m) + 3
         /\ Message(b) = m
<1> DEFINE s == Readable(b)
           r == b.m_read_index
           w == b.m_write_index
           k == Len(m)
<1>1. /\ k \in Nat \ {0}
      /\ s[1] = PB_START /\ s[2] = k + 3 /\ s[k + 3] = PB_END
      /\ \A i \in 1 .. k : s[i + 2] = m[i]
  <2> DEFINE f == encodeTinyPB(m)
  <2>1. /\ k \in Nat \ {0} /\ f[1] = PB_START /\ f[2] = k + 3 /\ f[k + 3] = PB_END
        /\ \A i \in 1 .. k : f[i + 2] = m[i]
    BY FrameBytes
  <2>2. \A i \in 1 .. k + 3 : s[i] = f[i]
    OBVIOUS
  <2>3. /\ 1 \in 1 .. k + 3 /\ 2 \in 1 .. k + 3 /\ k + 3 \in 1 .. k + 3
        /\ \A i \in 1 .. k : i + 2 \in 1 .. k + 3
    BY <2>1
  <2> HIDE DEF f, s, k
  <2> QED
    BY <2>1, <2>2, <2>3
<1>2. /\ r \in Nat /\ w \in Nat /\ r + (k + 3) <= w
      /\ \A i \in 0 .. k + 2 : At(b, r + i) = s[i + 1]
  <2>1. k + 3 <= readAble(b) /\ r \in Nat /\ w \in Nat /\ readAble(b) \in Nat
    BY <1>1, BufferFields
  <2>2. r + (k + 3) <= w
    BY <1>1, <2>1 DEF readAble
  <2>3. \A i \in 0 .. k + 2 : At(b, r + i) = s[i + 1]
    <3>1. \A i \in 0 .. k + 2 : i \in 0 .. readAble(b) - 1
      BY <1>1, <2>1
    <3> QED
      BY <3>1, ReadableAt
  <2> QED
    BY <2>1, <2>2, <2>3
<1>3. m \in Seq(Byte) /\ Len(m) = k /\ b.m_buffer \in Seq(Byte) /\ w <= Len(b.m_buffer)
  BY BufferFields DEF Fitting
<1> HIDE DEF s, r, k, w
<1>4. At(b, r) = PB_START /\ At(b, r + 1) = k + 3 /\ At(b, r + (k + 3) - 1) = PB_END
  <2>1. 0 \in 0 .. k + 2 /\ 1 \in 0 .. k + 2 /\ k + 2 \in 0 .. k + 2
    BY <1>1
  <2>2. At(b, r + 0) = s[0 + 1] /\ At(b, r + 1) = s[1 + 1] /\ At(b, r + (k + 2)) = s[(k + 2) + 1]
    BY <1>2, <2>1
  <2>3. r + 0 = r /\ r + (k + 3) - 1 = r + (k + 2) /\ (k + 2) + 1 = k + 3 /\ 0 + 1 = 1 /\ 1 + 1 = 2
    BY <1>1, <1>2
  <2> QED
    BY <1>1, <2>2, <2>3
<1>5. r \in FrameStarts(b) /\ \A i \in FrameStarts(b) : r <= i
  <2>1. r \in r .. w - 2 /\ r + (k + 3) - 1 < w
    BY <1>1, <1>2
  <2>2. r \in FrameStarts(b)
    BY <1>4, <2>1 DEF FrameStarts, r, w
  <2>3. \A i \in FrameStarts(b) : i \in r .. w - 2
    BY DEF FrameStarts, r, w
  <2> QED
    BY <2>2, <2>3
<1>6. FrameStart(b) = r
  <2>1. /\ FrameStart(b) \in FrameStarts(b)
        /\ \A i \in FrameStarts(b) : FrameStart(b) <= i
    BY <1>5 DEF FrameStart
  <2>2. FrameStart(b) \in r .. w - 2
    BY <2>1 DEF FrameStarts, r, w
  <2>3. FrameStart(b) <= r
    BY <1>5, <2>1
  <2> QED
    BY <1>2, <2>2, <2>3
<1>7. pk_len(b) = k + 3
  BY <1>4, <1>6 DEF pk_len
<1> DEFINE msg == SubSeq(b.m_buffer, r + 3, r + (k + 3) - 1)
<1>8. Message(b) = msg
  BY <1>6, <1>7 DEF Message
<1>9. msg = m
  <2>1. r + 3 \in Int /\ r + (k + 3) - 1 \in Int
    BY <1>1, <1>2
  <2>2. \A i \in r + 3 .. r + (k + 3) - 1 : b.m_buffer[i] \in Byte
    <3>1. \A i \in r + 3 .. r + (k + 3) - 1 : i \in 1 .. Len(b.m_buffer)
      <4>1. Len(b.m_buffer) \in Nat
        BY <1>3, LenProperties
      <4> QED
        BY <1>1, <1>2, <1>3, <4>1
    <3> QED
      BY <1>3, <3>1, ElementOfSeq
  <2>3. /\ msg \in Seq(Byte)
        /\ Len(msg) = IF r + 3 <= r + (k + 3) - 1 THEN (r + (k + 3) - 1) - (r + 3) + 1 ELSE 0
        /\ \A i \in 1 .. (r + (k + 3) - 1) - (r + 3) + 1 : msg[i] = b.m_buffer[(r + 3) + i - 1]
    BY <2>1, <2>2, SubSeqProperties
  <2> HIDE DEF msg
  <2>4. Len(msg) = k
    BY <1>1, <1>2, <2>3
  <2>5. ASSUME NEW i \in 1 .. k PROVE msg[i] = m[i]
    <3>1. i \in 1 .. (r + (k + 3) - 1) - (r + 3) + 1 /\ (r + 3) + i - 1 = (r + (i + 1)) + 1
      BY <1>1, <1>2
    <3>2. msg[i] = At(b, r + (i + 1))
      BY <2>3, <3>1 DEF At
    <3>3. i + 1 \in 0 .. k + 2 /\ (i + 1) + 1 = i + 2
      BY <1>1
    <3>4. At(b, r + (i + 1)) = s[i + 2]
      BY <1>2, <3>3
    <3> QED
      BY <1>1, <3>2, <3>4
  <2> QED
    BY <1>3, <2>3, <2>4, <2>5, SeqEqual
<1> QED
  BY <1>5, <1>7, <1>8, <1>9 DEF k

LEMMA FrameDecoded ==
  ASSUME NEW b, IsBuffer(b), NEW m \in Fitting, Readable(b) = encodeTinyPB(m)
  PROVE  /\ FrameStarts(b) # {}
         /\ pk_len(b) = readAble(b)
         /\ Message(b) = m
<1>1. Len(Readable(b)) = Len(m) + 3 /\ Len(m) \in Nat
  BY FrameBytes
<1>2. readAble(b) = Len(m) + 3
  BY <1>1, BufferFields
<1>3. Len(m) + 3 <= readAble(b)
  BY <1>1, <1>2
<1> QED
  BY <1>2, <1>3, FrontDecoded

\* ... and finds nothing in the front of a frame whose message has no start mark.
LEMMA TornFrame ==
  ASSUME NEW b, IsBuffer(b), NEW m \in Fitting, \A i \in 1 .. Len(m) : m[i] # PB_START,
         NEW n \in 0 .. Len(m) + 2, Readable(b) = SubSeq(encodeTinyPB(m), 1, n)
  PROVE  FrameStarts(b) = {}
<1> DEFINE s == encodeTinyPB(m)
           r == b.m_read_index
           w == b.m_write_index
           k == Len(m)
<1>1. /\ s \in Seq(Byte)
      /\ k \in Nat \ {0}
      /\ Len(s) = k + 3
      /\ s[1] = PB_START /\ s[2] = k + 3
      /\ \A i \in 1 .. k : s[i + 2] = m[i]
  BY FrameBytes
<1>2. n \in Nat /\ n < k + 3
  BY <1>1
<1>3. /\ Len(SubSeq(s, 1, n)) = n
      /\ \A i \in 1 .. n : SubSeq(s, 1, n)[i] = s[i]
  <2> HIDE DEF s
  <2>1. \A i \in 1 .. n : s[i] \in Byte
    <3>1. \A i \in 1 .. n : i \in 1 .. Len(s)
      BY <1>1, <1>2
    <3> QED
      BY <1>1, <3>1, ElementOfSeq
  <2>2. /\ Len(SubSeq(s, 1, n)) = IF 1 <= n THEN n - 1 + 1 ELSE 0
        /\ \A i \in 1 .. n - 1 + 1 : SubSeq(s, 1, n)[i] = s[1 + i - 1]
    BY <1>2, <2>1, SubSeqProperties
  <2> QED
    BY <1>2, <2>2
<1>4. r \in Nat /\ w \in Nat /\ readAble(b) = n /\ w = r + n
  <2>1. r \in Nat /\ w \in Nat /\ readAble(b) = n
    BY <1>3, BufferFields
  <2> QED
    BY <1>2, <2>1 DEF readAble
<1>5. \A i \in 0 .. n - 1 : At(b, r + i) = s[i + 1]
  <2> SUFFICES ASSUME NEW i \in 0 .. n - 1 PROVE At(b, r + i) = s[i + 1]
    OBVIOUS
  <2>1. i \in 0 .. readAble(b) - 1 /\ i + 1 \in 1 .. n
    BY <1>2, <1>4
  <2>2. At(b, r + i) = Readable(b)[i + 1]
    BY <2>1, ReadableAt
  <2> QED
    BY <1>3, <2>1, <2>2
<1> HIDE DEF s, k
<1> SUFFICES ASSUME NEW i \in FrameStarts(b) PROVE FALSE
  OBVIOUS
<1>6. /\ i \in r .. w - 2
      /\ At(b, i) = PB_START
      /\ i + At(b, i + 1) - 1 < w
  BY DEF FrameStarts
<1> HIDE DEF r, w
<1>7. PICK d \in 0 .. n - 2 : i = r + d
  <2>1. i - r \in 0 .. n - 2 /\ i = r + (i - r)
    BY <1>2, <1>4, <1>6
  <2> QED
    BY <2>1
<1>8. s[d + 1] = PB_START /\ At(b, i + 1) = s[d + 2]
  <2>1. d \in 0 .. n - 1 /\ d + 1 \in 0 .. n - 1 /\ i + 1 = r + (d + 1) /\ (d + 1) + 1 = d + 2
    BY <1>2, <1>4, <1>7
  <2>2. At(b, r + d) = s[d + 1] /\ At(b, r + (d + 1)) = s[(d + 1) + 1]
    BY <1>5, <2>1
  <2> QED
    BY <1>6, <1>7, <2>1, <2>2
<1>9. CASE d = 0
  <2>1. At(b, i + 1) = k + 3
    BY <1>1, <1>8, <1>9
  <2> QED
    BY <1>1, <1>2, <1>4, <1>6, <1>7, <1>9, <2>1
<1>10. CASE d = 1
  BY <1>1, <1>8, <1>10 DEF PB_START
<1>11. CASE d >= 2
  <2>1. d - 1 \in 1 .. k /\ (d - 1) + 2 = d + 1
    BY <1>1, <1>2, <1>7, <1>11
  <2>2. s[d + 1] = m[d - 1]
    BY <1>1, <2>1
  <2> QED
    BY <1>8, <2>1, <2>2 DEF k
<1> QED
  BY <1>2, <1>7, <1>9, <1>10, <1>11

-----------------------------------------------------------------------------
(* One message on a connection: each end handles what the other sent once. *)

\* A frame of m leaves room in the in buffers, the kernel has room for it, and where
\* a read may tear it, its front does not look like a frame.
Fits(m) ==
  /\ Len(m) + 3 < BufferSize
  /\ Len(m) + 3 <= Capacity
  /\ Cuts => \A i \in 1 .. Len(m) : m[i] # PB_START

\* The setting of the macro CALLRPC: each call has a connection of its own.
OneCall == MaxSends <= 1 /\ \A m \in Messages : Fits(m) /\ Fits(Reply[m])

\* The client has written its message.
Written == sent # <<>> /\ m_write_dones = <<>>

\* Where the frame of a message m to x is: not written yet; under way, which is on
\* the stream, torn by a read, when decode spins for ever, or in the in buffer;
\* taken by decode.
Unwritten(x) == stream[x] = <<>> /\ m_in_buffer[x].m_write_index = 0

OnWay(x, m) ==
  \/ /\ stream[x] = encodeTinyPB(m)
     /\ m_in_buffer[x].m_write_index = 0
  \/ /\ pc[x] = "decode"
     /\ FrameStarts(m_in_buffer[x]) = {}
     /\ m_in_buffer[x].m_write_index # 0
  \/ /\ pc[x] = "decode"
     /\ stream[x] = <<>>
     /\ Readable(m_in_buffer[x]) = encodeTinyPB(m)

Took(x) ==
  /\ stream[x] = <<>>
  /\ FrameStarts(m_in_buffer[x]) = {}
  /\ pc[x] # "decode" => m_in_buffer[x].m_write_index = 0

Out(x) == Readable(m_out_buffer[x])

\* The client writes m.
Sending(m) ==
  /\ m_write_dones \in {<<>>, sent}
  /\ "out" \in listening["client"] => m_write_dones # <<>>
  /\ "in" \in listening["client"] => Written
  /\ "client" \in ended => pc["client"] = "idle" /\ m_state["client"] # "Connected"
  /\ Written => pc["client"] \notin {"encode", "write"}
  /\ ~ Written =>
       \/ pc["client"] = "idle" /\ messages["client"] = <<>> /\ Out("client") = <<>>
       \/ /\ sent # <<>> /\ pc["client"] = "encode"
          /\ messages["client"] = <<m>> /\ Out("client") = <<>>
       \/ /\ sent # <<>> /\ pc["client"] \in {"encode", "write"}
          /\ messages["client"] = <<>> /\ Out("client") = encodeTinyPB(m)

\* The server before it decodes m, before it dispatches m, before it encodes the
\* reply, and after.
Unasked == messages["server"] = <<>> /\ handled = <<>> /\ Out("server") = <<>>
Asked(m) ==
  /\ pc["server"] = "decode"
  /\ messages["server"] = <<m>> /\ handled = <<>> /\ Out("server") = <<>>
Handling(m) ==
  /\ pc["server"] = "encode"
  /\ messages["server"] = <<Reply[m]>> /\ handled = <<m>> /\ Out("server") = <<>>
Replied(m) ==
  /\ "client" \in ended \/ pc["server"] \in {"encode", "idle", "write"}
  /\ messages["server"] = <<>> /\ handled = <<m>>
  /\ Out("server") = encodeTinyPB(Reply[m])

Serving(m) ==
  \/ ~ Written /\ Unwritten("server") /\ Unasked
  \/ Written /\ OnWay("server", m) /\ Unasked
  \/ Written /\ Took("server") /\ (Asked(m) \/ Handling(m) \/ Replied(m))

\* The server does not write again, unless the client has gone.
Quiet == "client" \in ended \/ (pc["server"] = "idle" /\ "out" \notin listening["server"])

\* The client before the reply is written, before it is decoded, before the read
\* callback is looked for, and after.
Unanswered == Unwritten("client") /\ answered = <<>> /\ (Written => messages["client"] = <<>>)
Answering(r) ==
  \/ OnWay("client", r) /\ answered = <<>> /\ messages["client"] = <<>>
  \/ /\ Took("client") /\ answered = <<>>
     /\ pc["client"] \in {"decode", "answer"} /\ messages["client"] = <<r>>
  \/ /\ Took("client") /\ answered \in {<<>>, <<r>>}
     /\ pc["client"] \in {"idle", "answer"} /\ messages["client"] = <<>>

Receiving(m) ==
  \/ Unanswered
  \/ Written /\ Replied(m) /\ Quiet /\ Answering(Reply[m])

\* The inductive invariant.  That only one message is sent is part of it; the clauses
\* are about the one it is.
Of(m) == sent \in {<<>>, <<m>>}
Progress(m) == Sending(m) /\ Serving(m) /\ Receiving(m)
CallInv == Len(sent) <= 1 /\ \A m : Of(m) => Progress(m)

-----------------------------------------------------------------------------
(* What a step of an end leaves alone.                                     *)

SameClient ==
  UNCHANGED <<pc["client"], messages["client"], listening["client"], m_state["client"],
              m_in_buffer["client"], m_out_buffer["client"], m_write_dones, sent,
              answered, ended>>

SameServer ==
  UNCHANGED <<pc["server"], messages["server"], listening["server"],
              m_in_buffer["server"], m_out_buffer["server"], handled>>

\* The fields of the connection as functions of the end.
LEMMA Fields ==
  ASSUME Inv
  PROVE  /\ pc \in [End -> {"idle", "read", "decode", "answer", "encode", "write"}]
         /\ messages \in [End -> Seq(Fitting)]
         /\ listening \in [End -> SUBSET {"in", "out"}]
         /\ m_state \in [End -> {"Connected", "HalfClosing", "Closed"}]
         /\ stream \in [End -> Seq(Byte)]
         /\ ended \subseteq {"client"}
         /\ m_in_buffer = [x \in End |-> m_in_buffer[x]]
         /\ m_out_buffer = [x \in End |-> m_out_buffer[x]]
         /\ "client" \in End /\ "server" \in End
         /\ \A x \in End : Peer(x) \in End /\ Peer(x) # x
BY DEF Inv, Plain, InBuffers, OutBuffers, Peer, End

LEMMA ServerKeeps ==
  ASSUME Inv, Loop("server")
  PROVE  SameClient /\ (~ Write("server") => stream'["client"] = stream["client"])
<1> USE Fields DEF Goto, Listen, buffers, dones, history, SameClient
<1>1. CASE OnRead("server") \/ ReadNothing("server")
  BY <1>1 DEF OnRead, ReadNothing
<1>2. CASE ReadEnd("server")
  BY <1>2 DEF ReadEnd
<1>3. ASSUME NEW n \in 1 .. Len(stream["server"]), Read("server", n)
      PROVE  SameClient /\ stream'["client"] = stream["client"]
  <2>1. m_in_buffer'["client"] = m_in_buffer["client"] /\ stream'["client"] = stream["client"]
    <3>1. \A y \in End : y # "server" => m_in_buffer'[y] = m_in_buffer[y] /\ stream'[y] = stream[y]
      BY <1>3, ReadHolds
    <3> QED
      BY <3>1
  <2> QED
    BY <1>3, <2>1 DEF Read
<1>4. CASE DecodeFrame("server")
  <2>1. m_in_buffer'["client"] = m_in_buffer["client"]
    BY <1>4, DecodeHolds
  <2> QED
    BY <1>4, <2>1 DEF DecodeFrame
<1>5. CASE excuteRequests
  BY <1>5 DEF excuteRequests
<1>6. CASE Encode("server")
  <2>1. m_out_buffer'["client"] = m_out_buffer["client"]
    BY <1>6 DEF Encode
  <2> QED
    BY <1>6, <2>1 DEF Encode
<1>7. CASE Encoded("server")
  BY <1>7 DEF Encoded
<1>8. CASE OnWrite("server")
  BY <1>8 DEF OnWrite
<1>9. CASE Write("server")
  BY <1>9 DEF Write, Finish
<1>10. CASE WriteNothing("server")
  BY <1>10 DEF WriteNothing, Finish
<1> QED
  BY <1>1, <1>2, <1>3, <1>4, <1>5, <1>6, <1>7, <1>8, <1>9, <1>10 DEF Loop

LEMMA ClientKeeps ==
  ASSUME Inv, User \/ Loop("client")
  PROVE  /\ SameServer
         /\ ended \subseteq ended'
         /\ ~ Write("client") => stream'["server"] = stream["server"]
<1> USE Fields DEF Goto, Listen, buffers, dones, history, SameServer
<1>1. CASE User
  BY <1>1 DEF User, shutdown, writeMessage
<1>2. CASE OnRead("client") \/ ReadNothing("client")
  BY <1>2 DEF OnRead, ReadNothing
<1>3. CASE ReadEnd("client")
  BY <1>3 DEF ReadEnd
<1>4. ASSUME NEW n \in 1 .. Len(stream["client"]), Read("client", n)
      PROVE  SameServer /\ ended \subseteq ended' /\ stream'["server"] = stream["server"]
  <2>1. m_in_buffer'["server"] = m_in_buffer["server"] /\ stream'["server"] = stream["server"]
    BY <1>4, ReadHolds
  <2> QED
    BY <1>4, <2>1 DEF Read
<1>5. CASE DecodeFrame("client")
  <2>1. m_in_buffer'["server"] = m_in_buffer["server"]
    BY <1>5, DecodeHolds
  <2> QED
    BY <1>5, <2>1 DEF DecodeFrame
<1>6. CASE excuteReplies \/ Answer \/ Answered
  BY <1>6 DEF excuteReplies, Answer, Answered
<1>7. CASE Encode("client")
  BY <1>7 DEF Encode
<1>8. CASE Encoded("client")
  BY <1>8 DEF Encoded
<1>9. CASE OnWrite("client")
  BY <1>9 DEF OnWrite
<1>10. CASE Write("client")
  BY <1>10 DEF Write, Finish
<1>11. CASE WriteNothing("client")
  BY <1>11 DEF WriteNothing, Finish
<1> QED
  BY <1>1, <1>2, <1>3, <1>4, <1>5, <1>6, <1>7, <1>8, <1>9, <1>10, <1>11 DEF Loop

LEMMA OtherEnd ==
  ASSUME Inv, NEW x \in End, NEW y \in End, y # x, Loop(x)
  PROVE  /\ UNCHANGED <<pc[y], messages[y], m_in_buffer[y], m_out_buffer[y]>>
         /\ ~ Write(x) => stream'[y] = stream[y]
<1>1. CASE x = "server"
  BY <1>1, ServerKeeps DEF SameClient, End
<1>2. CASE x = "client"
  BY <1>2, ClientKeeps DEF SameServer, End
<1> QED
  BY <1>1, <1>2 DEF End

-----------------------------------------------------------------------------
(* The frame moves.                                                        *)

LEMMA InBufferFacts ==
  ASSUME Inv, NEW x \in End
  PROVE  /\ IsBuffer(m_in_buffer[x])
         /\ m_in_buffer[x].m_write_index = 0 =>
              /\ FrameStarts(m_in_buffer[x]) = {}
              /\ Readable(m_in_buffer[x]) = <<>>
              /\ writeAble(m_in_buffer[x]) = BufferSize
<1>1. IsBuffer(m_in_buffer[x]) /\ Len(m_in_buffer[x].m_buffer) = BufferSize
  BY DEF Inv, InBuffers
<1>2. BufferSize \in Nat
  BY ConnectionAssumption
<1> QED
  BY <1>1, <1>2, NothingDecoded DEF writeAble

\* A step that touches neither the stream to x nor the in buffer of x, and leaves
\* decode only when its buffer is at the start.
Kept(x) ==
  /\ UNCHANGED <<stream[x], m_in_buffer[x]>>
  /\ pc[x] = "decode" => pc'[x] = "decode" \/ m_in_buffer[x].m_write_index = 0

LEMMA KeptHolds ==
  ASSUME Inv, NEW x \in End, Kept(x)
  PROVE  /\ Unwritten(x) => Unwritten(x)'
         /\ Took(x) => Took(x)'
         /\ \A m \in Fitting : OnWay(x, m) => OnWay(x, m)'
<1>1. Unwritten(x) => Unwritten(x)'
  BY DEF Kept, Unwritten
<1>2. Took(x) => Took(x)'
  BY DEF Kept, Took
<1>3. ASSUME NEW m \in Fitting, OnWay(x, m) PROVE OnWay(x, m)'
  <2>1. encodeTinyPB(m) # <<>>
    BY FrameBytes, EmptySeq
  <2>2. ~ (Readable(m_in_buffer[x]) = encodeTinyPB(m) /\ m_in_buffer[x].m_write_index = 0)
    BY <2>1, InBufferFacts
  <2> QED
    BY <1>3, <2>2 DEF OnWay, Kept
<1> QED
  BY <1>1, <1>2, <1>3

\* Every other step of x is one of these.
LEMMA LoopKeeps ==
  ASSUME Inv, NEW x \in End, Loop(x), ~ DecodeFrame(x), ~ \E n \in 1 .. Len(stream[x]) : Read(x, n)
  PROVE  Kept(x)
<1> USE Fields DEF Goto, Listen, buffers, dones, history, Kept
<1>1. CASE OnRead(x) \/ ReadNothing(x) \/ ReadEnd(x)
  BY <1>1 DEF OnRead, ReadNothing, ReadEnd
<1>2. CASE (x = "server" /\ excuteRequests) \/ (x = "client" /\ excuteReplies)
  BY <1>2 DEF excuteRequests, excuteReplies, Decoded
<1>3. CASE x = "client" /\ (Answer \/ Answered)
  BY <1>3 DEF Answer, Answered
<1>4. CASE Encode(x) \/ Encoded(x) \/ OnWrite(x) \/ WriteNothing(x)
  BY <1>4 DEF Encode, Encoded, OnWrite, WriteNothing
<1>5. CASE Write(x)
  <2>1. stream'[x] = stream[x]
    BY <1>5 DEF Write
  <2> QED
    BY <1>5, <2>1 DEF Write
<1> QED
  BY <1>1, <1>2, <1>3, <1>4, <1>5 DEF Loop

\* A read takes the frame, or tears it.
LEMMA ReadOnWay ==
  ASSUME Inv, NEW x \in End, NEW m \in Fitting, Fits(m), OnWay(x, m),
         NEW n \in 1 .. Len(stream[x]), Read(x, n)
  PROVE  OnWay(x, m)'
<1> DEFINE b == m_in_buffer[x]
           s == encodeTinyPB(m)
           L == Len(m) + 3
<1>1. stream[x] = s /\ b.m_write_index = 0
  BY DEF Read, OnWay
<1>2. s \in Seq(Byte) /\ Len(s) = L /\ L \in Nat /\ L < BufferSize /\ Len(m) \in Nat
  BY FrameBytes DEF Fits
<1>3. /\ IsBuffer(b) /\ Readable(b) = <<>> /\ writeAble(b) = BufferSize
      /\ BufferSize \in Nat /\ n \in 1 .. L
  BY <1>1, <1>2, InBufferFacts, ConnectionAssumption
<1> DEFINE part == SubSeq(s, 1, n)
           rest == SubSeq(s, n + 1, L)
<1>4. part \in Seq(Byte) /\ Len(part) = n /\ rest \in Seq(Byte) /\ Len(rest) = L - n
  <2> HIDE DEF s, L
  <2>1. n \in 0 .. Len(s)
    BY <1>2, <1>3
  <2> QED
    BY <1>2, <2>1, SplitHolds
<1>5. /\ m_in_buffer' = [m_in_buffer EXCEPT ![x] = moveWriteIndex(Store(b, part), n)]
      /\ stream' = [stream EXCEPT ![x] = rest]
      /\ pc' = [pc EXCEPT ![x] = "decode"]
      /\ Cuts \/ n = L
  <2>1. ~ (writeAble(m_in_buffer[x]) = 0) /\ n # writeAble(m_in_buffer[x])
    BY <1>2, <1>3
  <2>2. Len(stream[x]) = L
    BY <1>1, <1>2
  <2> HIDE DEF s, L
  <2> QED
    BY <1>1, <1>3, <2>1, <2>2 DEF Read, Goto
<1> DEFINE c == moveWriteIndex(Store(b, part), n)
<1>6. IsBuffer(c) /\ Readable(c) = part
  <2>1. n < writeAble(b) /\ Len(part) <= writeAble(b)
    BY <1>2, <1>3, <1>4
  <2>2. IsBuffer(c) /\ Readable(c) = Readable(b) \o part
    <3>1. c = moveWriteIndex(Store(b, part), Len(part))
      BY <1>4
    <3>2. part \in Seq(Byte) /\ Len(part) < writeAble(b)
      BY <1>4, <2>1
    <3> HIDE DEF part, b, c
    <3> QED
      BY <1>3, <2>1, <3>1, <3>2, MoveWriteHolds
  <2>3. <<>> \o part = part
    <3> HIDE DEF part
    <3> QED
      BY <1>4, ConcatEmptySeq
  <2> QED
    BY <1>3, <2>2, <2>3
<1>7. m_in_buffer'[x] = c /\ stream'[x] = rest /\ pc'[x] = "decode"
  BY <1>5, Fields
<1> HIDE DEF c
<1>8. CASE n = L
  <2>1. part = s
    BY <1>2, <1>8, SubSeqFull
  <2>2. rest = <<>>
    BY <1>2, <1>4, <1>8, EmptySeq
  <2> QED
    BY <1>6, <1>7, <2>1, <2>2 DEF OnWay
<1>9. CASE n # L
  <2>1. \A i \in 1 .. Len(m) : m[i] # PB_START
    BY <1>5, <1>9 DEF Fits
  <2>2. n \in 0 .. Len(m) + 2
    BY <1>2, <1>3, <1>9
  <2>3. FrameStarts(c) = {}
    BY <1>6, <2>1, <2>2, TornFrame
  <2>4. c.m_write_index # 0
    <3>1. readAble(c) = n
      BY <1>4, <1>6, BufferFields
    <3> QED
      BY <1>3, <1>6, <3>1, NothingDecoded
  <2> QED
    BY <1>7, <2>3, <2>4 DEF OnWay
<1> QED
  BY <1>8, <1>9

\* decode takes the frame once, and the message out of it.
LEMMA DecodeOnWay ==
  ASSUME Inv, NEW x \in End, NEW m \in Fitting, OnWay(x, m), DecodeFrame(x)
  PROVE  /\ Took(x)'
         /\ messages'[x] = Append(messages[x], m)
         /\ pc' = pc
<1> DEFINE b == m_in_buffer[x]
<1>1. IsBuffer(b) /\ Readable(b) = encodeTinyPB(m) /\ stream[x] = <<>> /\ pc[x] = "decode"
  BY InBufferFacts DEF DecodeFrame, OnWay
<1>2. pk_len(b) = readAble(b) /\ Message(b) = m
  BY <1>1, FrameDecoded
<1>3. m # <<>>
  BY DEF Fitting
<1>4. messages'[x] = Append(messages[x], m) /\ stream' = stream /\ pc' = pc
  BY <1>2, <1>3, Fields DEF DecodeFrame
<1>5. Inv'
  BY StepHolds DEF Next, Loop
<1>6. FrameStarts(m_in_buffer'[x]) = {}
  <2>1. Readable(m_in_buffer'[x]) = SubSeq(Readable(b), readAble(b) + 1, readAble(b))
    BY <1>2, DecodeHolds
  <2>2. readAble(b) \in Nat /\ readAble(b) < readAble(b) + 1
    BY <1>1, BufferFields
  <2>3. Readable(m_in_buffer'[x]) = <<>>
    BY <2>1, <2>2, SubSeqEmpty
  <2>4. IsBuffer(m_in_buffer'[x])
    BY <1>5 DEF Inv, InBuffers
  <2> QED
    BY <2>3, <2>4, NothingDecoded
<1> QED
  BY <1>1, <1>4, <1>6 DEF Took

\* Nothing is decoded or read where no frame is under way.
LEMMA NothingMoves ==
  ASSUME Inv, NEW x \in End, Loop(x), Unwritten(x) \/ Took(x)
  PROVE  /\ ~ DecodeFrame(x)
         /\ ~ \E n \in 1 .. Len(stream[x]) : Read(x, n)
<1>1. stream[x] = <<>> /\ FrameStarts(m_in_buffer[x]) = {}
  BY InBufferFacts DEF Unwritten, Took
<1>2. Len(stream[x]) = 0
  BY <1>1, EmptySeq
<1> QED
  BY <1>1, <1>2 DEF DecodeFrame

-----------------------------------------------------------------------------
(* The steps of the server.                                                *)

LEMMA TheMessage ==
  ASSUME Inv, OneCall, NEW m, Of(m), sent # <<>>
  PROVE  /\ m \in Messages /\ sent = <<m>> /\ Len(sent) = 1
         /\ m \in Fitting /\ Fits(m)
         /\ Reply[m] \in Fitting /\ Fits(Reply[m])
         /\ dispatch(m) = Reply[m]
<1>1. sent = <<m>> /\ sent \in Seq(Messages)
  BY DEF Of, Inv, Plain
<1>2. m \in Messages
  <2>1. Len(sent) = 1 /\ sent[1] = m
    BY <1>1
  <2>2. 1 \in 1 .. Len(sent)
    BY <2>1
  <2> QED
    BY <1>1, <2>1, <2>2, ElementOfSeq
<1>3. dispatch(m) = Reply[m]
  BY <1>2 DEF dispatch
<1>4. m \in Fitting /\ dispatch(m) \in Fitting
  BY <1>2, FittingHolds
<1> QED
  BY <1>1, <1>2, <1>3, <1>4 DEF OneCall

LEMMA OutFacts ==
  ASSUME Inv, NEW x \in End
  PROVE  /\ IsBuffer(m_out_buffer[x])
         /\ Out(x) \in Seq(Byte)
         /\ Len(Out(x)) = readAble(m_out_buffer[x])
         /\ readAble(m_out_buffer[x]) \in Nat
         /\ readAble(m_out_buffer[x]) = 0 <=> Out(x) = <<>>
<1>1. IsBuffer(m_out_buffer[x])
  BY DEF Inv, OutBuffers
<1> QED
  BY <1>1, BufferFields, NothingDecoded DEF Out

\* Encoding appends the frame of the first message to what the out buffer holds.
LEMMA EncodeHolds ==
  ASSUME Inv, NEW x \in End, NEW m \in Fitting, Encode(x), messages[x] = <<m>>, Out(x) = <<>>
  PROVE  /\ Out(x)' = encodeTinyPB(m)
         /\ messages'[x] = <<>>
         /\ pc' = pc
<1>1. IsBuffer(m_out_buffer[x]) /\ encodeTinyPB(m) \in Seq(Byte)
  BY OutFacts, FrameBytes
<1>2. Head(messages[x]) = m /\ Tail(messages[x]) = <<>>
  <2>1. \A s : s = <<m>> => Head(s) = m /\ Tail(s) = <<>>
    OBVIOUS
  <2> QED
    BY <2>1
<1>3. m_out_buffer'[x] = writeToBuffer(m_out_buffer[x], encodeTinyPB(m))
  BY <1>2, Fields DEF Encode
<1>4. Readable(m_out_buffer'[x]) = Readable(m_out_buffer[x]) \o encodeTinyPB(m)
  BY <1>1, <1>3, WriteAppends
<1>5. <<>> \o encodeTinyPB(m) = encodeTinyPB(m)
  BY <1>1, ConcatEmptySeq
<1> QED
  BY <1>2, <1>4, <1>5, Fields DEF Out, Encode

\* Written to an empty stream, a frame goes out at once, and nothing is left to send.
LEMMA WriteOnce ==
  ASSUME Inv, NEW x \in End, NEW m \in Fitting, Fits(m), Write(x), Out(x) = encodeTinyPB(m),
         stream[Peer(x)] = <<>>
  PROVE  /\ stream'[Peer(x)] = IF Peer(x) \in ended THEN <<>> ELSE encodeTinyPB(m)
         /\ Finish(x, TRUE)
<1> DEFINE s == encodeTinyPB(m)
<1>1. s \in Seq(Byte) /\ Len(s) \in Nat /\ Len(s) <= Capacity /\ Capacity \in Nat
  BY FrameBytes, ConnectionAssumption DEF Fits
<1>2. Room(x) = Capacity
  BY <1>1 DEF Room
<1>3. (IF Len(s) < Room(x) THEN Len(s) ELSE Room(x)) = Len(s)
  BY <1>1, <1>2
<1>4. SubSeq(s, 1, Len(s)) = s /\ <<>> \o s = s
  <2> HIDE DEF s
  <2> QED
    BY <1>1, SubSeqFull, ConcatEmptySeq
<1> HIDE DEF s
<1>5. /\ stream' = [stream EXCEPT ![Peer(x)] =
                      IF Peer(x) \in ended THEN @ ELSE @ \o SubSeq(s, 1, Len(s))]
      /\ Finish(x, TRUE)
  BY <1>3 DEF Write, Out, s
<1> QED
  BY <1>4, <1>5, Fields DEF s

\* Nothing is written from an empty out buffer.
LEMMA WriteNeeds ==
  ASSUME Inv, NEW x \in End, Write(x)
  PROVE  Out(x) # <<>>
<1>1. Len(Out(x)) # 0
  <2>1. Len(Out(x)) \in Nat
    BY OutFacts
  <2> QED
    BY <2>1 DEF Write, Out
<1> QED
  BY <1>1, EmptySeq

LEMMA ServerSending ==
  ASSUME Inv, NEW m, Sending(m), Loop("server")
  PROVE  Sending(m)'
BY ServerKeeps DEF Sending, SameClient, Written, Out

\* A reply once encoded stays the last.
LEMMA RepliedStays ==
  ASSUME Inv, OneCall, NEW m, Of(m), Written, Took("server"), Replied(m), Loop("server")
  PROVE  Replied(m)'
<1>1. ~ DecodeFrame("server") /\ ~ \E n \in 1 .. Len(stream["server"]) : Read("server", n)
  BY NothingMoves, Fields
<1>2. ended' = ended
  BY ServerKeeps DEF SameClient
<1> USE <1>2, Fields DEF Replied, Goto, Listen, buffers, dones, history, Out
<1>3. CASE OnRead("server")
  BY <1>3 DEF OnRead, Took, Peer
<1>4. CASE ReadNothing("server") \/ ReadEnd("server")
  BY <1>4 DEF ReadNothing, ReadEnd
<1>5. CASE excuteRequests
  <2>1. handled' = handled \o messages["server"] /\ messages["server"] = <<>>
    BY <1>5 DEF excuteRequests
  <2>2. handled' = handled
    BY <2>1, ConcatEmptySeq DEF Inv, Plain
  <2>3. messages'["server"] = [i \in DOMAIN <<>> |-> dispatch(<<>>[i])]
    BY <1>5, <2>1 DEF excuteRequests
  <2>4. messages'["server"] = <<>>
    BY <2>3
  <2> QED
    BY <1>5, <2>2, <2>4 DEF excuteRequests
<1>6. CASE Encode("server")
  BY <1>6 DEF Encode
<1>7. CASE Encoded("server") \/ OnWrite("server")
  BY <1>7 DEF Encoded, OnWrite
<1>8. CASE Write("server") \/ WriteNothing("server")
  BY <1>8 DEF Write, WriteNothing, Finish
<1> QED
  BY <1>1, <1>3, <1>4, <1>5, <1>6, <1>7, <1>8 DEF Loop

LEMMA UnaskedStays ==
  ASSUME Inv, Unasked, Loop("server"), ~ DecodeFrame("server")
  PROVE  Unasked'
<1> USE Fields DEF Unasked, Goto, Listen, buffers, dones, history, Out
<1>1. ASSUME NEW n, Read("server", n) PROVE Unasked'
  BY <1>1 DEF Read
<1>2. CASE OnRead("server") \/ ReadNothing("server") \/ ReadEnd("server")
  BY <1>2 DEF OnRead, ReadNothing, ReadEnd
<1>3. CASE excuteRequests
  <2>1. handled' = <<>> \o <<>>
    BY <1>3 DEF excuteRequests
  <2>2. messages'["server"] = [i \in DOMAIN <<>> |-> dispatch(<<>>[i])]
    BY <1>3 DEF excuteRequests
  <2>3. handled' = <<>> /\ messages'["server"] = <<>>
    BY <2>1, <2>2
  <2> QED
    BY <1>3, <2>3 DEF excuteRequests
<1>4. CASE Encode("server") \/ Encoded("server") \/ OnWrite("server")
  BY <1>4 DEF Encode, Encoded, OnWrite
<1>5. CASE Write("server") \/ WriteNothing("server")
  BY <1>5 DEF Write, WriteNothing, Finish
<1> QED
  BY <1>1, <1>2, <1>3, <1>4, <1>5 DEF Loop

LEMMA ServerServing ==
  ASSUME Inv, OneCall, NEW m, Of(m), Serving(m), Loop("server")
  PROVE  Serving(m)'
<1>0. Written' = Written /\ "server" \in End
  BY ServerKeeps, Fields DEF SameClient, Written
<1>1. CASE ~ Written /\ Unwritten("server") /\ Unasked
  <2>1. ~ DecodeFrame("server") /\ ~ \E n \in 1 .. Len(stream["server"]) : Read("server", n)
    BY <1>0, <1>1, NothingMoves
  <2>2. Unwritten("server")'
    BY <1>0, <1>1, <2>1, LoopKeeps, KeptHolds
  <2>3. Unasked'
    BY <1>1, <2>1, UnaskedStays
  <2> QED
    BY <1>0, <1>1, <2>2, <2>3 DEF Serving
<1>2. CASE Written /\ OnWay("server", m) /\ Unasked
  <2>0. m \in Fitting /\ Fits(m)
    BY <1>2, TheMessage DEF Written
  <2>1. CASE DecodeFrame("server")
    <3>1. Took("server")' /\ messages'["server"] = Append(<<>>, m) /\ pc' = pc
      BY <1>0, <1>2, <2>0, <2>1, DecodeOnWay DEF Unasked
    <3>2. Append(<<>>, m) = <<m>>
      OBVIOUS
    <3>3. Asked(m)'
      BY <1>2, <2>1, <3>1, <3>2 DEF Asked, Unasked, DecodeFrame, Out
    <3> QED
      BY <1>0, <1>2, <3>1, <3>3 DEF Serving
  <2>2. CASE ~ DecodeFrame("server")
    <3>1. Unasked'
      BY <1>2, <2>2, UnaskedStays
    <3>2. OnWay("server", m)'
      <4>1. CASE \E n \in 1 .. Len(stream["server"]) : Read("server", n)
        BY <1>0, <1>2, <2>0, <4>1, ReadOnWay
      <4>2. CASE ~ \E n \in 1 .. Len(stream["server"]) : Read("server", n)
        BY <1>0, <1>2, <2>0, <2>2, <4>2, LoopKeeps, KeptHolds
      <4> QED
        BY <4>1, <4>2
    <3> QED
      BY <1>0, <1>2, <3>1, <3>2 DEF Serving
  <2> QED
    BY <2>1, <2>2
<1>3. CASE Written /\ Took("server") /\ (Asked(m) \/ Handling(m) \/ Replied(m))
  <2>0. /\ m \in Fitting /\ dispatch(m) = Reply[m] /\ Reply[m] \in Fitting
        /\ ~ DecodeFrame("server")
        /\ ~ \E n \in 1 .. Len(stream["server"]) : Read("server", n)
    BY <1>0, <1>3, TheMessage, NothingMoves DEF Written
  <2>1. Took("server")'
    BY <1>0, <1>3, <2>0, LoopKeeps, KeptHolds
  <2>2. CASE Replied(m)
    BY <1>0, <1>3, <2>1, <2>2, RepliedStays DEF Serving
  <2>3. CASE Asked(m)
    <3>1. excuteRequests
      BY <2>0, <2>3 DEF Loop, Asked, OnRead, ReadNothing, ReadEnd, Encode, Encoded, OnWrite,
                        Write, WriteNothing
    <3>2. handled' = <<>> \o <<m>> /\ messages'["server"] = [i \in DOMAIN <<m>> |-> dispatch(<<m>>[i])]
      BY <2>3, <3>1, Fields DEF excuteRequests, Asked
    <3>3. handled' = <<m>> /\ messages'["server"] = <<Reply[m]>>
      <4>1. <<>> \o <<m>> = <<m>>
        OBVIOUS
      <4>2. [i \in DOMAIN <<m>> |-> dispatch(<<m>>[i])] = <<dispatch(m)>>
        <5> HIDE DEF dispatch
        <5> QED
          OBVIOUS
      <4> QED
        BY <2>0, <3>2, <4>1, <4>2
    <3>4. Handling(m)'
      BY <2>3, <3>1, <3>3, Fields DEF Handling, Asked, excuteRequests, Goto, buffers, Out
    <3> QED
      BY <1>0, <1>3, <2>1, <3>4 DEF Serving
  <2>4. CASE Handling(m)
    <3>1. Encode("server")
      <4>1. messages["server"] # <<>>
        BY <2>4 DEF Handling
      <4> QED
        BY <2>0, <2>4, <4>1 DEF Loop, Handling, OnRead, ReadNothing, ReadEnd, Encoded, OnWrite,
                          Write, WriteNothing, excuteRequests, Decoded
    <3>2. Out("server")' = encodeTinyPB(Reply[m]) /\ messages'["server"] = <<>> /\ pc' = pc
      BY <1>0, <2>0, <2>4, <3>1, EncodeHolds DEF Handling
    <3>3. Replied(m)'
      BY <2>4, <3>1, <3>2 DEF Replied, Handling, Encode, history
    <3> QED
      BY <1>0, <1>3, <2>1, <3>3 DEF Serving
  <2> QED
    BY <1>3, <2>2, <2>3, <2>4
<1> QED
  BY <1>1, <1>2, <1>3 DEF Serving

\* In the last phase the server, which nobody sends anything any longer, does nothing
\* unless the client has gone.
LEMMA ServerReceiving ==
  ASSUME Inv, OneCall, NEW m, Of(m), Progress(m), Loop("server")
  PROVE  Receiving(m)'
<1>0. SameClient /\ "server" \in End /\ "client" \in End /\ Written' = Written
  BY ServerKeeps, Fields DEF SameClient, Written
<1>1. Replied(m) => Written /\ Took("server")
  BY DEF Progress, Serving, Replied, Unasked, Asked, Handling
<1>2. stream'["client"] = stream["client"] => Kept("client")
  BY <1>0 DEF Kept, SameClient
<1>3. CASE Unanswered
  <2>1. CASE stream'["client"] = stream["client"]
    <3>1. Unwritten("client")'
      BY <1>0, <1>2, <1>3, <2>1, KeptHolds DEF Unanswered
    <3> QED
      BY <1>0, <1>3, <3>1 DEF Receiving, Unanswered, SameClient
  <2>2. CASE stream'["client"] # stream["client"]
    <3>1. Write("server")
      BY <2>2, ServerKeeps
    <3>2. Replied(m)
      <4>1. Out("server") # <<>>
        BY <1>0, <3>1, WriteNeeds
      <4> QED
        BY <4>1 DEF Progress, Serving, Unasked, Asked, Handling
    <3>3. /\ Written /\ Replied(m)'
          /\ Reply[m] \in Fitting /\ Fits(Reply[m])
      BY <1>1, <3>2, RepliedStays, TheMessage DEF Written
    <3>4. stream["client"] = <<>> /\ m_in_buffer["client"].m_write_index = 0
      BY <1>3 DEF Unanswered, Unwritten
    <3>5. /\ stream'["client"] = IF "client" \in ended THEN <<>> ELSE encodeTinyPB(Reply[m])
          /\ Finish("server", TRUE)
      <4>1. Peer("server") = "client"
        BY DEF Peer
      <4> QED
        BY <1>0, <3>1, <3>2, <3>3, <3>4, <4>1, WriteOnce DEF Replied
    <3>6. Quiet'
      BY <3>5, Fields DEF Finish, Quiet, Goto
    <3>7. OnWay("client", Reply[m])'
      BY <1>0, <2>2, <3>4, <3>5 DEF OnWay, SameClient
    <3>8. answered' = <<>> /\ messages'["client"] = <<>>
      BY <1>0, <1>3, <3>3 DEF Unanswered, SameClient
    <3> QED
      BY <1>0, <3>3, <3>6, <3>7, <3>8 DEF Receiving, Answering
  <2> QED
    BY <2>1, <2>2
<1>4. CASE Written /\ Replied(m) /\ Quiet /\ Answering(Reply[m])
  <2>0. Took("server") /\ stream["server"] = <<>> /\ Reply[m] \in Fitting
    BY <1>1, <1>4, TheMessage DEF Took, Written
  <2>1. "client" \in ended
    <3> SUFFICES ASSUME "client" \notin ended PROVE FALSE
      OBVIOUS
    <3>1. /\ pc["server"] = "idle" /\ "out" \notin listening["server"]
          /\ Peer("server") \notin ended
      BY <1>4 DEF Quiet, Peer
    <3> QED
      BY <2>0, <3>1 DEF Loop, OnRead, Read, ReadNothing, ReadEnd, DecodeFrame, excuteRequests,
                        Decoded, Encode, Encoded, OnWrite, Write, WriteNothing
  <2>2. stream'["client"] = stream["client"]
    <3>1. CASE Write("server")
      BY <2>1, <3>1, Fields DEF Write, Peer
    <3> QED
      BY <3>1, ServerKeeps
  <2>3. Replied(m)' /\ Quiet'
    BY <1>0, <1>4, <2>0, <2>1, RepliedStays DEF Quiet, SameClient
  <2>4. Answering(Reply[m])'
    <3>1. /\ Took("client") => Took("client")'
          /\ OnWay("client", Reply[m]) => OnWay("client", Reply[m])'
      BY <1>0, <1>2, <2>0, <2>2, KeptHolds
    <3> QED
      BY <1>0, <1>4, <3>1 DEF Answering, SameClient
  <2> QED
    BY <1>0, <1>4, <2>3, <2>4 DEF Receiving
<1> QED
  BY <1>3, <1>4 DEF Progress, Receiving

-----------------------------------------------------------------------------
(* The steps of the client.                                                *)

\* What the client may do before it has written: write.
LEMMA ClientWrites ==
  ASSUME Inv, NEW m, Sending(m), ~ Written, User \/ Loop("client")
  PROVE  User \/ Encode("client") \/ Encoded("client") \/ OnWrite("client")
              \/ Write("client") \/ WriteNothing("client")
BY DEF Loop, Sending, OnRead, ReadNothing, ReadEnd, Read, DecodeFrame, excuteReplies, Decoded,
       Answer, Answered

\* Its frame goes out at once.
LEMMA ClientWritesOnce ==
  ASSUME Inv, OneCall, NEW m, Of(m), Sending(m), Serving(m), ~ Written,
         Write("client") \/ WriteNothing("client")
  PROVE  /\ sent # <<>>
         /\ messages["client"] = <<>>
         /\ stream'["server"] = encodeTinyPB(m)
         /\ Finish("client", TRUE)
<1>1. /\ "client" \in End /\ pc["client"] = "write"
      /\ sent # <<>> /\ messages["client"] = <<>> /\ Out("client") = encodeTinyPB(m)
  BY Fields DEF Sending, Write, WriteNothing
<1>2. m \in Fitting /\ Fits(m)
  BY <1>1, TheMessage
<1>3. stream["server"] = <<>> /\ Peer("client") = "server" /\ "server" \notin ended
  BY Fields DEF Serving, Unwritten, Peer
<1>4. ~ WriteNothing("client")
  <2>1. readAble(m_out_buffer["client"]) > 0
    <3>1. Out("client") # <<>>
      BY <1>1, <1>2, FrameBytes, EmptySeq
    <3>2. readAble(m_out_buffer["client"]) \in Nat \ {0}
      BY <1>1, <3>1, OutFacts
    <3> QED
      BY <3>2
  <2>2. Room("client") # 0
    <3>1. Len(stream["server"]) = 0
      BY <1>3, EmptySeq
    <3> QED
      BY <1>3, <3>1, ConnectionAssumption DEF Room
  <2>3. readAble(m_out_buffer["client"]) # 0
    BY <2>1, OutFacts, <1>1
  <2> QED
    BY <2>2, <2>3 DEF WriteNothing
<1>5. stream'["server"] = encodeTinyPB(m) /\ Finish("client", TRUE)
  BY <1>1, <1>2, <1>3, <1>4, WriteOnce
<1> QED
  BY <1>1, <1>5

LEMMA ClientSending ==
  ASSUME Inv, OneCall, NEW m, Of(m), Of(m)', Sending(m), Serving(m), User \/ Loop("client")
  PROVE  Sending(m)'
<1> USE Fields DEF Goto, Listen, buffers, dones, history, Out
<1>1. CASE shutdown
  BY <1>1 DEF shutdown, Sending, Written
<1>2. ASSUME NEW msg \in Messages, writeMessage(msg) PROVE Sending(m)'
  <2>1. sent = <<>>
    <3>1. Len(sent) \in Nat /\ Len(sent) < 1
      BY <1>2, LenProperties, ConnectionAssumption DEF writeMessage, OneCall, Inv, Plain
    <3> QED
      BY <3>1, EmptySeq DEF Inv, Plain
  <2>2. m_write_dones = <<>> /\ ~ Written
    BY <2>1 DEF Sending, Written
  <2>3. sent' = <<msg>> /\ m_write_dones' = <<msg>>
    BY <1>2, <2>1, <2>2 DEF writeMessage
  <2>4. sent' # <<>> /\ m_write_dones' = sent' /\ ~ Written'
    BY <2>3 DEF Written
  <2>5. /\ pc["client"] = "idle" /\ messages["client"] = <<>> /\ Out("client") = <<>>
        /\ UNCHANGED <<pc, messages, m_out_buffer, ended, m_state>>
        /\ listening'["client"] = listening["client"] \cup {"out"}
        /\ "in" \notin listening["client"] /\ "client" \notin ended
    BY <1>2, <2>2 DEF Sending, writeMessage
  <2> QED
    BY <2>4, <2>5 DEF Sending
<1>3. CASE Written /\ Loop("client")
  <2>1. Written' /\ UNCHANGED <<sent, m_write_dones, ended, m_state["client"]>>
    <3>1. ~ Encode("client") /\ ~ Encoded("client") /\ ~ Write("client") /\ ~ WriteNothing("client")
      BY <1>3 DEF Sending, Encode, Encoded, Write, WriteNothing
    <3>2. ~ ReadEnd("client")
      BY DEF ReadEnd, AtEnd, Peer
    <3> QED
      BY <1>3, <3>1, <3>2 DEF Loop, OnRead, Read, ReadNothing, DecodeFrame, excuteReplies,
                              Answer, Answered, OnWrite, Written
  <2>2. /\ "out" \notin listening'["client"]
        /\ pc'["client"] \notin {"encode", "write"}
    <3>1. "out" \notin listening["client"] /\ pc["client"] \notin {"encode", "write"}
      BY <1>3 DEF Sending, Written
    <3> QED
      BY <1>3, <3>1 DEF Loop, OnRead, Read, ReadNothing, ReadEnd, DecodeFrame, excuteReplies,
                        Answer, Answered, Encode, Encoded, OnWrite, Write, WriteNothing
  <2>3. "client" \in ended => pc'["client"] = "idle" /\ m_state["client"] # "Connected"
    <3> SUFFICES ASSUME "client" \in ended PROVE FALSE
      BY DEF Sending
    <3>1. pc["client"] = "idle" /\ m_state["client"] # "Connected"
      BY DEF Sending
    <3> QED
      BY <1>3, <3>1 DEF Loop, OnRead, Read, ReadNothing, ReadEnd, DecodeFrame, excuteReplies,
                        Decoded, Answer, Answered, Encode, Encoded, OnWrite, Write, WriteNothing
  <2> QED
    BY <2>1, <2>2, <2>3 DEF Sending, Written
<1>4. CASE ~ Written /\ Loop("client")
  <2>1. CASE Write("client") \/ WriteNothing("client")
    <3>1. sent # <<>> /\ Finish("client", TRUE) /\ UNCHANGED <<m_state, sent, ended>>
      BY <1>4, <2>1, ClientWritesOnce DEF Write, WriteNothing
    <3>2. /\ pc'["client"] = "idle" /\ m_write_dones' = <<>>
          /\ "out" \notin listening'["client"]
      BY <3>1 DEF Finish
    <3>3. Written'
      BY <3>1, <3>2 DEF Written
    <3>4. "client" \in ended => m_state["client"] # "Connected"
      BY DEF Sending
    <3> QED
      BY <3>1, <3>2, <3>3, <3>4 DEF Sending
  <2>2. CASE OnWrite("client")
    <3>1. m_write_dones # <<>> /\ m_write_dones = sent /\ sent # <<>>
      BY <2>2 DEF Sending, OnWrite
    <3>2. sent = <<m>>
      BY <3>1, TheMessage
    <3>3. /\ pc'["client"] = "encode" /\ messages'["client"] = <<m>>
          /\ UNCHANGED <<buffers, m_state, listening, dones, ended, sent>>
          /\ pc["client"] = "idle" /\ m_state["client"] = "Connected"
      BY <2>2, <3>1, <3>2 DEF OnWrite
    <3>4. ~ Written'
      BY <1>4, <3>3 DEF Written
    <3> QED
      BY <1>4, <3>1, <3>3, <3>4 DEF Sending
  <2>3. CASE Encode("client")
    <3>1. /\ pc["client"] = "encode" /\ messages["client"] = <<m>> /\ Out("client") = <<>>
          /\ sent # <<>>
      BY <1>4, <2>3 DEF Sending, Encode
    <3>2. m \in Fitting
      BY <3>1, TheMessage
    <3>3. Out("client")' = encodeTinyPB(m) /\ messages'["client"] = <<>> /\ pc' = pc
      BY <2>3, <3>1, <3>2, EncodeHolds
    <3>4. ~ Written' /\ UNCHANGED <<sent, m_write_dones, listening, ended, m_state>>
      BY <1>4, <2>3 DEF Written, Encode
    <3> HIDE DEF Out
    <3> QED
      BY <1>4, <3>1, <3>3, <3>4 DEF Sending
  <2>4. CASE Encoded("client")
    <3>1. /\ pc["client"] = "encode" /\ messages["client"] = <<>>
          /\ Out("client") = encodeTinyPB(m) /\ sent # <<>>
      BY <1>4, <2>4 DEF Sending, Encoded
    <3>2. /\ pc'["client"] = "write"
          /\ UNCHANGED <<messages, m_out_buffer, sent, m_write_dones, listening, ended, m_state>>
      BY <2>4 DEF Encoded
    <3>3. ~ Written'
      BY <1>4, <3>2 DEF Written
    <3> QED
      BY <1>4, <3>1, <3>2, <3>3 DEF Sending
  <2>5. ~ User => Encode("client") \/ Encoded("client") \/ OnWrite("client")
                    \/ Write("client") \/ WriteNothing("client")
    BY <1>4, ClientWrites
  <2>6. CASE User
    BY <1>1, <1>2, <2>6 DEF User
  <2> QED
    BY <2>1, <2>2, <2>3, <2>4, <2>5, <2>6
<1> QED
  BY <1>1, <1>2, <1>3, <1>4 DEF User

LEMMA UnwrittenStays ==
  ASSUME Inv, NEW m, Sending(m), ~ Written, User \/ Loop("client"),
         ~ Write("client"), ~ WriteNothing("client")
  PROVE  ~ Written'
<1>1. User \/ Encode("client") \/ Encoded("client") \/ OnWrite("client")
  BY ClientWrites
<1>2. ASSUME NEW msg \in Messages, writeMessage(msg) PROVE ~ Written'
  <2>1. m_write_dones \in Seq(Messages) /\ m_write_dones' = Append(m_write_dones, msg)
    BY <1>2 DEF writeMessage, Inv, Plain
  <2>2. m_write_dones' # <<>>
    BY <2>1
  <2> QED
    BY <2>2 DEF Written
<1>3. CASE shutdown \/ Encode("client") \/ Encoded("client") \/ OnWrite("client")
  BY <1>3 DEF shutdown, Encode, Encoded, OnWrite, dones, history, Written
<1> QED
  BY <1>1, <1>2, <1>3 DEF User

LEMMA WrittenStays ==
  ASSUME Inv, OneCall, NEW m, Sending(m), Written, User \/ Loop("client")
  PROVE  /\ Written' /\ sent' = sent
         /\ ~ OnWrite("client") /\ ~ Encode("client") /\ ~ Encoded("client")
         /\ ~ Write("client") /\ ~ WriteNothing("client")
<1>1. \A msg \in Messages : ~ writeMessage(msg)
  <2>1. Len(sent) \in Nat \ {0}
    BY EmptySeq DEF Written, Inv, Plain
  <2> QED
    BY <2>1, ConnectionAssumption DEF writeMessage, OneCall
<1>2. /\ ~ OnWrite("client") /\ ~ Encode("client") /\ ~ Encoded("client")
      /\ ~ Write("client") /\ ~ WriteNothing("client")
  BY DEF Sending, Written, OnWrite, Encode, Encoded, Write, WriteNothing
<1>3. sent' = sent /\ m_write_dones' = m_write_dones
  BY <1>1, <1>2 DEF User, shutdown, Loop, OnRead, Read, ReadNothing, ReadEnd, DecodeFrame,
                    excuteReplies, excuteRequests, Answer, Answered, dones, history
<1> QED
  BY <1>2, <1>3 DEF Written

\* Nothing the client does is seen by the server but its frame.
LEMMA ClientServing ==
  ASSUME Inv, OneCall, NEW m, Of(m), Sending(m), Serving(m), User \/ Loop("client")
  PROVE  /\ Serving(m)'
         /\ Written => (Replied(m) => Replied(m)') /\ (Quiet => Quiet')
<1>1. SameServer /\ ended \subseteq ended' /\ "server" \in End
  BY ClientKeeps, Fields
<1>2. (Replied(m) => Replied(m)') /\ (Quiet => Quiet')
  BY <1>1 DEF Replied, Quiet, SameServer, Out
<1>3. CASE Written
  <2>1. Written' /\ ~ Write("client")
    BY <1>3, WrittenStays
  <2>2. Kept("server")
    BY <1>1, <2>1, ClientKeeps DEF Kept, SameServer
  <2>3. /\ Took("server") => Took("server")'
        /\ OnWay("server", m) => OnWay("server", m)'
    <3>1. m \in Fitting
      BY <1>3, TheMessage DEF Written
    <3> QED
      BY <1>1, <2>2, <3>1, KeptHolds
  <2>4. /\ Unasked => Unasked'
        /\ Asked(m) => Asked(m)'
        /\ Handling(m) => Handling(m)'
    BY <1>1 DEF SameServer, Unasked, Asked, Handling, Out
  <2> QED
    BY <1>2, <1>3, <2>1, <2>3, <2>4 DEF Serving
<1>4. CASE ~ Written
  <2>1. Unwritten("server") /\ Unasked
    BY <1>4 DEF Serving
  <2>2. Unasked' /\ m_in_buffer'["server"] = m_in_buffer["server"]
    BY <1>1, <2>1 DEF SameServer, Unasked, Out
  <2>3. CASE Write("client")
    <3>1. /\ sent # <<>> /\ stream'["server"] = encodeTinyPB(m) /\ Finish("client", TRUE)
          /\ sent' = sent
      BY <1>4, <2>3, ClientWritesOnce DEF Write, history
    <3>2. Written'
      BY <3>1 DEF Finish, Written
    <3>3. OnWay("server", m)'
      BY <2>1, <2>2, <3>1 DEF Unwritten, OnWay
    <3> QED
      BY <1>2, <2>2, <3>2, <3>3 DEF Serving
  <2>4. CASE ~ Write("client")
    <3>1. Unwritten("server")'
      BY <2>1, <2>2, <2>4, ClientKeeps DEF Unwritten
    <3>2. ~ Written'
      <4>1. ~ WriteNothing("client")
        <5> SUFFICES ASSUME WriteNothing("client") PROVE FALSE
          OBVIOUS
        <5>1. stream'["server"] = encodeTinyPB(m) /\ sent # <<>>
          BY <1>4, ClientWritesOnce
        <5>2. stream'["server"] = <<>> /\ m \in Fitting
          BY <3>1, <5>1, TheMessage DEF Unwritten
        <5>3. encodeTinyPB(m) # <<>>
          BY <5>2, FrameBytes, EmptySeq
        <5> QED
          BY <5>1, <5>2, <5>3
      <4> QED
        BY <1>4, <2>4, <4>1, UnwrittenStays
    <3> QED
      BY <1>2, <2>2, <3>1, <3>2, <1>4 DEF Serving
  <2> QED
    BY <2>3, <2>4
<1> QED
  BY <1>3, <1>4

\* A step of the client that neither decodes, reads nor answers, once its message is
\* written: only its place in the code changes.
LEMMA WrittenIdles ==
  ASSUME Inv, OneCall, NEW m, Sending(m), Written, User \/ Loop("client"),
         ~ DecodeFrame("client"), ~ \E n \in 1 .. Len(stream["client"]) : Read("client", n),
         ~ Answer
  PROVE  /\ Kept("client")
         /\ messages'["client"] = messages["client"] /\ answered' = answered
<1>1. /\ ~ OnWrite("client") /\ ~ Encode("client") /\ ~ Encoded("client")
      /\ ~ Write("client") /\ ~ WriteNothing("client")
  BY WrittenStays
<1>2. CASE User
  BY <1>2 DEF User, shutdown, writeMessage, Kept, buffers, history
<1>3. CASE Loop("client")
  <2>1. Kept("client")
    BY <1>3, Fields, LoopKeeps
  <2>2. messages' = messages /\ answered' = answered
    BY <1>1, <1>3 DEF Loop, OnRead, ReadNothing, ReadEnd, excuteReplies, Answered, history
  <2> QED
    BY <2>1, <2>2
<1> QED
  BY <1>2, <1>3

LEMMA UnansweredStays ==
  ASSUME Inv, OneCall, NEW m, Of(m), Progress(m), Unanswered, User \/ Loop("client")
  PROVE  Unanswered'
<1> USE Fields DEF Unanswered
<1>1. Sending(m) /\ Serving(m)
  BY DEF Progress
<1>2. /\ ~ Answer /\ ~ DecodeFrame("client")
      /\ ~ \E n \in 1 .. Len(stream["client"]) : Read("client", n)
  <2>1. CASE Loop("client")
    <3>1. ~ Answer
      BY <1>1 DEF Answer, Sending
    <3> QED
      BY <2>1, <3>1, NothingMoves
  <2>2. CASE User
    BY <2>2 DEF User, shutdown, writeMessage, Answer, DecodeFrame, Read
  <2> QED
    BY <2>1, <2>2
<1>3. CASE Written
  <2>1. Kept("client") /\ messages'["client"] = messages["client"] /\ answered' = answered
    BY <1>1, <1>2, <1>3, WrittenIdles
  <2> QED
    BY <1>3, <2>1, KeptHolds
<1>4. CASE ~ Written
  <2>1. Kept("client") /\ answered' = answered
    <3>1. CASE User
      BY <3>1 DEF User, shutdown, writeMessage, Kept, buffers, history
    <3>2. CASE Loop("client")
      <4>1. Kept("client")
        BY <1>2, <3>2, LoopKeeps
      <4>2. answered' = answered
        BY <1>2, <3>2 DEF Loop, OnRead, ReadNothing, ReadEnd, excuteReplies, Answered, Encode,
                          Encoded, OnWrite, Write, WriteNothing, history
      <4> QED
        BY <4>1, <4>2
    <3> QED
      BY <3>1, <3>2
  <2>2. Unwritten("client")'
    BY <2>1, KeptHolds
  <2>3. Written' => messages'["client"] = <<>>
    <3>1. CASE Write("client") \/ WriteNothing("client")
      BY <1>1, <1>4, <3>1, ClientWritesOnce DEF Write, WriteNothing
    <3>2. CASE ~ Write("client") /\ ~ WriteNothing("client")
      BY <1>1, <1>4, <3>2, UnwrittenStays
    <3> QED
      BY <3>1, <3>2
  <2> QED
    BY <2>1, <2>2, <2>3
<1> QED
  BY <1>3, <1>4

\* The reply is decoded once, and given to a read callback once or to none.
LEMMA AnsweringStays ==
  ASSUME Inv, OneCall, NEW m, Sending(m), Written, User \/ Loop("client"),
         NEW r \in Fitting, Fits(r), Answering(r)
  PROVE  Answering(r)'
<1> USE Fields
<1>1. CASE OnWay("client", r) /\ answered = <<>> /\ messages["client"] = <<>>
  <2>0. ~ Answer
    BY <1>1 DEF Answer
  <2>1. CASE DecodeFrame("client")
    <3>1. Took("client")' /\ messages'["client"] = Append(<<>>, r) /\ pc' = pc
      BY <1>1, <2>1, DecodeOnWay
    <3>2. Append(<<>>, r) = <<r>>
      OBVIOUS
    <3>3. pc["client"] = "decode" /\ answered' = answered
      BY <2>1 DEF DecodeFrame
    <3> QED
      BY <1>1, <3>1, <3>2, <3>3 DEF Answering
  <2>2. ASSUME NEW n \in 1 .. Len(stream["client"]), Read("client", n) PROVE Answering(r)'
    <3>1. OnWay("client", r)'
      BY <1>1, <2>2, ReadOnWay
    <3>2. messages' = messages /\ answered' = answered
      BY <2>2 DEF Read, history
    <3> QED
      BY <1>1, <3>1, <3>2 DEF Answering
  <2>3. CASE ~ DecodeFrame("client") /\ ~ \E n \in 1 .. Len(stream["client"]) : Read("client", n)
    <3>1. Kept("client") /\ messages'["client"] = messages["client"] /\ answered' = answered
      BY <2>0, <2>3, WrittenIdles
    <3>2. OnWay("client", r)'
      BY <1>1, <3>1, KeptHolds
    <3> QED
      BY <1>1, <3>1, <3>2 DEF Answering
  <2> QED
    BY <2>1, <2>2, <2>3
<1>2. ASSUME Took("client") PROVE Took("client")'
  <2>1. CASE User
    BY <1>2, <2>1 DEF User, shutdown, writeMessage, Took, buffers
  <2>2. CASE Loop("client")
    BY <1>2, <2>2, NothingMoves, LoopKeeps, KeptHolds
  <2> QED
    BY <2>1, <2>2
<1>3. ASSUME Took("client")
      PROVE  User \/ (/\ ~ DecodeFrame("client")
                      /\ ~ \E n \in 1 .. Len(stream["client"]) : Read("client", n))
  BY <1>3, NothingMoves
<1>4. /\ ~ OnWrite("client") /\ ~ Encode("client") /\ ~ Encoded("client")
      /\ ~ Write("client") /\ ~ WriteNothing("client")
  BY WrittenStays
<1>5. CASE /\ Took("client") /\ answered = <<>>
           /\ pc["client"] \in {"decode", "answer"} /\ messages["client"] = <<r>>
  <2>1. excuteReplies \/ Answer \/ ReadNothing("client") \/ ReadEnd("client")
    BY <1>3, <1>4, <1>5 DEF User, shutdown, writeMessage, Loop, OnRead, Answered
  <2>2. excuteReplies \/ Answer
    BY <1>5, <2>1 DEF ReadNothing, ReadEnd
  <2>3. CASE excuteReplies
    BY <1>2, <1>5, <2>3 DEF excuteReplies, Goto, history, Answering
  <2>4. CASE Answer
    <3>1. Head(<<r>>) = r /\ Tail(<<r>>) = <<>> /\ Append(<<>>, r) = <<r>>
      OBVIOUS
    <3>2. /\ messages'["client"] = <<>> /\ answered' \in {<<>>, <<r>>}
          /\ pc'["client"] = "answer"
      BY <1>5, <2>4, <3>1 DEF Answer
    <3> QED
      BY <1>2, <1>5, <3>2 DEF Answering
  <2> QED
    BY <2>2, <2>3, <2>4
<1>6. CASE /\ Took("client") /\ answered \in {<<>>, <<r>>}
           /\ pc["client"] \in {"idle", "answer"} /\ messages["client"] = <<>>
  <2>1. User \/ Answered
    BY <1>3, <1>4, <1>6 DEF Took, Loop, OnRead, ReadNothing, ReadEnd, excuteReplies, Decoded,
                            Answer, Peer
  <2>2. messages' = messages /\ answered' = answered /\ pc'["client"] \in {"idle", "answer"}
    BY <1>6, <2>1 DEF User, shutdown, writeMessage, Answered, Goto, history
  <2> QED
    BY <1>2, <1>6, <2>2 DEF Answering
<1> QED
  BY <1>1, <1>5, <1>6 DEF Answering

LEMMA ClientReceiving ==
  ASSUME Inv, OneCall, NEW m, Of(m), Progress(m), User \/ Loop("client")
  PROVE  Receiving(m)'
<1>1. Sending(m) /\ Serving(m)
  BY DEF Progress
<1>2. CASE Unanswered
  BY <1>2, UnansweredStays DEF Receiving
<1>3. CASE Written /\ Replied(m) /\ Quiet /\ Answering(Reply[m])
  <2>1. Replied(m)' /\ Quiet'
    BY <1>1, <1>3, ClientServing
  <2>2. Written'
    BY <1>1, <1>3, WrittenStays
  <2>3. Reply[m] \in Fitting /\ Fits(Reply[m])
    BY <1>3, TheMessage DEF Written
  <2>4. Answering(Reply[m])'
    BY <1>1, <1>3, <2>3, AnsweringStays
  <2> QED
    BY <2>1, <2>2, <2>4 DEF Receiving
<1> QED
  BY <1>2, <1>3 DEF Progress, Receiving

-----------------------------------------------------------------------------
(* The invariant.                                                          *)

LEMMA InitCall ==
  ASSUME Init
  PROVE  CallInv
<1>1. /\ "client" \in End /\ "server" \in End
      /\ IsBuffer(NewBuffer(BufferSize)) /\ NewBuffer(BufferSize).m_write_index = 0
  BY NewBufferHolds, ConnectionAssumption DEF End, NewBuffer
<1>2. Readable(NewBuffer(BufferSize)) = <<>>
  BY <1>1, NothingDecoded
<1>3. /\ sent = <<>> /\ m_write_dones = <<>> /\ handled = <<>> /\ answered = <<>> /\ ended = {}
      /\ \A x \in End : /\ pc[x] = "idle" /\ messages[x] = <<>> /\ stream[x] = <<>>
                        /\ m_in_buffer[x] = NewBuffer(BufferSize)
                        /\ m_out_buffer[x] = NewBuffer(BufferSize)
      /\ listening["client"] = {}
  BY <1>1 DEF Init
<1>4. /\ \A x \in End : Unwritten(x) /\ Out(x) = <<>>
      /\ ~ Written
  BY <1>1, <1>2, <1>3 DEF Unwritten, Out, Written
<1>5. ASSUME NEW m PROVE Progress(m)
  BY <1>1, <1>3, <1>4 DEF Progress, Sending, Serving, Unasked, Receiving, Unanswered
<1> QED
  BY <1>3, <1>5 DEF CallInv

LEMMA SentOnce ==
  ASSUME Inv, OneCall, Len(sent) <= 1, [Next]_vars
  PROVE  /\ Len(sent') <= 1
         /\ sent' = sent \/ sent = <<>>
<1>1. sent \in Seq(Messages) /\ Len(sent) \in Nat /\ MaxSends \in Nat /\ MaxSends <= 1
  BY ConnectionAssumption DEF Inv, Plain, OneCall
<1>2. ASSUME NEW msg \in Messages, writeMessage(msg)
      PROVE  sent = <<>> /\ Len(sent') = 1
  <2>1. Len(sent) = 0
    BY <1>1, <1>2 DEF writeMessage
  <2>2. sent = <<>> /\ sent' = Append(sent, msg)
    BY <1>1, <1>2, <2>1, EmptySeq DEF writeMessage
  <2> QED
    BY <2>2
<1>3. ASSUME ~ \E msg \in Messages : writeMessage(msg) PROVE sent' = sent
  BY <1>3 DEF Next, User, shutdown, Loop, OnRead, ReadNothing, ReadEnd, Read, DecodeFrame,
              excuteRequests, excuteReplies, Answer, Answered, Encode, Encoded, OnWrite, Write,
              WriteNothing, history, vars
<1>4. CASE \E msg \in Messages : writeMessage(msg)
  <2>1. sent = <<>> /\ Len(sent') = 1
    BY <1>2, <1>4
  <2> QED
    BY <2>1
<1>5. CASE ~ \E msg \in Messages : writeMessage(msg)
  <2>1. sent' = sent
    BY <1>3, <1>5
  <2> QED
    BY <2>1
<1> QED
  BY <1>4, <1>5

LEMMA StepCall ==
  ASSUME Inv, OneCall, CallInv, [Next]_vars
  PROVE  CallInv'
<1>1. Len(sent') <= 1 /\ (sent' = sent \/ sent = <<>>)
  BY SentOnce DEF CallInv
<1>2. ASSUME NEW m, Of(m)' PROVE Progress(m)'
  <2>1. Of(m)
    BY <1>1, <1>2 DEF Of
  <2>2. Progress(m)
    BY <2>1 DEF CallInv
  <2>3. Sending(m) /\ Serving(m)
    BY <2>2 DEF Progress
  <2>4. CASE Loop("server")
    BY <2>1, <2>2, <2>3, <2>4, ServerSending, ServerServing, ServerReceiving DEF Progress
  <2>5. CASE User \/ Loop("client")
    BY <1>2, <2>1, <2>2, <2>3, <2>5, ClientSending, ClientServing, ClientReceiving DEF Progress
  <2>6. CASE UNCHANGED vars
    BY <2>2, <2>6 DEF vars, Progress, Sending, Serving, Receiving, Written, Unwritten, OnWay, Took,
                      Out, Unasked, Asked, Handling, Replied, Quiet, Unanswered, Answering
  <2> QED
    BY <2>4, <2>5, <2>6 DEF Next, End
<1> QED
  BY <1>1, <1>2 DEF CallInv

LEMMA CallHandled ==
  ASSUME Inv, OneCall, CallInv
  PROVE  HandledOnce
<1> DEFINE replies == [i \in DOMAIN sent |-> Reply[sent[i]]]
<1>1. CASE sent = <<>>
  <2>1. \A m : Progress(m)
    BY <1>1 DEF CallInv, Of
  <2>2. ~ Written
    BY <1>1 DEF Written
  <2>3. handled = <<>> /\ answered = <<>>
    BY <2>1, <2>2 DEF Progress, Serving, Receiving, Unasked, Unanswered
  <2>4. replies = <<>>
    BY <1>1
  <2>5. IsPrefix(<<>>, <<>>)
    BY DEF IsPrefix
  <2> QED
    BY <1>1, <2>3, <2>4, <2>5 DEF HandledOnce
<1>2. CASE sent # <<>>
  <2>1. sent \in Seq(Messages) /\ Len(sent) = 1
    <3>1. sent \in Seq(Messages) /\ Len(sent) <= 1
      BY DEF CallInv, Inv, Plain
    <3>2. Len(sent) \in Nat \ {0}
      BY <1>2, <3>1, EmptySeq, LenProperties
    <3>3. \A k \in Nat \ {0} : k <= 1 => k = 1
      OBVIOUS
    <3>4. Len(sent) = 1
      BY <3>1, <3>2, <3>3
    <3> QED
      BY <3>1, <3>4
  <2> DEFINE m == sent[1]
             r == Reply[m]
  <2>2. sent = <<m>>
    BY <2>1
  <2>3. Progress(m)
    BY <2>2 DEF CallInv, Of
  <2>4. handled \in {<<>>, <<m>>}
    BY <2>3 DEF Progress, Serving, Unasked, Asked, Handling, Replied
  <2>5. answered \in {<<>>, <<r>>}
    BY <2>3 DEF Progress, Receiving, Unanswered, Answering
  <2>6. replies = <<r>>
    BY <2>2
  <2>7. \A s : IsPrefix(<<>>, <<s>>) /\ IsPrefix(<<s>>, <<s>>)
    BY DEF IsPrefix
  <2> HIDE DEF m, r, replies
  <2>8. IsPrefix(handled, sent) /\ IsPrefix(answered, replies)
    BY <2>2, <2>4, <2>5, <2>6, <2>7
  <2> QED
    BY <2>8 DEF HandledOnce, replies
<1> QED
  BY <1>1, <1>2

\* Where a connection serves one call, as the macro CALLRPC has it, and the frames of
\* the call fit the buffer and the kernel, the server dispatches the request at most
\* once and the client's read callback gets its reply at most once, whatever the
\* interleaving of both threads and wherever the client gives up (tcp_connection.cc
\* onRead, excute, onWrite; tinypb_coder.cc).
THEOREM OneCallHandledOnce == OneCall => (SafetySpec => []HandledOnce)
<1>1. ASSUME OneCall, Init PROVE Inv /\ CallInv
  BY <1>1, InitHolds, InitCall
<1>2. ASSUME OneCall, Inv, CallInv, [Next]_vars PROVE Inv' /\ CallInv'
  BY <1>2, StepHolds, StepCall
<1>3. ASSUME OneCall, Inv, CallInv PROVE HandledOnce
  BY <1>3, CallHandled
<1>4. SUFFICES ASSUME OneCall PROVE SafetySpec => []HandledOnce
  OBVIOUS
<1> QED
  BY <1>1, <1>2, <1>3, <1>4, PTL DEF SafetySpec

-----------------------------------------------------------------------------
(* When decode returns.                                                    *)

\* decode finds no frame and its buffer is not at the start: its loop has no end.
Spins(x) ==
  /\ pc[x] = "decode"
  /\ FrameStarts(m_in_buffer[x]) = {}
  /\ m_in_buffer[x].m_write_index # 0

NeverSpins == \A x \in End : ~ Spins(x)

\* No read tears a frame, and each is a third of the buffer long at least.
WholeAndLong ==
  /\ ~ Cuts
  /\ \A m \in Messages : /\ BufferSize \div 3 <= Len(m) + 3
                         /\ BufferSize \div 3 <= Len(Reply[m]) + 3

\* Where the frame of the one call is.
LEMMA FrameSomewhere ==
  ASSUME Inv, OneCall, WholeAndLong, CallInv, NEW x \in End
  PROVE  \/ Unwritten(x)
         \/ Took(x)
         \/ \E f \in Fitting : Fits(f) /\ BufferSize \div 3 <= Len(f) + 3 /\ OnWay(x, f)
<1>1. CASE sent = <<>>
  <2>1. \A m : Progress(m)
    BY <1>1 DEF CallInv, Of
  <2>2. Unwritten("server") /\ Unwritten("client")
    BY <1>1, <2>1 DEF Progress, Serving, Receiving, Unanswered, Written
  <2> QED
    BY <2>2 DEF End
<1>2. CASE sent # <<>>
  <2>1. Len(sent) <= 1 /\ sent \in Seq(Messages)
    BY DEF CallInv, Inv, Plain
  <2>2. Len(sent) \in Nat \ {0}
    BY <1>2, <2>1, EmptySeq, LenProperties
  <2>3. sent = <<sent[1]>>
    <3>1. \A k \in Nat \ {0} : k <= 1 => k = 1
      OBVIOUS
    <3>2. Len(sent) = 1
      BY <2>1, <2>2, <3>1
    <3> QED
      BY <2>1, <3>2
  <2> DEFINE m == sent[1]
  <2>4. Progress(m)
    BY <2>3 DEF CallInv, Of
  <2>5. /\ m \in Messages /\ m \in Fitting /\ Fits(m)
        /\ Reply[m] \in Fitting /\ Fits(Reply[m])
    BY <1>2, <2>3, TheMessage DEF Of
  <2>6. Unwritten("server") \/ Took("server") \/ OnWay("server", m)
    BY <2>4 DEF Progress, Serving
  <2>7. Unwritten("client") \/ Took("client") \/ OnWay("client", Reply[m])
    BY <2>4 DEF Progress, Receiving, Unanswered, Answering
  <2>8. BufferSize \div 3 <= Len(m) + 3 /\ BufferSize \div 3 <= Len(Reply[m]) + 3
    BY <2>5 DEF WholeAndLong
  <2> HIDE DEF m
  <2> QED
    BY <2>5, <2>6, <2>7, <2>8 DEF End
<1> QED
  BY <1>1, <1>2

\* A read takes all of the frame.
LEMMA ReadAllOfIt ==
  ASSUME Inv, WholeAndLong, NEW x \in End, NEW f \in Fitting, Fits(f), OnWay(x, f),
         NEW n \in 1 .. Len(stream[x]), Read(x, n)
  PROVE  FrameStarts(m_in_buffer'[x]) # {}
<1> DEFINE b == m_in_buffer[x]
           s == encodeTinyPB(f)
           L == Len(f) + 3
<1>1. stream[x] = s /\ b.m_write_index = 0
  BY DEF Read, OnWay
<1>2. s \in Seq(Byte) /\ Len(s) = L /\ L \in Nat /\ L < BufferSize
  BY FrameBytes DEF Fits
<1>3. Readable(b) = <<>> /\ writeAble(b) = BufferSize /\ BufferSize \in Nat
  BY <1>1, InBufferFacts, ConnectionAssumption
<1>4. n = L /\ n < writeAble(b) /\ stream'[x] = SubSeq(s, n + 1, L)
  <2>1. Len(stream[x]) = L /\ ~ (writeAble(m_in_buffer[x]) = 0) /\ n # writeAble(m_in_buffer[x])
    BY <1>1, <1>2, <1>3
  <2>2. n = Len(stream[x]) /\ stream'[x] = SubSeq(stream[x], n + 1, Len(stream[x]))
    BY <2>1, Fields DEF Read, WholeAndLong
  <2> QED
    BY <1>1, <1>2, <1>3, <2>1, <2>2
<1>5. stream'[x] = <<>>
  <2>1. L + 1 \in Int /\ L \in Int /\ L < L + 1
    BY <1>2
  <2> HIDE DEF L, s
  <2> QED
    BY <1>4, <2>1, SubSeqEmpty
<1>6. IsBuffer(m_in_buffer'[x]) /\ Readable(m_in_buffer'[x]) \o <<>> = <<>> \o s
  BY <1>1, <1>3, <1>4, <1>5, ReadHolds DEF InBuffers
<1>7. Readable(m_in_buffer'[x]) = s
  <2> DEFINE r == Readable(m_in_buffer'[x])
  <2>1. r \in Seq(Byte)
    BY <1>6, BufferFields
  <2> HIDE DEF r, s
  <2>2. r \o <<>> = r /\ <<>> \o s = s
    BY <1>2, <2>1, ConcatEmptySeq
  <2> QED
    BY <1>6, <2>2 DEF r
<1> QED
  BY <1>6, <1>7, FrameDecoded

\* What moves a third of the buffer or more takes the indexes back to the start.
LEMMA DecodeRewinds ==
  ASSUME Inv, NEW x \in End, NEW f \in Fitting, BufferSize \div 3 <= Len(f) + 3,
         OnWay(x, f), DecodeFrame(x)
  PROVE  m_in_buffer'[x].m_write_index = 0
<1> DEFINE b == m_in_buffer[x]
           r == b.m_read_index
           w == b.m_write_index
           k == Len(f) + 3
<1>1. IsBuffer(b) /\ Readable(b) = encodeTinyPB(f) /\ Len(b.m_buffer) = BufferSize /\ writeAble(b) > 0
  BY InBufferFacts DEF DecodeFrame, OnWay, Inv, InBuffers
<1>2. pk_len(b) = readAble(b)
  BY <1>1, FrameDecoded
<1>3. readAble(b) = k /\ k \in Nat
  BY <1>1, FrameBytes, BufferFields
<1>4. r \in Nat /\ w \in Nat /\ w = r + k /\ BufferSize \in Nat /\ w < BufferSize
  <2>1. r \in Nat /\ w \in Nat /\ BufferSize \in Nat
    BY <1>1, BufferFields, ConnectionAssumption
  <2> QED
    BY <1>1, <1>3, <2>1 DEF readAble, writeAble
<1> DEFINE c == [b EXCEPT !.m_read_index = @ + k]
<1>5. c.m_read_index = w /\ c.m_write_index = w /\ c.m_buffer = b.m_buffer
  BY <1>1, <1>4 DEF IsBuffer
<1>6. m_in_buffer'[x] = moveReadIndex(b, k)
  BY <1>2, <1>3, Fields DEF DecodeFrame
<1>7. moveReadIndex(b, k) = adjustBuffer(c)
  BY <1>1, <1>4 DEF moveReadIndex
<1> HIDE DEF c
<1>8. adjustBuffer(c) = Copied(c, Len(c.m_buffer), readAble(c))
  <2>1. ~ (w < BufferSize \div 3)
    BY <1>3, <1>4
  <2> QED
    BY <1>1, <1>5, <2>1 DEF adjustBuffer
<1>9. readAble(c) = 0
  BY <1>4, <1>5 DEF readAble
<1> QED
  BY <1>6, <1>7, <1>8, <1>9 DEF Copied, CopyFrom

LEMMA StepSpins ==
  ASSUME Inv, OneCall, WholeAndLong, CallInv, NeverSpins, [Next]_vars
  PROVE  NeverSpins'
<1> SUFFICES ASSUME NEW x \in End PROVE ~ Spins(x)'
  BY DEF NeverSpins
<1>1. CASE UNCHANGED <<pc[x], m_in_buffer[x]>>
  BY <1>1 DEF NeverSpins, Spins
<1>2. CASE User \/ UNCHANGED vars
  BY <1>1, <1>2 DEF User, shutdown, writeMessage, vars, buffers
<1>3. ASSUME NEW y \in End, y # x, Loop(y) PROVE ~ Spins(x)'
  BY <1>1, <1>3, OtherEnd
<1>4. ASSUME Loop(x) PROVE ~ Spins(x)'
  <2>1. CASE DecodeFrame(x)
    <3>1. ~ Unwritten(x) /\ ~ Took(x)
      BY <1>4, <2>1, NothingMoves
    <3> QED
      BY <2>1, <3>1, FrameSomewhere, DecodeRewinds DEF Spins
  <2>2. ASSUME NEW n \in 1 .. Len(stream[x]), Read(x, n) PROVE ~ Spins(x)'
    <3>1. ~ Unwritten(x) /\ ~ Took(x)
      BY <1>4, <2>2, NothingMoves
    <3> QED
      BY <2>2, <3>1, FrameSomewhere, ReadAllOfIt DEF Spins
  <2>3. CASE ~ DecodeFrame(x) /\ ~ \E n \in 1 .. Len(stream[x]) : Read(x, n)
    <3>1. m_in_buffer'[x] = m_in_buffer[x]
      BY <1>4, <2>3, LoopKeeps DEF Kept
    <3>2. pc[x] # "decode" => m_in_buffer[x].m_write_index = 0
      BY FrameSomewhere DEF Unwritten, Took, OnWay
    <3> QED
      BY <3>1, <3>2 DEF NeverSpins, Spins
  <2> QED
    BY <2>1, <2>2, <2>3
<1> QED
  BY <1>2, <1>3, <1>4 DEF Next

\* tinypb_coder.cc decode, tcp_connection.cc excute: where a connection serves one
\* call, whose frames are not torn and at least as long as makes moveReadIndex rewind
\* the buffer, no thread is ever in a decode that has no end.  A torn or a short frame
\* is what it takes.
THEOREM DecodeNeverSpins == OneCall /\ WholeAndLong => (SafetySpec => []NeverSpins)
<1> SUFFICES ASSUME OneCall, WholeAndLong PROVE SafetySpec => []NeverSpins
  OBVIOUS
<1>1. Init => Inv /\ CallInv /\ NeverSpins
  BY InitHolds, InitCall DEF Init, NeverSpins, Spins
<1>2. Inv /\ CallInv /\ NeverSpins /\ [Next]_vars => Inv' /\ CallInv' /\ NeverSpins'
  BY StepHolds, StepCall, StepSpins
<1> QED
  BY <1>1, <1>2, PTL DEF SafetySpec

-----------------------------------------------------------------------------
(* Sequences of frames.                                                    *)

\* The concatenations of frames of the messages M: the least set that has the empty
\* sequence and is closed under putting such a frame in front.  In place of induction
\* one gives a set that is closed so.
ClosedUnder(M, T) ==
  /\ <<>> \in T
  /\ \A m \in M, t \in T : encodeTinyPB(m) \o t \in T

Frames(M) == {s \in Seq(Byte) : \A T \in SUBSET Seq(Byte) : ClosedUnder(M, T) => s \in T}

LEMMA FramesLeast ==
  ASSUME NEW M, NEW T, ClosedUnder(M, T \cap Seq(Byte)), NEW s \in Frames(M)
  PROVE  s \in T
<1>1. T \cap Seq(Byte) \in SUBSET Seq(Byte)
  OBVIOUS
<1>2. s \in T \cap Seq(Byte)
  BY <1>1 DEF Frames
<1> QED
  BY <1>2

LEMMA FramesClosed ==
  ASSUME NEW M \in SUBSET Fitting
  PROVE  ClosedUnder(M, Frames(M))
<1>1. <<>> \in Frames(M)
  BY EmptySeq DEF Frames, ClosedUnder
<1>2. ASSUME NEW m \in M, NEW t \in Frames(M) PROVE encodeTinyPB(m) \o t \in Frames(M)
  <2>1. encodeTinyPB(m) \in Seq(Byte) /\ t \in Seq(Byte)
    BY FittingHolds DEF Frames
  <2>2. encodeTinyPB(m) \o t \in Seq(Byte)
    BY <2>1, ConcatProperties
  <2>3. ASSUME NEW T \in SUBSET Seq(Byte), ClosedUnder(M, T) PROVE encodeTinyPB(m) \o t \in T
    <3>1. t \in T
      BY <2>3 DEF Frames
    <3> QED
      BY <2>3, <3>1 DEF ClosedUnder
  <2> QED
    BY <2>2, <2>3 DEF Frames
<1> QED
  BY <1>1, <1>2 DEF ClosedUnder

LEMMA FramesGrow ==
  ASSUME NEW M, NEW N, M \subseteq N, NEW s \in Frames(M)
  PROVE  s \in Frames(N)
BY DEF Frames, ClosedUnder

LEMMA FramesConcat ==
  ASSUME NEW M \in SUBSET Fitting, NEW s \in Frames(M), NEW t \in Frames(M)
  PROVE  s \o t \in Frames(M)
<1> DEFINE T == {u \in Seq(Byte) : u \o t \in Frames(M)}
<1>0. t \in Seq(Byte) /\ ClosedUnder(M, Frames(M))
  BY FramesClosed DEF Frames
<1>1. <<>> \in T
  <2>1. <<>> \o t = t /\ <<>> \in Seq(Byte)
    BY <1>0, ConcatEmptySeq, EmptySeq
  <2> QED
    BY <2>1
<1>2. ASSUME NEW m \in M, NEW u \in T PROVE encodeTinyPB(m) \o u \in T
  <2>1. encodeTinyPB(m) \in Seq(Byte) /\ u \in Seq(Byte) /\ u \o t \in Frames(M)
    BY FittingHolds
  <2>2. encodeTinyPB(m) \o u \in Seq(Byte)
    BY <2>1, ConcatProperties
  <2>3. (encodeTinyPB(m) \o u) \o t = encodeTinyPB(m) \o (u \o t)
    BY <1>0, <2>1, Associative
  <2>4. encodeTinyPB(m) \o (u \o t) \in Frames(M)
    BY <1>0, <2>1 DEF ClosedUnder
  <2> QED
    BY <2>2, <2>3, <2>4
<1>3. ClosedUnder(M, T \cap Seq(Byte))
  <2>1. T \cap Seq(Byte) = T
    OBVIOUS
  <2> HIDE DEF T
  <2> QED
    BY <1>1, <1>2, <2>1 DEF ClosedUnder
<1>4. s \in T
  BY <1>3, FramesLeast
<1> QED
  BY <1>4

\* A sequence of frames that is not empty begins with one.
LEMMA FramesFirst ==
  ASSUME NEW M \in SUBSET Fitting, NEW s \in Frames(M), s # <<>>
  PROVE  \E m \in M, t \in Frames(M) : s = encodeTinyPB(m) \o t
<1> DEFINE T == {u \in Seq(Byte) : u = <<>> \/ \E m \in M, t \in Frames(M) : u = encodeTinyPB(m) \o t}
<1>0. ClosedUnder(M, Frames(M)) /\ <<>> \in Frames(M)
  BY FramesClosed DEF ClosedUnder
<1>1. <<>> \in T
  BY EmptySeq
<1>2. ASSUME NEW m \in M, NEW u \in T PROVE encodeTinyPB(m) \o u \in T
  <2>1. u \in Frames(M)
    BY <1>0 DEF ClosedUnder
  <2>2. encodeTinyPB(m) \o u \in Frames(M)
    BY <1>0, <2>1 DEF ClosedUnder
  <2>3. encodeTinyPB(m) \o u \in Seq(Byte)
    BY <2>2 DEF Frames
  <2> QED
    BY <2>1, <2>3
<1>3. ClosedUnder(M, T \cap Seq(Byte))
  <2>1. T \cap Seq(Byte) = T
    OBVIOUS
  <2> HIDE DEF T
  <2> QED
    BY <1>1, <1>2, <2>1 DEF ClosedUnder
<1>4. s \in T
  BY <1>3, FramesLeast
<1> QED
  BY <1>4

-----------------------------------------------------------------------------
(* decode takes the first of the frames, and out of it the message.        *)

\* The bytes of a frame with more behind it.
LEMMA FrontBytes ==
  ASSUME NEW m \in Fitting, NEW t \in Seq(Byte), NEW s, s = encodeTinyPB(m) \o t
  PROVE  /\ s \in Seq(Byte)
         /\ Len(s) = Len(m) + 3 + Len(t)
         /\ \A i \in 1 .. Len(m) + 3 : s[i] = encodeTinyPB(m)[i]
         /\ SubSeq(s, Len(m) + 4, Len(s)) = t
<1> DEFINE f == encodeTinyPB(m)
<1>1. f \in Seq(Byte) /\ Len(f) = Len(m) + 3 /\ Len(m) \in Nat /\ Len(t) \in Nat
  BY FrameBytes, LenProperties
<1>2. s = f \o t
  OBVIOUS
<1> HIDE DEF f
<1>3. /\ f \o t \in Seq(Byte)
      /\ Len(f \o t) = Len(f) + Len(t)
      /\ \A i \in 1 .. Len(f) + Len(t) : (f \o t)[i] = IF i <= Len(f) THEN f[i] ELSE t[i - Len(f)]
  BY <1>1, ConcatProperties
<1>4. SubSeq(s, Len(f) + 1, Len(f) + Len(t)) = t
  BY <1>1, <1>2, SuffixHolds
<1>5. (Len(m) + 3) + 1 = Len(m) + 4
  BY <1>1
<1>6. \A i \in 1 .. Len(m) + 3 : i \in 1 .. Len(f) + Len(t) /\ i <= Len(f)
  BY <1>1
<1>7. /\ s \in Seq(Byte) /\ Len(s) = Len(f) + Len(t)
      /\ \A i \in 1 .. Len(m) + 3 : s[i] = f[i]
  BY <1>2, <1>3, <1>6
<1>8. SubSeq(s, Len(m) + 4, Len(s)) = t
  BY <1>1, <1>4, <1>5, <1>7
<1> QED
  BY <1>1, <1>7, <1>8 DEF f

NoMark(M) == \A m \in M : \A i \in 1 .. Len(m) : m[i] # PB_START

\* Of frames of which the buffer may hold the front of one: where no message has a
\* start mark, or where nothing is behind the buffer, decode takes the first.
LEMMA DecodeTakesFirst ==
  ASSUME Inv, NEW x \in End, DecodeFrame(x), NEW M \in SUBSET Fitting,
         NEW u \in Seq(Byte), Readable(m_in_buffer[x]) \o u \in Frames(M),
         u = <<>> \/ NoMark(M)
  PROVE  /\ Message(m_in_buffer[x]) \in M
         /\ Readable(m_in_buffer'[x]) \o u \in Frames(M)
<1> DEFINE b == m_in_buffer[x]
           r == Readable(b)
<1>1. /\ IsBuffer(b) /\ r \in Seq(Byte) /\ Len(r) = readAble(b) /\ readAble(b) \in Nat
      /\ FrameStarts(b) # {}
  BY InBufferFacts, BufferFields DEF DecodeFrame
<1>2. readAble(b) # 0
  BY <1>1, NothingDecoded
<1>3. /\ r \o u \in Seq(Byte) /\ Len(r \o u) = Len(r) + Len(u) /\ Len(u) \in Nat
      /\ \A i \in 1 .. Len(r) + Len(u) : (r \o u)[i] = IF i <= Len(r) THEN r[i] ELSE u[i - Len(r)]
  <2> HIDE DEF r
  <2> QED
    BY <1>1, ConcatProperties, LenProperties
<1> DEFINE W == r \o u
<1>4. W # <<>>
  <2>1. Len(W) # 0
    BY <1>1, <1>2, <1>3
  <2> HIDE DEF W
  <2> QED
    BY <2>1, EmptySeq
<1>5. PICK m \in M, t \in Frames(M) : W = encodeTinyPB(m) \o t
  <2>1. W \in Frames(M)
    OBVIOUS
  <2> HIDE DEF W
  <2> QED
    BY <1>4, <2>1, FramesFirst
<1> DEFINE f == encodeTinyPB(m)
           k == Len(m) + 3
<1>6. /\ m \in Fitting /\ t \in Seq(Byte) /\ k \in Nat /\ k >= 4
      /\ f \in Seq(Byte) /\ Len(f) = k
      /\ Len(t) \in Nat
  <2>1. m \in Fitting /\ t \in Seq(Byte)
    BY DEF Frames
  <2>2. Len(m) \in Nat \ {0} /\ f \in Seq(Byte) /\ Len(f) = k
    BY <2>1, FrameBytes
  <2> QED
    BY <2>1, <2>2, LenProperties
<1>7. /\ Len(W) = k + Len(t)
      /\ \A i \in 1 .. k : W[i] = f[i]
      /\ SubSeq(W, k + 1, Len(W)) = t
  <2>1. Len(m) + 4 = k + 1
    BY <1>6
  <2> HIDE DEF W
  <2> QED
    BY <1>5, <1>6, <2>1, FrontBytes
<1>8. Len(r) >= k
  <2>1. CASE u = <<>>
    <3>1. Len(u) = 0
      BY <2>1, EmptySeq
    <3> HIDE DEF k, r
    <3> QED
      BY <1>1, <1>3, <1>6, <1>7, <3>1
  <2>2. CASE NoMark(M)
    <3> SUFFICES ASSUME ~ (Len(r) >= k) PROVE FALSE
      OBVIOUS
    <3> DEFINE n == Len(r)
    <3>1. n \in 0 .. Len(m) + 2 /\ n \in Nat \ {0} /\ n \in 1 .. k
      BY <1>1, <1>2, <1>6
    <3>2. r = SubSeq(f, 1, n)
      <4>1. n = Len(r)
        OBVIOUS
      <4> HIDE DEF n, f, k, b, r
      <4>2. \A i \in 1 .. n : r[i] = f[i]
        <5>1. \A i \in 1 .. n : i \in 1 .. Len(r) + Len(u) /\ i <= Len(r) /\ i \in 1 .. k
          BY <1>3, <1>6, <3>1, <4>1
        <5> QED
          BY <1>3, <1>7, <5>1
      <4>3. n \in 0 .. Len(f)
        BY <1>6, <3>1
      <4>4. SubSeq(f, 1, n) \in Seq(Byte) /\ Len(SubSeq(f, 1, n)) = n
        BY <1>6, <4>3, SplitHolds
      <4>5. \A i \in 1 .. n : SubSeq(f, 1, n)[i] = f[i]
        <5>1. \A i \in 1 .. n : f[i] \in Byte
          BY <1>6, <3>1, ElementOfSeq
        <5>2. 1 \in Int /\ n \in Int
          BY <3>1
        <5>3. \A i \in 1 .. n - 1 + 1 : SubSeq(f, 1, n)[i] = f[1 + i - 1]
          BY <5>1, <5>2, SubSeqProperties
        <5> QED
          BY <3>1, <5>3
      <4> DEFINE g == SubSeq(f, 1, n)
      <4>6. g \in Seq(Byte) /\ Len(g) = n /\ \A i \in 1 .. n : r[i] = g[i]
        BY <4>2, <4>4, <4>5
      <4> HIDE DEF g
      <4>7. r = g
        BY <1>1, <4>1, <4>6, SeqEqual
      <4> QED
        BY <4>7 DEF g
    <3>3. \A i \in 1 .. Len(m) : m[i] # PB_START
      BY <2>2 DEF NoMark
    <3>4. FrameStarts(b) = {}
      BY <1>1, <1>6, <3>1, <3>2, <3>3, TornFrame
    <3> QED
      BY <1>1, <3>4
  <2> QED
    BY <2>1, <2>2
<1>9. pk_len(b) = k /\ Message(b) = m
  <2>1. \A i \in 1 .. k : r[i] = f[i]
    <3>1. \A i \in 1 .. k : i \in 1 .. Len(r) + Len(u) /\ i <= Len(r)
      BY <1>1, <1>3, <1>6, <1>8
    <3> HIDE DEF k, f, r
    <3> QED
      BY <1>3, <1>7, <3>1
  <2>2. Len(m) + 3 <= readAble(b)
    BY <1>1, <1>6, <1>8
  <2> QED
    BY <1>1, <1>6, <2>1, <2>2, FrontDecoded
<1>10. Readable(m_in_buffer'[x]) = SubSeq(r, k + 1, Len(r))
  BY <1>1, <1>9, DecodeHolds
<1>11. SubSeq(r, k + 1, Len(r)) \o u = SubSeq(W, k + 1, Len(W))
  <2>1. k \in 0 .. Len(r)
    BY <1>1, <1>6, <1>8
  <2> HIDE DEF k, r
  <2> QED
    BY <1>1, <2>1, TakeHolds
<1> QED
  BY <1>5, <1>7, <1>9, <1>10, <1>11

-----------------------------------------------------------------------------
(* Any number of messages: only what was sent is handled.                  *)

\* No read fills its buffer, and the kernel has room for whatever is written.
Fills == \E x \in End : \E n \in 1 .. Len(stream[x]) :
           Read(x, n) /\ n = writeAble(m_in_buffer[x])
Parts == \E x \in End : Write(x) /\ Room(x) < Len(Out(x))

WholeSpec == Init /\ [][Next /\ ~ Fills /\ ~ Parts]_vars

\* Where a read may tear a frame, its front does not look like a frame.
NoMarks == Cuts => NoMark(Messages) /\ NoMark(Range(Reply))

\* The server handles messages that were sent, and the client's read callbacks get
\* replies to such.
OnlySent ==
  /\ Range(handled) \subseteq Range(sent)
  /\ Range(answered) \subseteq {Reply[m] : m \in Range(sent)}

\* The messages that travel to x.
To(x) == IF x = "server" THEN Range(sent) ELSE {Reply[m] : m \in Range(sent)}

\* The inductive invariant: everywhere on its way, a message is one of them.
Whole(x) ==
  IF Cuts THEN Readable(m_in_buffer[x]) \o stream[x] \in Frames(To(x))
          ELSE /\ Readable(m_in_buffer[x]) \in Frames(To(x))
               /\ stream[x] \in Frames(To(x))

Carried(x) ==
  /\ Whole(x)
  /\ Out(x) \in Frames(To(Peer(x)))
  /\ messages[x] \in Seq(IF pc[x] = "encode" THEN To(Peer(x)) ELSE To(x))

WholeInv ==
  /\ \A x \in End : Carried(x)
  /\ m_write_dones \in Seq(To("server"))
  /\ handled \in Seq(To("server"))
  /\ answered \in Seq(To("client"))

LEMMA RangeIn ==
  ASSUME NEW S, NEW s \in Seq(S)
  PROVE  Range(s) \subseteq S
BY ElementOfSeq, LenProperties DEF Range

LEMMA ToFacts ==
  ASSUME Inv
  PROVE  /\ To("server") \subseteq Messages
         /\ \A m \in To("server") : dispatch(m) \in To("client")
         /\ \A x \in End : To(x) \in SUBSET Fitting /\ To(Peer(x)) \in SUBSET Fitting
         /\ NoMarks /\ Cuts => \A x \in End : NoMark(To(x))
<1>1. Range(sent) \subseteq Messages
  BY RangeIn DEF Inv, Plain
<1>2. ASSUME NEW m \in Messages
      PROVE  m \in Fitting /\ Reply[m] \in Fitting /\ Reply[m] \in Range(Reply) /\ dispatch(m) = Reply[m]
  <2>1. dispatch(m) = Reply[m] /\ m \in DOMAIN Reply
    BY ConnectionAssumption DEF dispatch
  <2>2. m \in Fitting /\ dispatch(m) \in Fitting
    BY FittingHolds
  <2> QED
    BY <2>1, <2>2 DEF Range
<1>3. To("server") \subseteq Messages /\ \A m \in To("server") : dispatch(m) \in To("client")
  BY <1>1, <1>2 DEF To
<1>4. \A x \in End : To(x) \in SUBSET Fitting /\ To(Peer(x)) \in SUBSET Fitting
  BY <1>1, <1>2 DEF To, Peer
<1>5. NoMarks /\ Cuts => \A x \in End : NoMark(To(x))
  BY <1>1, <1>2 DEF NoMarks, NoMark, To
<1> QED
  BY <1>3, <1>4, <1>5

\* Sending one more message takes none of them away.
LEMMA MoreSent ==
  ASSUME Inv, \A x \in End : To(x) \subseteq To(x)', WholeInv,
         UNCHANGED <<buffers, stream, messages, pc, handled, answered>>,
         m_write_dones' \in Seq(To("server")')
  PROVE  WholeInv'
<1>0. "client" \in End /\ "server" \in End /\ \A x \in End : Peer(x) \in End
  BY DEF End, Peer
<1>1. \A x \in End : \A s \in Seq(To(x)) : s \in Seq(To(x)')
  BY SeqMonotonic
<1>2. \A x \in End : \A s \in Frames(To(x)) : s \in Frames(To(x)')
  BY FramesGrow
<1>3. ASSUME NEW x \in End PROVE Carried(x)'
  <2>1. Carried(x)
    BY DEF WholeInv
  <2>2. Whole(x)'
    BY <1>2, <2>1 DEF Carried, Whole, buffers
  <2>3. Out(x)' \in Frames(To(Peer(x))')
    BY <1>0, <1>2, <2>1 DEF Carried, Out, buffers
  <2>4. messages'[x] \in Seq(IF pc'[x] = "encode" THEN To(Peer(x))' ELSE To(x)')
    BY <1>0, <1>1, <2>1 DEF Carried
  <2> QED
    BY <2>2, <2>3, <2>4 DEF Carried
<1> QED
  BY <1>0, <1>1, <1>3 DEF WholeInv

LEMMA LoopSends ==
  ASSUME NEW x \in End, Loop(x)
  PROVE  sent' = sent /\ \A y : To(y)' = To(y)
<1>1. sent' = sent
  BY DEF Loop, OnRead, ReadNothing, ReadEnd, Read, DecodeFrame, excuteRequests, excuteReplies,
         Answer, Answered, Encode, Encoded, OnWrite, Write, WriteNothing, history
<1> QED
  BY <1>1 DEF To

\* An end none of whose messages moves keeps them.
LEMMA KeepsCarried ==
  ASSUME NEW y, Carried(y), To(y)' = To(y), To(Peer(y))' = To(Peer(y)),
         UNCHANGED <<m_in_buffer[y], stream[y], m_out_buffer[y], messages[y]>>,
         messages[y] = <<>> \/ (pc'[y] = "encode" <=> pc[y] = "encode")
  PROVE  Carried(y)'
<1>1. Whole(y)' /\ Out(y)' \in Frames(To(Peer(y))')
  BY DEF Carried, Whole, Out
<1>2. messages'[y] \in Seq(IF pc'[y] = "encode" THEN To(Peer(y))' ELSE To(y)')
  BY EmptySeq DEF Carried
<1> QED
  BY <1>1, <1>2 DEF Carried

LEMMA ReadWhole ==
  ASSUME Inv, NEW x \in End, Carried(x), NEW n \in 1 .. Len(stream[x]), Read(x, n), ~ Fills
  PROVE  Carried(x)'
<1> DEFINE b == m_in_buffer[x]
           r == Readable(m_in_buffer[x])
           s == stream[x]
           c == Readable(m_in_buffer'[x])
<1>0. \A y : To(y)' = To(y)
  BY LoopSends DEF Loop
<1>1. /\ n \in 1 .. writeAble(b) /\ n # writeAble(b) /\ writeAble(b) > 0
      /\ s \in Seq(Byte) /\ r \in Seq(Byte) /\ writeAble(b) \in Nat
  <2>1. IsBuffer(b) /\ s \in Seq(Byte) /\ writeAble(b) > 0
    BY DEF Inv, InBuffers, Plain
  <2>2. r \in Seq(Byte) /\ writeAble(b) \in Nat
    BY <2>1, BufferFields DEF writeAble
  <2> QED
    BY <2>1, <2>2, ReadHolds DEF Fills
<1>2. c \o stream'[x] = r \o s
  <2>1. n \in Int /\ n < writeAble(b)
    BY <1>1
  <2> QED
    BY <2>1, ReadHolds
<1>3. ASSUME Cuts PROVE Whole(x)'
  BY <1>0, <1>2, <1>3 DEF Carried, Whole
<1>4. ASSUME ~ Cuts PROVE Whole(x)'
  <2>1. stream'[x] = SubSeq(s, n + 1, Len(s)) /\ n = Len(s)
    <3>1. ~ (writeAble(m_in_buffer[x]) = 0)
      BY <1>1
    <3> QED
      BY <1>1, <1>4, <3>1, Fields DEF Read
  <2>2. stream'[x] = <<>>
    <3>1. Len(s) + 1 \in Int /\ Len(s) \in Int /\ Len(s) < Len(s) + 1
      BY <2>1
    <3> QED
      BY <2>1, <3>1, SubSeqEmpty
  <2>3. IsBuffer(m_in_buffer'[x])
    BY ReadHolds DEF InBuffers
  <2>4. c \in Seq(Byte)
    BY <2>3, BufferFields
  <2>5. c = r \o s
    <3> HIDE DEF c, r, s
    <3>1. c \o <<>> = c
      BY <2>4, ConcatEmptySeq
    <3> QED
      BY <1>2, <2>2, <3>1
  <2>6. r \in Frames(To(x)) /\ s \in Frames(To(x)) /\ To(x) \in SUBSET Fitting
    BY <1>4, ToFacts DEF Carried, Whole
  <2>7. r \o s \in Frames(To(x)) /\ <<>> \in Frames(To(x))
    BY <2>6, FramesConcat, FramesClosed DEF ClosedUnder
  <2> QED
    BY <1>0, <1>4, <2>2, <2>5, <2>7 DEF Carried, Whole
<1>5. Whole(x)'
  BY <1>3, <1>4
<1>6. Out(x)' = Out(x) /\ messages' = messages /\ pc[x] # "encode" /\ pc'[x] # "encode"
  BY Fields DEF Read, Out, Goto
<1> QED
  BY <1>0, <1>5, <1>6 DEF Carried

LEMMA DecodeWhole ==
  ASSUME Inv, NoMarks, NEW x \in End, Carried(x), DecodeFrame(x)
  PROVE  Carried(x)'
<1> DEFINE b == m_in_buffer[x]
           r == Readable(m_in_buffer[x])
           c == Readable(m_in_buffer'[x])
           s == stream[x]
<1>0. \A y : To(y)' = To(y)
  BY LoopSends DEF Loop
<1>1. /\ To(x) \in SUBSET Fitting /\ s \in Seq(Byte)
      /\ r \in Seq(Byte) /\ c \in Seq(Byte)
  <2>1. IsBuffer(b) /\ IsBuffer(m_in_buffer'[x]) /\ s \in Seq(Byte)
    BY DecodeHolds DEF Inv, InBuffers, Plain
  <2> QED
    BY <2>1, ToFacts, BufferFields
<1>2. pc' = pc /\ stream' = stream /\ Out(x)' = Out(x) /\ pc[x] = "decode"
  BY DEF DecodeFrame, Out
<1>3. Message(b) \in To(x) /\ Whole(x)'
  <2>1. CASE Cuts
    <3>1. r \o s \in Frames(To(x)) /\ NoMark(To(x))
      BY <2>1, ToFacts DEF Carried, Whole
    <3>2. Message(b) \in To(x) /\ c \o s \in Frames(To(x))
      BY <1>1, <3>1, DecodeTakesFirst
    <3> QED
      BY <1>0, <1>2, <2>1, <3>2 DEF Whole
  <2>2. CASE ~ Cuts
    <3>1. r \in Frames(To(x)) /\ s \in Frames(To(x))
      BY <2>2 DEF Carried, Whole
    <3>2. r \o <<>> = r /\ c \o <<>> = c /\ <<>> \in Seq(Byte)
      <4> HIDE DEF r, c
      <4> QED
        BY <1>1, ConcatEmptySeq, EmptySeq
    <3>3. r \o <<>> \in Frames(To(x))
      BY <3>1, <3>2
    <3>4. Message(b) \in To(x) /\ c \o <<>> \in Frames(To(x))
      BY <1>1, <3>2, <3>3, DecodeTakesFirst
    <3> QED
      BY <1>0, <1>2, <2>2, <3>1, <3>2, <3>4 DEF Whole
  <2> QED
    BY <2>1, <2>2
<1>4. messages'[x] \in Seq(To(x))
  <2>1. messages[x] \in Seq(To(x))
    BY <1>2 DEF Carried
  <2>2. Append(messages[x], Message(b)) \in Seq(To(x))
    BY <1>3, <2>1, AppendProperties
  <2>3. messages'[x] = messages[x] \/ messages'[x] = Append(messages[x], Message(b))
    BY Fields DEF DecodeFrame
  <2> QED
    BY <2>1, <2>2, <2>3
<1> QED
  BY <1>0, <1>2, <1>3, <1>4 DEF Carried

\* A frame is put behind those of the out buffer.
LEMMA EncodeWhole ==
  ASSUME Inv, NEW x \in End, Carried(x), Encode(x)
  PROVE  Carried(x)'
<1> DEFINE m == Head(messages[x])
           f == encodeTinyPB(Head(messages[x]))
           M == To(Peer(x))
<1>0. \A y : To(y)' = To(y)
  BY LoopSends DEF Loop
<1>1. /\ pc[x] = "encode" /\ messages[x] # <<>> /\ pc' = pc
      /\ messages'[x] = Tail(messages[x])
      /\ m_out_buffer'[x] = writeToBuffer(m_out_buffer[x], f)
      /\ UNCHANGED <<m_in_buffer, stream>>
  BY Fields DEF Encode
<1>2. M \in SUBSET Fitting /\ messages[x] \in Seq(M)
  BY <1>1, ToFacts DEF Carried
<1>3. m \in M /\ messages'[x] \in Seq(M)
  <2> HIDE DEF M
  <2> QED
    BY <1>1, <1>2, HeadTailProperties
<1>4. f \in Seq(Byte) /\ f \in Frames(M)
  <2>1. f \in Seq(Byte) /\ m \in Fitting
    BY <1>2, <1>3, FittingHolds
  <2>2. f \o <<>> \in Frames(M)
    BY <1>2, <1>3, FramesClosed DEF ClosedUnder
  <2>3. f \o <<>> = f
    <3> HIDE DEF f
    <3> QED
      BY <2>1, ConcatEmptySeq
  <2> QED
    BY <2>1, <2>2, <2>3
<1>5. Out(x)' = Out(x) \o f
  <2>1. IsBuffer(m_out_buffer[x])
    BY OutFacts
  <2> HIDE DEF f
  <2> QED
    BY <1>1, <1>4, <2>1, WriteAppends DEF Out
<1>6. Out(x) \o f \in Frames(M)
  <2>1. Out(x) \in Frames(M)
    BY DEF Carried
  <2> HIDE DEF f, M
  <2> QED
    BY <1>2, <1>4, <2>1, FramesConcat
<1>7. Whole(x)'
  BY <1>0, <1>1 DEF Carried, Whole
<1> QED
  BY <1>0, <1>1, <1>3, <1>5, <1>6, <1>7 DEF Carried

\* All that the out buffer holds goes to the other end, or nowhere.
LEMMA WriteWhole ==
  ASSUME Inv, NEW x \in End, Carried(Peer(x)), Carried(x), Write(x), ~ Parts
  PROVE  Carried(Peer(x))'
<1> DEFINE y == Peer(x)
           data == Out(x)
<1>0. /\ \A z : To(z)' = To(z)
      /\ y \in End /\ y # x
      /\ UNCHANGED <<pc[y], messages[y], m_in_buffer[y], m_out_buffer[y]>>
  BY LoopSends, OtherEnd, Fields DEF Loop
<1>1. data \in Seq(Byte) /\ Len(data) \in Nat /\ stream[y] \in Seq(Byte) /\ Len(stream[y]) \in Nat
  BY <1>0, OutFacts, LenProperties DEF Inv, Plain
<1>2. Room(x) \in Int
  BY <1>1, ConnectionAssumption DEF Room
<1>3. ~ (Room(x) < Len(data))
  BY DEF Parts
<1>4. (IF Len(data) < Room(x) THEN Len(data) ELSE Room(x)) = Len(data)
  <2> HIDE DEF data
  <2> QED
    BY <1>1, <1>2, <1>3
<1>5. SubSeq(data, 1, Len(data)) = data
  <2> HIDE DEF data
  <2> QED
    BY <1>1, SubSeqFull
<1>6. stream'[y] = stream[y] \/ stream'[y] = stream[y] \o data
  <2>1. stream' = [stream EXCEPT ![y] = IF y \in ended THEN @ ELSE @ \o SubSeq(data, 1, Len(data))]
    BY <1>4 DEF Write, Out
  <2> HIDE DEF y, data
  <2> QED
    BY <1>0, <1>5, <2>1, Fields
<1>7. CASE stream'[y] = stream[y]
  <2> HIDE DEF y
  <2> QED
    BY <1>0, <1>7, KeepsCarried DEF y
<1>8. CASE stream'[y] = stream[y] \o data
  <2> DEFINE M == To(y)
             r == Readable(m_in_buffer[y])
  <2>1. M \in SUBSET Fitting /\ data \in Frames(M)
    BY <1>0, ToFacts DEF Carried
  <2>2. Whole(y)'
    <3>1. CASE Cuts
      <4>1. r \o stream[y] \in Frames(M)
        BY <3>1 DEF Carried, Whole
      <4>2. r \in Seq(Byte)
        BY <1>0, InBufferFacts, BufferFields
      <4> HIDE DEF r, data, M, y
      <4>3. (r \o stream[y]) \o data = r \o (stream[y] \o data)
        BY <1>1, <4>2, Associative
      <4>4. (r \o stream[y]) \o data \in Frames(M)
        BY <2>1, <4>1, FramesConcat
      <4>5. Readable(m_in_buffer'[y]) \o stream'[y] \in Frames(M)
        BY <1>0, <1>8, <4>3, <4>4 DEF r
      <4> QED
        BY <1>0, <3>1, <4>5 DEF Whole, M
    <3>2. CASE ~ Cuts
      <4>1. r \in Frames(M) /\ stream[y] \in Frames(M)
        BY <3>2 DEF Carried, Whole
      <4> HIDE DEF data, M, y
      <4>2. stream[y] \o data \in Frames(M)
        BY <2>1, <4>1, FramesConcat
      <4> QED
        BY <1>0, <1>8, <3>2, <4>1, <4>2 DEF Whole, M
    <3> QED
      BY <3>1, <3>2
  <2>3. Out(y)' \in Frames(To(Peer(y))')
    BY <1>0 DEF Carried, Out
  <2>4. messages'[y] \in Seq(IF pc'[y] = "encode" THEN To(Peer(y))' ELSE To(y)')
    BY <1>0 DEF Carried
  <2> QED
    BY <2>2, <2>3, <2>4 DEF Carried
<1> QED
  BY <1>6, <1>7, <1>8

\* The server turns each request into its reply, and the client's onWrite takes up
\* what waits to be sent.
LEMMA TakenUp ==
  ASSUME Inv, WholeInv, NEW x \in End,
         (x = "server" /\ excuteRequests) \/ (x = "client" /\ OnWrite(x))
  PROVE  Carried(x)'
<1>0. /\ Carried(x)
      /\ \A y : To(y)' = To(y)
      /\ UNCHANGED <<m_in_buffer[x], m_out_buffer[x], stream[x]>>
  BY LoopSends DEF Loop, WholeInv, excuteRequests, OnWrite, buffers
<1>1. Whole(x)' /\ Out(x)' \in Frames(To(Peer(x))')
  BY <1>0 DEF Carried, Whole, Out
<1>2. messages'[x] \in Seq(To(Peer(x)))
  <2>1. CASE x = "client" /\ OnWrite(x)
    <3>1. messages'[x] = m_write_dones
      BY <2>1, Fields DEF OnWrite
    <3>2. m_write_dones \in Seq(To("server")) /\ Peer(x) = "server"
      BY <2>1 DEF WholeInv, Peer
    <3> QED
      BY <3>1, <3>2
  <2>2. CASE x = "server" /\ excuteRequests
    <3>1. /\ messages'[x] = [i \in DOMAIN messages[x] |-> dispatch(messages[x][i])]
          /\ pc[x] # "encode"
      BY <2>2, Fields DEF excuteRequests, Decoded
    <3>2. messages[x] \in Seq(To("server")) /\ Peer(x) = "client"
      BY <1>0, <2>2, <3>1 DEF Carried, Peer
    <3>3. /\ Len(messages[x]) \in Nat
          /\ DOMAIN messages[x] = 1 .. Len(messages[x])
      BY <3>2, LenProperties
    <3>4. ASSUME NEW i \in DOMAIN messages[x]
          PROVE  dispatch(messages[x][i]) \in To("client")
      <4>1. messages[x][i] \in To("server")
        BY <3>2, <3>3, ElementOfSeq
      <4> QED
        BY <4>1, ToFacts
    <3> HIDE DEF To, dispatch
    <3>5. [i \in 1 .. Len(messages[x]) |-> dispatch(messages[x][i])] \in Seq(To("client"))
      BY <3>3, <3>4, IsASeq
    <3> QED
      BY <3>1, <3>2, <3>3, <3>5
  <2> QED
    BY <2>1, <2>2
<1>3. pc'[x] = "encode"
  BY Fields DEF excuteRequests, OnWrite, Goto
<1> QED
  BY <1>0, <1>1, <1>2, <1>3 DEF Carried

LEMMA AnswerWhole ==
  ASSUME Inv, WholeInv, Answer
  PROVE  Carried("client")' /\ answered' \in Seq(To("client"))
<1> DEFINE s == messages["client"]
<1>0. /\ Carried("client") /\ answered \in Seq(To("client"))
      /\ \A y : To(y)' = To(y)
      /\ UNCHANGED <<m_in_buffer, m_out_buffer, stream, pc>>
  BY LoopSends DEF Loop, WholeInv, Answer, buffers, End
<1>1. /\ pc["client"] = "answer" /\ s # <<>> /\ messages'["client"] = Tail(s)
      /\ answered' = answered \/ answered' = Append(answered, Head(s))
  BY Fields DEF Answer
<1>2. s \in Seq(To("client"))
  BY <1>0, <1>1 DEF Carried
<1>3. Tail(s) \in Seq(To("client")) /\ Head(s) \in To("client")
  <2> HIDE DEF s
  <2> QED
    BY <1>1, <1>2, HeadTailProperties
<1>4. Append(answered, Head(s)) \in Seq(To("client"))
  <2> HIDE DEF s
  <2> QED
    BY <1>0, <1>3, AppendProperties
<1>5. Whole("client")' /\ Out("client")' \in Frames(To(Peer("client"))')
  BY <1>0 DEF Carried, Whole, Out
<1>6. answered' \in Seq(To("client"))
  BY <1>0, <1>1, <1>4
<1> QED
  BY <1>0, <1>1, <1>3, <1>5, <1>6 DEF Carried

LEMMA OwnWhole ==
  ASSUME Inv, NoMarks, WholeInv, NEW x \in End, Loop(x), ~ Fills
  PROVE  Carried(x)'
<1>0. Carried(x) /\ To(x)' = To(x) /\ To(Peer(x))' = To(Peer(x))
  BY LoopSends DEF WholeInv
<1>1. CASE \E n \in 1 .. Len(stream[x]) : Read(x, n)
  BY <1>0, <1>1, ReadWhole
<1>2. CASE DecodeFrame(x)
  BY <1>0, <1>2, DecodeWhole
<1>3. CASE Encode(x)
  BY <1>0, <1>3, EncodeWhole
<1>4. CASE (x = "server" /\ excuteRequests) \/ (x = "client" /\ OnWrite(x))
  BY <1>4, TakenUp
<1>5. CASE x = "client" /\ Answer
  BY <1>5, AnswerWhole
<1>6. CASE \/ OnRead(x) \/ ReadNothing(x) \/ ReadEnd(x)
           \/ (x = "client" /\ (excuteReplies \/ Answered))
           \/ (x = "server" /\ OnWrite(x))
           \/ Encoded(x) \/ Write(x) \/ WriteNothing(x)
  <2>1. /\ UNCHANGED <<m_in_buffer[x], m_out_buffer[x], messages[x]>>
        /\ stream'[x] = stream[x]
    BY <1>6, Fields DEF OnRead, ReadNothing, ReadEnd, excuteReplies, Answered, OnWrite,
                        Encoded, Write, WriteNothing, buffers
  <2>2. messages[x] = <<>> \/ (pc[x] # "encode" /\ pc'[x] # "encode")
    BY <1>6, Fields DEF OnRead, ReadNothing, ReadEnd, excuteReplies, Answered, OnWrite,
                        Encoded, Write, WriteNothing, Finish, Goto, Decoded
  <2> QED
    BY <1>0, <2>1, <2>2, KeepsCarried
<1>7. x = "client" \/ x = "server"
  BY DEF End
<1> QED
  BY <1>1, <1>2, <1>3, <1>4, <1>5, <1>6, <1>7 DEF Loop

LEMMA LoopWhole ==
  ASSUME Inv, NoMarks, WholeInv, NEW x \in End, Loop(x), ~ Fills, ~ Parts
  PROVE  WholeInv'
<1>0. \A y : To(y)' = To(y)
  BY LoopSends
<1>1. ASSUME NEW y \in End, y # x
      PROVE  Carried(y)'
  <2>1. y = Peer(x) /\ Carried(x) /\ Carried(y)
    BY <1>1 DEF WholeInv, Peer, End
  <2>2. CASE Write(x)
    BY <2>1, <2>2, WriteWhole
  <2>3. CASE ~ Write(x)
    BY <1>0, <1>1, <2>1, <2>3, OtherEnd, KeepsCarried
  <2> QED
    BY <2>2, <2>3
<1>2. \A y \in End : Carried(y)'
  BY <1>1, OwnWhole
<1>3. m_write_dones' \in Seq(To("server"))
  <2>1. m_write_dones' = m_write_dones \/ m_write_dones' = <<>>
    BY DEF Loop, OnRead, ReadNothing, ReadEnd, Read, DecodeFrame, excuteRequests,
           excuteReplies, Answer, Answered, Encode, Encoded, OnWrite, Write, WriteNothing,
           Finish, dones
  <2> QED
    BY <2>1, EmptySeq DEF WholeInv
<1>4. handled' \in Seq(To("server"))
  <2>1. CASE x = "server" /\ excuteRequests
    <3>1. messages["server"] \in Seq(To("server"))
      BY <2>1 DEF WholeInv, Carried, excuteRequests, Decoded, End
    <3>2. handled \in Seq(To("server")) /\ handled' = handled \o messages["server"]
      BY <2>1 DEF WholeInv, excuteRequests
    <3> QED
      BY <3>1, <3>2, ConcatProperties
  <2>2. CASE ~ (x = "server" /\ excuteRequests)
    <3>1. handled' = handled
      BY <2>2 DEF Loop, OnRead, ReadNothing, ReadEnd, Read, DecodeFrame, excuteReplies,
                  Answer, Answered, Encode, Encoded, OnWrite, Write, WriteNothing, history
    <3> QED
      BY <3>1 DEF WholeInv
  <2> QED
    BY <2>1, <2>2
<1>5. answered' \in Seq(To("client"))
  <2>1. CASE x = "client" /\ Answer
    BY <2>1, AnswerWhole
  <2>2. CASE ~ (x = "client" /\ Answer)
    <3>1. answered' = answered
      BY <2>2 DEF Loop, OnRead, ReadNothing, ReadEnd, Read, DecodeFrame, excuteRequests,
                  excuteReplies, Answered, Encode, Encoded, OnWrite, Write, WriteNothing,
                  history
    <3> QED
      BY <3>1 DEF WholeInv
  <2> QED
    BY <2>1, <2>2
<1> QED
  BY <1>0, <1>2, <1>3, <1>4, <1>5 DEF WholeInv

LEMMA InitWhole == Init => WholeInv
<1> SUFFICES ASSUME Init PROVE WholeInv
  OBVIOUS
<1>1. Readable(NewBuffer(BufferSize)) = <<>>
  BY ConnectionAssumption, NewBufferHolds
<1>2. \A x \in End : <<>> \in Frames(To(x)) /\ <<>> \in Frames(To(Peer(x)))
  <2>1. Inv
    BY InitHolds
  <2> QED
    BY <2>1, ToFacts, FramesClosed DEF ClosedUnder
<1>3. <<>> \o <<>> = <<>>
  <2>1. <<>> \in Seq(Byte)
    BY EmptySeq
  <2> QED
    BY <2>1, ConcatEmptySeq
<1>4. ASSUME NEW x \in End PROVE Carried(x)
  <2>1. /\ Readable(m_in_buffer[x]) = <<>> /\ Out(x) = <<>>
        /\ stream[x] = <<>> /\ messages[x] = <<>>
    BY <1>1 DEF Init, Out
  <2>2. messages[x] \in Seq(IF pc[x] = "encode" THEN To(Peer(x)) ELSE To(x))
    BY <2>1, EmptySeq
  <2> QED
    BY <1>2, <1>3, <2>1, <2>2 DEF Carried, Whole
<1> QED
  BY <1>4, EmptySeq DEF Init, WholeInv

LEMMA UserWhole ==
  ASSUME Inv, WholeInv, User \/ UNCHANGED vars
  PROVE  WholeInv'
<1>1. CASE shutdown \/ UNCHANGED vars
  <2>1. UNCHANGED <<buffers, stream, messages, pc, handled, answered, sent, m_write_dones>>
    BY <1>1 DEF shutdown, vars, buffers, dones, history
  <2>2. \A y : To(y)' = To(y)
    BY <2>1 DEF To
  <2>3. m_write_dones' \in Seq(To("server")')
    BY <2>1, <2>2 DEF WholeInv
  <2> QED
    BY <2>1, <2>2, <2>3, MoreSent
<1>2. ASSUME NEW m \in Messages, writeMessage(m)
      PROVE  WholeInv'
  <2>1. /\ sent \in Seq(Messages) /\ sent' = Append(sent, m)
        /\ m_write_dones' = Append(m_write_dones, m)
        /\ UNCHANGED <<buffers, stream, messages, pc, handled, answered>>
    BY <1>2 DEF writeMessage, Inv, Plain
  <2>2. /\ Len(sent) \in Nat /\ Len(sent') = Len(sent) + 1
        /\ sent'[Len(sent) + 1] = m
        /\ \A i \in 1 .. Len(sent) : sent'[i] = sent[i]
        /\ DOMAIN sent = 1 .. Len(sent) /\ DOMAIN sent' = 1 .. Len(sent')
    BY <2>1, AppendProperties, LenProperties
  <2>3. Range(sent) \subseteq Range(sent') /\ m \in Range(sent')
    BY <2>2 DEF Range
  <2>4. \A y \in End : To(y) \subseteq To(y)'
    BY <2>3 DEF To
  <2>5. To("server") \subseteq To("server")' /\ m \in To("server")'
    BY <2>3 DEF To
  <2>6. m_write_dones \in Seq(To("server")')
    BY <2>5, SeqMonotonic DEF WholeInv
  <2>7. m_write_dones' \in Seq(To("server")')
    BY <2>1, <2>5, <2>6, AppendProperties
  <2> QED
    BY <2>1, <2>4, <2>7, MoreSent
<1> QED
  BY <1>1, <1>2 DEF User

LEMMA WholeImplies == WholeInv => OnlySent
BY RangeIn DEF WholeInv, OnlySent, To

\* As long as no read fills its buffer and the kernel takes each write whole, the
\* server dispatches no message but those that were sent, and no read callback gets
\* a reply but to such: excute never takes part of a frame, or what lies across two,
\* for a message.
THEOREM OnlySentHandled == NoMarks => (WholeSpec => []OnlySent)
<1> SUFFICES ASSUME NoMarks PROVE WholeSpec => []OnlySent
  OBVIOUS
<1>1. Init => Inv /\ WholeInv
  BY InitHolds, InitWhole
<1>2. Inv /\ WholeInv /\ [Next /\ ~ Fills /\ ~ Parts]_vars => Inv' /\ WholeInv'
  BY StepHolds, LoopWhole, UserWhole DEF Next
<1>3. Inv /\ WholeInv => OnlySent
  BY WholeImplies
<1> QED
  BY <1>1, <1>2, <1>3, PTL DEF WholeSpec
=============================================================================
