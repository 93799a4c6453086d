--------------------------- MODULE DispatchProofs ---------------------------
(***************************************************************************)
(* Proofs about Dispatch, for any clients, IO threads, services, methods   *)
(* and messages, any number of calls and ids of any length and base.       *)
(***************************************************************************)
EXTENDS Dispatch, SequenceTheorems, Induction, TLAPS

-----------------------------------------------------------------------------
(* Ids.                                                                    *)

LEMMA IdFacts == /\ g_msg_id_length \in Nat \ {0} /\ Nine \in Nat \ {0}
                 /\ NoId \notin Id
<1>1. g_msg_id_length \in Nat \ {0} /\ Nine \in Nat \ {0}
  BY MsgIDAssumption
<1>2. ASSUME NoId \in Id PROVE FALSE
  <2>1. DOMAIN NoId = 1 .. g_msg_id_length
    BY <1>2 DEF Id
  <2>2. DOMAIN NoId = {}
    BY DEF NoId
  <2> QED
    BY <1>1, <2>1, <2>2
<1> QED
  BY <1>1, <1>2

\* Counted up, an id stays one.
LEMMA SuccessorType ==
  ASSUME NEW num \in Id
  PROVE  Successor(num) \in Id
<1>1. DOMAIN num = 1 .. g_msg_id_length /\ \A i \in 1 .. g_msg_id_length : num[i] \in 0 .. Nine
  BY DEF Id, Digit
<1>2. ASSUME NEW i \in 1 .. g_msg_id_length
      PROVE  (IF ~ Reached(num, i) THEN num[i] ELSE IF num[i] = Nine THEN 0 ELSE num[i] + 1)
               \in 0 .. Nine
  BY <1>1, IdFacts
<1> QED
  BY <1>1, <1>2 DEF Successor, Id, Digit

LEMMA SeededType ==
  ASSUME NEW g \in Generator, NEW random \in Id
  PROVE  Seeded(g, random) \in Generator
<1>1. g.max \in Seq({Nine})
  BY DEF Generator
<1>2. Nines(g_msg_id_length) \in Seq({Nine})
  <2>1. Nines(g_msg_id_length) \in [1 .. g_msg_id_length -> {Nine}]
    BY DEF Nines
  <2> QED
    BY <2>1, IdFacts
<1>3. g.max \o Nines(g_msg_id_length) \in Seq({Nine})
  BY <1>1, <1>2, ConcatProperties
<1> QED
  BY <1>3 DEF Seeded, Generator

LEMMA GenType ==
  ASSUME TypeOK, NEW c \in Clients, NEW id \in AnyId, GenMsgID(c, id)
  PROVE  generator' \in [Clients -> Generator]
<1>1. generator \in [Clients -> Generator] /\ generator[c] \in Generator
  BY DEF TypeOK
<1>2. CASE id \in Randoms /\ generator' = [generator EXCEPT ![c] = Seeded(generator[c], id)]
  <2>1. id \in Id
    BY <1>2, DispatchAssumption
  <2> QED
    BY <1>1, <1>2, <2>1, SeededType
<1>3. CASE UNCHANGED generator
  BY <1>1, <1>3
<1>4. CASE ~ Exhausted(generator[c]) /\ generator' = [generator EXCEPT ![c] = Counted(generator[c])]
  <2>1. generator[c].num \in Id
    BY <1>1, <1>4 DEF Exhausted, Generator
  <2>2. Counted(generator[c]) \in Generator
    BY <1>1, <2>1, SuccessorType DEF Counted, Generator
  <2> QED
    BY <1>1, <1>4, <2>2
<1> QED
  BY <1>2, <1>3, <1>4 DEF GenMsgID

-----------------------------------------------------------------------------
(* The number that an id stands for.                                       *)

Base == Nine + 1

\* v[i] is the value of the first i digits of num.
Partial(num, v, k) ==
  v = [i \in 0 .. k |-> IF i = 0 THEN 0 ELSE v[i - 1] * Base + num[i]]

LEMMA PartialExtends ==
  ASSUME NEW k \in Nat, NEW num, NEW v, Partial(num, v, k)
  PROVE  \E w : Partial(num, w, k + 1)
<1> DEFINE w == [i \in 0 .. k + 1 |-> IF i = k + 1 THEN v[k] * Base + num[k + 1] ELSE v[i]]
<1>1. \A i \in 0 .. k : v[i] = IF i = 0 THEN 0 ELSE v[i - 1] * Base + num[i]
  BY DEF Partial
<1>2. w[k + 1] = w[k] * Base + num[k + 1]
  OBVIOUS
<1>3. ASSUME NEW i \in 0 .. k + 1
      PROVE  w[i] = IF i = 0 THEN 0 ELSE w[i - 1] * Base + num[i]
  <2>1. CASE i = k + 1
    <3>1. i # 0 /\ i - 1 = k
      BY <2>1
    <3> HIDE DEF w
    <3> QED
      BY <1>2, <2>1, <3>1
  <2>2. CASE i = 0
    <3>1. w[0] = v[0] /\ 0 \in 0 .. k
      OBVIOUS
    <3> HIDE DEF w
    <3> QED
      BY <1>1, <2>2, <3>1
  <2>3. CASE i # k + 1 /\ i # 0
    <3>1. i \in 0 .. k /\ i - 1 \in 0 .. k
      BY <2>3
    <3>2. w[i] = v[i] /\ w[i - 1] = v[i - 1]
      BY <3>1
    <3> HIDE DEF w
    <3> QED
      BY <1>1, <2>3, <3>1, <3>2
  <2> QED
    BY <2>1, <2>2, <2>3
<1>4. DOMAIN w = 0 .. k + 1 /\ w = [i \in 0 .. k + 1 |-> w[i]]
  OBVIOUS
<1> HIDE DEF w
<1>5. Partial(num, w, k + 1)
  BY <1>3, <1>4 DEF Partial
<1> QED
  BY <1>5

\* The recursive function of Value is what its definition says.
LEMMA ValueIsPartial ==
  ASSUME NEW num \in Seq(Nat)
  PROVE  \E v \in [0 .. Len(num) -> Nat] :
           /\ Value(num) = v[Len(num)]
           /\ v[0] = 0
           /\ \A i \in 1 .. Len(num) : v[i] = v[i - 1] * Base + num[i]
<1> DEFINE n == Len(num)
           Some == {k \in Nat : \E v : Partial(num, v, k)}
           v == CHOOSE f : f = [i \in 0 .. n |->
                                  IF i = 0 THEN 0 ELSE f[i - 1] * (Nine + 1) + num[i]]
<1>1. n \in Nat /\ \A i \in 1 .. n : num[i] \in Nat
  BY LenProperties, ElementOfSeq
<1>2. Value(num) = v[n]
  BY DEF Value
<1>3. n \in Some
  <2>1. 0 \in Some
    <3> DEFINE w == [i \in 0 .. 0 |-> 0]
    <3>1. Partial(num, w, 0)
      BY DEF Partial
    <3> QED
      BY <3>1
  <2>2. \A i \in 1 .. n : i - 1 \in Some => i \in Some
    <3> SUFFICES ASSUME NEW i \in 1 .. n, i - 1 \in Some PROVE i \in Some
      OBVIOUS
    <3>1. PICK w : Partial(num, w, i - 1)
      OBVIOUS
    <3>2. i - 1 \in Nat /\ (i - 1) + 1 = i /\ i \in Nat
      BY <1>1
    <3>3. \E u : Partial(num, u, (i - 1) + 1)
      BY <3>1, <3>2, PartialExtends
    <3> QED
      BY <3>2, <3>3
  <2> HIDE DEF Some
  <2>3. \A i \in 0 .. n : i \in Some
    BY <1>1, <2>1, <2>2, UpTo
  <2> QED
    BY <1>1, <2>3
<1>4. v = [i \in 0 .. n |-> IF i = 0 THEN 0 ELSE v[i - 1] * (Nine + 1) + num[i]]
  <2>1. \E f : f = [i \in 0 .. n |-> IF i = 0 THEN 0 ELSE f[i - 1] * (Nine + 1) + num[i]]
    BY <1>3 DEF Partial, Base
  <2> QED
    BY <2>1
<1> HIDE DEF v
<1>5. /\ DOMAIN v = 0 .. n
      /\ v[0] = 0
      /\ \A i \in 1 .. n : v[i] = v[i - 1] * Base + num[i]
  BY <1>1, <1>4 DEF Base
<1>6. \A i \in 0 .. n : v[i] \in Nat
  <2> DEFINE T == {i \in 0 .. n : v[i] \in Nat}
  <2>1. 0 \in T
    BY <1>1, <1>5
  <2>2. \A i \in 1 .. n : i - 1 \in T => i \in T
    <3> SUFFICES ASSUME NEW i \in 1 .. n, i - 1 \in T PROVE i \in T
      OBVIOUS
    <3>1. v[i - 1] \in Nat /\ num[i] \in Nat /\ Base \in Nat /\ i \in 0 .. n
      BY <1>1, IdFacts DEF Base
    <3>2. v[i] = v[i - 1] * Base + num[i]
      BY <1>5
    <3>3. \A a, b, c \in Nat : a * b + c \in Nat
      OBVIOUS
    <3>4. v[i] \in Nat
      BY <3>1, <3>2, <3>3
    <3> QED
      BY <3>1, <3>4
  <2> HIDE DEF T
  <2>3. \A i \in 0 .. n : i \in T
    BY <1>1, <2>1, <2>2, UpTo
  <2> QED
    BY <2>3 DEF T
<1>7. v \in [0 .. n -> Nat]
  BY <1>4, <1>6
<1> QED
  BY <1>2, <1>5, <1>7

\* Counted up, an id that is not all nines stands for the next number.
LEMMA SuccessorCounts ==
  ASSUME NEW num \in Id, \E i \in DOMAIN num : num[i] # Nine
  PROVE  Value(Successor(num)) = Value(num) + 1
<1> DEFINE n == g_msg_id_length
           next == Successor(num)
<1>1. n \in Nat /\ Nine \in Nat /\ Base \in Nat /\ Base = Nine + 1
  BY IdFacts DEF Base
<1>2. /\ DOMAIN num = 1 .. n
      /\ \A i \in 1 .. n : num[i] \in 0 .. Nine
      /\ next \in Id
  BY SuccessorType DEF Id, Digit
<1>3. /\ num \in Seq(Nat) /\ Len(num) = n
      /\ next \in Seq(Nat) /\ Len(next) = n
  <2>1. \A s \in Id : s \in Seq(Nat) /\ Len(s) = n
    <3> SUFFICES ASSUME NEW s \in Id PROVE s \in Seq(Nat) /\ Len(s) = n
      OBVIOUS
    <3>1. s \in [1 .. n -> Nat]
      BY <1>1 DEF Id, Digit
    <3> QED
      BY <1>1, <3>1, LenProperties
  <2> QED
    BY <1>2, <2>1
<1>4. \A i \in 1 .. n :
        next[i] = IF ~ Reached(num, i) THEN num[i] ELSE IF num[i] = Nine THEN 0 ELSE num[i] + 1
  BY <1>2 DEF Successor
<1> HIDE DEF next
<1>5. PICK v \in [0 .. n -> Nat] :
        Value(num) = v[n] /\ v[0] = 0 /\ \A i \in 1 .. n : v[i] = v[i - 1] * Base + num[i]
  <2>1. \E v \in [0 .. Len(num) -> Nat] :
          /\ Value(num) = v[Len(num)]
          /\ v[0] = 0
          /\ \A i \in 1 .. Len(num) : v[i] = v[i - 1] * Base + num[i]
    BY <1>3, ValueIsPartial
  <2> QED
    BY <1>3, <2>1
<1>6. PICK w \in [0 .. n -> Nat] :
        Value(next) = w[n] /\ w[0] = 0 /\ \A i \in 1 .. n : w[i] = w[i - 1] * Base + next[i]
  <2>1. \E w \in [0 .. Len(next) -> Nat] :
          /\ Value(next) = w[Len(next)]
          /\ w[0] = 0
          /\ \A i \in 1 .. Len(next) : w[i] = w[i - 1] * Base + next[i]
    BY <1>3, ValueIsPartial
  <2> QED
    BY <1>3, <2>1
<1> DEFINE T == {i \in 0 .. n : w[i] = IF Reached(num, i) THEN v[i] + 1 ELSE v[i]}
<1>7. 0 \in T
  <2>1. ~ Reached(num, 0)
    BY <1>2 DEF Reached
  <2> QED
    BY <1>1, <1>5, <1>6, <2>1
<1>8. \A i \in 1 .. n : i - 1 \in T => i \in T
  <2> SUFFICES ASSUME NEW i \in 1 .. n, i - 1 \in T PROVE i \in T
    OBVIOUS
  <2>1. /\ v[i] = v[i - 1] * Base + num[i]
        /\ w[i] = w[i - 1] * Base + next[i]
        /\ v[i - 1] \in Nat /\ num[i] \in 0 .. Nine
        /\ next[i] = IF ~ Reached(num, i) THEN num[i]
                     ELSE IF num[i] = Nine THEN 0 ELSE num[i] + 1
        /\ w[i - 1] = IF Reached(num, i - 1) THEN v[i - 1] + 1 ELSE v[i - 1]
    BY <1>1, <1>2, <1>4, <1>5, <1>6
  <2>2. Reached(num, i - 1) <=> Reached(num, i) /\ num[i] = Nine
    <3>1. \A j \in 1 .. n : j > i - 1 <=> j > i \/ j = i
      BY <1>1
    <3> QED
      BY <1>2, <3>1 DEF Reached
  <2>3. \A a \in Nat : (a + 1) * Base = a * Base + Base
    BY <1>1
  <2>4. v[i - 1] * Base \in Nat
    <3>1. \A a, b \in Nat : a * b \in Nat
      OBVIOUS
    <3> QED
      BY <1>1, <2>1, <3>1
  <2>5. CASE ~ Reached(num, i)
    BY <1>1, <2>1, <2>2, <2>5
  <2>6. CASE Reached(num, i) /\ num[i] # Nine
    <3>1. w[i] = v[i - 1] * Base + (num[i] + 1)
      BY <2>1, <2>2, <2>6
    <3> QED
      BY <2>1, <2>4, <2>6, <3>1
  <2>7. CASE Reached(num, i) /\ num[i] = Nine
    <3>1. w[i] = (v[i - 1] + 1) * Base + 0
      BY <2>1, <2>2, <2>7
    <3>2. (v[i - 1] + 1) * Base = v[i - 1] * Base + Base
      BY <2>1, <2>3
    <3> QED
      BY <1>1, <2>1, <2>4, <2>7, <3>1, <3>2
  <2> QED
    BY <2>5, <2>6, <2>7
<1> HIDE DEF T
<1>9. n \in T
  <2>1. \A i \in 0 .. n : i \in T
    BY <1>1, <1>7, <1>8, UpTo
  <2> QED
    BY <1>1, <2>1
<1>10. Reached(num, n)
  BY <1>1, <1>2 DEF Reached
<1>11. w[n] = v[n] + 1
  BY <1>9, <1>10 DEF T
<1> QED
  BY <1>5, <1>6, <1>11 DEF next

\* A maximum is as long as an id once there was a random number.
LongEnough(g) == g.num # NoId => Len(g.max) >= g_msg_id_length

LEMMA NinesFacts ==
  /\ \A s \in Seq({Nine}) : Len(s) \in Nat /\ s = Nines(Len(s))
  /\ Nines(g_msg_id_length) \in Seq({Nine}) /\ Len(Nines(g_msg_id_length)) = g_msg_id_length
  /\ \A num \in Id : num \in Seq(Digit) /\ Len(num) = g_msg_id_length
<1>1. ASSUME NEW s \in Seq({Nine}) PROVE Len(s) \in Nat /\ s = Nines(Len(s))
  <2>1. Len(s) \in Nat /\ s \in [1 .. Len(s) -> {Nine}]
    BY LenProperties
  <2> QED
    BY <2>1 DEF Nines
<1>2. Nines(g_msg_id_length) \in Seq({Nine}) /\ Len(Nines(g_msg_id_length)) = g_msg_id_length
  <2>1. Nines(g_msg_id_length) \in [1 .. g_msg_id_length -> {Nine}]
    BY DEF Nines
  <2> QED
    BY <2>1, IdFacts, LenProperties
<1>3. ASSUME NEW num \in Id PROVE num \in Seq(Digit) /\ Len(num) = g_msg_id_length
  BY IdFacts, LenProperties DEF Id
<1> QED
  BY <1>1, <1>2, <1>3

LEMMA SeededLong ==
  ASSUME NEW g \in Generator, NEW random \in Id
  PROVE  LongEnough(Seeded(g, random))
<1>1. g.max \in Seq({Nine}) /\ Len(g.max) \in Nat
  BY NinesFacts DEF Generator
<1>2. Len(g.max \o Nines(g_msg_id_length)) = Len(g.max) + g_msg_id_length
  BY <1>1, NinesFacts, ConcatProperties
<1>3. Seeded(g, random).max = g.max \o Nines(g_msg_id_length)
  BY DEF Seeded
<1> HIDE DEF Seeded
<1> QED
  BY <1>1, <1>2, <1>3, IdFacts DEF LongEnough

\* An id is the maximum exactly if it is all nines and the maximum has not become
\* longer.
LEMMA AtMaximum ==
  ASSUME NEW g \in Generator, g.num # NoId, LongEnough(g)
  PROVE  Exhausted(g) <=> g.num = Nines(g_msg_id_length) /\ ~ Len(g.max) > g_msg_id_length
<1>1. /\ g.num \in Id /\ g.max \in Seq({Nine})
      /\ Len(g.num) = g_msg_id_length
      /\ Len(g.max) \in Nat /\ g.max = Nines(Len(g.max))
      /\ Len(g.max) >= g_msg_id_length /\ g_msg_id_length \in Nat
  BY NinesFacts, IdFacts DEF Generator, LongEnough
<1>2. ASSUME g.num = g.max
      PROVE  g.num = Nines(g_msg_id_length) /\ ~ Len(g.max) > g_msg_id_length
  <2>1. Len(g.max) = g_msg_id_length
    BY <1>1, <1>2
  <2> QED
    BY <1>1, <1>2, <2>1
<1>3. ASSUME g.num = Nines(g_msg_id_length), ~ Len(g.max) > g_msg_id_length
      PROVE  g.num = g.max
  <2>1. Len(g.max) = g_msg_id_length
    BY <1>1, <1>3
  <2> QED
    BY <1>1, <1>3, <2>1
<1> QED
  BY <1>2, <1>3 DEF Exhausted

\* What GenMsgID returns, if it returns an id.
LEMMA GenReturns ==
  ASSUME TypeOK, NEW c \in Clients, LongEnough(generator[c]),
         NEW id \in AnyId, id # NoId, GenMsgID(c, id)
  PROVE  LET before == generator[c].num
             nines  == before = Nines(g_msg_id_length)
             again  == Len(generator[c].max) > g_msg_id_length
         IN  IF before = NoId \/ (nines /\ ~ again) THEN id \in Randoms
             ELSE IF nines THEN id = before
             ELSE Value(id) = Value(before) + 1
<1> DEFINE num == generator[c].num
           nines == num = Nines(g_msg_id_length)
           again == Len(generator[c].max) > g_msg_id_length
<1>1. generator[c] \in Generator /\ num \in Id \cup {NoId}
  BY DEF TypeOK, Generator
<1>2. Exhausted(generator[c]) <=> num = NoId \/ (nines /\ ~ again)
  <2>1. CASE num = NoId
    BY <2>1 DEF Exhausted
  <2>2. CASE num # NoId
    BY <1>1, <2>2, AtMaximum
  <2> QED
    BY <2>1, <2>2
<1>3. /\ Exhausted(generator[c]) => id \in Randoms
      /\ ~ Exhausted(generator[c]) => id = Successor(num)
  BY DEF GenMsgID
<1>4. CASE num = NoId \/ (nines /\ ~ again)
  BY <1>2, <1>3, <1>4
<1>5. CASE num # NoId /\ nines /\ again
  <2>1. \A i \in DOMAIN num : num[i] = Nine
    BY <1>5 DEF Nines
  <2>2. Successor(num) = num
    BY <2>1 DEF Successor
  <2> QED
    BY <1>2, <1>3, <1>5, <2>2
<1>6. CASE num # NoId /\ ~ nines
  <2>1. num \in Id /\ DOMAIN num = 1 .. g_msg_id_length
    BY <1>1, <1>6 DEF Id
  <2>2. \E i \in DOMAIN num : num[i] # Nine
    BY <1>6, <2>1 DEF Nines, Id
  <2>3. Value(Successor(num)) = Value(num) + 1
    BY <2>1, <2>2, SuccessorCounts
  <2> QED
    BY <1>2, <1>3, <1>6, <2>3
<1> QED
  BY <1>4, <1>5, <1>6

-----------------------------------------------------------------------------
(* Names.                                                                  *)

LEMMA NameFacts ==
  /\ \A message \in Messages : /\ message.method_name \in Names
                               /\ message.method_name \in Seq(STRING)
                               /\ message.parses \in BOOLEAN
  /\ \A name \in Names : name \in Seq(STRING)
BY DispatchAssumption DEF Names

LEMMA OnePart ==
  ASSUME NEW S, NEW s \in Seq(S), Len(s) = 1
  PROVE  s = <<s[1]>>
<1>1. s \in [1 .. 1 -> S]
  BY LenProperties
<1> QED
  BY <1>1

LEMMA TwoParts ==
  ASSUME NEW S, NEW name \in Seq(S), Len(name) = 2
  PROVE  /\ SubSeq(name, 1, 1) \in Seq(S) /\ Len(SubSeq(name, 1, 1)) = 1
         /\ SubSeq(name, 1, 1)[1] = name[1]
         /\ Tail(name) \in Seq(S) /\ Len(Tail(name)) = 1 /\ Tail(name)[1] = name[2]
         /\ name[1] \in S /\ name[2] \in S
<1>1. name # <<>>
  BY EmptySeq
<1>2. name[1] \in S /\ name[2] \in S
  <2>1. \A i \in 1 .. 2 : name[i] \in S
    BY LenProperties
  <2>2. 1 \in 1 .. 2 /\ 2 \in 1 .. 2
    OBVIOUS
  <2> QED
    BY <2>1, <2>2
<1>3. Tail(name) \in Seq(S) /\ Len(Tail(name)) = Len(name) - 1
  BY <1>1, HeadTailProperties
<1>4. Tail(name)[1] = name[1 + 1]
  <2> DEFINE rest == Tail(name)
             n == Len(rest)
  <2>1. \A i \in 1 .. n : rest[i] = name[i + 1]
    BY <1>1, HeadTailProperties
  <2>2. n = 2 - 1
    BY <1>3
  <2> HIDE DEF rest, n
  <2>3. rest[1] = name[1 + 1]
    BY <2>1, <2>2
  <2> QED
    BY <2>3 DEF rest
<1>5. /\ SubSeq(name, 1, 1) \in Seq(S) /\ Len(SubSeq(name, 1, 1)) = 1
      /\ SubSeq(name, 1, 1)[1] = name[1]
  <2>1. \A i \in 1 .. 1 : name[i] \in S
    BY <1>2
  <2>2. /\ SubSeq(name, 1, 1) \in Seq(S)
        /\ Len(SubSeq(name, 1, 1)) = IF 1 <= 1 THEN 1 - 1 + 1 ELSE 0
        /\ \A i \in 1 .. 1 - 1 + 1 : SubSeq(name, 1, 1)[i] = name[1 + i - 1]
    BY <2>1, SubSeqProperties
  <2> QED
    BY <2>2
<1>6. Len(Tail(name)) = 1 /\ Tail(name)[1] = name[2]
  BY <1>3, <1>4
<1> QED
  BY <1>2, <1>3, <1>5, <1>6

LEMMA OneMore ==
  ASSUME NEW S, NEW s \in Seq(S), Len(s) = 1, NEW x \in S
  PROVE  Len(Append(s, x)) = 2 /\ Append(s, x)[1] = s[1] /\ Append(s, x)[2] = x
<1> DEFINE t == Append(s, x)
           n == Len(s)
<1>1. Len(t) = n + 1 /\ t[n + 1] = x /\ \A i \in 1 .. n : t[i] = s[i]
  <2>1. Len(t) = n + 1
    BY AppendProperties
  <2>2. t[n + 1] = x
    BY AppendProperties
  <2>3. \A i \in 1 .. n : t[i] = s[i]
    BY AppendProperties
  <2> QED
    BY <2>1, <2>2, <2>3
<1>2. n = 1
  OBVIOUS
<1> HIDE DEF t, n
<1>3. Len(t) = 2 /\ t[1] = s[1] /\ t[2] = x
  BY <1>1, <1>2
<1> QED
  BY <1>3 DEF t

LEMMA TwoPartsSplit ==
  ASSUME NEW S, NEW name \in Seq(S), Len(name) = 2
  PROVE  /\ SubSeq(name, 1, 1) = <<name[1]>> /\ Tail(name) = <<name[2]>>
         /\ Append(<<name[1]>>, name[2]) = name
<1>1. SubSeq(name, 1, 1) = <<name[1]>> /\ Tail(name) = <<name[2]>>
  <2> DEFINE first == SubSeq(name, 1, 1)
             rest == Tail(name)
  <2>1. /\ first \in Seq(S) /\ Len(first) = 1 /\ first[1] = name[1]
        /\ rest \in Seq(S) /\ Len(rest) = 1 /\ rest[1] = name[2]
    BY TwoParts
  <2> HIDE DEF first, rest
  <2>2. first = <<first[1]>> /\ rest = <<rest[1]>>
    BY <2>1, OnePart
  <2>3. first = <<name[1]>> /\ rest = <<name[2]>>
    BY <2>1, <2>2
  <2> QED
    BY <2>3 DEF first, rest
<1>2. /\ Append(<<name[1]>>, name[2]) \in Seq(S)
      /\ Len(Append(<<name[1]>>, name[2])) = 2
      /\ Append(<<name[1]>>, name[2])[1] = name[1]
      /\ Append(<<name[1]>>, name[2])[2] = name[2]
  BY TwoParts, AppendProperties
<1> QED
  BY <1>1, <1>2, SeqEqual

\* What dispatch refuses is what it cannot call.
LEMMA RefusalExact ==
  ASSUME TypeOK, NEW r \in Request
  PROVE  Refusal(r) = "0" <=> r.parses /\ Callable(r.method_name)
<1> DEFINE name == r.method_name
<1>1. name \in Seq(STRING) /\ r.parses \in BOOLEAN
  BY NameFacts DEF Request
<1>2. Len(name) \in Nat
  BY <1>1, LenProperties
<1> HIDE DEF name
<1>3. ASSUME HasDot(name), ServiceName(name) \in m_service_map, FindMethodByName(name)
      PROVE  Callable(name)
  <2> PICK method \in Methods : Tail(name) = <<method>>
    BY <1>3 DEF FindMethodByName, MethodName
  <2>1. name # <<>>
    BY <1>3, EmptySeq DEF HasDot
  <2>2. Len(Tail(name)) = Len(name) - 1 /\ Len(Tail(name)) = 1
    BY <1>1, <2>1, HeadTailProperties
  <2>3. Len(name) = 2
    BY <1>2, <2>2
  <2>4. SubSeq(name, 1, 1) = <<name[1]>> /\ Append(<<name[1]>>, name[2]) = name
        /\ Tail(name) = <<name[2]>>
    BY <1>1, <2>3, TwoPartsSplit
  <2>5. name[2] = method
    BY <2>4
  <2>6. <<name[1]>> \in m_service_map /\ Len(<<name[1]>>) = 1
    BY <1>3, <2>4 DEF ServiceName
  <2> QED
    BY <2>4, <2>5, <2>6 DEF Callable
<1>4. ASSUME Callable(name)
      PROVE  HasDot(name) /\ ServiceName(name) \in m_service_map /\ FindMethodByName(name)
  <2> PICK s \in m_service_map, method \in Methods : Len(s) = 1 /\ name = Append(s, method)
    BY <1>4 DEF Callable
  <2>1. s \in Seq(STRING) /\ method \in STRING
    BY DispatchAssumption DEF TypeOK
  <2>2. Len(name) = 2 /\ name[1] = s[1] /\ name[2] = method
    BY <2>1, OneMore
  <2>3. s = <<s[1]>>
    BY <2>1, OnePart
  <2>4. SubSeq(name, 1, 1) = <<name[1]>> /\ Tail(name) = <<name[2]>>
    BY <1>1, <2>2, TwoPartsSplit
  <2>5. SubSeq(name, 1, 1) = s /\ Tail(name) = <<method>>
    BY <2>2, <2>3, <2>4
  <2>6. Len(name) > 1
    BY <2>2
  <2> QED
    BY <2>5, <2>6 DEF HasDot, ServiceName, FindMethodByName, MethodName
<1>5. Callable(name) <=>
        HasDot(name) /\ ServiceName(name) \in m_service_map /\ FindMethodByName(name)
  BY <1>3, <1>4
<1> QED
  BY <1>1, <1>5 DEF Refusal, name

-----------------------------------------------------------------------------
(* Types.                                                                  *)

LEMMA InitType == Init => TypeOK
<1> SUFFICES ASSUME Init PROVE TypeOK
  OBVIOUS
<1>1. NewGenerator \in Generator
  BY EmptySeq DEF NewGenerator, Generator
<1>2. made \in [Clients -> Nat] /\ \A c \in Clients : made[c] <= MaxCalls[c]
  <2>1. \A c \in Clients : MaxCalls[c] \in Nat
    BY DispatchAssumption
  <2> QED
    BY <2>1 DEF Init
<1>3. [msg_id |-> NoId, method_name |-> <<>>] \in RunTime
  BY DEF RunTime, AnyId
<1>4. NoId \in AnyId
  BY DEF AnyId
<1> QED
  BY <1>1, <1>2, <1>3, <1>4 DEF Init, TypeOK

\* A call that a thread has begun is that thread's alone, and stamps it.
Serving ==
  \A t \in Threads : current[t] # None =>
    /\ call[current[t]] = "taken"
    /\ t_run_time[t] = Stamp(request[current[t]])
    /\ \A u \in Threads : current[u] = current[t] => u = t

LEMMA StepType == TypeOK /\ Serving /\ [Next]_vars => TypeOK'
<1> SUFFICES ASSUME TypeOK, Serving, [Next]_vars PROVE TypeOK'
  OBVIOUS
<1> USE DEF server
<1>1. /\ call \in [Clients -> {"none", "sent", "taken", "answered"}]
      /\ request \in [Clients -> Request \cup {None}]
      /\ response \in [Clients -> Response \cup {None}]
      /\ m_msg_id \in [Clients -> AnyId] /\ made \in [Clients -> Nat]
      /\ current \in [Threads -> Clients \cup {None}] /\ t_run_time \in [Threads -> RunTime]
      /\ \A c \in Clients : MaxCalls[c] \in Nat /\ made[c] <= MaxCalls[c]
      /\ NoId \in AnyId /\ None \notin Clients \cup Request \cup Response
  BY DispatchAssumption, NoneAssumption DEF TypeOK, AnyId
<1>2. \A c \in Clients : /\ call[c] = "none" <=> request[c] = None
                         /\ call[c] = "answered" <=> response[c] # None
  BY DEF TypeOK
<1>3. CASE MainThread
  BY <1>3 DEF MainThread, registerService, Serve, TypeOK
<1>4. ASSUME NEW c \in Clients, Reset(c) PROVE TypeOK'
  BY <1>1, <1>4 DEF Reset, TypeOK
<1>5. ASSUME NEW c \in Clients, NEW id \in SetIds, SetMsgId(c, id) PROVE TypeOK'
  <2>1. id \in AnyId
    BY DispatchAssumption DEF AnyId
  <2>2. m_msg_id' \in [Clients -> AnyId]
    BY <1>1, <1>5, <2>1 DEF SetMsgId
  <2> QED
    BY <1>5, <2>2 DEF SetMsgId, TypeOK
<1>6. ASSUME NEW c \in Clients, NEW message \in Messages, NEW id \in AnyId,
             CallMethod(c, message, id)
      PROVE  TypeOK'
  <2> DEFINE r == [msg_id |-> id, method_name |-> message.method_name, parses |-> message.parses]
  <2>1. r \in Request /\ r # None
    BY <1>1, NameFacts DEF Request
  <2>2. request' = [request EXCEPT ![c] = r] /\ call' = [call EXCEPT ![c] = "sent"]
        /\ made' = [made EXCEPT ![c] = @ + 1] /\ m_msg_id' = [m_msg_id EXCEPT ![c] = id]
        /\ call[c] = "none" /\ made[c] < MaxCalls[c]
        /\ UNCHANGED <<server, response, current, t_run_time>>
    BY <1>6 DEF CallMethod, Ready
  <2>3. generator' \in [Clients -> Generator]
    BY <1>6, GenType DEF CallMethod, TypeOK
  <2> HIDE DEF r
  <2>4. /\ request' \in [Clients -> Request \cup {None}]
        /\ call' \in [Clients -> {"none", "sent", "taken", "answered"}]
        /\ made' \in [Clients -> Nat] /\ \A d \in Clients : made'[d] <= MaxCalls[d]
        /\ m_msg_id' \in [Clients -> AnyId]
    BY <1>1, <2>1, <2>2
  <2>5. \A d \in Clients : /\ call'[d] = "none" <=> request'[d] = None
                           /\ call'[d] = "answered" <=> response'[d] # None
    BY <1>1, <1>2, <2>1, <2>2
  <2> QED
    BY <2>2, <2>3, <2>4, <2>5 DEF TypeOK
<1>7. ASSUME NEW c \in Clients, OnReply(c) PROVE TypeOK'
  <2>1. call' = [call EXCEPT ![c] = "none"] /\ request' = [request EXCEPT ![c] = None]
        /\ response' = [response EXCEPT ![c] = None]
        /\ UNCHANGED <<server, generator, m_msg_id, made, current, t_run_time>>
    BY <1>7 DEF OnReply
  <2>2. \A d \in Clients : /\ call'[d] = "none" <=> request'[d] = None
                           /\ call'[d] = "answered" <=> response'[d] # None
    BY <1>1, <1>2, <2>1
  <2>3. /\ request' \in [Clients -> Request \cup {None}]
        /\ response' \in [Clients -> Response \cup {None}]
        /\ call' \in [Clients -> {"none", "sent", "taken", "answered"}]
    BY <1>1, <2>1
  <2> QED
    BY <2>1, <2>2, <2>3 DEF TypeOK
<1>8. ASSUME NEW c \in Clients, NEW err_code \in ErrorCode, Answer(c, err_code),
             call[c] \in {"sent", "taken"}, UNCHANGED <<server, generator, m_msg_id, made, request, t_run_time>>,
             current' \in [Threads -> Clients \cup {None}]
      PROVE  TypeOK'
  <2> DEFINE rsp == [msg_id |-> request[c].msg_id, method_name |-> request[c].method_name,
                     err_code |-> err_code]
  <2>1. request[c] \in Request
    BY <1>1, <1>2, <1>8
  <2>2. rsp \in Response /\ rsp # None
    BY <1>1, <2>1 DEF Request, Response
  <2>3. call' = [call EXCEPT ![c] = "answered"] /\ response' = [response EXCEPT ![c] = rsp]
    BY <1>8 DEF Answer
  <2> HIDE DEF rsp
  <2>4. \A d \in Clients : /\ call'[d] = "none" <=> request'[d] = None
                           /\ call'[d] = "answered" <=> response'[d] # None
    BY <1>1, <1>2, <1>8, <2>2, <2>3
  <2>5. /\ response' \in [Clients -> Response \cup {None}]
        /\ call' \in [Clients -> {"none", "sent", "taken", "answered"}]
    BY <1>1, <2>2, <2>3
  <2> QED
    BY <1>8, <2>4, <2>5 DEF TypeOK
<1>9. ASSUME NEW t \in Threads, NEW c \in Clients, Refuse(t, c) PROVE TypeOK'
  <2>1. Refusal(request[c]) \in ErrorCode
    BY DEF Refusal, ErrorCode
  <2>2. Answer(c, Refusal(request[c])) /\ call[c] = "sent"
        /\ UNCHANGED <<server, generator, m_msg_id, made, request, current, t_run_time>>
    BY <1>9 DEF Refuse
  <2> QED
    BY <1>1, <1>8, <2>1, <2>2
<1>10. ASSUME NEW t \in Threads, NEW c \in Clients, EnterMethod(t, c) PROVE TypeOK'
  <2> DEFINE stamp == [msg_id |-> request[c].msg_id, method_name |-> MethodName(request[c].method_name)]
  <2>1. /\ call' = [call EXCEPT ![c] = "taken"] /\ call[c] = "sent"
        /\ current' = [current EXCEPT ![t] = c]
        /\ t_run_time' = [t_run_time EXCEPT ![t] = stamp]
        /\ UNCHANGED <<server, generator, m_msg_id, made, request, response>>
    BY <1>10 DEF EnterMethod, SetRunTime
  <2>2. request[c] \in Request
    BY <1>1, <1>2, <2>1
  <2>3. request[c].method_name \in Names \ {<<>>} /\ request[c].msg_id \in AnyId
    <3>1. HasDot(request[c].method_name)
      BY <1>10 DEF EnterMethod, Refusal
    <3> QED
      BY <2>2, <3>1, EmptySeq DEF Request, HasDot
  <2>4. stamp \in RunTime
    BY <2>3 DEF RunTime, MethodName
  <2> HIDE DEF stamp
  <2>5. /\ call' \in [Clients -> {"none", "sent", "taken", "answered"}]
        /\ current' \in [Threads -> Clients \cup {None}]
        /\ t_run_time' \in [Threads -> RunTime]
    BY <1>1, <2>1, <2>4
  <2>6. \A d \in Clients : /\ call'[d] = "none" <=> request'[d] = None
                           /\ call'[d] = "answered" <=> response'[d] # None
    BY <1>1, <1>2, <2>1
  <2> QED
    BY <2>1, <2>5, <2>6 DEF TypeOK
<1>11. ASSUME NEW t \in Threads, NEW err_code \in ErrorCode, LeaveMethod(t, err_code)
       PROVE  TypeOK'
  <2>1. current[t] \in Clients /\ call[current[t]] = "taken"
    BY <1>1, <1>11 DEF LeaveMethod, Idle, Serving
  <2>2. current' \in [Threads -> Clients \cup {None}]
    BY <1>1, <1>11 DEF LeaveMethod
  <2>3. Answer(current[t], err_code)
        /\ UNCHANGED <<server, generator, m_msg_id, made, request, t_run_time>>
    BY <1>11 DEF LeaveMethod
  <2> QED
    BY <1>8, <2>1, <2>2, <2>3
<1>12. CASE UNCHANGED vars
  BY <1>12 DEF vars, TypeOK
<1> QED
  BY <1>3, <1>4, <1>5, <1>6, <1>7, <1>9, <1>10, <1>11, <1>12 DEF Next, Client, IOThread

LEMMA StepServing == TypeOK /\ Serving /\ [Next]_vars => Serving'
<1> SUFFICES ASSUME TypeOK, Serving, [Next]_vars PROVE Serving'
  OBVIOUS
<1> USE DEF server
<1>1. /\ call \in [Clients -> {"none", "sent", "taken", "answered"}]
      /\ request \in [Clients -> Request \cup {None}]
      /\ current \in [Threads -> Clients \cup {None}] /\ t_run_time \in [Threads -> RunTime]
      /\ None \notin Clients
  BY NoneAssumption DEF TypeOK
<1>2. ASSUME NEW c \in Clients, call[c] # "taken",
             \A d \in Clients : d # c => call'[d] = call[d] /\ request'[d] = request[d],
             UNCHANGED <<current, t_run_time>>
      PROVE  Serving'
  <2>1. \A t \in Threads : current[t] # None => current[t] \in Clients \ {c}
    BY <1>1, <1>2 DEF Serving
  <2> QED
    BY <1>2, <2>1 DEF Serving, Stamp
<1>3. CASE UNCHANGED <<call, request, current, t_run_time>>
  BY <1>3 DEF Serving, Stamp
<1>4. ASSUME NEW c \in Clients, NEW message \in Messages, NEW id \in AnyId,
             CallMethod(c, message, id)
      PROVE  Serving'
  BY <1>1, <1>2, <1>4 DEF CallMethod, Ready
<1>5. ASSUME NEW c \in Clients, OnReply(c) PROVE Serving'
  BY <1>1, <1>2, <1>5 DEF OnReply
<1>6. ASSUME NEW t \in Threads, NEW c \in Clients, Refuse(t, c) PROVE Serving'
  BY <1>1, <1>2, <1>6 DEF Refuse, Answer
<1>7. ASSUME NEW t \in Threads, NEW c \in Clients, EnterMethod(t, c) PROVE Serving'
  <2>1. /\ call[c] = "sent" /\ current[t] = None
        /\ call' = [call EXCEPT ![c] = "taken"]
        /\ current' = [current EXCEPT ![t] = c]
        /\ t_run_time' = [t_run_time EXCEPT ![t] = Stamp(request[c])]
        /\ request' = request
    BY <1>7 DEF EnterMethod, Idle, SetRunTime, Stamp
  <2>2. \A u \in Threads : current[u] # c
    BY <1>1, <2>1 DEF Serving
  <2>3. /\ current'[t] = c /\ t_run_time'[t] = Stamp(request[c])
        /\ \A u \in Threads : u # t => current'[u] = current[u] /\ t_run_time'[u] = t_run_time[u]
        /\ \A d \in Clients : d # c => call'[d] = call[d]
        /\ call'[c] = "taken"
    BY <1>1, <2>1
  <2>4. \A d \in Clients : Stamp(request[d])' = Stamp(request[d])
    BY <2>1 DEF Stamp
  <2>5. ASSUME NEW u \in Threads, u # t, current'[u] # None
        PROVE  /\ call'[current'[u]] = "taken"
               /\ t_run_time'[u] = Stamp(request'[current'[u]])
               /\ \A v \in Threads : current'[v] = current'[u] => v = u
    BY <1>1, <2>1, <2>2, <2>3, <2>5 DEF Serving
  <2>6. /\ call'[current'[t]] = "taken"
        /\ t_run_time'[t] = Stamp(request'[current'[t]])
        /\ \A v \in Threads : current'[v] = current'[t] => v = t
    BY <1>1, <2>1, <2>2, <2>3
  <2>7. ASSUME NEW u \in Threads, current'[u] # None
        PROVE  /\ call'[current'[u]] = "taken"
               /\ t_run_time'[u] = Stamp(request'[current'[u]])
               /\ \A v \in Threads : current'[v] = current'[u] => v = u
    BY <2>5, <2>6, <2>7
  <2> QED
    BY <2>7 DEF Serving, Stamp
<1>8. ASSUME NEW t \in Threads, NEW err_code \in ErrorCode, LeaveMethod(t, err_code)
      PROVE  Serving'
  <2> DEFINE c == current[t]
  <2>1. /\ c # None /\ current' = [current EXCEPT ![t] = None]
        /\ call' = [call EXCEPT ![c] = "answered"]
        /\ UNCHANGED <<request, t_run_time>>
    BY <1>8 DEF LeaveMethod, Idle, Answer
  <2>2. \A u \in Threads : u # t => current[u] # c
    BY <2>1 DEF Serving
  <2>3. /\ current'[t] = None
        /\ \A u \in Threads : u # t => current'[u] = current[u]
        /\ \A d \in Clients : d # c => call'[d] = call[d]
    BY <1>1, <2>1
  <2> QED
    BY <1>1, <2>1, <2>2, <2>3 DEF Serving, Stamp
<1> QED
  BY <1>3, <1>4, <1>5, <1>6, <1>7, <1>8
     DEF Next, MainThread, registerService, Serve, Client, Reset, SetMsgId, IOThread, vars

\* Every reachable state is well typed.
THEOREM TypeCorrect == SafetySpec => [](TypeOK /\ Serving)
<1>1. Init => TypeOK /\ Serving
  BY InitType DEF Init, Serving
<1>2. TypeOK /\ Serving /\ [Next]_vars => (TypeOK /\ Serving)'
  BY StepType, StepServing
<1> QED
  BY <1>1, <1>2, PTL DEF SafetySpec

\* Whatever a thread logs from a service carries the request it serves.
THEOREM StampedWithOwnRequest == SafetySpec => []StampsOwnRequest
<1>1. Serving => StampsOwnRequest
  BY DEF Serving, StampsOwnRequest, Idle
<1> QED
  BY <1>1, TypeCorrect, PTL

-----------------------------------------------------------------------------
(* Services are called for callable requests.                              *)

\* While calls are made the services stay as they are.
DispatchInv == CalledIfCallable /\ (serving \/ \A c \in Clients : call[c] = "none")

Served(c) == request[c].parses /\ Callable(request[c].method_name)

LEMMA StepDispatch == TypeOK /\ Serving /\ DispatchInv /\ [Next]_vars => DispatchInv'
<1> SUFFICES ASSUME TypeOK, Serving, DispatchInv, [Next]_vars PROVE DispatchInv'
  OBVIOUS
<1> USE DEF server
<1>1. /\ call \in [Clients -> {"none", "sent", "taken", "answered"}]
      /\ request \in [Clients -> Request \cup {None}]
      /\ response \in [Clients -> Response \cup {None}]
      /\ current \in [Threads -> Clients \cup {None}] /\ None \notin Clients
      /\ \A c \in Clients : call[c] = "none" <=> request[c] = None
  BY NoneAssumption DEF TypeOK
<1>2. CASE MainThread
  <2>1. /\ ~ serving /\ UNCHANGED <<call, request, response>>
        /\ serving' \/ UNCHANGED serving
    BY <1>2 DEF MainThread, registerService, Serve
  <2>2. \A c \in Clients : call[c] = "none"
    BY <2>1 DEF DispatchInv
  <2> QED
    BY <2>1, <2>2 DEF DispatchInv, CalledIfCallable
<1>3. CASE UNCHANGED <<m_service_map, serving, call, request, response>>
  BY <1>3 DEF DispatchInv, CalledIfCallable, Callable
<1>4. ASSUME NEW c \in Clients, call'[c] \in {"none", "sent"}, call[c] # "none" \/ serving,
             \A d \in Clients : d # c => /\ call'[d] = call[d] /\ request'[d] = request[d]
                                       /\ response'[d] = response[d],
             UNCHANGED <<m_service_map, serving>>
      PROVE  DispatchInv'
  <2>1. \A d \in Clients : d # c => (Served(d)' <=> Served(d))
    BY <1>4 DEF Callable, Served
  <2>2. ASSUME NEW d \in Clients
        PROVE  /\ call'[d] = "taken" => Served(d)'
               /\ call'[d] = "answered" =>
                    (response'[d].err_code \in {"0", "ERROR_FAILED_SERILIZE"} <=> Served(d)')
    <3>1. CASE d = c
      BY <1>4, <3>1
    <3>2. CASE d # c
      <4>1. call'[d] = call[d] /\ response'[d] = response[d] /\ (Served(d)' <=> Served(d))
        BY <1>4, <2>1, <3>2
      <4>2. /\ call[d] = "taken" => Served(d)
            /\ call[d] = "answered" =>
                 (response[d].err_code \in {"0", "ERROR_FAILED_SERILIZE"} <=> Served(d))
        BY DEF DispatchInv, CalledIfCallable, Served
      <4> QED
        BY <4>1, <4>2
    <3> QED
      BY <3>1, <3>2
  <2>3. serving'
    BY <1>4 DEF DispatchInv
  <2> QED
    BY <2>2, <2>3 DEF DispatchInv, CalledIfCallable, Served
<1>5. ASSUME NEW c \in Clients, NEW message \in Messages, NEW id \in AnyId,
             CallMethod(c, message, id)
      PROVE  DispatchInv'
  BY <1>1, <1>4, <1>5 DEF CallMethod, Ready
<1>6. ASSUME NEW c \in Clients, OnReply(c) PROVE DispatchInv'
  BY <1>1, <1>4, <1>6 DEF OnReply
<1>7. ASSUME NEW c \in Clients, call[c] # "none", UNCHANGED <<m_service_map, serving, request>>,
             \A d \in Clients : d # c => call'[d] = call[d] /\ response'[d] = response[d],
             \/ call'[c] = "taken" /\ Served(c)
             \/ /\ call'[c] = "answered"
                /\ response'[c].err_code \in {"0", "ERROR_FAILED_SERILIZE"} <=> Served(c)
      PROVE  DispatchInv'
  <2>1. serving
    BY <1>7 DEF DispatchInv
  <2> QED
    BY <1>7, <2>1 DEF DispatchInv, CalledIfCallable, Callable, Served
<1>8. ASSUME NEW t \in Threads, NEW c \in Clients, Refuse(t, c) PROVE DispatchInv'
  <2> DEFINE code == Refusal(request[c])
  <2>1. /\ call[c] = "sent" /\ code # "0" /\ call' = [call EXCEPT ![c] = "answered"]
        /\ response' = [response EXCEPT ![c] = [msg_id |-> request[c].msg_id,
             method_name |-> request[c].method_name, err_code |-> code]]
        /\ UNCHANGED <<m_service_map, serving, request>>
    BY <1>8 DEF Refuse, Answer
  <2>2. request[c] \in Request
    BY <1>1, <2>1
  <2>3. code \notin {"0", "ERROR_FAILED_SERILIZE"}
    BY <2>1 DEF Refusal
  <2>4. ~ Served(c)
    BY <2>1, <2>2, RefusalExact DEF Served
  <2> HIDE DEF code
  <2>5. /\ response'[c].err_code = code /\ call'[c] = "answered"
        /\ \A d \in Clients : d # c => call'[d] = call[d] /\ response'[d] = response[d]
    BY <1>1, <2>1
  <2> QED
    BY <1>7, <2>1, <2>3, <2>4, <2>5
<1>9. ASSUME NEW t \in Threads, NEW c \in Clients, EnterMethod(t, c) PROVE DispatchInv'
  <2>1. /\ call[c] = "sent" /\ Refusal(request[c]) = "0"
        /\ call' = [call EXCEPT ![c] = "taken"]
        /\ UNCHANGED <<m_service_map, serving, request, response>>
    BY <1>9 DEF EnterMethod
  <2>2. request[c] \in Request
    BY <1>1, <2>1
  <2>3. Served(c)
    BY <2>1, <2>2, RefusalExact DEF Served
  <2> QED
    BY <1>1, <1>7, <2>1, <2>3
<1>10. ASSUME NEW t \in Threads, NEW err_code \in ErrorCode, LeaveMethod(t, err_code)
       PROVE  DispatchInv'
  <2> PICK c \in Clients : c = current[t]
    BY <1>1, <1>10 DEF LeaveMethod, Idle
  <2>1. call[c] = "taken"
    BY <1>1 DEF Serving
  <2>2. Served(c)
    BY <2>1 DEF DispatchInv, CalledIfCallable, Served
  <2>3. /\ err_code \in {"0", "ERROR_FAILED_SERILIZE"}
        /\ call' = [call EXCEPT ![c] = "answered"]
        /\ response' = [response EXCEPT ![c] = [msg_id |-> request[c].msg_id,
             method_name |-> request[c].method_name, err_code |-> err_code]]
        /\ UNCHANGED <<m_service_map, serving, request>>
    BY <1>10 DEF LeaveMethod, Answer
  <2>4. /\ response'[c].err_code = err_code /\ call'[c] = "answered"
        /\ \A d \in Clients : d # c => call'[d] = call[d] /\ response'[d] = response[d]
    BY <1>1, <2>3
  <2> QED
    BY <1>7, <2>1, <2>2, <2>3, <2>4
<1> QED
  BY <1>2, <1>3, <1>5, <1>6, <1>8, <1>9, <1>10
     DEF Next, Client, Reset, SetMsgId, IOThread, vars

\* A service is called exactly for the requests it can be called for.
THEOREM CalledExactly == SafetySpec => []CalledIfCallable
<1>1. Init => DispatchInv
  BY DEF Init, DispatchInv, CalledIfCallable
<1>2. DispatchInv => CalledIfCallable
  BY DEF DispatchInv
<1> QED
  BY <1>1, <1>2, StepDispatch, TypeCorrect, PTL DEF SafetySpec

LongMaxima == \A c \in Clients : LongEnough(generator[c])

LEMMA StepLong == TypeOK /\ LongMaxima /\ [Next]_vars => LongMaxima'
<1> SUFFICES ASSUME TypeOK, LongMaxima, [Next]_vars PROVE LongMaxima'
  OBVIOUS
<1> USE DEF server
<1>1. generator \in [Clients -> Generator]
  BY DEF TypeOK
<1>2. CASE UNCHANGED generator
  BY <1>2 DEF LongMaxima
<1>3. ASSUME NEW c \in Clients, NEW g \in Generator, LongEnough(g),
             generator' = [generator EXCEPT ![c] = g]
      PROVE  LongMaxima'
  <2>1. \A d \in Clients : generator'[d] = IF d = c THEN g ELSE generator[d]
    BY <1>1, <1>3
  <2> QED
    BY <1>3, <2>1 DEF LongMaxima
<1>4. ASSUME NEW c \in Clients, NEW id \in AnyId, GenMsgID(c, id) PROVE LongMaxima'
  <2>1. CASE id \in Randoms /\ generator' = [generator EXCEPT ![c] = Seeded(generator[c], id)]
    <3>1. id \in Id
      BY <2>1, DispatchAssumption
    <3>2. Seeded(generator[c], id) \in Generator /\ LongEnough(Seeded(generator[c], id))
      BY <1>1, <3>1, SeededType, SeededLong
    <3> QED
      BY <1>3, <2>1, <3>2
  <2>2. CASE /\ ~ Exhausted(generator[c])
             /\ generator' = [generator EXCEPT ![c] = Counted(generator[c])]
    <3>1. generator[c] \in Generator /\ generator[c].num \in Id /\ generator[c].num # NoId
      BY <1>1, <2>2 DEF Exhausted, Generator
    <3>2. Successor(generator[c].num) \in Id
      BY <3>1, SuccessorType
    <3>3. Counted(generator[c]) \in Generator
          /\ Counted(generator[c]).max = generator[c].max
      BY <3>1, <3>2 DEF Counted, Generator
    <3>4. LongEnough(Counted(generator[c]))
      BY <3>1, <3>3 DEF LongMaxima, LongEnough
    <3> QED
      BY <1>3, <2>2, <3>3, <3>4
  <2> QED
    BY <1>2, <1>4, <2>1, <2>2 DEF GenMsgID
<1>5. ASSUME NEW c \in Clients, NEW message \in Messages, NEW id \in AnyId,
             CallMethod(c, message, id)
      PROVE  LongMaxima'
  BY <1>2, <1>4, <1>5 DEF CallMethod
<1> QED
  BY <1>2, <1>5 DEF Next, MainThread, registerService, Serve, Client, Reset, SetMsgId,
     OnReply, IOThread, Refuse, EnterMethod, LeaveMethod, vars

\* The ids that a thread generates count up by one each, for ids of any length and
\* base.  All nines are followed by a random number as long as they are the maximum,
\* and by themselves ever after.
THEOREM OnlyNinesAreRepeated == SafetySpec => OnlyNinesRepeat
<1> DEFINE Returns(c) ==
             LET before == generator[c].num
                 id     == request'[c].msg_id
                 nines  == before = Nines(g_msg_id_length)
                 again  == Len(generator[c].max) > g_msg_id_length
             IN  IF before = NoId \/ (nines /\ ~ again) THEN id \in Randoms
                 ELSE IF nines THEN id = before
                 ELSE Value(id) = Value(before) + 1
<1>1. ASSUME TypeOK, LongMaxima, Next, NEW c \in Clients, Generates(c) PROVE Returns(c)
  <2>1. made'[c] # made[c] /\ m_msg_id[c] = NoId /\ request'[c].msg_id # NoId
    BY <1>1 DEF Generates
  <2>2. \E message \in Messages, id \in AnyId : CallMethod(c, message, id)
    <3>1. ~ MainThread
      BY <2>1 DEF MainThread, registerService, Serve
    <3>2. ~ \E t \in Threads : IOThread(t)
      BY <2>1 DEF IOThread, Refuse, EnterMethod, LeaveMethod
    <3>3. PICK d \in Clients : Client(d)
      BY <1>1, <3>1, <3>2 DEF Next
    <3>4. PICK message \in Messages, id \in AnyId : CallMethod(d, message, id)
      BY <2>1, <3>3 DEF Client, Reset, SetMsgId, OnReply
    <3>5. made' = [made EXCEPT ![d] = made[d] + 1] /\ made \in [Clients -> Nat]
      BY <1>1, <3>4 DEF CallMethod, TypeOK
    <3>6. c = d
      BY <2>1, <3>5
    <3> QED
      BY <3>4, <3>6
  <2>3. PICK message \in Messages, id \in AnyId : CallMethod(c, message, id)
    BY <2>2
  <2>4. request'[c].msg_id = id
    <3>1. request \in [Clients -> Request \cup {None}]
      BY <1>1 DEF TypeOK
    <3>2. request' = [request EXCEPT ![c] = [msg_id |-> id, method_name |-> message.method_name,
                                             parses |-> message.parses]]
      BY <2>3 DEF CallMethod
    <3> QED
      BY <3>1, <3>2
  <2>5. GenMsgID(c, id) /\ id # NoId /\ LongEnough(generator[c])
    BY <1>1, <2>1, <2>3, <2>4 DEF CallMethod, LongMaxima
  <2> QED
    BY <1>1, <2>4, <2>5, GenReturns
<1>2. TypeOK /\ LongMaxima /\ [Next]_vars
        => [\A c \in Clients : Generates(c) => Returns(c)]_vars
  <2> HIDE DEF Returns
  <2> QED
    BY <1>1
<1>3. Init => LongMaxima
  BY DEF Init, LongMaxima, LongEnough, NewGenerator
<1> QED
  BY <1>2, <1>3, StepLong, TypeCorrect, PTL DEF SafetySpec, OnlyNinesRepeat

-----------------------------------------------------------------------------
(* Every call is somebody's, and every answer finds its caller.            *)

InHand(c) ==
  /\ call[c] = "taken" => \E t \in Threads : current[t] = c
  /\ call[c] = "answered" => /\ response[c].msg_id = request[c].msg_id
                            /\ response[c].method_name = request[c].method_name

NoCallDropped == \A c \in Clients : InHand(c)

LEMMA StepInHand == TypeOK /\ Serving /\ NoCallDropped /\ [Next]_vars => NoCallDropped'
<1> SUFFICES ASSUME TypeOK, Serving, NoCallDropped, [Next]_vars, NEW x \in Clients
             PROVE  InHand(x)'
  BY DEF NoCallDropped
<1> USE DEF server
<1>1. /\ call \in [Clients -> {"none", "sent", "taken", "answered"}]
      /\ request \in [Clients -> Request \cup {None}]
      /\ response \in [Clients -> Response \cup {None}]
      /\ current \in [Threads -> Clients \cup {None}] /\ None \notin Clients
      /\ InHand(x)
  BY NoneAssumption DEF TypeOK, NoCallDropped
<1>2. CASE UNCHANGED <<call, request, response, current>>
  BY <1>1, <1>2 DEF InHand
<1>3. ASSUME NEW c \in Clients, NEW message \in Messages, NEW id \in AnyId,
             CallMethod(c, message, id)
      PROVE  InHand(x)'
  <2>1. /\ call' = [call EXCEPT ![c] = "sent"] /\ UNCHANGED <<response, current>>
        /\ x # c => request'[x] = request[x]
    BY <1>1, <1>3 DEF CallMethod
  <2> QED
    BY <1>1, <2>1 DEF InHand
<1>4. ASSUME NEW c \in Clients, OnReply(c) PROVE InHand(x)'
  <2>1. /\ call' = [call EXCEPT ![c] = "none"] /\ UNCHANGED current
        /\ x # c => request'[x] = request[x] /\ response'[x] = response[x]
    BY <1>1, <1>4 DEF OnReply
  <2> QED
    BY <1>1, <2>1 DEF InHand
<1>5. ASSUME NEW c \in Clients, NEW err_code, Answer(c, err_code), UNCHANGED request,
             \A t \in Threads : current[t] # c => current'[t] = current[t]
      PROVE  InHand(x)'
  <2>1. call' = [call EXCEPT ![c] = "answered"]
    BY <1>5 DEF Answer
  <2>2. response'[c] = [msg_id |-> request[c].msg_id, method_name |-> request[c].method_name,
                        err_code |-> err_code]
    BY <1>1, <1>5 DEF Answer
  <2>3. x # c => response'[x] = response[x]
    BY <1>1, <1>5 DEF Answer
  <2>4. CASE x = c
    BY <1>1, <1>5, <2>1, <2>2, <2>4 DEF InHand
  <2>5. CASE x # c
    <3>1. call'[x] = call[x] /\ request'[x] = request[x]
      BY <1>1, <1>5, <2>1, <2>5
    <3>2. ASSUME NEW t \in Threads, current[t] = x PROVE current'[t] = x
      BY <1>5, <2>5, <3>2
    <3> QED
      BY <1>1, <2>3, <2>5, <3>1, <3>2 DEF InHand
  <2> QED
    BY <2>4, <2>5
<1>6. ASSUME NEW t \in Threads, NEW c \in Clients, Refuse(t, c) PROVE InHand(x)'
  <2>1. Answer(c, Refusal(request[c])) /\ UNCHANGED <<request, current>>
    BY <1>6 DEF Refuse
  <2> HIDE DEF Refusal
  <2> QED
    BY <1>5, <2>1
<1>7. ASSUME NEW t \in Threads, NEW c \in Clients, EnterMethod(t, c) PROVE InHand(x)'
  <2>1. /\ current[t] = None /\ UNCHANGED <<request, response>>
        /\ call' = [call EXCEPT ![c] = "taken"]
        /\ current' = [current EXCEPT ![t] = c]
    BY <1>7 DEF EnterMethod, Idle
  <2>2. current'[t] = c /\ \A u \in Threads : u # t => current'[u] = current[u]
    BY <1>1, <2>1
  <2> QED
    BY <1>1, <2>1, <2>2 DEF InHand
<1>8. ASSUME NEW t \in Threads, NEW err_code \in ErrorCode, LeaveMethod(t, err_code)
      PROVE  InHand(x)'
  <2>1. /\ current[t] # None /\ Answer(current[t], err_code) /\ UNCHANGED request
        /\ current' = [current EXCEPT ![t] = None]
    BY <1>8 DEF LeaveMethod, Idle
  <2>2. current[t] \in Clients
    BY <1>1, <2>1
  <2>3. \A u \in Threads : current[u] # current[t] => current'[u] = current[u]
    BY <1>1, <2>1
  <2> QED
    BY <1>5, <2>1, <2>2, <2>3
<1> QED
  BY <1>2, <1>3, <1>4, <1>6, <1>7, <1>8
     DEF Next, MainThread, registerService, Serve, Client, Reset, SetMsgId, IOThread, vars

\* rpc_dispatcher.cc:30-153, tcp_connection.cc:131-139: no call is dropped between
\* its request and its answer.  A call whose service was entered is some IO thread's,
\* which has not left it, and an answer carries the id its caller waits for and the
\* method it called.
THEOREM CallsAreInHand == SafetySpec => []NoCallDropped
<1>1. Init => NoCallDropped
  BY DEF Init, NoCallDropped, InHand
<1> QED
  BY <1>1, StepInHand, TypeCorrect, PTL DEF SafetySpec
=============================================================================
