------------------------------- MODULE MsgID -------------------------------
(***************************************************************************)
(* rocket::MsgIDUtil (rocket/common/msg_id_util.cc): the message ids that  *)
(* a thread gives to its calls.                                            *)
(*                                                                         *)
(* A generator is the pair of a thread's t_msg_id_num and                  *)
(* t_max_msg_id_num, decimal numbers kept as strings of digits.  It starts *)
(* at a random number and counts up to the maximum, where it takes another *)
(* random number.  Each time the maximum gets longer, so that only the     *)
(* first one is ever reached.                                              *)
(***************************************************************************)
EXTENDS Naturals, Sequences

CONSTANTS
  g_msg_id_length,  \* digits of an id
  Nine              \* the greatest digit

ASSUME MsgIDAssumption ==
  /\ g_msg_id_length \in Nat \ {0}
  /\ Nine \in Nat \ {0}

Digit == 0 .. Nine
Id == [1 .. g_msg_id_length -> Digit]

\* What a failed read of /dev/urandom gives, and what a controller has at first.
NoId == <<>>

Nines(n) == [i \in 1 .. n |-> Nine]

NewGenerator == [num |-> NoId, max |-> <<>>]

Generator == [num : Id \cup {NoId}, max : Seq({Nine})]

\* A random number is needed.
Exhausted(g) == g.num = NoId \/ g.num = g.max

Seeded(g, random) == [num |-> random, max |-> g.max \o Nines(g_msg_id_length)]

\* The last digit that is not nine is counted up and the nines behind it
\* become zeros.
Reached(num, i) == \A j \in DOMAIN num : j > i => num[j] = Nine

SuccessorCarryOn(num) ==    \* mutant
  IF \A i \in DOMAIN num : num[i] = Nine
    THEN num
    ELSE [i \in DOMAIN num |->
            IF Reached(num, i) /\ num[i] # Nine THEN num[i] + 1 ELSE num[i]]
Successor(num) ==
  IF \A i \in DOMAIN num : num[i] = Nine
    THEN num
    ELSE [i \in DOMAIN num |->
            IF ~ Reached(num, i) THEN num[i] ELSE IF num[i] = Nine THEN 0 ELSE num[i] + 1]

Counted(g) == [g EXCEPT !.num = Successor(g.num)]
=============================================================================
