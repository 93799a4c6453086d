------------------------------ MODULE Induction ------------------------------
(***************************************************************************)
(* Induction over the naturals for a set instead of a predicate: what is   *)
(* to be shown of every natural is collected in a set T, and the two facts *)
(* below say when T is all of Nat or has a least element.  The other proof *)
(* modules reason about recursive functions with them.                     *)
(***************************************************************************)
EXTENDS Integers, WellFoundedInduction, TLAPS

\* A set of naturals has a least element.
LEMMA LeastNatural ==
  ASSUME NEW T, T \subseteq Nat, T # {}
  PROVE  \E i \in T : \A k \in T : i <= k
<1> DEFINE R == {p \in Nat \X Nat : p[1] < p[2]}
<1>1. \A i, k \in Nat : k < i => <<k, i>> \in R
  OBVIOUS
<1>2. IsWellFoundedOn(R, Nat)
  BY NatLessThanWellFounded, Zenon DEF OpToRel
<1> HIDE DEF R
<1>3. \E i \in T : \A k \in T : <<k, i>> \notin R
  BY <1>2, WFMin
<1>4. PICK i \in T : \A k \in T : <<k, i>> \notin R
  BY <1>3
<1>5. ASSUME NEW k \in T PROVE i <= k
  <2>1. i \in Nat /\ k \in Nat
    OBVIOUS
  <2>2. ~ (k < i)
    BY <1>1, <1>4, <2>1
  <2> QED
    BY <2>1, <2>2
<1> QED
  BY <1>5

\* A set with 0 and, up to n, the successor of each of its elements has all the
\* naturals up to n.
LEMMA UpTo ==
  ASSUME NEW n \in Nat, NEW T,
         0 \in T,
         \A i \in 1 .. n : i - 1 \in T => i \in T
  PROVE  \A i \in 0 .. n : i \in T
<1> DEFINE U == {i \in 0 .. n : i \notin T}
<1> SUFFICES ASSUME U # {} PROVE FALSE
  OBVIOUS
<1>1. PICK i \in U : \A k \in U : i <= k
  <2>1. U \subseteq Nat
    OBVIOUS
  <2> HIDE DEF U
  <2> QED
    BY <2>1, LeastNatural
<1>2. i \in 1 .. n /\ i - 1 \in 0 .. n /\ ~ (i <= i - 1)
  OBVIOUS
<1>3. i - 1 \in T
  BY <1>1, <1>2
<1> QED
  BY <1>2, <1>3
=============================================================================
