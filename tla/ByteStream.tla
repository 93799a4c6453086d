------------------------------ MODULE ByteStream ------------------------------
(***************************************************************************)
(* What one direction of a TCP connection promises its user: bytes enter   *)
(* it at the back and are taken from the front, and none is lost, changed  *)
(* or repeated on the way.                                                 *)
(***************************************************************************)
EXTENDS Naturals, Sequences, SequencesExt

VARIABLES
  queue,   \* the bytes under way
  taken    \* how many have been taken

Init == queue = <<>> /\ taken = 0

Enter == IsStrictPrefix(queue, queue') /\ UNCHANGED taken
Take  == \E n \in 1 .. Len(queue) : /\ queue' = SubSeq(queue, n + 1, Len(queue))
                                   /\ taken' = taken + n

Spec == Init /\ [][Enter \/ Take]_<<queue, taken>>
=============================================================================
