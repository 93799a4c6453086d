----------------------------- MODULE LogStream -----------------------------
(***************************************************************************)
(* What a log promises: the lines handed to it are written once each, in   *)
(* the order in which they were handed over.                               *)
(***************************************************************************)
EXTENDS Naturals, Sequences

CONSTANT Line

VARIABLES
  lines,   \* the lines handed over, in order
  written  \* how many of them are written: the first ones

Init == lines = <<>> /\ written = 0

\* A thread hands a line over.
Log == /\ \E line \in Line : lines' = Append(lines, line)
       /\ UNCHANGED written

\* The next lines are written, one or more.
Write == /\ written' \in written + 1 .. Len(lines)
         /\ UNCHANGED lines

\* With no other line under way, a line may be written as it is handed over.
LogAtOnce ==
  /\ written = Len(lines)
  /\ \E line \in Line : lines' = Append(lines, line)
  /\ written' = Len(lines')

Next == Log \/ Write \/ LogAtOnce

Spec == Init /\ [][Next]_<<lines, written>>
=============================================================================
