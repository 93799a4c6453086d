------------------------------- MODULE MCTimer -------------------------------
(***************************************************************************)
(* Instances of Timer for TLC.                                             *)
(***************************************************************************)
EXTENDS Timer

CONSTANTS e1, e2

\* Intervals that make the events overtake one another.
MCInterval == [e \in Events |-> IF e = e1 THEN 1 ELSE 2]
=============================================================================
