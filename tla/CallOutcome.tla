----------------------------- MODULE CallOutcome -----------------------------
(***************************************************************************)
(* What the callers of remote procedure calls are told, abstractly, by the *)
(* runs of their closures.  A call ends with an answer, good or bad, or    *)
(* with its timeout; after an answer nothing more is said.  After the      *)
(* timeout a late answer may still be reported, but only as a failure.     *)
(* Calls are independent of each other; several may end in one step, as    *)
(* one tick of the loop's timer ends all those whose time has come.        *)
(***************************************************************************)
EXTENDS Sequences

CONSTANT Calls

VARIABLE results    \* of each call: what the runs of its closure reported

Init == results = [c \in Calls |-> <<>>]

Answer(c) ==
  /\ results[c] = <<>>
  /\ results'[c] \in {<<"ok">>, <<"failed">>}

TimeOut(c) ==
  /\ results[c] = <<>>
  /\ results'[c] = <<"timeout">>

LateAnswer(c) ==
  /\ results[c] = <<"timeout">>
  /\ results'[c] = Append(results[c], "failed")

Next ==
  /\ DOMAIN results' = Calls
  /\ \A c \in Calls :
       Answer(c) \/ TimeOut(c) \/ LateAnswer(c) \/ results'[c] = results[c]

Spec == Init /\ [][Next]_results
=============================================================================
