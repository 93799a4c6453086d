---------------------------- MODULE RpcCallProofs ----------------------------
(***************************************************************************)
(* Proofs about RpcCall, for any set of channels.                          *)
(*                                                                         *)
(* OutcomeStands is not inductive: that a call hears of its response once  *)
(* depends on the request being written once, and that depends on what     *)
(* epoll still watches and on the callbacks of the round.  Phases says how *)
(* far a call can be when each of these is the case.                       *)
(***************************************************************************)
EXTENDS RpcCall, TLAPS

\* A call that was made and whose response has not been handled.
Unanswered(c) ==
  \/ timer[c] \in {"pending", "due"} /\ results[c] = <<>>
  \/ timer[c] = "run" /\ results[c] = <<"timeout">>

\* The descriptor is or will be watched for writing, or such a callback waits.
Writing(c) ==
  \/ "out" \in listening[c]
  \/ <<c, "connected">> \in tasks
  \/ <<c, "onWrite">> \in tasks

\* What the timeout says of the reports.
Reported(c) ==
  /\ timer[c] \in {"none", "pending", "due"} => results[c] = <<>>
  /\ timer[c] = "run" =>
       /\ results[c] \in {<<"timeout">>, Append(<<"timeout">>, "failed")}
       /\ m_err_code[c] # "none"
  /\ timer[c] = "cancelled" => results[c] \in {<<>>, <<"ok">>, <<"failed">>}

Phases(c) ==
  /\ Reported(c)
  /\ Writing(c) => wire[c] = "none" /\ Unanswered(c)
  /\ wire[c] # "none" => Unanswered(c)

\* The callback of connect runs once.
Asked(c) == <<c, "connected">> \in tasks => m_state[c] # "Connected"

IInv == TypeOK /\ \A c \in Channels : Phases(c) /\ Asked(c)

-----------------------------------------------------------------------------
(* What epoll can report.                                                  *)

LEMMA ReadyMeans ==
  /\ Ready \subseteq Callback
  /\ \A c : <<c, "connected">> \in Ready =>
                "out" \in listening[c] /\ m_state[c] = "NotConnected"
  /\ \A c : <<c, "onWrite">> \in Ready => "out" \in listening[c]
BY DEF Ready

\* Appending to what was reported.
LEMMA AppendReport ==
  \A s \in Seq({"ok", "failed", "timeout"}), r \in {"ok", "failed", "timeout"} :
    Append(s, r) \in Seq({"ok", "failed", "timeout"})
OBVIOUS

LEMMA AppendFirst ==
  /\ Append(<<>>, "ok") = <<"ok">>
  /\ Append(<<>>, "failed") = <<"failed">>
  /\ Append(<<>>, "timeout") = <<"timeout">>
OBVIOUS

-----------------------------------------------------------------------------
(* Types.                                                                  *)

THEOREM InitType == Init => TypeOK
<1> SUFFICES ASSUME Init PROVE TypeOK OBVIOUS
<1>1. results \in [Channels -> Seq({"ok", "failed", "timeout"})]
  <2>1. <<>> \in Seq({"ok", "failed", "timeout"}) OBVIOUS
  <2> QED BY <2>1 DEF Init
<1> QED BY <1>1 DEF Init, TypeOK

LEMMA RunType ==
  ASSUME TypeOK, NEW D, NEW report \in {"ok", "failed", "timeout"}, Run(D, report)
  PROVE  /\ results' \in [Channels -> Seq({"ok", "failed", "timeout"})]
         /\ m_stop_flag' \in BOOLEAN
BY AppendReport DEF TypeOK, Run

LEMMA ReadDoneType ==
  ASSUME TypeOK, NEW c \in Channels, wire[c] \in Reply, ReadDone(c)
  PROVE  /\ results' \in [Channels -> Seq({"ok", "failed", "timeout"})]
         /\ m_stop_flag' \in BOOLEAN
         /\ m_err_code' \in [Channels -> Error \cup {"none"}]
<1> DEFINE error == IF wire[c] = "error" THEN "service" ELSE m_err_code[c]
           report == IF error = "none" THEN "ok" ELSE "failed"
<1>1. CASE wire[c] = "garbled"
  BY <1>1 DEF ReadDone, SetError, TypeOK, Error
<1>2. CASE wire[c] # "garbled"
  <2>1. SetError(c, error) /\ Run({c}, report)
    BY <1>2 DEF ReadDone
  <2>2. report \in {"ok", "failed", "timeout"} /\ error \in Error \cup {"none"}
    BY DEF TypeOK, Error
  <2> HIDE DEF error, report
  <2>3. m_err_code' \in [Channels -> Error \cup {"none"}]
    BY <2>1, <2>2 DEF SetError, TypeOK
  <2> QED BY <2>1, <2>2, <2>3, RunType
<1> QED BY <1>1, <1>2

THEOREM StepType == TypeOK /\ [Next]_vars => TypeOK'
<1> SUFFICES ASSUME TypeOK, [Next]_vars PROVE TypeOK' OBVIOUS
<1> USE DEF TypeOK
<1>1. CASE Loop
  BY <1>1 DEF Loop, client, call
<1>2. ASSUME NEW c \in Channels, CallRefused(c) PROVE TypeOK'
  BY <1>2 DEF CallRefused, SetError, Error, loop, client
<1>3. ASSUME NEW c \in Channels, CallConnected(c) PROVE TypeOK'
  BY <1>3 DEF CallConnected, Established, loop
<1>4. ASSUME NEW c \in Channels, CallFailed(c) PROVE TypeOK'
  BY <1>4 DEF CallFailed, NotEstablished, SetError, Error, loop
<1>5. ASSUME NEW c \in Channels, CallConnecting(c) PROVE TypeOK'
  BY <1>5 DEF CallConnecting
<1>6. CASE Poll
  BY <1>6, ReadyMeans DEF Poll, loop, client, call
<1>7. CASE Leave
  BY <1>7 DEF Leave, client, call
<1>8. CASE OnTimer
  <2>1. Run({c \in Channels : timer[c] = "due"}, "timeout")
    BY <1>8 DEF OnTimer
  <2>2. /\ results' \in [Channels -> Seq({"ok", "failed", "timeout"})]
        /\ m_stop_flag' \in BOOLEAN
    BY <2>1, RunType
  <2>3. /\ timer' \in [Channels -> {"none", "pending", "due", "cancelled", "run"}]
        /\ m_err_code' \in [Channels -> Error \cup {"none"}]
    BY <1>8 DEF OnTimer, Error
  <2> QED BY <1>8, <2>2, <2>3 DEF OnTimer, Take, client
<1>9. ASSUME NEW c \in Channels, Connected(c) PROVE TypeOK'
  <2>1. CASE Established(c) /\ UNCHANGED socket
    BY <1>9, <2>1 DEF Connected, Take, Established, loop
  <2>2. CASE NotEstablished(c) /\ socket' = [socket EXCEPT ![c] = "replaced"]
    BY <1>9, <2>2 DEF Connected, Take, NotEstablished, SetError, Error, loop
  <2> QED BY <1>9, <2>1, <2>2 DEF Connected
<1>10. ASSUME NEW c \in Channels, OnWrite(c) PROVE TypeOK'
  <2>1. /\ listening' \in [Channels -> SUBSET {"in", "out"}]
        /\ wire' \in [Channels -> Reply \cup {"none", "request"}]
    <3>1. CASE UNCHANGED <<listening, wire>>
      BY <3>1
    <3>2. CASE /\ listening' = [listening EXCEPT ![c] = {"in"}]
               /\ wire' = [wire EXCEPT ![c] = IF socket[c] = "closed" THEN @ ELSE "request"]
      BY <3>2
    <3>3. CASE listening' = [listening EXCEPT ![c] = {"in", "out"}] /\ UNCHANGED wire
      BY <3>3
    <3> QED BY <1>10, <3>1, <3>2, <3>3 DEF OnWrite
  <2> QED BY <1>10, <2>1 DEF OnWrite, Take, loop, call
<1>11. ASSUME NEW c \in Channels, OnReply(c) PROVE TypeOK'
  <2>1. /\ results' \in [Channels -> Seq({"ok", "failed", "timeout"})]
        /\ m_stop_flag' \in BOOLEAN
        /\ m_err_code' \in [Channels -> Error \cup {"none"}]
    BY <1>11, ReadDoneType DEF OnReply
  <2>2. timer' \in [Channels -> {"none", "pending", "due", "cancelled", "run"}]
    BY <1>11 DEF OnReply, Cancelled
  <2> QED BY <1>11, <2>1, <2>2 DEF OnReply, Take, client
<1>12. ASSUME NEW c \in Channels, OnEnd(c) PROVE TypeOK'
  BY <1>12 DEF OnEnd, Take, loop, call
<1>13. ASSUME NEW c \in Channels, NEW outcome \in {"connected", "refused"},
              ConnectEnds(c, outcome)
       PROVE  TypeOK'
  BY <1>13 DEF ConnectEnds, loop, call
<1>14. ASSUME NEW c \in Channels, NEW reply \in Reply, Respond(c, reply) PROVE TypeOK'
  BY <1>14 DEF Respond, loop, client, call
<1>15. ASSUME NEW c \in Channels, PeerCloses(c) PROVE TypeOK'
  BY <1>15 DEF PeerCloses, loop, call
<1>16. ASSUME NEW c \in Channels, Expire(c) PROVE TypeOK'
  BY <1>16 DEF Expire, loop, client
<1>17. CASE UNCHANGED vars
  BY <1>17 DEF vars
<1> QED
  BY <1>1, <1>2, <1>3, <1>4, <1>5, <1>6, <1>7, <1>8, <1>9, <1>10, <1>11, <1>12, <1>13,
     <1>14, <1>15, <1>16, <1>17 DEF Next, User, LoopThread, Outside

\* Types hold for any set of channels: the socket, the connection, the timeout
\* and the controller of a call are always in one of the states the code knows.
THEOREM TypeCorrect == SafetySpec => []TypeOK
<1> QED BY InitType, StepType, PTL DEF SafetySpec

-----------------------------------------------------------------------------
(* The phases of a call.                                                   *)

THEOREM InitPhases == Init => \A c \in Channels : Phases(c) /\ Asked(c)
BY DEF Init, Phases, Reported, Writing, Unanswered, Asked

\* What the closures of D report, and that the others are silent.
LEMMA RunReports ==
  ASSUME TypeOK, NEW D, NEW report, Run(D, report), NEW c \in Channels
  PROVE  results'[c] = IF c \in D THEN Append(results[c], report) ELSE results[c]
BY DEF Run, TypeOK

\* A call none of whose parts changes keeps its phase.
LEMMA Untouched ==
  ASSUME NEW c, Phases(c),
         UNCHANGED <<timer[c], m_err_code[c], results[c], wire[c], listening[c]>>,
         <<c, "connected">> \in tasks' => Writing(c),
         <<c, "onWrite">> \in tasks' => Writing(c)
  PROVE  Phases(c)'
BY DEF Phases, Reported, Writing, Unanswered

THEOREM StepPhases == IInv /\ [Next]_vars => \A c \in Channels : Phases(c)'
<1> SUFFICES ASSUME IInv, [Next]_vars, NEW x \in Channels PROVE Phases(x)' OBVIOUS
<1>0. TypeOK /\ Phases(x) /\ Asked(x)
  BY DEF IInv
<1>1. CASE Loop
  BY <1>0, <1>1, Untouched DEF Loop, client, call, Writing
<1>2. ASSUME NEW c \in Channels, CallRefused(c) PROVE Phases(x)'
  <2>1. UNCHANGED <<timer[x], results[x], wire[x], listening[x], tasks>>
    BY <1>2 DEF CallRefused, client
  <2>2. m_err_code'[x] = m_err_code[x] \/ m_err_code'[x] = "refused"
    BY <1>0, <1>2 DEF CallRefused, SetError, TypeOK
  <2> QED BY <1>0, <2>1, <2>2 DEF Phases, Reported, Writing, Unanswered
<1>3. ASSUME NEW c \in Channels, CallConnected(c) PROVE Phases(x)'
  <2>1. CASE x = c
    BY <1>0, <1>3, <2>1 DEF CallConnected, Established, Called, Phases, Reported, Writing,
                            Unanswered, TypeOK
  <2>2. CASE x # c
    BY <1>0, <1>3, <2>2, Untouched DEF CallConnected, Established, Writing, TypeOK
  <2> QED BY <2>1, <2>2
<1>4. ASSUME NEW c \in Channels, CallFailed(c) PROVE Phases(x)'
  <2>1. CASE x = c
    BY <1>0, <1>4, <2>1 DEF CallFailed, NotEstablished, SetError, Called, Phases, Reported,
                            Writing, Unanswered, TypeOK
  <2>2. CASE x # c
    BY <1>0, <1>4, <2>2, Untouched DEF CallFailed, NotEstablished, SetError, Writing, TypeOK
  <2> QED BY <2>1, <2>2
<1>5. ASSUME NEW c \in Channels, CallConnecting(c) PROVE Phases(x)'
  <2>1. CASE x = c
    BY <1>0, <1>5, <2>1 DEF CallConnecting, Called, Phases, Reported, Writing, Unanswered,
                            TypeOK
  <2>2. CASE x # c
    BY <1>0, <1>5, <2>2, Untouched DEF CallConnecting, Writing, TypeOK
  <2> QED BY <2>1, <2>2
<1>6. CASE Poll
  BY <1>0, <1>6, ReadyMeans, Untouched DEF Poll, client, call, Writing
<1>7. CASE Leave
  BY <1>0, <1>7, Untouched DEF Leave, client, call, Writing
<1>8. CASE OnTimer
  <2> DEFINE due == {c \in Channels : timer[c] = "due"}
  <2>1. results'[x] = IF x \in due THEN Append(results[x], "timeout") ELSE results[x]
    BY <1>0, <1>8, RunReports DEF OnTimer
  <2>2. /\ timer'[x] = IF x \in due THEN "run" ELSE timer[x]
        /\ m_err_code'[x] = IF x \in due THEN "timeout" ELSE m_err_code[x]
        /\ UNCHANGED <<wire, listening>>
        /\ tasks' \subseteq tasks
    BY <1>8 DEF OnTimer, client, Take
  <2>3. CASE x \in due
    <3>1. results[x] = <<>> /\ results'[x] = <<"timeout">>
      BY <1>0, <2>1, <2>3, AppendFirst DEF Phases, Reported
    <3> QED BY <1>0, <2>2, <2>3, <3>1 DEF Phases, Reported, Writing, Unanswered
  <2>4. CASE x \notin due
    BY <1>0, <2>1, <2>2, <2>4, Untouched DEF Writing
  <2> QED BY <2>3, <2>4
<1>9. ASSUME NEW c \in Channels, Connected(c) PROVE Phases(x)'
  <2>1. CASE x = c
    <3>1. Writing(x) /\ UNCHANGED <<timer, wire, results>> /\ tasks' \subseteq tasks
      BY <1>9, <2>1 DEF Connected, Take, Writing
    <3>2. m_err_code'[x] = m_err_code[x] \/ m_err_code'[x] = "connect"
      BY <1>0, <1>9, <2>1 DEF Connected, Established, NotEstablished, SetError, TypeOK
    <3> QED BY <1>0, <3>1, <3>2 DEF Phases, Reported, Writing, Unanswered
  <2>2. CASE x # c
    <3>1. UNCHANGED <<m_err_code[x], listening[x]>>
      BY <1>0, <1>9, <2>2 DEF Connected, Established, NotEstablished, SetError, TypeOK
    <3> QED BY <1>0, <1>9, <2>2, <3>1, Untouched DEF Connected, Take, Writing
  <2> QED BY <2>1, <2>2
<1>10. ASSUME NEW c \in Channels, OnWrite(c) PROVE Phases(x)'
  <2>1. UNCHANGED call /\ tasks' = tasks \ {<<c, "onWrite">>}
    BY <1>10 DEF OnWrite, Take
  <2>2. CASE x = c
    <3>1. Unanswered(x) /\ wire[x] = "none" /\ Unanswered(x)'
      BY <1>0, <1>10, <2>1, <2>2 DEF OnWrite, Take, Phases, Writing, call, Unanswered
    <3>2. Reported(x)'
      BY <1>0, <2>1 DEF Phases, Reported, call
    <3>3. CASE UNCHANGED wire
      BY <3>1, <3>2, <3>3 DEF Phases
    <3>4. CASE /\ listening' = [listening EXCEPT ![c] = {"in"}]
               /\ m_state[c] = "Connected"
      <4>1. ~Writing(x)'
        BY <1>0, <2>1, <2>2, <3>4, <1>10 DEF Writing, TypeOK, OnWrite, Take, Asked
      <4> QED BY <3>1, <3>2, <4>1 DEF Phases
    <3> QED BY <1>10, <3>3, <3>4 DEF OnWrite
  <2>3. CASE x # c
    <3>1. UNCHANGED <<wire[x], listening[x]>>
      BY <1>0, <1>10, <2>3 DEF OnWrite, TypeOK
    <3> QED BY <1>0, <2>1, <2>3, <3>1, Untouched DEF call, Writing
  <2> QED BY <2>2, <2>3
<1>11. ASSUME NEW c \in Channels, OnReply(c) PROVE Phases(x)'
  <2> DEFINE error  == IF wire[c] = "error" THEN "service" ELSE m_err_code[c]
             report == IF error = "none" THEN "ok" ELSE "failed"
  <2>1. /\ wire[c] \in Reply
        /\ wire' = [wire EXCEPT ![c] = "none"]
        /\ timer' = [timer EXCEPT ![c] = Cancelled(c)]
        /\ ReadDone(c)
        /\ UNCHANGED listening
        /\ tasks' \subseteq tasks
    BY <1>11 DEF OnReply, Take, client
  <2>2. \/ /\ wire[c] = "garbled"
           /\ m_err_code' = [m_err_code EXCEPT ![c] = "deserialize"]
           /\ UNCHANGED results
        \/ m_err_code' = [m_err_code EXCEPT ![c] = error] /\ Run({c}, report)
    BY <2>1 DEF ReadDone, SetError
  <2>3. report \in {"ok", "failed"} /\ (m_err_code[c] # "none" => report = "failed" /\ error # "none")
    OBVIOUS
  <2> HIDE DEF error, report
  <2>4. CASE x = c
    <3>1. Unanswered(x) /\ ~Writing(x)
      BY <1>0, <2>1, <2>4 DEF Phases, Reply
    <3>2. wire'[x] = "none" /\ ~Writing(x)'
      BY <1>0, <2>1, <2>4, <3>1 DEF Writing, TypeOK
    <3>3. timer'[x] = IF timer[x] = "run" THEN "run" ELSE "cancelled"
      BY <1>0, <2>1, <2>4, <3>1 DEF Cancelled, Unanswered, TypeOK
    <3>4. \/ m_err_code'[x] = "deserialize" /\ results'[x] = results[x]
          \/ m_err_code'[x] = error /\ results'[x] = Append(results[x], report)
      <4>1. CASE m_err_code' = [m_err_code EXCEPT ![c] = "deserialize"] /\ UNCHANGED results
        BY <1>0, <2>4, <4>1 DEF TypeOK
      <4>2. CASE m_err_code' = [m_err_code EXCEPT ![c] = error] /\ Run({c}, report)
        <5>1. results'[x] = Append(results[x], report)
          BY <1>0, <2>4, <4>2, RunReports
        <5>2. m_err_code'[x] = error
          BY <1>0, <2>4, <4>2 DEF TypeOK
        <5> QED BY <5>1, <5>2
      <4> QED BY <2>2, <4>1, <4>2
    <3>5. CASE timer[x] = "run"
      <4>1. results[x] = <<"timeout">> /\ m_err_code[x] # "none"
        BY <1>0, <3>1, <3>5 DEF Unanswered, Phases, Reported
      <4> QED BY <2>3, <2>4, <3>2, <3>3, <3>4, <3>5, <4>1 DEF Phases, Reported
    <3>6. CASE timer[x] # "run"
      <4>1. results[x] = <<>>
        BY <3>1, <3>6 DEF Unanswered
      <4> QED BY <2>3, <3>2, <3>3, <3>4, <3>6, <4>1, AppendFirst DEF Phases, Reported
    <3> QED BY <3>5, <3>6
  <2>5. CASE x # c
    <3>1. UNCHANGED <<timer[x], m_err_code[x], wire[x], listening[x]>>
      BY <1>0, <2>1, <2>2, <2>5 DEF TypeOK
    <3>2. UNCHANGED results[x]
      BY <1>0, <2>2, <2>5, RunReports
    <3> QED BY <1>0, <2>1, <3>1, <3>2, Untouched DEF Writing
  <2> QED BY <2>4, <2>5
<1>12. ASSUME NEW c \in Channels, OnEnd(c) PROVE Phases(x)'
  <2>1. UNCHANGED call /\ UNCHANGED wire /\ tasks' \subseteq tasks
    BY <1>12 DEF OnEnd, Take
  <2>2. listening'[x] = listening[x] \/ listening'[x] = {}
    BY <1>0, <1>12 DEF OnEnd, TypeOK
  <2> QED BY <1>0, <2>1, <2>2 DEF call, Phases, Reported, Writing, Unanswered
<1>13. ASSUME NEW c \in Channels, NEW outcome \in {"connected", "refused"},
              ConnectEnds(c, outcome)
       PROVE  Phases(x)'
  BY <1>0, <1>13, Untouched DEF ConnectEnds, call, Writing
<1>14. ASSUME NEW c \in Channels, NEW reply \in Reply, Respond(c, reply) PROVE Phases(x)'
  <2>1. UNCHANGED <<tasks, listening>> /\ UNCHANGED call
    BY <1>14 DEF Respond, client
  <2>2. wire[x] = "none" => wire'[x] = "none"
    BY <1>0, <1>14 DEF Respond, TypeOK
  <2>3. wire'[x] # "none" => wire[x] # "none"
    BY <1>0, <1>14 DEF Respond, TypeOK
  <2> QED BY <1>0, <2>1, <2>2, <2>3 DEF call, Phases, Reported, Writing, Unanswered
<1>15. ASSUME NEW c \in Channels, PeerCloses(c) PROVE Phases(x)'
  BY <1>0, <1>15, Untouched DEF PeerCloses, call, Writing
<1>16. ASSUME NEW c \in Channels, Expire(c) PROVE Phases(x)'
  <2>1. CASE x = c
    BY <1>0, <1>16, <2>1 DEF Expire, client, Phases, Reported, Writing, Unanswered, TypeOK
  <2>2. CASE x # c
    BY <1>0, <1>16, <2>2, Untouched DEF Expire, client, Writing, TypeOK
  <2> QED BY <2>1, <2>2
<1>17. CASE UNCHANGED vars
  BY <1>0, <1>17, Untouched DEF vars, Writing
<1> QED
  BY <1>1, <1>2, <1>3, <1>4, <1>5, <1>6, <1>7, <1>8, <1>9, <1>10, <1>11, <1>12, <1>13,
     <1>14, <1>15, <1>16, <1>17 DEF Next, User, LoopThread, Outside

THEOREM StepAsked == IInv /\ [Next]_vars => \A c \in Channels : Asked(c)'
<1> SUFFICES ASSUME IInv, [Next]_vars, NEW x \in Channels PROVE Asked(x)' OBVIOUS
<1>0. TypeOK /\ Phases(x) /\ Asked(x)
  BY DEF IInv
<1>1. CASE tasks' \subseteq tasks /\ (m_state'[x] = "Connected" => m_state[x] = "Connected")
  BY <1>0, <1>1 DEF Asked
<1>2. CASE Poll
  BY <1>2, ReadyMeans DEF Poll, client, Asked
<1>3. ASSUME NEW c \in Channels, CallConnected(c) PROVE Asked(x)'
  <2>1. CASE x = c
    BY <1>0, <1>3, <2>1 DEF CallConnected, Called, Phases, Writing, Unanswered, Asked
  <2>2. CASE x # c
    BY <1>0, <1>3, <2>2 DEF CallConnected, Established, TypeOK, Asked
  <2> QED BY <2>1, <2>2
<1>4. ASSUME NEW c \in Channels, Connected(c) PROVE Asked(x)'
  <2>1. CASE x = c
    BY <1>4, <2>1 DEF Connected, Take, Asked
  <2>2. CASE x # c
    BY <1>0, <1>4, <2>2 DEF Connected, Take, Established, NotEstablished, TypeOK, Asked
  <2> QED BY <2>1, <2>2
<1>5. ASSUME NEW c \in Channels, OnEnd(c) PROVE Asked(x)'
  BY <1>0, <1>1, <1>5 DEF OnEnd, Take, TypeOK
<1>6. CASE \/ Loop \/ Leave \/ OnTimer
           \/ \E c \in Channels : CallRefused(c) \/ CallFailed(c) \/ CallConnecting(c)
                                   \/ OnWrite(c) \/ OnReply(c)
  BY <1>1, <1>6 DEF Loop, Leave, OnTimer, CallRefused, CallFailed, NotEstablished,
                    CallConnecting, OnWrite, OnReply, Take, loop, client
<1>7. CASE UNCHANGED vars \/ \E c \in Channels : Outside(c) \/ Expire(c)
  BY <1>1, <1>7 DEF Outside, ConnectEnds, Respond, PeerCloses, Expire, client, vars
<1> QED
  BY <1>2, <1>3, <1>4, <1>5, <1>6, <1>7 DEF Next, User, LoopThread

\* The inductive invariant.
THEOREM PhaseInvariant == SafetySpec => []IInv
<1>1. Init => IInv
  BY InitType, InitPhases DEF IInv
<1>2. IInv /\ [Next]_vars => IInv'
  BY StepType, StepPhases, StepAsked DEF IInv
<1> QED BY <1>1, <1>2, PTL DEF SafetySpec

-----------------------------------------------------------------------------
(* The refinement.                                                         *)

\* One call: what its closure reports in a step is an answer, a timeout, a late
\* answer, or nothing.
LEMMA CallStep ==
  ASSUME IInv, [Next]_vars, NEW x \in Channels
  PROVE  \/ Outcome!Answer(x) \/ Outcome!TimeOut(x) \/ Outcome!LateAnswer(x)
         \/ results'[x] = results[x]
<1>0. TypeOK /\ Phases(x)
  BY DEF IInv
<1>1. CASE OnTimer
  <2> DEFINE due == {c \in Channels : timer[c] = "due"}
  <2>1. results'[x] = IF x \in due THEN Append(results[x], "timeout") ELSE results[x]
    BY <1>0, <1>1, RunReports DEF OnTimer
  <2>2. CASE timer[x] = "due"
    <3>1. results[x] = <<>>
      BY <1>0, <2>2 DEF Phases, Reported
    <3>2. results'[x] = Append(results[x], "timeout")
      BY <2>1, <2>2
    <3> QED BY <3>1, <3>2, AppendFirst DEF Outcome!TimeOut
  <2>3. CASE timer[x] # "due"
    BY <2>1, <2>3
  <2> QED BY <2>2, <2>3
<1>2. ASSUME NEW c \in Channels, OnReply(c)
      PROVE  \/ Outcome!Answer(x) \/ Outcome!LateAnswer(x)
             \/ results'[x] = results[x]
  <2> DEFINE error  == IF wire[c] = "error" THEN "service" ELSE m_err_code[c]
             report == IF error = "none" THEN "ok" ELSE "failed"
  <2>1. wire[c] \in Reply /\ (UNCHANGED results \/ Run({c}, report))
    BY <1>2 DEF OnReply, ReadDone
  <2>2. report \in {"ok", "failed"} /\ (m_err_code[c] # "none" => report = "failed")
    OBVIOUS
  <2> HIDE DEF error, report
  <2>3. CASE x = c /\ Run({c}, report)
    <3>1. results'[x] = Append(results[x], report)
      BY <1>0, <2>3, RunReports
    <3>2. Unanswered(x)
      BY <1>0, <2>1, <2>3 DEF Phases, Reply
    <3>3. CASE results[x] = <<>>
      BY <2>2, <3>1, <3>3, AppendFirst DEF Outcome!Answer
    <3>4. CASE timer[x] = "run" /\ results[x] = <<"timeout">>
      <4>1. report = "failed"
        BY <1>0, <2>2, <2>3, <3>4 DEF Phases, Reported
      <4> QED BY <3>1, <3>4, <4>1 DEF Outcome!LateAnswer
    <3> QED BY <3>2, <3>3, <3>4 DEF Unanswered
  <2>4. CASE x # c \/ UNCHANGED results
    BY <1>0, <2>1, <2>4, RunReports
  <2> QED BY <2>1, <2>3, <2>4
<1>3. CASE ~OnTimer /\ ~\E c \in Channels : OnReply(c)
  BY <1>3 DEF Next, User, LoopThread, Outside, vars, client, call, Loop, CallRefused,
     CallConnected, CallFailed, CallConnecting, Poll, Leave, Connected, OnWrite, OnEnd,
     ConnectEnds, Respond, PeerCloses, Expire
<1> QED BY <1>1, <1>2, <1>3

\* What the closures of any number of calls report stands: an answer is the last
\* word, and after the timeout there is at most one late answer, a failure.
THEOREM ReportsStand == SafetySpec => OutcomeStands
<1>1. Init => Outcome!Init
  BY DEF Init, Outcome!Init
<1>2. IInv /\ IInv' /\ [Next]_vars => [Outcome!Next]_results
  <2> SUFFICES ASSUME IInv, IInv', [Next]_vars PROVE Outcome!Next
    OBVIOUS
  <2>1. DOMAIN results' = Channels
    BY DEF IInv, TypeOK
  <2> QED BY <2>1, CallStep DEF Outcome!Next
<1> QED BY <1>1, <1>2, PhaseInvariant, PTL DEF SafetySpec, OutcomeStands, Outcome!Spec

-----------------------------------------------------------------------------
(* No call is left without an end.                                         *)

\* As long as a call is open its timeout is in the timer, and the loop it runs in
\* goes on; a reply that cannot be read withdraws the timeout.
Timed(c) ==
  /\ Open(c) => timer[c] \in {"pending", "due"} /\ (inLoop => ~ m_stop_flag)
  /\ m_err_code[c] = "deserialize" => timer[c] \in {"cancelled", "run"}

\* A loop that was told to stop was entered; callbacks run in the loop.
InLoop ==
  /\ inLoop \/ m_stop_flag => m_is_looping
  /\ tasks # {} => inLoop

NoCallForgotten == \A c \in Channels : Timed(c)

LEMMA AppendedNotEmpty ==
  \A s \in Seq({"ok", "failed", "timeout"}), r \in {"ok", "failed", "timeout"} :
    Append(s, r) # <<>>
<1> TAKE s \in Seq({"ok", "failed", "timeout"}), r \in {"ok", "failed", "timeout"}
<1>1. Len(Append(s, r)) = Len(s) + 1 /\ Len(s) \in Nat
  OBVIOUS
<1>2. Len(<<>>) = 0
  OBVIOUS
<1> QED
  BY <1>1, <1>2

LEMMA StepInLoop == TypeOK /\ InLoop /\ [Next]_vars => InLoop'
<1> SUFFICES ASSUME TypeOK, InLoop, [Next]_vars PROVE InLoop'
  OBVIOUS
<1>0. {inLoop, m_is_looping, m_stop_flag} \subseteq BOOLEAN
  BY DEF TypeOK
<1> USE DEF InLoop, loop
<1>1. CASE Loop \/ Poll \/ Leave \/ UNCHANGED vars
  BY <1>1 DEF Loop, Poll, Leave, vars
<1>2. ASSUME NEW c \in Channels,
             \/ CallRefused(c) \/ CallConnected(c) \/ CallFailed(c) \/ CallConnecting(c)
             \/ Outside(c) \/ Expire(c)
      PROVE  InLoop'
  <2>1. CASE UNCHANGED <<loop, tasks>>
    BY <2>1
  <2>2. CASE CallConnecting(c)
    BY <1>0, <2>2 DEF CallConnecting
  <2> QED
    BY <1>2, <2>1, <2>2 DEF CallRefused, CallConnected, CallFailed, Outside, ConnectEnds,
                            Respond, PeerCloses, Expire
<1>3. ASSUME NEW c \in Channels, Connected(c) \/ OnWrite(c) \/ OnReply(c) \/ OnEnd(c)
      PROVE  InLoop'
  BY <1>3 DEF Connected, OnWrite, OnReply, OnEnd, Take
<1>4. CASE OnTimer
  BY <1>4 DEF OnTimer, Take
<1> QED
  BY <1>1, <1>2, <1>3, <1>4 DEF Next, User, LoopThread

\* A call none of whose parts changes stays timed, unless the loop is told to stop.
LEMMA StaysTimed ==
  ASSUME NEW c, Timed(c), UNCHANGED <<timer[c], results[c], m_err_code[c]>>,
         inLoop' /\ m_stop_flag' => inLoop /\ m_stop_flag
  PROVE  Timed(c)'
BY DEF Timed, Open, Called

LEMMA StepTimed == IInv /\ InLoop /\ NoCallForgotten /\ [Next]_vars => NoCallForgotten'
<1> SUFFICES ASSUME IInv, InLoop, NoCallForgotten, [Next]_vars, NEW x \in Channels
             PROVE  Timed(x)'
  BY DEF NoCallForgotten
<1>0. TypeOK /\ Phases(x) /\ Timed(x)
  BY DEF IInv, NoCallForgotten
<1> USE DEF loop, call
<1>1. CASE Loop
  BY <1>0, <1>1, StaysTimed DEF Loop
<1>2. ASSUME NEW c \in Channels,
             \/ CallRefused(c) \/ CallConnected(c) \/ CallFailed(c) \/ CallConnecting(c)
      PROVE  Timed(x)'
  <2>1. ~ (inLoop /\ m_stop_flag) /\ ~ Called(c) /\ UNCHANGED <<m_stop_flag, results>>
    BY <1>2 DEF CallRefused, CallConnected, CallFailed, CallConnecting, Free
  <2>0. inLoop' /\ m_stop_flag' => inLoop /\ m_stop_flag
    <3>1. CASE CallConnecting(c)
      <4>1. /\ inLoop' = (inLoop \/ ~ m_is_looping)
            /\ m_stop_flag' = m_stop_flag
            /\ {inLoop, m_is_looping, m_stop_flag} \subseteq BOOLEAN
        BY <1>0, <3>1 DEF CallConnecting, TypeOK
      <4>2. m_stop_flag => m_is_looping
        BY DEF InLoop
      <4> QED
        BY <4>1, <4>2
    <3>2. CASE ~ CallConnecting(c)
      BY <1>2, <2>1, <3>2 DEF CallRefused, CallConnected, CallFailed
    <3> QED
      BY <3>1, <3>2
  <2>2. CASE x = c
    <3>1. timer'[x] \in {"none", "pending"}
      BY <1>0, <1>2, <2>1, <2>2
         DEF CallRefused, CallConnected, CallFailed, CallConnecting, Called, TypeOK
    <3>2. m_err_code[x] # "deserialize"
      BY <1>0, <2>1, <2>2 DEF Timed, Called
    <3>3. m_err_code'[x] # "deserialize"
      BY <1>0, <1>2, <2>2, <3>2
         DEF CallRefused, CallConnected, CallFailed, CallConnecting, Established,
             NotEstablished, SetError, TypeOK
    <3> QED
      BY <2>0, <2>1, <3>1, <3>3 DEF Timed, Open, Called
  <2>3. CASE x # c
    <3>1. UNCHANGED <<timer[x], results[x], m_err_code[x]>>
      BY <1>0, <1>2, <2>1, <2>3
         DEF CallRefused, CallConnected, CallFailed, CallConnecting, Established,
             NotEstablished, SetError, TypeOK
    <3> QED
      BY <1>0, <2>0, <3>1, StaysTimed
  <2> QED
    BY <2>2, <2>3
<1>3. CASE Poll \/ Leave \/ UNCHANGED vars
  BY <1>0, <1>3, StaysTimed DEF Poll, Leave, vars
<1>4. ASSUME NEW c \in Channels, Connected(c)
      PROVE  Timed(x)'
  <2>1. UNCHANGED <<inLoop, m_stop_flag, timer, results>>
    BY <1>4 DEF Connected
  <2>2. x # c => m_err_code'[x] = m_err_code[x]
    BY <1>0, <1>4 DEF Connected, Established, NotEstablished, SetError, TypeOK
  <2>3. x = c => Unanswered(x)
    BY <1>0, <1>4 DEF Connected, Take, Phases, Writing
  <2>4. m_err_code'[x] = m_err_code[x] \/ (x = c /\ m_err_code'[x] = "connect")
    BY <1>0, <1>4, <2>2 DEF Connected, Established, NotEstablished, SetError, TypeOK
  <2>5. CASE m_err_code'[x] = m_err_code[x]
    BY <1>0, <2>1, <2>5, StaysTimed
  <2>6. CASE x = c /\ m_err_code'[x] = "connect"
    <3>1. results[x] = <<>> => timer[x] \in {"pending", "due"}
      BY <2>3, <2>6 DEF Unanswered
    <3> QED
      BY <1>0, <2>1, <2>6, <3>1 DEF Timed, Open, Called
  <2> QED
    BY <2>4, <2>5, <2>6
<1>5. ASSUME NEW c \in Channels, OnWrite(c) \/ OnEnd(c) \/ Outside(c)
      PROVE  Timed(x)'
  BY <1>0, <1>5, StaysTimed DEF OnWrite, OnEnd, Outside, ConnectEnds, Respond, PeerCloses
<1>6. ASSUME NEW c \in Channels, Expire(c)
      PROVE  Timed(x)'
  BY <1>0, <1>6 DEF Expire, Timed, Open, Called, TypeOK
<1>7. ASSUME NEW c \in Channels, OnReply(c)
      PROVE  Timed(x)'
  <2> DEFINE error  == IF wire[c] = "error" THEN "service" ELSE m_err_code[c]
             report == IF error = "none" THEN "ok" ELSE "failed"
  <2>1. inLoop' = inLoop
    BY <1>7 DEF OnReply
  <2>2. x # c => timer'[x] = timer[x] /\ m_err_code'[x] = m_err_code[x]
    BY <1>0, <1>7 DEF OnReply, ReadDone, SetError, TypeOK
  <2>5. x = c => timer'[x] \in {"cancelled", "run"}
    <3>1. x = c => Unanswered(x)
      BY <1>0, <1>7 DEF OnReply, Phases, Reply
    <3> QED
      BY <1>0, <1>7, <3>1 DEF OnReply, Cancelled, Unanswered, TypeOK
  <2>3. CASE wire[c] = "garbled"
    <3>1. UNCHANGED <<results, m_stop_flag>> /\ m_err_code'[c] = "deserialize"
      BY <1>0, <1>7, <2>3 DEF OnReply, ReadDone, SetError, TypeOK
    <3> QED
      BY <1>0, <2>1, <2>2, <2>5, <3>1 DEF Timed, Open, Called
  <2>4. CASE wire[c] # "garbled"
    <3>1. Run({c}, report)
      BY <1>7, <2>4 DEF OnReply, ReadDone
    <3> HIDE DEF report
    <3>2. results'[x] = IF x = c THEN Append(results[x], report) ELSE results[x]
      BY <1>0, <3>1, RunReports
    <3>3. Append(results[x], report) # <<>>
      <4>1. report \in {"ok", "failed", "timeout"}
        BY DEF report
      <4> QED
        BY <1>0, <4>1, AppendedNotEmpty DEF TypeOK
    <3>4. m_stop_flag' = m_stop_flag \/ (Open(x) => x = c)
      BY <3>1 DEF Run
    <3> QED
      BY <1>0, <2>1, <2>2, <2>5, <3>2, <3>3, <3>4 DEF Timed, Open, Called
  <2> QED
    BY <2>3, <2>4
<1>8. CASE OnTimer
  <2> DEFINE due == {c \in Channels : timer[c] = "due"}
  <2>1. Run(due, "timeout") /\ inLoop' = inLoop
    BY <1>8 DEF OnTimer
  <2>2. x \notin due => timer'[x] = timer[x] /\ m_err_code'[x] = m_err_code[x]
    BY <1>8 DEF OnTimer
  <2> HIDE DEF due
  <2>3. results'[x] = IF x \in due THEN Append(results[x], "timeout") ELSE results[x]
    BY <1>0, <2>1, RunReports
  <2>4. Append(results[x], "timeout") # <<>>
    BY <1>0, AppendedNotEmpty DEF TypeOK
  <2>5. m_stop_flag' = m_stop_flag \/ (Open(x) => x \in due)
    BY <2>1 DEF Run
  <2>6. x \in due => m_err_code'[x] = "timeout"
    BY <1>8 DEF OnTimer, due
  <2> QED
    BY <1>0, <2>1, <2>2, <2>3, <2>4, <2>5, <2>6 DEF Timed, Open, Called
<1> QED
  BY <1>1, <1>2, <1>3, <1>4, <1>5, <1>6, <1>7, <1>8 DEF Next, User, LoopThread

\* rpc_channel.cc:79-121: no call is forgotten.  Whatever becomes of the connection
\* and of the other calls, until the closure of a call has run (or its reply could
\* not be read) its timeout is neither cancelled nor run, and a loop that runs goes
\* on, as long as closures stop it only when no call is open.
THEOREM CallsAreTimed == SafetySpec => []NoCallForgotten
<1>1. Init => InLoop /\ NoCallForgotten
  BY DEF Init, InLoop, NoCallForgotten, Timed, Open, Called
<1> QED
  BY <1>1, StepInLoop, StepTimed, PhaseInvariant, TypeCorrect, PTL DEF SafetySpec
=============================================================================
