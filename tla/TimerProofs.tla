----------------------------- MODULE TimerProofs -----------------------------
(***************************************************************************)
(* Proofs about Timer.tla, for every set of timers, threads and events and *)
(* for all intervals.                                                      *)
(***************************************************************************)
EXTENDS Timer, TLAPS

USE TimerAssumption

\* What the locked part of addTimerEvent does to the calls: the thread is done,
\* or it is to re-arm, and it is when nothing was pending.
LEMMA InsertCall ==
  ASSUME TypeOK, NEW a \in Agents, NEW m \in Timers, NEW e \in Events, NEW x \in Nat,
         Insert(a, m, e, x)
  PROVE  /\ m_pending_events' \in [Timers -> [Events -> Nat \cup {Absent}]]
         /\ call' \in [Agents -> Call]
         /\ \/ call' = [call EXCEPT ![a] = Idle] /\ Pending(m) # {}
            \/ call' = [call EXCEPT ![a] = [step |-> "copy", timer |-> m]]
<1>1. m_pending_events' \in [Timers -> [Events -> Nat \cup {Absent}]]
  BY DEF Insert, TypeOK
<1>2. Idle \in Call /\ [step |-> "copy", timer |-> m] \in Call
  BY DEF Call
<1>3. \/ call' = [call EXCEPT ![a] = Idle] /\ Pending(m) # {}
      \/ call' = [call EXCEPT ![a] = [step |-> "copy", timer |-> m]]
  BY DEF Insert, IsReset
<1>4. call' \in [Agents -> Call]
  BY <1>2, <1>3 DEF TypeOK
<1> QED BY <1>1, <1>3, <1>4

LEMMA CallFields ==
  ASSUME NEW c \in Call
  PROVE  /\ c # Idle => c.timer \in Timers
         /\ c.step = "settime" => c.first \in Events
         /\ c.step # "none" <=> c # Idle
BY DEF Call, Idle

\* Every action keeps the types; only repeated events are added again.
THEOREM TypeCorrect == SafetySpec => []TypeOK
<1>1. Init => TypeOK
  <2>1. Idle \in Call
    BY DEF Call
  <2> QED BY <2>1 DEF Init, TypeOK, Absent
<1>2. TypeOK /\ [Next]_vars => TypeOK'
  <2> SUFFICES ASSUME TypeOK, [Next]_vars PROVE TypeOK'
    OBVIOUS
  <2>0. Idle \in Call
    BY DEF Call
  <2>1. CASE Tick
    <3>1. \A x \in Nat \cup {-1} : Left(x) \in Nat \cup {-1}
      BY DEF Left
    <3>2. \A x \in Nat : Left(x) \in Nat
      BY DEF Left
    <3>3. /\ arrive' \in [Events -> Nat]
          /\ m_pending_events' \in [Timers -> [Events -> Nat \cup {Absent}]]
          /\ timerfd' \in [Timers -> Nat \cup {-1}]
      BY <2>1, <3>1, <3>2 DEF Tick, TypeOK, Absent
    <3> QED BY <2>1, <3>3 DEF Tick, TypeOK
  <2>2. ASSUME NEW a \in Agents, NEW e \in Events, Cancel(a, e) PROVE TypeOK'
    BY <2>2 DEF Cancel, TypeOK
  <2>3. ASSUME NEW a \in Agents, NEW e \in Events, NEW m \in Timers,
               AddTimerEvent(a, m, e)
        PROVE  TypeOK'
    <3>1. PICK x \in Nat : arrive' = [arrive EXCEPT ![e] = x] /\ Insert(a, m, e, x)
      <4>1. arrive[e] \in Nat /\ 0 .. Interval[e] \subseteq Nat
        BY DEF TypeOK
      <4> QED BY <2>3, <4>1 DEF AddTimerEvent
    <3>2. /\ m_pending_events' \in [Timers -> [Events -> Nat \cup {Absent}]]
          /\ call' \in [Agents -> Call]
      BY <3>1, InsertCall
    <3>3. arrive' \in [Events -> Nat] /\ added' \in [Timers -> SUBSET Events]
      BY <2>3, <3>1 DEF AddTimerEvent, TypeOK
    <3> QED BY <2>3, <3>2, <3>3 DEF AddTimerEvent, TypeOK
  <2>4. ASSUME NEW a \in Agents, NEW e \in Events, NEW m \in Timers, Delete(a, m, e)
        PROVE  TypeOK'
    BY <2>4 DEF Delete, TypeOK
  <2>5. ASSUME NEW a \in Agents, Copy(a) PROVE TypeOK'
    <3>1. call[a] # Idle /\ call[a].timer \in Timers
      BY <2>5, CallFields DEF Copy, TypeOK, Idle
    <3>2. \A e \in First(call[a].timer) :
            [step |-> "settime", timer |-> call[a].timer, first |-> e] \in Call
      BY <3>1 DEF First, Pending, Call
    <3>3. call' \in [Agents -> Call]
      BY <2>0, <2>5, <3>2 DEF Copy, TypeOK
    <3> QED BY <2>5, <3>3 DEF Copy, TypeOK
  <2>6. ASSUME NEW a \in Agents, Settime(a) PROVE TypeOK'
    <3>1. call[a].timer \in Timers /\ call[a].first \in Events
      BY <2>6, CallFields DEF Settime, Arm, TypeOK, Idle
    <3>2. timerfd' \in [Timers -> Nat \cup {-1}]
      BY <2>6, <3>1 DEF Settime, Arm, TypeOK
    <3> QED BY <2>0, <2>6, <3>2 DEF Settime, Arm, TypeOK
  <2>7. ASSUME NEW m \in Timers, Notice(m) PROVE TypeOK'
    BY <2>7 DEF Notice, TypeOK
  <2>8. ASSUME NEW m \in Timers, Drain(m) PROVE TypeOK'
    BY <2>8 DEF Drain, TypeOK
  <2>9. ASSUME NEW m \in Timers, Collect(m) PROVE TypeOK'
    <3>1. m_pending_events' \in [Timers -> [Events -> Nat \cup {Absent}]]
      BY <2>9 DEF Collect, TakeDue, TypeOK
    <3> QED BY <2>9, <3>1 DEF Collect, TakeDue, TypeOK, Due
  <2>10. ASSUME NEW m \in Timers, NEW e \in Events, Readd(m, e) PROVE TypeOK'
    <3>1. Insert(m, m, e, Interval[e]) /\ m \in Agents
      BY <2>10 DEF Readd, AddAgain, Agents
    <3>2. /\ m_pending_events' \in [Timers -> [Events -> Nat \cup {Absent}]]
          /\ call' \in [Agents -> Call]
      BY <3>1, InsertCall
    <3> QED BY <2>10, <3>2 DEF Readd, AddAgain, TypeOK
  <2>11. ASSUME NEW m \in Timers, Reset(m) PROVE TypeOK'
    <3>1. [step |-> "copy", timer |-> m] \in Call
      BY DEF Call
    <3> QED BY <2>11, <3>1 DEF Reset, GoToRun, TypeOK
  <2>12. ASSUME NEW m \in Timers, NEW e \in Events, RunTask(m, e) PROVE TypeOK'
    BY <2>12 DEF RunTask, TypeOK
  <2>13. ASSUME NEW m \in Timers, Return(m) PROVE TypeOK'
    BY <2>13 DEF Return, TypeOK
  <2>14. CASE UNCHANGED vars
    BY <2>14 DEF vars, TypeOK
  <2> QED BY <2>1, <2>2, <2>3, <2>4, <2>5, <2>6, <2>7, <2>8, <2>9, <2>10, <2>11,
             <2>12, <2>13, <2>14 DEF Next, User, FinishCall, OnTimer
<1> QED BY <1>1, <1>2, PTL DEF SafetySpec

-----------------------------------------------------------------------------
\* No pending event is left with an idle timerfd, whatever the threads do
\* (timer.cc:24-31 empties it, 70 and 142 arm it again, in three steps).
THEOREM NoneForgotten == SafetySpec => []NoForgottenTimer
<1> DEFINE Safe(m) == Pending(m) # {} => \/ timerfd[m] # -1
                                         \/ phase[m] \in {"collect", "readd"}
                                         \/ CallOn(m)
<1>1. Init => NoForgottenTimer
  BY DEF Init, NoForgottenTimer, Pending
<1>2. TypeOK /\ NoForgottenTimer /\ [Next]_vars => NoForgottenTimer'
  <2> SUFFICES ASSUME TypeOK, NoForgottenTimer, [Next]_vars, NEW n \in Timers
               PROVE  Safe(n)'
    BY DEF NoForgottenTimer
  <2>0. Safe(n)
    BY DEF NoForgottenTimer
  <2>1. CASE Tick
    <3>1. Pending(n)' = Pending(n)
      BY <2>1 DEF Tick, Pending, TypeOK, Left, Absent
    <3>2. timerfd[n] # -1 => timerfd'[n] # -1
      BY <2>1 DEF Tick, TypeOK, Left
    <3> QED BY <2>0, <2>1, <3>1, <3>2 DEF Tick, CallOn
  <2>2. ASSUME NEW a \in Agents, NEW m \in Timers, NEW e \in Events, NEW x \in Nat,
               Insert(a, m, e, x), call[a] = Idle, UNCHANGED <<timerfd, phase>>
        PROVE  Safe(n)'
    <3>1. CASE call' = [call EXCEPT ![a] = [step |-> "copy", timer |-> m]] /\ n = m
      BY <3>1 DEF CallOn, Idle, TypeOK
    <3>2. CASE call' = [call EXCEPT ![a] = [step |-> "copy", timer |-> m]] /\ n # m
      <4>1. Pending(n)' = Pending(n)
        BY <2>2, <3>2 DEF Insert, Pending, TypeOK
      <4>2. CallOn(n) => CallOn(n)'
        BY <2>2, <3>2 DEF CallOn, TypeOK
      <4> QED BY <2>0, <2>2, <4>1, <4>2
    <3>3. CASE call' = [call EXCEPT ![a] = Idle] /\ Pending(m) # {}
      <4>1. call' = call
        BY <2>2, <3>3 DEF TypeOK
      <4>2. Pending(n)' # {} => Pending(n) # {}
        BY <2>2, <3>3 DEF Insert, Pending, TypeOK
      <4> QED BY <2>0, <2>2, <4>1, <4>2 DEF CallOn
    <3> QED BY <2>2, <3>1, <3>2, <3>3, InsertCall
  <2>3. ASSUME NEW a \in Agents, NEW e \in Events, NEW m \in Timers,
               AddTimerEvent(a, m, e)
        PROVE  Safe(n)'
    <3>1. PICK x \in Nat : Insert(a, m, e, x)
      <4>1. arrive[e] \in Nat /\ 0 .. Interval[e] \subseteq Nat
        BY DEF TypeOK
      <4> QED BY <2>3, <4>1 DEF AddTimerEvent
    <3> QED BY <2>2, <2>3, <3>1 DEF AddTimerEvent, CanCall
  <2>4. ASSUME NEW m \in Timers, NEW e \in Events, Readd(m, e) PROVE Safe(n)'
    <3>1. Interval[e] \in Nat /\ m \in Agents
      BY DEF Agents
    <3> QED BY <2>2, <2>4, <3>1 DEF Readd, AddAgain
  <2>5. ASSUME Pending(n)' \subseteq Pending(n), UNCHANGED <<timerfd, call>>,
               \/ phase'[n] = phase[n]
               \/ phase[n] \notin {"collect", "readd"}
               \/ phase'[n] \in {"collect", "readd"}
        PROVE  Safe(n)'
    BY <2>0, <2>5 DEF CallOn
  <2>6. ASSUME NEW a \in Agents, NEW e \in Events, NEW m \in Timers,
               Cancel(a, e) \/ Delete(a, m, e)
        PROVE  Safe(n)'
    <3>1. Pending(n)' \subseteq Pending(n)
      BY <2>6, SMTT(30) DEF Cancel, Delete, Pending, TypeOK
    <3> QED BY <2>5, <2>6, <3>1 DEF Cancel, Delete
  <2>7. ASSUME NEW a \in Agents, Copy(a) PROVE Safe(n)'
    <3>1. Pending(n)' = Pending(n)
      BY <2>7 DEF Copy, Pending
    <3>2. CASE call[a].timer = n
      BY <2>7, <3>1, <3>2 DEF Copy, CallOn, TypeOK, Idle
    <3>3. CASE call[a].timer # n
      <4>1. CallOn(n) => CallOn(n)'
        BY <2>7, <3>3 DEF Copy, CallOn, TypeOK
      <4> QED BY <2>0, <2>7, <3>1, <4>1 DEF Copy
    <3> QED BY <3>2, <3>3
  <2>8. ASSUME NEW a \in Agents, Settime(a) PROVE Safe(n)'
    <3>1. call[a].timer \in Timers /\ call[a].first \in Events
      BY <2>8, CallFields DEF Settime, Arm, TypeOK, Idle
    <3>2. CASE call[a].timer = n
      BY <2>8, <3>1, <3>2 DEF Settime, Arm, TypeOK
    <3>3. CASE call[a].timer # n
      <4>1. CallOn(n) => CallOn(n)'
        BY <2>8, <3>3 DEF Settime, Arm, CallOn, TypeOK
      <4>2. Pending(n)' = Pending(n) /\ timerfd'[n] = timerfd[n]
        BY <2>8, <3>1, <3>3 DEF Settime, Arm, Pending, TypeOK
      <4> QED BY <2>0, <2>8, <4>1, <4>2 DEF Settime, Arm
    <3> QED BY <3>2, <3>3
  <2>9. ASSUME NEW m \in Timers, Notice(m) \/ Return(m) PROVE Safe(n)'
    BY <2>5, <2>9 DEF Notice, Return, Pending, TypeOK
  <2>10. ASSUME NEW m \in Timers, Drain(m) PROVE Safe(n)'
    <3>1. Pending(n)' = Pending(n) /\ call' = call
      BY <2>10 DEF Drain, Pending
    <3> QED BY <2>0, <2>10, <3>1 DEF Drain, CallOn, TypeOK
  <2>11. ASSUME NEW m \in Timers, Collect(m) PROVE Safe(n)'
    <3>1. Pending(n)' \subseteq Pending(n)
      BY <2>11 DEF Collect, TakeDue, Pending, TypeOK
    <3> QED BY <2>5, <2>11, <3>1 DEF Collect, TakeDue, TypeOK
  <2>12. ASSUME NEW m \in Timers, Reset(m) PROVE Safe(n)'
    <3>1. Pending(n)' = Pending(n) /\ m \in Agents
      BY <2>12 DEF Reset, GoToRun, Pending, Agents
    <3>2. CASE m = n
      BY <2>12, <3>1, <3>2 DEF Reset, GoToRun, CallOn, TypeOK, Idle
    <3>3. CASE m # n
      <4>1. CallOn(n) => CallOn(n)'
        BY <2>12, <3>1, <3>3 DEF Reset, GoToRun, CallOn, TypeOK
      <4> QED BY <2>0, <2>12, <3>1, <3>3, <4>1 DEF Reset, GoToRun, TypeOK
    <3> QED BY <3>2, <3>3
  <2>13. ASSUME NEW m \in Timers, NEW e \in Events, RunTask(m, e) PROVE Safe(n)'
    BY <2>5, <2>13 DEF RunTask, Pending
  <2>14. CASE UNCHANGED vars
    BY <2>5, <2>14 DEF vars, Pending
  <2> QED BY <2>1, <2>3, <2>4, <2>6, <2>7, <2>8, <2>9, <2>10, <2>11, <2>12, <2>13,
             <2>14 DEF Next, User, FinishCall, OnTimer
<1> QED BY <1>1, <1>2, TypeCorrect, PTL DEF SafetySpec

-----------------------------------------------------------------------------
\* A tick keeps what is pending and does not bring two times out of order.
LEMMA TickPending ==
  ASSUME TypeOK, Tick, NEW m \in Timers
  PROVE  Pending(m)' = Pending(m)
BY DEF Tick, Pending, TypeOK, Left, Absent

\* A repeated event that is not cancelled is pending or about to be added
\* again (timer.cc:39-57 takes it out, 60-68 puts it back).
THEOREM RepeatedScheduled == SafetySpec => []RepeatedStaysScheduled
<1> DEFINE NothingLeft == \A m \in Timers : phase[m] # "readd" => readds[m] = {}
           Inv == NothingLeft /\ RepeatedStaysScheduled
<1>1. Init => Inv
  BY DEF Init, RepeatedStaysScheduled
<1>2. TypeOK /\ Inv /\ [Next]_vars => Inv'
  <2> SUFFICES ASSUME TypeOK, Inv, [Next]_vars PROVE Inv'
    OBVIOUS
  <2> USE DEF RepeatedStaysScheduled
  <2>1. CASE Tick
    BY <2>1, TickPending DEF Tick
  <2>2. ASSUME NEW a \in Agents, NEW e \in Events, Cancel(a, e) PROVE Inv'
    BY <2>2 DEF Cancel, Pending
  <2>3. ASSUME NEW a \in Agents, NEW e \in Events, NEW m \in Timers,
               AddTimerEvent(a, m, e)
        PROVE  Inv'
    <3>1. PICK x \in Nat : Insert(a, m, e, x)
      <4>1. arrive[e] \in Nat /\ 0 .. Interval[e] \subseteq Nat
        BY DEF TypeOK
      <4> QED BY <2>3, <4>1 DEF AddTimerEvent
    <3>2. Pending(m)' = Pending(m) \cup {e} /\ \A n \in Timers : Pending(n) \subseteq Pending(n)'
      BY <3>1 DEF Insert, Pending, TypeOK, Absent
    <3> QED BY <2>3, <3>2 DEF AddTimerEvent, TypeOK
  <2>4. ASSUME NEW a \in Agents, NEW e \in Events, NEW m \in Timers, Delete(a, m, e)
        PROVE  Inv'
    <3>1. \A n \in Timers : Pending(n) \subseteq Pending(n)' \cup {e}
      BY <2>4 DEF Delete, Pending, TypeOK
    <3> QED BY <2>4, <3>1 DEF Delete
  <2>5. ASSUME UNCHANGED <<cancelled, m_pending_events, readds, added>>,
               \A m \in Timers : phase'[m] = "readd" \/ phase[m] # "readd" \/ readds[m] = {}
        PROVE  Inv'
    BY <2>5 DEF Pending
  <2>6. ASSUME NEW a \in Agents, FinishCall(a) PROVE Inv'
    BY <2>5, <2>6 DEF FinishCall, Copy, Settime, Arm
  <2>7. ASSUME NEW m \in Timers, Notice(m) \/ Drain(m) \/ Reset(m) \/ Return(m) PROVE Inv'
    BY <2>5, <2>7 DEF Notice, Drain, Reset, GoToRun, Return, TypeOK
  <2>8. ASSUME NEW m \in Timers, Collect(m) PROVE Inv'
    <3>1. /\ \A n \in Timers \ {m} : Pending(n)' = Pending(n) /\ readds'[n] = readds[n]
          /\ Pending(m) \subseteq Pending(m)' \cup Due(m)
          /\ readds'[m] = (Due(m) \ cancelled) \cap Repeated
          /\ readds[m] = {}
      BY <2>8 DEF Collect, TakeDue, Pending, TypeOK
    <3> QED BY <2>8, <3>1 DEF Collect, TakeDue, TypeOK
  <2>9. ASSUME NEW m \in Timers, NEW e \in Events, Readd(m, e) PROVE Inv'
    <3>1. Pending(m)' = Pending(m) \cup {e} /\ \A n \in Timers : Pending(n) \subseteq Pending(n)'
      BY <2>9 DEF Readd, AddAgain, Insert, Pending, TypeOK, Absent
    <3> QED BY <2>9, <3>1 DEF Readd, AddAgain, TypeOK
  <2>10. ASSUME NEW m \in Timers, NEW e \in Events, RunTask(m, e) PROVE Inv'
    BY <2>5, <2>10 DEF RunTask
  <2>11. CASE UNCHANGED vars
    BY <2>5, <2>11 DEF vars
  <2> QED BY <2>1, <2>2, <2>3, <2>4, <2>6, <2>7, <2>8, <2>9, <2>10, <2>11
          DEF Next, User, OnTimer
<1> QED BY <1>1, <1>2, TypeCorrect, PTL DEF SafetySpec

-----------------------------------------------------------------------------
\* No event is in two timers.
Unshared == ~ Sharing \/ \A m, n \in Timers : m = n

KeyInv ==
  /\ \A m, n \in Timers : m # n => added[m] \cap added[n] = {}
  /\ \A m \in Timers : Pending(m) \subseteq added[m] /\ readds[m] \subseteq added[m]
  /\ KeyIsArriveTime

LEMMA KeyInvariant == Unshared => (SafetySpec => []KeyInv)
<1> SUFFICES ASSUME Unshared PROVE SafetySpec => []KeyInv
  OBVIOUS
<1>1. Init => KeyInv
  BY DEF Init, KeyInv, KeyIsArriveTime, Pending
<1>2. TypeOK /\ KeyInv /\ [Next]_vars => KeyInv'
  <2> SUFFICES ASSUME TypeOK, KeyInv, [Next]_vars PROVE KeyInv'
    OBVIOUS
  <2> USE DEF KeyInv, KeyIsArriveTime
  <2>1. CASE Tick
    BY <2>1, TickPending DEF Tick, Pending, TypeOK
  <2>2. ASSUME NEW a \in Agents, NEW e \in Events, NEW m \in Timers,
               AddTimerEvent(a, m, e)
        PROVE  KeyInv'
    <3>1. \A n \in Timers : e \notin added[n]
      BY <2>2 DEF AddTimerEvent, Unshared
    <3>2. PICK x \in 0 .. Interval[e] : arrive' = [arrive EXCEPT ![e] = x] /\ Insert(a, m, e, x)
      BY <2>2, <3>1 DEF AddTimerEvent
    <3>3. Pending(m)' = Pending(m) \cup {e} /\ \A n \in Timers \ {m} : Pending(n)' = Pending(n)
      BY <3>2 DEF Insert, Pending, TypeOK, Absent
    <3>4. KeyIsArriveTime'
      BY <3>1, <3>2, <3>3 DEF Insert, TypeOK
    <3>5. added' = [added EXCEPT ![m] = @ \cup {e}] /\ readds' = readds
      BY <2>2 DEF AddTimerEvent
    <3>6. \A p, n \in Timers : p # n => added'[p] \cap added'[n] = {}
      BY <3>1, <3>5 DEF TypeOK
    <3>7. \A n \in Timers : Pending(n)' \subseteq added'[n] /\ readds'[n] \subseteq added'[n]
      BY <3>3, <3>5 DEF TypeOK
    <3> QED BY <3>4, <3>6, <3>7
  <2>3. ASSUME NEW m \in Timers, NEW e \in Events, Readd(m, e) PROVE KeyInv'
    <3>1. \A n \in Timers \ {m} : e \notin Pending(n)
      BY <2>3 DEF Readd, AddAgain
    <3>2. /\ arrive' = [arrive EXCEPT ![e] = Interval[e]]
          /\ m_pending_events' = [m_pending_events EXCEPT ![m][e] = Interval[e]]
          /\ e \in added[m] /\ added' = added
          /\ readds' = [readds EXCEPT ![m] = @ \ {e}]
      BY <2>3 DEF Readd, AddAgain, Insert
    <3>3. Pending(m)' = Pending(m) \cup {e} /\ \A n \in Timers \ {m} : Pending(n)' = Pending(n)
      BY <3>2 DEF Pending, TypeOK, Absent
    <3>4. KeyIsArriveTime'
      BY <3>1, <3>2, <3>3 DEF TypeOK
    <3>5. \A n \in Timers : Pending(n)' \subseteq added'[n] /\ readds'[n] \subseteq added'[n]
      BY <3>2, <3>3 DEF TypeOK
    <3> QED BY <3>2, <3>4, <3>5
  <2>4. ASSUME NEW a \in Agents, NEW e \in Events, NEW m \in Timers,
               Cancel(a, e) \/ Delete(a, m, e)
        PROVE  KeyInv'
    <3>1. \A n \in Timers : \A f \in Pending(n)' :
            f \in Pending(n) /\ m_pending_events'[n][f] = m_pending_events[n][f]
      BY <2>4 DEF Cancel, Delete, Pending, TypeOK
    <3> QED BY <2>4, <3>1 DEF Cancel, Delete
  <2>5. ASSUME NEW m \in Timers, Collect(m) PROVE KeyInv'
    <3>1. \A n \in Timers : \A f \in Pending(n)' :
            f \in Pending(n) /\ m_pending_events'[n][f] = m_pending_events[n][f]
      BY <2>5 DEF Collect, TakeDue, Pending, TypeOK
    <3>2. Due(m) \subseteq Pending(m)
      BY DEF Due, Pending, Absent
    <3>3. \A n \in Timers : readds'[n] \subseteq readds[n] \cup Pending(n)
      BY <2>5, <3>2 DEF Collect, TakeDue, TypeOK
    <3>4. UNCHANGED <<arrive, added>>
      BY <2>5 DEF Collect, TakeDue
    <3> QED BY <3>1, <3>3, <3>4
  <2>6. CASE UNCHANGED <<arrive, m_pending_events, readds, added>>
    BY <2>6 DEF Pending
  <2> QED BY <2>1, <2>2, <2>3, <2>4, <2>5, <2>6
          DEF Next, User, FinishCall, OnTimer, Copy, Settime, Arm, Notice, Drain, Reset,
              GoToRun, RunTask, Return, vars
<1> QED BY <1>1, <1>2, TypeCorrect, PTL DEF SafetySpec

\* While no event is in two timers, the key of a pending event is its arrive
\* time (timer.cc:65-66 resets it only after the event left the multimap).
THEOREM KeysAreArriveTimes == ~ Sharing => (SafetySpec => []KeyIsArriveTime)
<1>1. KeyInv => KeyIsArriveTime
  BY DEF KeyInv
<1> QED BY <1>1, KeyInvariant, PTL DEF Unshared

-----------------------------------------------------------------------------
\* While the loop's own thread is the only one to use the timer, the timerfd is
\* armed for the first pending event (timer.cc:92-103): nothing changes between
\* the copy of the multimap and timerfd_settime.
THEOREM AloneArmsInTime ==
  ASSUME NEW own, Timers = {own}, Threads = {}
  PROVE  SafetySpec => []ArmedInTime
<1> DEFINE FirstStays == call[own].step = "settime" =>
                           call[own].timer = own /\ call[own].first \in First(own)
           Inv == FirstStays /\ ArmedInTime
<1> USE DEF Agents
<1>0. Unshared
  BY DEF Unshared
<1>1. Init => Inv
  BY DEF Init, ArmedInTime, Pending, Idle
<1>2. TypeOK /\ TypeOK' /\ KeyInv /\ Inv /\ [Next]_vars => Inv'
  <2> SUFFICES ASSUME TypeOK, TypeOK', KeyInv, FirstStays, ArmedInTime, [Next]_vars
               PROVE  FirstStays' /\ ArmedInTime'
    OBVIOUS
  <2> DEFINE Quiet == call[own] = Idle /\ phase[own] \notin {"collect", "readd"}
             InTime == \/ timerfd[own] <= Overdue
                       \/ \A e \in Pending(own) : timerfd[own] <= arrive[e]
             Safe == Pending(own) # {} /\ Quiet => InTime
  <2>a. call[own] \in Call /\ call'[own] \in Call /\ own \in Timers
    BY DEF TypeOK
  <2>b. Safe
    BY <2>a DEF ArmedInTime, CallOn
  <2>c. Safe' => ArmedInTime'
    BY <2>a, CallFields DEF ArmedInTime, CallOn
  <2>d. /\ Overdue \in Nat /\ timerfd[own] \in Int
        /\ \A e \in Events : arrive[e] \in Nat
        /\ \A e \in Pending(own) : m_pending_events[own][e] = arrive[e]
    BY <2>a DEF TypeOK, KeyInv, KeyIsArriveTime
  <2> SUFFICES FirstStays' /\ Safe'
    BY <2>c
  <2>1. CASE Tick
    <3>1. Pending(own)' = Pending(own)
      BY <2>1, TickPending
    <3>2. First(own) \subseteq First(own)'
      <4>1. \A e \in Pending(own) : m_pending_events[own][e] \in Nat
        BY <2>a DEF TypeOK, Pending
      <4> QED BY <2>1, <2>a, <3>1, <4>1 DEF Tick, First, Pending, Left
    <3>3. InTime => InTime'
      BY <2>1, <2>a, <2>d, <3>1 DEF Tick, Pending, Left
    <3> QED BY <2>1, <2>b, <3>1, <3>2, <3>3 DEF Tick
  <2>2. ASSUME NEW e \in Events, Cancel(own, e) \/ Delete(own, own, e)
        PROVE  FirstStays' /\ Safe'
    <3>1. Pending(own)' \subseteq Pending(own)
      BY <2>2 DEF Cancel, Delete, Pending, TypeOK
    <3>2. call'[own] = Idle
      BY <2>2 DEF Cancel, Delete, CanCall
    <3> QED BY <2>2, <2>b, <3>1, <3>2 DEF Cancel, Delete, Idle
  <2>3. ASSUME NEW e \in Events, AddTimerEvent(own, own, e)
        PROVE  FirstStays' /\ Safe'
    <3>1. PICK x \in Nat : arrive' = [arrive EXCEPT ![e] = x] /\ Insert(own, own, e, x)
      <4>1. arrive[e] \in Nat /\ 0 .. Interval[e] \subseteq Nat
        BY <2>d
      <4> QED BY <2>3, <4>1 DEF AddTimerEvent
    <3>2. CASE call'[own].step = "copy"
      BY <3>2 DEF Idle
    <3>3. CASE call'[own] = Idle
      <4>1. PICK f \in First(own) : arrive[f] <= x
        <5>1. PICK r \in IsReset(own, x) :
                call' = [call EXCEPT ![own] = IF r THEN [step |-> "copy", timer |-> own]
                                                   ELSE Idle]
          BY <3>1 DEF Insert
        <5>2. ~ r
          BY <2>a, <3>3, <5>1 DEF Idle, TypeOK
        <5>3. PICK f \in First(own) : ~ (arrive[f] > x) \/ (arrive[f] = 0 /\ x = 0)
          BY <5>1, <5>2 DEF IsReset
        <5>4. f \in Events
          BY DEF First, Pending
        <5> QED BY <2>d, <5>3, <5>4
      <4>2. f \in Pending(own) /\ e \notin Pending(own) /\ call[own] = Idle
        BY <2>3, <2>a, <4>1 DEF First, AddTimerEvent, CanCall, KeyInv
      <4>3. Pending(own)' \subseteq Pending(own) \cup {e}
        BY <3>1 DEF Insert, Pending, TypeOK
      <4>4. \A g \in Pending(own) : arrive'[g] = arrive[g]
        BY <3>1, <4>2 DEF Pending, TypeOK
      <4>5. arrive'[e] = x
        BY <3>1 DEF TypeOK
      <4>6. InTime => InTime'
        BY <2>3, <2>d, <4>1, <4>2, <4>3, <4>4, <4>5 DEF AddTimerEvent, Pending
      <4> QED BY <2>3, <2>b, <3>3, <4>2, <4>6 DEF AddTimerEvent, Idle
    <3> QED BY <2>a, <3>1, <3>2, <3>3, InsertCall DEF TypeOK
  <2>4. CASE Copy(own)
    <3>1. call[own].timer = own
      BY <2>4, <2>a, CallFields DEF Copy, Idle
    <3>2. CASE Pending(own) = {} /\ call'[own] = Idle
      BY <2>4, <3>2 DEF Copy, Pending, Idle
    <3>3. ASSUME NEW e \in First(own),
                 call'[own] = [step |-> "settime", timer |-> own, first |-> e]
          PROVE  FirstStays' /\ Safe'
      BY <2>4, <3>3 DEF Copy, First, Pending, Idle
    <3> QED BY <2>4, <2>a, <3>1, <3>2, <3>3 DEF Copy, TypeOK
  <2>5. CASE Settime(own)
    <3>1. call[own].step = "settime" /\ call[own].timer = own
      BY <2>5 DEF Settime, Arm
    <3>2. PICK e \in First(own) : call[own].first = e
      BY <3>1
    <3>3. \A f \in Pending(own) : arrive[e] <= arrive[f]
      BY <2>d, <3>2 DEF First
    <3>4. /\ timerfd'[own] \in {arrive[e], Overdue}
          /\ call'[own] = Idle
          /\ UNCHANGED <<arrive, m_pending_events>>
      BY <2>5, <2>a, <3>1, <3>2 DEF Settime, Arm, TypeOK
    <3> QED BY <2>d, <3>3, <3>4 DEF Idle, Pending
  <2>6. CASE Notice(own) \/ (\E e \in Events : RunTask(own, e)) \/ Return(own)
    BY <2>6, <2>a, <2>b DEF Notice, RunTask, Return, Pending, First, TypeOK, Idle
  <2>7. CASE Drain(own) \/ Collect(own)
    BY <2>7, <2>a DEF Drain, Collect, TakeDue, TypeOK, Idle
  <2>8. ASSUME NEW e \in Events, Readd(own, e) PROVE FirstStays' /\ Safe'
    <3>1. Insert(own, own, e, Interval[e]) /\ phase'[own] = "readd"
      BY <2>8 DEF Readd, AddAgain
    <3>2. call'[own].step # "settime"
      BY <3>1, <2>a, InsertCall DEF TypeOK, Idle
    <3> QED BY <3>1, <3>2
  <2>9. CASE Reset(own)
    <3>1. call'[own] = [step |-> "copy", timer |-> own]
      BY <2>9, <2>a DEF Reset, GoToRun, TypeOK
    <3> QED BY <3>1 DEF Idle
  <2>10. CASE UNCHANGED vars
    BY <2>10, <2>b DEF vars, Pending, First
  <2> QED BY <2>1, <2>2, <2>3, <2>4, <2>5, <2>6, <2>7, <2>8, <2>9, <2>10
          DEF Next, User, FinishCall, OnTimer
<1> QED BY <1>0, <1>1, <1>2, TypeCorrect, KeyInvariant, PTL DEF SafetySpec
=============================================================================
