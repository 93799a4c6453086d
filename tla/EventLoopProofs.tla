--------------------------- MODULE EventLoopProofs ---------------------------
(***************************************************************************)
(* Proofs about EventLoop.tla, for every number of threads, descriptors,   *)
(* events and calls.                                                       *)
(***************************************************************************)
EXTENDS EventLoop, SequenceTheorems, TLAPS

USE EventLoopAssumption

-----------------------------------------------------------------------------
(* The inductive invariant.  A round of the loop has phases, and each      *)
(* sequence is empty, or holds no callback, outside its own phase.         *)

\* The batch is empty except while it runs, the event array except while it
\* is dispatched.
Phases ==
  /\ loopPc # "run" => tmp_tasks = <<>>
  /\ loopPc # "dispatch" => result_events = <<>>

\* From the swap until epoll_wait returns, only other threads push.
OnlyPostsPending ==
  loopPc \in {"parked", "run", "wait"} =>
    \A i \in 1 .. Len(m_pending_tasks) : ~ IsHandler(m_pending_tasks[i])

Once(s) == \A i, j \in 1 .. Len(s) : IsHandler(s[i]) /\ s[i] = s[j] => i = j

\* The events of one epoll_wait are of different descriptors, and what is yet
\* to be dispatched is not pending already.
DispatchOnce ==
  /\ \A i, j \in 1 .. Len(result_events) :
       result_events[i].fd = result_events[j].fd => i = j
  /\ \A i \in 1 .. Len(result_events) : \A trigger \in result_events[i].events :
       \A j \in 1 .. Len(m_pending_tasks) :
         m_pending_tasks[j] # Handler(result_events[i].fd, trigger)

IInv ==
  /\ TypeOK
  /\ Phases
  /\ OnlyPostsPending
  /\ Once(tmp_tasks)
  /\ Once(m_pending_tasks)
  /\ DispatchOnce

-----------------------------------------------------------------------------
LEMMA HandlerTask ==
  ASSUME NEW f \in Watchable, NEW trigger \in Trigger
  PROVE  Handler(f, trigger) \in Task /\ IsHandler(Handler(f, trigger))
BY DEF Handler, Task, Handlers, IsHandler

LEMMA PostTask ==
  ASSUME NEW op \in {"add", "del"}, NEW f \in Fds, NEW n \in 1 .. MaxCalls
  PROVE  /\ [op |-> op, fd |-> f, call |-> n] \in Task
         /\ ~ IsHandler([op |-> op, fd |-> f, call |-> n])
BY DEF Task, Posts, IsHandler

LEMMA InitTypeOK == Init => TypeOK
<1>1. <<>> \in Seq(Task) /\ <<>> \in Seq(Event)
  BY EmptySeq
<1>2. "in" \in Mask
  BY DEF Mask
<1> SUFFICES ASSUME Init PROVE TypeOK
  OBVIOUS
<1>3. m_listen_events \in [Fds -> SUBSET Mask] /\ m_listen_fds \in SUBSET Fds
  BY <1>2 DEF Init
<1>4. caller \in [Threads -> {"idle", "wake"}] /\ calls \in 0 .. MaxCalls
  BY DEF Init
<1> QED BY <1>1, <1>3, <1>4 DEF Init, TypeOK

\* Every action keeps the types.
THEOREM TypeCorrect == SafetySpec => []TypeOK
<1>1. Init => TypeOK
  BY InitTypeOK
<1>2. TypeOK /\ [Next]_vars => TypeOK'
  <2> SUFFICES ASSUME TypeOK, [Next]_vars PROVE TypeOK'
    OBVIOUS
  <2>1. ASSUME NEW t \in Threads, NEW op \in {"add", "del"}, NEW f \in Fds, Post(t, op, f)
        PROVE  TypeOK'
    <3>1. calls + 1 \in 1 .. MaxCalls
      BY <2>1 DEF TypeOK, Post, Push
    <3>2. m_pending_tasks' \in Seq(Task)
      BY <2>1, <3>1, PostTask, AppendProperties DEF TypeOK, Post, Push, AddTask
    <3> QED BY <2>1, <3>1, <3>2 DEF TypeOK, Post, Push
  <2>2. ASSUME NEW t \in Threads, Stop(t) PROVE TypeOK'
    BY <2>2 DEF TypeOK, Stop
  <2>3. ASSUME NEW t \in Threads, Wakeup(t) PROVE TypeOK'
    BY <2>3 DEF TypeOK, Wakeup
  <2>4. CASE Enter BY <2>4 DEF TypeOK, Enter
  <2>5. CASE Leave BY <2>5 DEF TypeOK, Leave
  <2>6. CASE Swap BY <2>6, EmptySeq DEF TypeOK, Swap, TakeBatch
  <2>7. CASE RunTask
    <3>1. tmp_tasks' \in Seq(Task) /\ Head(tmp_tasks) \in Task
      BY <2>7, HeadTailProperties DEF TypeOK, RunTask
    <3>2. ASSUME Head(tmp_tasks).op \in {"add", "del"}, ControlEpoll(Head(tmp_tasks))
          PROVE  TypeOK'
      <4>1. Head(tmp_tasks).fd \in Fds
        BY <3>1, <3>2 DEF Task, Handlers, Posts, Trigger
      <4> QED BY <2>7, <3>1, <3>2, <4>1 DEF TypeOK, RunTask, ControlEpoll
    <3>3. CASE Drain BY <2>7, <3>1, <3>3 DEF TypeOK, RunTask, Drain
    <3>4. ASSUME NEW f \in Fds, Callback(f) PROVE TypeOK'
      <4>1. m_listen_events' \in [Fds -> SUBSET Mask] /\ m_listen_fds' \in SUBSET Fds
        BY <3>4 DEF TypeOK, Callback
      <4>2. m_stop_flag' \in BOOLEAN /\ wakeup' \in BOOLEAN /\ drained' \in BOOLEAN
        BY <3>4 DEF TypeOK, Callback
      <4> QED BY <2>7, <3>1, <4>1, <4>2 DEF TypeOK, RunTask
    <3> QED BY <2>7, <3>2, <3>3, <3>4 DEF RunTask
  <2>8. CASE EpollWait BY <2>8 DEF TypeOK, EpollWait, GoToWait
  <2>9. CASE EpollReturn
    <3>1. PICK n \in 1 .. MaxEvents : \E s \in Injection(1 .. n, Watchable) :
            \E e \in [1 .. n -> SUBSET Trigger \ {{}}] :
              result_events' = [i \in 1 .. n |-> [fd |-> s[i], events |-> e[i]]]
      BY <2>9 DEF EpollReturn
    <3>2. result_events' \in [1 .. n -> Event]
      BY <3>1 DEF Injection, Event
    <3>3. result_events' \in Seq(Event)
      BY <3>2, SeqDef
    <3> QED BY <2>9, <3>3 DEF TypeOK, EpollReturn
  <2>10. CASE EpollNoEvent BY <2>10 DEF TypeOK, EpollNoEvent
  <2>11. ASSUME NEW trigger \in Trigger, Dispatch(trigger) PROVE TypeOK'
    <3> DEFINE event == Head(result_events)
               rest  == [event EXCEPT !.events = @ \ {trigger}]
    <3>1. /\ result_events # <<>>
          /\ event \in Event
          /\ Tail(result_events) \in Seq(Event)
      BY <2>11, HeadTailProperties DEF TypeOK, Dispatch
    <3>2. rest \in Event
      BY <3>1 DEF Event
    <3>3. [result_events EXCEPT ![1] = rest] \in Seq(Event)
      <4>1. 1 \in 1 .. Len(result_events)
        BY <3>1, EmptySeq DEF TypeOK
      <4> HIDE DEF rest
      <4> QED BY <3>2, <4>1, ExceptSeq DEF TypeOK
    <3>4. result_events' \in Seq(Event)
      BY <2>11, <3>1, <3>3 DEF Dispatch
    <3>5. m_pending_tasks' \in Seq(Task)
      <4>1. Handler(event.fd, trigger) \in Task
        BY <3>1, HandlerTask DEF Event
      <4>2. Append(m_pending_tasks, Handler(event.fd, trigger)) \in Seq(Task)
        BY <4>1, AppendProperties DEF TypeOK
      <4> QED BY <2>11, <4>2 DEF TypeOK, Dispatch, AddTask
    <3> QED BY <2>11, <3>4, <3>5 DEF TypeOK, Dispatch
  <2>12. CASE UNCHANGED vars BY <2>12 DEF TypeOK, vars
  <2> QED BY <2>1, <2>2, <2>3, <2>4, <2>5, <2>6, <2>7, <2>8, <2>9, <2>10, <2>11, <2>12
          DEF Next, OtherThread, LoopThread
<1> QED BY <1>1, <1>2, PTL DEF SafetySpec

-----------------------------------------------------------------------------
LEMMA OnceAppend ==
  ASSUME NEW s \in Seq(Task), NEW e \in Task, Once(s),
         IsHandler(e) => \A i \in 1 .. Len(s) : s[i] # e
  PROVE  Once(Append(s, e))
<1>1. /\ Len(Append(s, e)) = Len(s) + 1
      /\ Append(s, e)[Len(s) + 1] = e
      /\ \A i \in 1 .. Len(s) : Append(s, e)[i] = s[i]
  BY AppendProperties
<1> SUFFICES ASSUME NEW i \in 1 .. Len(s) + 1, NEW j \in 1 .. Len(s) + 1,
                    IsHandler(Append(s, e)[i]), Append(s, e)[i] = Append(s, e)[j]
             PROVE  i = j
  BY <1>1 DEF Once
<1>2. CASE i \in 1 .. Len(s) /\ j \in 1 .. Len(s)
  BY <1>1, <1>2 DEF Once
<1>3. CASE i = Len(s) + 1 \/ j = Len(s) + 1
  BY <1>1, <1>3
<1> QED BY <1>2, <1>3

LEMMA OnceTail ==
  ASSUME NEW s \in Seq(Task), s # <<>>, Once(s)
  PROVE  Once(Tail(s))
<1>1. /\ Len(Tail(s)) = Len(s) - 1
      /\ Len(s) \in Nat \ {0}
      /\ \A i \in 1 .. Len(Tail(s)) : Tail(s)[i] = s[i + 1]
  BY HeadTailProperties, EmptySeq
<1> QED BY <1>1 DEF Once

\* The one action that pushes callbacks: a callback pushed was not pending, and
\* what is left to dispatch is not pending either.
LEMMA DispatchKeepsIInv ==
  ASSUME IInv, TypeOK', NEW trigger \in Trigger, Dispatch(trigger)
  PROVE  IInv'
<1> DEFINE event == Head(result_events)
           task  == Handler(event.fd, trigger)
           rest  == [event EXCEPT !.events = @ \ {trigger}]
           n     == Len(m_pending_tasks)
           k     == Len(result_events)
<1>1. /\ loopPc = "dispatch"
      /\ loopPc' \in {"dispatch", "top"}
      /\ tmp_tasks = <<>> /\ tmp_tasks' = <<>>
      /\ result_events # <<>> /\ trigger \in event.events
  BY DEF Dispatch, IInv, Phases
<1>2. /\ event \in Event
      /\ event = result_events[1]
      /\ k \in Nat \ {0} /\ n \in Nat
      /\ Tail(result_events) \in Seq(Event)
      /\ Len(Tail(result_events)) = k - 1
      /\ \A i \in 1 .. k - 1 : Tail(result_events)[i] = result_events[i + 1]
  BY <1>1, HeadTailProperties, EmptySeq, LenProperties DEF IInv, TypeOK
<1>3. /\ task \in Task
      /\ IsHandler(task)
      /\ \A i \in 1 .. n : m_pending_tasks[i] # task
  BY <1>1, <1>2, HandlerTask DEF IInv, DispatchOnce, Event
<1>4. /\ Len(m_pending_tasks') \in {n, n + 1}
      /\ \A j \in 1 .. n : m_pending_tasks'[j] = m_pending_tasks[j]
      /\ Len(m_pending_tasks') = n + 1 => m_pending_tasks'[n + 1] = task
  <2>1. CASE m_pending_tasks' = Append(m_pending_tasks, task)
    <3> HIDE DEF task
    <3> QED BY <1>2, <1>3, <2>1, AppendProperties DEF IInv, TypeOK
  <2>2. CASE UNCHANGED m_pending_tasks
    BY <1>2, <2>2
  <2> QED BY <2>1, <2>2 DEF Dispatch, AddTask
<1>5. Once(m_pending_tasks')
  <2>1. Once(Append(m_pending_tasks, task))
    <3> HIDE DEF task
    <3> QED BY <1>3, OnceAppend DEF IInv, TypeOK
  <2> QED BY <2>1 DEF Dispatch, AddTask, IInv, Once
<1>6. Phases'
  <2>1. CASE event.events = {trigger} /\ k = 1
    BY <1>1, <1>2, <2>1, EmptySeq DEF Dispatch, Phases
  <2>2. CASE ~ (event.events = {trigger} /\ k = 1)
    BY <1>1, <2>2 DEF Dispatch, Phases
  <2> QED BY <2>1, <2>2
<1>7. DispatchOnce'
  <2>1. CASE event.events = {trigger}
    <3>1. result_events' = Tail(result_events)
      BY <2>1 DEF Dispatch
    <3>2. \A i \in 1 .. k - 1 : result_events[i + 1].fd # event.fd
      BY <1>2 DEF IInv, DispatchOnce
    <3>3. \A i \in 1 .. k - 1 : \A t : task # Handler(result_events[i + 1].fd, t)
      BY <3>2 DEF Handler
    <3>4. \A i, j \in 1 .. k - 1 : result_events'[i].fd = result_events'[j].fd => i = j
      BY <1>2, <3>1 DEF IInv, DispatchOnce
    <3>5. ASSUME NEW i \in 1 .. k - 1, NEW t \in result_events'[i].events,
                 NEW j \in 1 .. Len(m_pending_tasks')
          PROVE  m_pending_tasks'[j] # Handler(result_events'[i].fd, t)
      <4>1. i + 1 \in 1 .. k /\ result_events'[i] = result_events[i + 1]
        BY <1>2, <3>1
      <4>2. CASE j \in 1 .. n
        BY <1>4, <4>1, <4>2 DEF IInv, DispatchOnce
      <4>3. CASE j = n + 1
        <5> HIDE DEF task
        <5> QED BY <1>2, <1>4, <3>3, <4>1, <4>3, SMTT(30)
      <4> QED BY <1>2, <1>4, <4>2, <4>3
    <3> QED BY <1>2, <3>1, <3>4, <3>5 DEF DispatchOnce
  <2>2. CASE event.events # {trigger}
    <3>1. /\ Len(result_events') = k
          /\ result_events'[1] = rest
          /\ \A i \in 2 .. k : result_events'[i] = result_events[i]
      <4>1. rest \in Event
        BY <1>2 DEF Event
      <4>2. result_events' = [result_events EXCEPT ![1] = rest]
        BY <2>2 DEF Dispatch
      <4> HIDE DEF rest
      <4> QED BY <1>2, <4>1, <4>2, ExceptSeq DEF IInv, TypeOK
    <3>2. rest.fd = event.fd /\ rest.events = event.events \ {trigger}
      BY <1>2 DEF Event
    <3> HIDE DEF rest
    <3>3. \A i \in 2 .. k : result_events[i].fd # event.fd
      BY <1>2 DEF IInv, DispatchOnce
    <3>4. \A i \in 1 .. k : \A t \in result_events'[i].events :
            task # Handler(result_events'[i].fd, t)
      BY <1>2, <3>1, <3>2, <3>3 DEF Handler
    <3>5. \A i \in 1 .. k : /\ result_events'[i].fd = result_events[i].fd
                            /\ result_events'[i].events \subseteq result_events[i].events
      BY <1>2, <3>1, <3>2
    <3> HIDE DEF task
    <3> QED BY <1>2, <1>4, <3>1, <3>4, <3>5 DEF IInv, DispatchOnce
  <2> QED BY <2>1, <2>2
<1>8. Once(tmp_tasks') /\ OnlyPostsPending'
  BY <1>1, EmptySeq DEF Once, OnlyPostsPending
<1> QED BY <1>5, <1>6, <1>7, <1>8 DEF IInv, Once

\* Every round keeps the phases apart and queues a callback once.
THEOREM RoundInvariant == SafetySpec => []IInv
<1>1. Init => IInv
  <2> SUFFICES ASSUME Init PROVE IInv
    OBVIOUS
  <2>1. Init => TypeOK
    BY InitTypeOK
  <2>2. Len(<<>>) = 0
    BY EmptySeq
  <2> QED BY <2>1, <2>2 DEF Init, IInv, Phases, OnlyPostsPending, Once, DispatchOnce
<1>2. IInv /\ TypeOK' /\ [Next]_vars => IInv'
  <2> SUFFICES ASSUME IInv, TypeOK', [Next]_vars PROVE IInv'
    OBVIOUS
  <2> USE DEF IInv
  <2>1. ASSUME NEW t \in Threads, NEW op \in {"add", "del"}, NEW f \in Fds, Post(t, op, f)
        PROVE  IInv'
    <3> DEFINE task == [op |-> op, fd |-> f, call |-> calls + 1]
    <3>1. task \in Task /\ ~ IsHandler(task)
      BY <2>1, PostTask DEF TypeOK, Post, Push
    <3>2. \A g, trigger : IsHandler(Handler(g, trigger))
      BY DEF Handler, IsHandler
    <3>3. m_pending_tasks' = Append(m_pending_tasks, task)
      BY <2>1 DEF Post, Push, AddTask
    <3> HIDE DEF task
    <3>4. /\ Len(m_pending_tasks') = Len(m_pending_tasks) + 1
          /\ Len(m_pending_tasks) \in Nat
          /\ m_pending_tasks'[Len(m_pending_tasks) + 1] = task
          /\ \A i \in 1 .. Len(m_pending_tasks) : m_pending_tasks'[i] = m_pending_tasks[i]
      BY <3>1, <3>3, AppendProperties, LenProperties DEF TypeOK
    <3>5. Once(m_pending_tasks')
      BY <3>1, <3>3, OnceAppend DEF TypeOK
    <3>6. OnlyPostsPending' /\ Phases' /\ Once(tmp_tasks')
      BY <2>1, <3>1, <3>4 DEF Post, Push, OnlyPostsPending, Phases, Once
    <3>7. DispatchOnce'
      BY <2>1, <3>1, <3>2, <3>4 DEF Post, Push, DispatchOnce
    <3> QED BY <3>5, <3>6, <3>7
  <2>2. ASSUME NEW t \in Threads, Stop(t) PROVE IInv'
    BY <2>2 DEF Stop, Phases, OnlyPostsPending, Once, DispatchOnce
  <2>3. ASSUME NEW t \in Threads, Wakeup(t) PROVE IInv'
    BY <2>3 DEF Wakeup, Phases, OnlyPostsPending, Once, DispatchOnce
  <2>4. CASE Enter
    BY <2>4 DEF Enter, Phases, OnlyPostsPending, Once, DispatchOnce
  <2>5. CASE Leave
    BY <2>5 DEF Leave, Phases, OnlyPostsPending, Once, DispatchOnce
  <2>6. CASE Swap
    BY <2>6, EmptySeq DEF Swap, TakeBatch, Phases, OnlyPostsPending, Once, DispatchOnce
  <2>7. CASE RunTask
    <3>1. Once(tmp_tasks')
      BY <2>7, OnceTail DEF RunTask, TypeOK
    <3> QED BY <2>7, <3>1 DEF RunTask, Phases, OnlyPostsPending, Once, DispatchOnce
  <2>8. CASE EpollWait
    BY <2>8 DEF EpollWait, GoToWait, Phases, OnlyPostsPending, Once, DispatchOnce
  <2>9. CASE EpollReturn
    <3>1. PICK n \in 1 .. MaxEvents : \E s \in Injection(1 .. n, Watchable) :
            \E e \in [1 .. n -> SUBSET Trigger \ {{}}] :
              result_events' = [i \in 1 .. n |-> [fd |-> s[i], events |-> e[i]]]
      BY <2>9 DEF EpollReturn
    <3>2. PICK s \in Injection(1 .. n, Watchable) :
            /\ Len(result_events') = n
            /\ \A i \in 1 .. n : result_events'[i].fd = s[i]
      BY <3>1
    <3>3. \A i, j \in 1 .. n : result_events'[i].fd = result_events'[j].fd => i = j
      BY <3>2 DEF Injection, IsInjective
    <3>4. \A i \in 1 .. Len(m_pending_tasks) : \A f, trigger :
            m_pending_tasks[i] # Handler(f, trigger)
      BY <2>9 DEF EpollReturn, OnlyPostsPending, Handler, IsHandler
    <3>5. DispatchOnce'
      <4>1. m_pending_tasks' = m_pending_tasks
        BY <2>9 DEF EpollReturn
      <4> QED BY <3>2, <3>3, <3>4, <4>1 DEF DispatchOnce
    <3>6. Phases' /\ OnlyPostsPending' /\ Once(tmp_tasks') /\ Once(m_pending_tasks')
      BY <2>9 DEF EpollReturn, Phases, OnlyPostsPending, Once
    <3> QED BY <3>5, <3>6
  <2>10. CASE EpollNoEvent
    BY <2>10 DEF EpollNoEvent, Phases, OnlyPostsPending, Once, DispatchOnce
  <2>11. ASSUME NEW trigger \in Trigger, Dispatch(trigger) PROVE IInv'
    BY <2>11, DispatchKeepsIInv
  <2>12. CASE UNCHANGED vars
    BY <2>12 DEF vars, Phases, OnlyPostsPending, Once, DispatchOnce
  <2> QED BY <2>1, <2>2, <2>3, <2>4, <2>5, <2>6, <2>7, <2>8, <2>9, <2>10, <2>11, <2>12
          DEF Next, OtherThread, LoopThread
<1> QED BY <1>1, <1>2, TypeCorrect, PTL DEF SafetySpec

\* No callback of a descriptor is ever queued twice (eventloop.cc:151-190
\* queues them, 131-139 runs the whole batch before the next epoll_wait).
THEOREM CallbackQueuedOnce == SafetySpec => []HandlerQueuedOnce
<1>1. IInv => HandlerQueuedOnce
  <2> SUFFICES ASSUME IInv PROVE HandlerQueuedOnce
    OBVIOUS
  <2> DEFINE all == tmp_tasks \o m_pending_tasks
             m   == Len(tmp_tasks)
             n   == Len(m_pending_tasks)
  <2>1. /\ m \in Nat /\ n \in Nat
        /\ Len(all) = m + n
        /\ \A i \in 1 .. m + n : all[i] = IF i <= m THEN tmp_tasks[i]
                                                 ELSE m_pending_tasks[i - m]
    BY ConcatProperties, LenProperties DEF IInv, TypeOK
  <2> HIDE DEF all
  <2>2. CASE loopPc = "run"
    BY <2>1, <2>2 DEF IInv, Once, OnlyPostsPending, HandlerQueuedOnce, all
  <2>3. CASE loopPc # "run"
    <3>1. m = 0
      BY <2>3, EmptySeq DEF IInv, Phases
    <3> QED BY <2>1, <3>1 DEF IInv, Once, HandlerQueuedOnce, all
  <2> QED BY <2>2, <2>3
<1> QED BY <1>1, RoundInvariant, PTL

\* The loop never sleeps on callbacks that it queued itself.
THEOREM LoopFinishesItsWork == SafetySpec => []NeverSleepsOnOwnWork
<1>1. IInv => NeverSleepsOnOwnWork
  BY DEF IInv, Phases, OnlyPostsPending, NeverSleepsOnOwnWork
<1> QED BY <1>1, RoundInvariant, PTL

\* In every round without a wake-up callback after the swap, work that waits
\* is signalled (eventloop.cc:195-204, 244-254: push or flag first, eventfd
\* second; 111-115: only the wake-up callback empties the eventfd).
THEOREM OnlyDrainLosesWakeup == SafetySpec => []WakeupLostOnlyToDrain
<1> DEFINE Inv == TypeOK /\ WakeupLostOnlyToDrain
<1>1. Init => Inv
  <2>1. Len(<<>>) = 0
    BY EmptySeq
  <2> QED BY <2>1, InitTypeOK DEF Init, WakeupLostOnlyToDrain, WorkWaits
<1>2. Inv /\ TypeOK' /\ [Next]_vars => Inv'
  <2> SUFFICES ASSUME TypeOK, WakeupLostOnlyToDrain, [Next]_vars
               PROVE  WakeupLostOnlyToDrain'
    OBVIOUS
  <2> USE DEF WakeupLostOnlyToDrain
  <2>1. ASSUME NEW t \in Threads, \/ \E op \in {"add", "del"}, f \in Fds : Post(t, op, f)
                                  \/ Stop(t)
        PROVE  Signalled'
    BY <2>1 DEF Post, Push, Stop, TypeOK, Signalled
  <2>2. ASSUME NEW t \in Threads, Wakeup(t) PROVE Signalled'
    BY <2>2 DEF Wakeup, Signalled
  <2>3. CASE UNCHANGED <<m_pending_tasks, m_stop_flag, wakeup, drained, caller>>
    BY <2>3 DEF WorkWaits, Signalled
  <2>4. CASE Swap
    BY <2>4, EmptySeq DEF Swap, TakeBatch, WorkWaits
  <2>5. CASE RunTask
    <3>1. UNCHANGED <<m_pending_tasks, caller>>
      BY <2>5 DEF RunTask
    <3>2. CASE drained'
      BY <3>2
    <3>3. CASE wakeup'
      BY <3>3 DEF Signalled
    <3>4. CASE UNCHANGED <<m_stop_flag, wakeup, drained>>
      BY <2>3, <3>1, <3>4
    <3> QED BY <2>5, <3>2, <3>3, <3>4 DEF RunTask, ControlEpoll, Drain, Callback
  <2>6. ASSUME NEW trigger \in Trigger, Dispatch(trigger)
        PROVE  WakeupLostOnlyToDrain'
    <3>1. WorkWaits' => WorkWaits
      <4>1. CASE UNCHANGED m_pending_tasks
        BY <2>6, <4>1 DEF Dispatch, WorkWaits
      <4>2. CASE AddTask(Handler(Head(result_events).fd, trigger))
        <5> DEFINE task == Handler(Head(result_events).fd, trigger)
        <5>1. Head(result_events) \in Event
          BY <2>6, HeadTailProperties DEF Dispatch, TypeOK
        <5>2. task \in Task /\ IsHandler(task)
          BY <5>1, HandlerTask DEF Event
        <5>3. m_pending_tasks' = Append(m_pending_tasks, task) /\ UNCHANGED m_stop_flag
          BY <2>6, <4>2 DEF Dispatch, AddTask
        <5> HIDE DEF task
        <5>4. /\ Len(m_pending_tasks) \in Nat
              /\ Len(m_pending_tasks') = Len(m_pending_tasks) + 1
              /\ m_pending_tasks'[Len(m_pending_tasks) + 1] = task
              /\ \A i \in 1 .. Len(m_pending_tasks) : m_pending_tasks'[i] = m_pending_tasks[i]
          BY <5>2, <5>3, AppendProperties, LenProperties DEF TypeOK
        <5> QED BY <5>2, <5>3, <5>4 DEF WorkWaits
      <4> QED BY <2>6, <4>1, <4>2 DEF Dispatch
    <3> QED BY <2>6, <3>1 DEF Dispatch, Signalled
  <2> QED BY <2>1, <2>2, <2>3, <2>4, <2>5, <2>6
          DEF Next, OtherThread, LoopThread, Enter, Leave, EpollWait, GoToWait, EpollReturn,
              EpollNoEvent, vars
<1> QED BY <1>1, <1>2, TypeCorrect, PTL DEF SafetySpec

-----------------------------------------------------------------------------
(* The refinement: the batch that runs followed by the pending queue is    *)
(* the executor's one queue.                                               *)

LEMMA AppendToConcat ==
  ASSUME NEW S, NEW s \in Seq(S), NEW t \in Seq(S), NEW e \in S
  PROVE  s \o Append(t, e) = Append(s \o t, e)
<1>1. <<e>> \in Seq(S)
  BY SeqDef
<1>2. Append(t, e) = t \o <<e>> /\ Append(s \o t, e) = (s \o t) \o <<e>>
  BY AppendIsConcat, ConcatProperties
<1> QED BY <1>1, <1>2, ConcatAssociative

LEMMA TailOfConcat ==
  ASSUME NEW S, NEW s \in Seq(S), NEW t \in Seq(S), s # <<>>
  PROVE  s \o t # <<>> /\ Tail(s \o t) = Tail(s) \o t
<1>1. /\ Tail(s) \in Seq(S)
      /\ Len(Tail(s)) = Len(s) - 1
      /\ \A i \in 1 .. Len(s) - 1 : Tail(s)[i] = s[i + 1]
      /\ Len(s) \in Nat \ {0} /\ Len(t) \in Nat
  BY HeadTailProperties, EmptySeq, LenProperties
<1>2. /\ s \o t \in Seq(S) /\ Len(s \o t) = Len(s) + Len(t)
      /\ \A i \in 1 .. Len(s) + Len(t) :
           (s \o t)[i] = IF i <= Len(s) THEN s[i] ELSE t[i - Len(s)]
  BY ConcatProperties
<1>3. s \o t # <<>>
  BY <1>1, <1>2, EmptySeq
<1>4. /\ Tail(s \o t) \in Seq(S)
      /\ Len(Tail(s \o t)) = Len(s) + Len(t) - 1
      /\ \A i \in 1 .. Len(s) + Len(t) - 1 : Tail(s \o t)[i] = (s \o t)[i + 1]
  BY <1>1, <1>2, <1>3, HeadTailProperties
<1>5. /\ Tail(s) \o t \in Seq(S)
      /\ Len(Tail(s) \o t) = Len(s) - 1 + Len(t)
      /\ \A i \in 1 .. Len(s) - 1 + Len(t) : (Tail(s) \o t)[i] =
           IF i <= Len(s) - 1 THEN Tail(s)[i] ELSE t[i - (Len(s) - 1)]
  BY <1>1, ConcatProperties
<1>6. \A i \in 1 .. Len(s) + Len(t) - 1 : Tail(s \o t)[i] = (Tail(s) \o t)[i]
  BY <1>1, <1>2, <1>4, <1>5
<1> QED BY <1>1, <1>3, <1>4, <1>5, <1>6, SeqEqual

\* The loop implements the executor: tasks run one at a time, in the order in
\* which they were added, and none is dropped (eventloop.cc:125-139, 244-249).
THEOREM LoopIsFifo == SafetySpec => FirstInFirstOut
<1> DEFINE queue == tmp_tasks \o m_pending_tasks
<1>1. Init => Queue!Init
  <2>1. <<>> \in Seq(Task)
    BY EmptySeq
  <2> QED BY <2>1, ConcatEmptySeq DEF Init, Queue!Init
<1>2. IInv /\ TypeOK' /\ [Next]_vars => [Queue!Next]_queue
  <2> SUFFICES ASSUME IInv, TypeOK', [Next]_vars PROVE [Queue!Next]_queue
    OBVIOUS
  <2> USE DEF IInv, TypeOK
  <2>0. <<>> \in Seq(Task)
    BY EmptySeq
  <2>1. ASSUME NEW task \in Task, AddTask(task), UNCHANGED tmp_tasks
        PROVE  Queue!Submit
    <3>1. queue' = Append(queue, task)
      BY <2>1, AppendToConcat DEF AddTask
    <3> QED BY <3>1 DEF Queue!Submit
  <2>2. ASSUME NEW t \in Threads, NEW op \in {"add", "del"}, NEW f \in Fds, Post(t, op, f)
        PROVE  Queue!Submit
    <3>1. calls + 1 \in 1 .. MaxCalls
      BY <2>2 DEF Post, Push
    <3> QED BY <2>1, <2>2, <3>1, PostTask DEF Post, Push
  <2>3. CASE RunTask
    <3>1. /\ tmp_tasks # <<>> /\ tmp_tasks' = Tail(tmp_tasks)
          /\ UNCHANGED m_pending_tasks
      BY <2>3 DEF RunTask
    <3>2. queue # <<>> /\ queue' = Tail(queue)
      BY <3>1, TailOfConcat, SMTT(30)
    <3> QED BY <3>2 DEF Queue!Next, Queue!Execute
  <2>4. CASE Swap
    <3>1. tmp_tasks = <<>>
      BY <2>4 DEF Swap, TakeBatch, Phases
    <3>2. queue' = queue
      BY <2>0, <2>4, <3>1, ConcatEmptySeq DEF Swap, TakeBatch
    <3> QED BY <3>2
  <2>5. ASSUME NEW trigger \in Trigger, Dispatch(trigger)
        PROVE  [Queue!Next]_queue
    <3>1. Head(result_events) \in Event
      BY <2>5, HeadTailProperties DEF Dispatch
    <3>2. Handler(Head(result_events).fd, trigger) \in Task
      BY <3>1, HandlerTask DEF Event
    <3> QED BY <2>1, <2>5, <3>2, ZenonT(40) DEF Dispatch, Queue!Next
  <2>6. CASE UNCHANGED <<tmp_tasks, m_pending_tasks>>
    BY <2>6
  <2> QED BY <2>2, <2>3, <2>4, <2>5, <2>6
          DEF Next, OtherThread, LoopThread, Queue!Next, Stop, Wakeup, Enter, Leave,
              EpollWait, GoToWait, EpollReturn, EpollNoEvent, vars
<1> QED BY <1>1, <1>2, RoundInvariant, TypeCorrect, PTL
        DEF SafetySpec, FirstInFirstOut, Queue!Spec
=============================================================================
