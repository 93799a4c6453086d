------------------------------ MODULE EventLoop ------------------------------
(***************************************************************************)
(* The reactor: rocket::EventLoop with the FdEvents it polls               *)
(* (rocket/net/eventloop.cc, fd_event.cc, wakeup_fd_event.cc).             *)
(*                                                                         *)
(* One thread runs loop(): it swaps out the pending tasks, runs them, sits *)
(* in epoll_wait, and turns every event epoll reports into a task of the   *)
(* NEXT round.  Any other thread may call addEpollEvent, deleteEpollEvent  *)
(* and stop, which push a task (or set the stop flag) and then write the   *)
(* wake-up eventfd, in two steps that the loop can run between.            *)
(*                                                                         *)
(* Abstractions.  A task is a record, not a closure.  The eventfd counter  *)
(* is "zero or not".  m_listen_fds stands for the epoll interest list too: *)
(* no operation of this component makes the two differ, since every change *)
(* of an FdEvent's mask is followed by addEpollEvent or deleteEpollEvent   *)
(* in the same callback.  A callback may use the loop in every way the     *)
(* in-thread API allows.                                                   *)
(***************************************************************************)
EXTENDS Naturals, Sequences, FiniteSets, Functions

CONSTANTS
  Threads,    \* the threads other than the one that runs loop()
  Fds,        \* the descriptors of the FdEvents that users register
  WakeFd,     \* m_wakep_fd, the eventfd
  MaxEvents,  \* g_epoll_max_events, the size of result_events
  MaxCalls    \* bound: how many calls the other threads make in all

ASSUME EventLoopAssumption ==
  /\ IsFiniteSet(Fds)
  /\ WakeFd \notin Fds
  /\ MaxEvents \in Nat \ {0}
  /\ MaxCalls \in Nat

VARIABLES
  loopPc,           \* where the loop thread is in EventLoop::loop
  m_pending_tasks,  \* the queue under m_mutex
  tmp_tasks,        \* what is left of the batch swapped out of it
  result_events,    \* what is left of the array epoll_wait filled
  m_stop_flag,
  wakeup,           \* the eventfd counter is not zero
  drained,          \* history: the eventfd was read since the last swap
  m_listen_fds,     \* the descriptors epoll watches (without WakeFd)
  m_listen_events,  \* FdEvent::m_listen_events of each descriptor
  caller,           \* each other thread: idle, or about to call wakeup()
  calls             \* how many calls were made; numbers the tasks pushed

vars == <<loopPc, m_pending_tasks, tmp_tasks, result_events, m_stop_flag,
          wakeup, drained, m_listen_fds, m_listen_events, caller, calls>>

Mask == {"in", "out"}
Trigger == {"in", "out", "err"}      \* FdEvent::TriggerEvent
Watchable == Fds \cup {WakeFd}

\* A task is the callback of an FdEvent (call = 0) or one of the two lambdas
\* that addEpollEvent and deleteEpollEvent push from another thread.
Handlers == [op : Trigger, fd : Watchable, call : {0}]
Posts    == [op : {"add", "del"}, fd : Fds, call : 1 .. MaxCalls]
Task     == Handlers \cup Posts

\* FdEvent::handler: the callback of a descriptor for one trigger.
HandlerNull(f, trigger) == [op |-> "null", fd |-> f, call |-> 0]    \* mutant
Handler(f, trigger) == [op |-> trigger, fd |-> f, call |-> 0]
Event == [fd : Watchable, events : SUBSET Trigger]

TypeOK ==
  /\ loopPc \in {"parked", "top", "run", "wait", "dispatch", "exited"}
  /\ m_pending_tasks \in Seq(Task)
  /\ tmp_tasks \in Seq(Task)
  /\ result_events \in Seq(Event)
  /\ m_stop_flag \in BOOLEAN
  /\ wakeup \in BOOLEAN
  /\ drained \in BOOLEAN
  /\ m_listen_fds \in SUBSET Fds
  /\ m_listen_events \in [Fds -> SUBSET Mask]
  /\ caller \in [Threads -> {"idle", "wake"}]
  /\ calls \in 0 .. MaxCalls

-----------------------------------------------------------------------------
(* The constructor registers the wake-up event.  Until it enters loop(),   *)
(* the owner thread may have more FdEvents watched, armed for reading, as  *)
(* TcpServer::init does with its listening socket.                         *)

Init ==
  /\ loopPc = "parked"
  /\ m_pending_tasks = <<>>
  /\ tmp_tasks = <<>>
  /\ result_events = <<>>
  /\ m_stop_flag = FALSE
  /\ wakeup = FALSE
  /\ drained = FALSE
  /\ m_listen_fds \in SUBSET Fds
  /\ m_listen_events = [f \in Fds |-> {"in"}]
  /\ caller = [t \in Threads |-> "idle"]
  /\ calls = 0

AddTask(task) == m_pending_tasks' = Append(m_pending_tasks, task)

-----------------------------------------------------------------------------
(* Calls from other threads.                                               *)

\* addEpollEvent and deleteEpollEvent outside the loop thread: the push ...
Push(t, op, f) ==
  /\ caller[t] = "idle"
  /\ calls < MaxCalls
  /\ calls' = calls + 1
  /\ AddTask([op |-> op, fd |-> f, call |-> calls + 1])
  /\ UNCHANGED <<loopPc, tmp_tasks, result_events, m_stop_flag, wakeup, drained,
                 m_listen_fds, m_listen_events>>

PostQuietly(t, op, f) == Push(t, op, f) /\ UNCHANGED caller    \* mutant: addTask(cb)
Post(t, op, f) == Push(t, op, f) /\ caller' = [caller EXCEPT ![t] = "wake"]

\* stop(): the flag ...
Stop(t) ==
  /\ caller[t] = "idle"
  /\ calls < MaxCalls
  /\ calls' = calls + 1
  /\ m_stop_flag' = TRUE
  /\ caller' = [caller EXCEPT ![t] = "wake"]
  /\ UNCHANGED <<loopPc, m_pending_tasks, tmp_tasks, result_events, wakeup,
                 drained, m_listen_fds, m_listen_events>>

\* ... and, for both, the write to the eventfd.
Wakeup(t) ==
  /\ caller[t] = "wake"
  /\ caller' = [caller EXCEPT ![t] = "idle"]
  /\ wakeup' = TRUE
  /\ UNCHANGED <<loopPc, m_pending_tasks, tmp_tasks, result_events, m_stop_flag,
                 drained, m_listen_fds, m_listen_events, calls>>

-----------------------------------------------------------------------------
(* The loop thread.                                                        *)

\* loop() is entered (by IOThread::Main once started, or by the main thread).
Enter ==
  /\ loopPc = "parked"
  /\ loopPc' = "top"
  /\ UNCHANGED <<m_pending_tasks, tmp_tasks, result_events, m_stop_flag, wakeup,
                 drained, m_listen_fds, m_listen_events, caller, calls>>

\* while(!m_stop_flag): leave, or swap the queue out under the mutex.
Leave ==
  /\ loopPc = "top"
  /\ m_stop_flag
  /\ loopPc' = "exited"
  /\ UNCHANGED <<m_pending_tasks, tmp_tasks, result_events, m_stop_flag, wakeup,
                 drained, m_listen_fds, m_listen_events, caller, calls>>

TakeBatch(batch, left) ==
  /\ loopPc = "top"
  /\ loopPc' = "run"
  /\ tmp_tasks' = batch
  /\ m_pending_tasks' = left
  /\ drained' = FALSE
  /\ UNCHANGED <<result_events, m_stop_flag, wakeup, m_listen_fds,
                 m_listen_events, caller, calls>>

\* Mutants: the stop flag is not tested; the queue is copied, not swapped.
SwapAnyway == TakeBatch(m_pending_tasks, <<>>)
SwapCopies == ~ m_stop_flag /\ TakeBatch(m_pending_tasks, m_pending_tasks)
Swap == ~ m_stop_flag /\ TakeBatch(m_pending_tasks, <<>>)

\* The wake-up callback reads the eventfd until it is empty.
Drain ==
  /\ wakeup' = FALSE
  /\ drained' = TRUE
  /\ UNCHANGED <<m_stop_flag, m_listen_fds, m_listen_events>>

\* A user's callback, on the loop thread: it sets the mask of its descriptor
\* with listen and cancel, has it watched or not (addEpollEvent and
\* deleteEpollEvent act at once here), and may call stop().
Callback(f) ==
  /\ \E mask \in SUBSET Mask :
       m_listen_events' = [m_listen_events EXCEPT ![f] = mask]
  /\ m_listen_fds' \in {m_listen_fds \cup {f}, m_listen_fds \ {f}}
  /\ \/ UNCHANGED <<m_stop_flag, wakeup>>
     \/ m_stop_flag' = TRUE /\ wakeup' = TRUE
  /\ UNCHANGED drained

\* A pushed lambda: ADD_TO_EPOLL or DELETE_TO_EPOLL.
ControlEpoll(task) ==
  /\ m_listen_fds' = IF task.op = "add" THEN m_listen_fds \cup {task.fd}
                                        ELSE m_listen_fds \ {task.fd}
  /\ UNCHANGED <<m_stop_flag, wakeup, drained, m_listen_events>>

RunTask ==
  /\ loopPc = "run"
  /\ tmp_tasks # <<>>
  /\ tmp_tasks' = Tail(tmp_tasks)
  /\ LET task == Head(tmp_tasks)
     IN  \/ task.op \in {"add", "del"} /\ ControlEpoll(task)
         \/ task.op \in Trigger /\ task.fd = WakeFd /\ Drain
         \/ task.op \in Trigger /\ task.fd \in Fds /\ Callback(task.fd)
  /\ UNCHANGED <<loopPc, m_pending_tasks, result_events, caller, calls>>

\* The thread goes into epoll_wait ...
GoToWait ==
  /\ loopPc = "run"
  /\ loopPc' = "wait"
  /\ UNCHANGED <<m_pending_tasks, tmp_tasks, result_events, m_stop_flag, wakeup,
                 drained, m_listen_fds, m_listen_events, caller, calls>>

\* ... once the batch is finished (mutant: GoToWait, after each task).
EpollWait == tmp_tasks = <<>> /\ GoToWait

\* What epoll may report of a descriptor: what its mask asks for, and errors
\* whatever the mask.  The eventfd is readable while its counter is not zero.
Reportable(f) ==
  IF f = WakeFd THEN (IF wakeup THEN {"in"} ELSE {})
  ELSE IF f \in m_listen_fds THEN m_listen_events[f] \cup {"err"}
  ELSE {}

\* epoll_wait returns some of the events there are, at most one for a
\* descriptor and at most MaxEvents in all.  A readable eventfd is left out
\* only when the array is full.
EpollReturn ==
  /\ loopPc = "wait"
  /\ loopPc' = "dispatch"
  /\ \E n \in 1 .. MaxEvents : \E s \in Injection(1 .. n, Watchable) :
       /\ wakeup /\ n < MaxEvents => \E i \in 1 .. n : s[i] = WakeFd
       /\ \E e \in [1 .. n -> SUBSET Trigger \ {{}}] :
            /\ \A i \in 1 .. n : e[i] \subseteq Reportable(s[i])
            /\ result_events' = [i \in 1 .. n |-> [fd |-> s[i], events |-> e[i]]]
  /\ UNCHANGED <<m_pending_tasks, tmp_tasks, m_stop_flag, wakeup, drained,
                 m_listen_fds, m_listen_events, caller, calls>>

EpollNoTimeout == FALSE    \* mutant: epoll_wait waits for ever

\* epoll_wait returns without an event: after g_epoll_max_timeout (10 s), or
\* with -1, which is logged.
EpollNoEvent ==
  /\ loopPc = "wait"
  /\ loopPc' = "top"
  /\ UNCHANGED <<m_pending_tasks, tmp_tasks, result_events, m_stop_flag, wakeup,
                 drained, m_listen_fds, m_listen_events, caller, calls>>

\* The for loop over result_events, one trigger at a time: in, out, then err.
Dispatch(trigger) ==
  /\ loopPc = "dispatch"
  /\ result_events # <<>>
  /\ LET event == Head(result_events)
         done  == event.events = {trigger}
     IN  /\ trigger \in event.events
         /\ trigger = "out" => "in" \notin event.events
         /\ trigger = "err" => done
         /\ result_events' = IF done THEN Tail(result_events)
                             ELSE [result_events EXCEPT ![1] =
                                     [event EXCEPT !.events = @ \ {trigger}]]
         /\ loopPc' = IF done /\ Len(result_events) = 1 THEN "top" ELSE "dispatch"
         /\ \/ AddTask(Handler(event.fd, trigger))
            \/ trigger = "err" /\ UNCHANGED m_pending_tasks  \* no error callback
         /\ m_listen_fds' = IF trigger = "err" THEN m_listen_fds \ {event.fd}
                                               ELSE m_listen_fds
  /\ UNCHANGED <<tmp_tasks, m_stop_flag, wakeup, drained, m_listen_events, caller, calls>>

-----------------------------------------------------------------------------
OtherThread ==
  \E t \in Threads :
    \/ \E op \in {"add", "del"}, f \in Fds : Post(t, op, f)
    \/ Stop(t)
    \/ Wakeup(t)

LoopThread ==
  \/ Leave
  \/ Swap
  \/ RunTask
  \/ EpollWait
  \/ EpollReturn
  \/ EpollNoEvent
  \/ \E trigger \in Trigger : Dispatch(trigger)

Next == OtherThread \/ Enter \/ LoopThread

\* The loop thread is scheduled, epoll_wait returns at the latest when its
\* timeout expires.  No other thread is assumed to make any progress.
Fairness == WF_vars(LoopThread)

SafetySpec == Init /\ [][Next]_vars
Spec == SafetySpec /\ Fairness

-----------------------------------------------------------------------------
(* Properties.                                                             *)

IsHandler(task) == task.call = 0

\* Some task pushed by another thread, or the stop flag, awaits the loop.
WorkWaits == m_stop_flag \/ \E i \in 1 .. Len(m_pending_tasks) :
                              ~ IsHandler(m_pending_tasks[i])

\* A wake-up is under way: the eventfd is readable or is about to be written.
Signalled == wakeup \/ \E t \in Threads : caller[t] = "wake"

\* The callback of a descriptor for one trigger is never queued twice: all
\* the callbacks of one epoll_wait have run before the next one begins.
HandlerQueuedOnce ==
  LET all == tmp_tasks \o m_pending_tasks
  IN  \A i, j \in 1 .. Len(all) : IsHandler(all[i]) /\ all[i] = all[j] => i = j

\* The loop never sleeps in epoll_wait on work that it queued itself: what is
\* pending then was pushed by other threads.
NeverSleepsOnOwnWork ==
  loopPc = "wait" =>
    /\ tmp_tasks = <<>>
    /\ \A i \in 1 .. Len(m_pending_tasks) : ~ IsHandler(m_pending_tasks[i])

\* A wake-up can be lost in one way only: to a wake-up callback that reads the
\* eventfd after its batch was swapped out.  In every round without one, work
\* that waits is signalled.
WakeupLostOnlyToDrain == WorkWaits /\ ~ drained => Signalled

\* The loop implements the one-queue executor.
Queue == INSTANCE Executor WITH queue <- tmp_tasks \o m_pending_tasks
FirstInFirstOut == Queue!Spec

InQueue(n) == \E i \in 1 .. Len(tmp_tasks \o m_pending_tasks) :
                (tmp_tasks \o m_pending_tasks)[i].call = n

\* A task pushed by another thread is run, unless the loop is stopped.
PushedTaskRuns ==
  \A n \in 1 .. MaxCalls :
    InQueue(n) /\ loopPc # "parked" ~> ~ InQueue(n) \/ loopPc = "exited"

\* A loop told to stop leaves, whatever it was doing.
StopEndsLoop == m_stop_flag /\ loopPc # "parked" ~> loopPc = "exited"
=============================================================================
