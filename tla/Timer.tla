-------------------------------- MODULE Timer --------------------------------
(***************************************************************************)
(* The timers: rocket::Timer, the multimap of TimerEvents with the timerfd *)
(* that each EventLoop watches (rocket/net/timer.cc, timer_event.cc).      *)
(*                                                                         *)
(* A timer is named by the loop thread that runs its onTimer.  Any thread  *)
(* may call addTimerEvent, setCancled and deleteTimerEvvent.  A call that  *)
(* must re-arm the timerfd does so in three steps, with the mutex released *)
(* in between: insert, copy the multimap, timerfd_settime.  onTimer is     *)
(* made of more such steps.                                                *)
(*                                                                         *)
(* Abstractions.  Times are what remains until them, in some unit: 0 when  *)
(* reached or passed, so that the clock needs no bound.  Which of two      *)
(* passed times is the earlier is not kept: what depends on it is left     *)
(* open, and so is the order inside a batch of due events.  The wall clock *)
(* and the monotonic clock advance together.  A critical section is one    *)
(* step.  The code makes it one until the destructor of a ScopeMutex       *)
(* unlocks the mutex for another thread (mutex.h:17): when two threads are *)
(* inside a section of one timer, nothing of this module holds any longer. *)
(* Logger models that second unlock.  A callback is a task that runs; what *)
(* it calls on a timer is a step of the same thread.                       *)
(***************************************************************************)
EXTENDS Integers, FiniteSets

CONSTANTS
  Timers,      \* the timers, each with the thread of its loop
  Threads,     \* the threads that run no loop
  Events,      \* the TimerEvents
  Repeated,    \* those with m_is_repeated
  Interval,    \* m_interval of each
  Overdue,     \* the 100 ms of resetArriveTime when the first event is due
  Sharing      \* whether a TimerEvent is ever added to more than one timer

ASSUME TimerAssumption ==
  /\ Timers \cap Threads = {}
  /\ Repeated \subseteq Events
  /\ Interval \in [Events -> Nat]
  /\ Overdue \in Nat \ {0}
  /\ Sharing \in BOOLEAN

VARIABLES
  arrive,            \* m_arrive_time of each event
  cancelled,         \* the events with m_is_cancled
  m_pending_events,  \* of each timer: the key of each event, or Absent
  timerfd,           \* of each timer: time to expiry; 0: readable; -1: neither
  phase,             \* of each timer: where its loop thread is
  readds,            \* of each timer: what onTimer is yet to add again
  tasks,             \* of each timer: what onTimer is yet to run
  call,              \* of each thread: the rest of its addTimerEvent
  added              \* of each timer: the events users added to it

vars == <<arrive, cancelled, m_pending_events, timerfd, phase, readds, tasks,
          call, added>>

Agents == Timers \cup Threads
Absent == -1
Idle   == [step |-> "none"]

Call == {Idle} \cup [step : {"copy"}, timer : Timers]
               \cup [step : {"settime"}, timer : Timers, first : Events]

TypeOK ==
  /\ arrive \in [Events -> Nat]
  /\ cancelled \in SUBSET Events
  /\ m_pending_events \in [Timers -> [Events -> Nat \cup {Absent}]]
  /\ timerfd \in [Timers -> Nat \cup {-1}]
  /\ phase \in [Timers -> {"wait", "called", "collect", "readd", "run"}]
  /\ readds \in [Timers -> SUBSET Repeated]
  /\ tasks \in [Timers -> SUBSET Events]
  /\ call \in [Agents -> Call]
  /\ added \in [Timers -> SUBSET Events]

Init ==
  /\ arrive = [e \in Events |-> 0]
  /\ cancelled = {}
  /\ m_pending_events = [m \in Timers |-> [e \in Events |-> Absent]]
  /\ timerfd = [m \in Timers |-> -1]
  /\ phase = [m \in Timers |-> "wait"]
  /\ readds = [m \in Timers |-> {}]
  /\ tasks = [m \in Timers |-> {}]
  /\ call = [a \in Agents |-> Idle]
  /\ added = [m \in Timers |-> {}]

Pending(m) == {e \in Events : m_pending_events[m][e] # Absent}

\* m_pending_events.begin(): any of the events with the least key.
First(m) == {e \in Pending(m) : \A f \in Pending(m) :
               m_pending_events[m][e] <= m_pending_events[m][f]}

-----------------------------------------------------------------------------
(* addTimerEvent and resetArriveTime.                                      *)

\* Whether an event that arrives at time x makes addTimerEvent re-arm.
IsReset(m, x) ==
  IF Pending(m) = {} THEN {TRUE}
  ELSE {r \in BOOLEAN : \E f \in First(m) :
          r = (arrive[f] > x) \/ (arrive[f] = 0 /\ x = 0)}

\* The locked part, of threads that m_mutex keeps apart: the event is inserted under
\* its arrive time.
Insert(a, m, e, x) ==
  /\ m_pending_events' = [m_pending_events EXCEPT ![m][e] = x]
  /\ \E is_reset_timerfd \in IsReset(m, x) :
       call' = [call EXCEPT ![a] = IF is_reset_timerfd
                                   THEN [step |-> "copy", timer |-> m] ELSE Idle]

\* A user may call from any thread, from a loop thread while it runs callbacks.
CanCall(a) ==
  /\ call[a] = Idle
  /\ a \in Timers => phase[a] \in {"wait", "called", "run"}

\* The users add an event to a timer once, some time after its constructor
\* had set its arrive time.
AddTimerEvent(a, m, e) ==
  /\ CanCall(a)
  /\ e \notin added[m]
  /\ ~ Sharing => \A n \in Timers : e \notin added[n]
  /\ added' = [added EXCEPT ![m] = @ \cup {e}]
  /\ \E x \in IF \E n \in Timers : e \in added[n] THEN {arrive[e]}
                                                  ELSE 0 .. Interval[e] :
       /\ arrive' = [arrive EXCEPT ![e] = x]
       /\ Insert(a, m, e, x)
  /\ UNCHANGED <<cancelled, timerfd, phase, readds, tasks>>

\* resetArriveTime copies the multimap under the lock, apart from other threads;
\* nothing pending, nothing to arm.
Copy(a) ==
  /\ call[a].step = "copy"
  /\ LET m == call[a].timer
     IN  \/ Pending(m) = {} /\ call' = [call EXCEPT ![a] = Idle]
         \/ \E e \in First(m) :
              call' = [call EXCEPT ![a] =
                         [step |-> "settime", timer |-> m, first |-> e]]
  /\ UNCHANGED <<arrive, cancelled, m_pending_events, timerfd, phase, readds,
                 tasks, added>>

Arm(a, interval) ==
  /\ call[a].step = "settime"
  /\ timerfd' = [timerfd EXCEPT ![call[a].timer] = interval]
  /\ call' = [call EXCEPT ![a] = Idle]
  /\ UNCHANGED <<arrive, cancelled, m_pending_events, phase, readds, tasks, added>>

\* Mutant: a due event gives interval 0, which disarms the timerfd.
SettimeZero(a) ==
  Arm(a, IF arrive[call[a].first] > 0 THEN arrive[call[a].first] ELSE -1)

\* ... and arms the timerfd for the event that was first in the copy, which
\* also takes back an expiry that was not read yet.
Settime(a) ==
  Arm(a, IF arrive[call[a].first] > 0 THEN arrive[call[a].first] ELSE Overdue)

-----------------------------------------------------------------------------
(* setCancled and deleteTimerEvvent.                                       *)

Cancel(a, e) ==
  /\ CanCall(a)
  /\ \E m \in Timers : e \in added[m]
  /\ cancelled' = cancelled \cup {e}
  /\ UNCHANGED <<arrive, m_pending_events, timerfd, phase, readds, tasks, call,
                 added>>

\* Under the lock, apart from other threads, the event is looked up under its present
\* arrive time.
Delete(a, m, e) ==
  /\ CanCall(a)
  /\ e \in added[m]
  /\ cancelled' = cancelled \cup {e}
  /\ m_pending_events' =
       IF m_pending_events[m][e] = arrive[e]
       THEN [m_pending_events EXCEPT ![m][e] = Absent] ELSE m_pending_events
  /\ UNCHANGED <<arrive, timerfd, phase, readds, tasks, call, added>>

-----------------------------------------------------------------------------
(* The loop thread and onTimer.                                            *)

\* epoll reports the timerfd: onTimer is queued for the next round.
Notice(m) ==
  /\ phase[m] = "wait"
  /\ call[m] = Idle
  /\ timerfd[m] = 0
  /\ phase' = [phase EXCEPT ![m] = "called"]
  /\ UNCHANGED <<arrive, cancelled, m_pending_events, timerfd, readds, tasks,
                 call, added>>

\* onTimer reads the timerfd until EAGAIN; it may have been armed again since.
Drain(m) ==
  /\ phase[m] = "called"
  /\ call[m] = Idle
  /\ phase' = [phase EXCEPT ![m] = "collect"]
  /\ timerfd' = [timerfd EXCEPT ![m] = IF @ = 0 THEN -1 ELSE @]
  /\ UNCHANGED <<arrive, cancelled, m_pending_events, readds, tasks, call, added>>

Due(m) == {e \in Events : m_pending_events[m][e] = 0}

\* Under the lock, apart from other threads, the due events leave the multimap; of
\* those that are not cancelled, all are to run and the repeated are to be added again.
TakeDue(m, again) ==
  /\ phase[m] = "collect"
  /\ call[m] = Idle
  /\ phase' = [phase EXCEPT ![m] = "readd"]
  /\ tasks' = [tasks EXCEPT ![m] = Due(m) \ cancelled]
  /\ readds' = [readds EXCEPT ![m] = again]
  /\ m_pending_events' = [m_pending_events EXCEPT ![m] =
                            [e \in Events |-> IF e \in Due(m) THEN Absent ELSE @[e]]]
  /\ UNCHANGED <<arrive, cancelled, timerfd, call, added>>

CollectAll(m)  == TakeDue(m, Due(m) \ cancelled)    \* mutant: no isRepeated()
CollectNone(m) == TakeDue(m, {})                    \* mutant: nothing repeats
Collect(m)     == TakeDue(m, (Due(m) \ cancelled) \cap Repeated)

AddAgain(m, e, key) ==
  /\ phase[m] = "readd"
  /\ call[m] = Idle
  /\ e \in readds[m]
  /\ readds' = [readds EXCEPT ![m] = @ \ {e}]
  /\ arrive' = [arrive EXCEPT ![e] = Interval[e]]
  /\ Insert(m, m, e, key)
  /\ UNCHANGED <<cancelled, timerfd, phase, tasks, added>>

ReaddThenReset(m, e) == AddAgain(m, e, arrive[e])    \* mutant: the order swapped
Readd(m, e) == AddAgain(m, e, Interval[e])

GoToRun(m, next) ==
  /\ phase[m] = "readd"
  /\ call[m] = Idle
  /\ readds[m] = {}
  /\ phase' = [phase EXCEPT ![m] = "run"]
  /\ call' = [call EXCEPT ![m] = next]
  /\ UNCHANGED <<arrive, cancelled, m_pending_events, timerfd, readds, tasks, added>>

NoReset(m) == GoToRun(m, Idle)    \* mutant: onTimer does not re-arm
Reset(m)   == GoToRun(m, [step |-> "copy", timer |-> m])

RunTask(m, e) ==
  /\ phase[m] = "run"
  /\ call[m] = Idle
  /\ e \in tasks[m]
  /\ tasks' = [tasks EXCEPT ![m] = @ \ {e}]
  /\ UNCHANGED <<arrive, cancelled, m_pending_events, timerfd, phase, readds,
                 call, added>>

Return(m) ==
  /\ phase[m] = "run"
  /\ call[m] = Idle
  /\ tasks[m] = {}
  /\ phase' = [phase EXCEPT ![m] = "wait"]
  /\ UNCHANGED <<arrive, cancelled, m_pending_events, timerfd, readds, tasks,
                 call, added>>

-----------------------------------------------------------------------------
\* A unit of time passes; the timerfd expires when its time is over.
Left(x) == IF x > 0 THEN x - 1 ELSE x

Tick ==
  /\ arrive' = [e \in Events |-> Left(arrive[e])]
  /\ m_pending_events' = [m \in Timers |->
                            [e \in Events |-> Left(m_pending_events[m][e])]]
  /\ timerfd' = [m \in Timers |-> Left(timerfd[m])]
  /\ UNCHANGED <<cancelled, phase, readds, tasks, call, added>>

User(a) ==
  \E e \in Events :
    \/ Cancel(a, e)
    \/ \E m \in Timers : AddTimerEvent(a, m, e) \/ Delete(a, m, e)

FinishCall(a) == Copy(a) \/ Settime(a)

OnTimer(m) ==
  \/ Notice(m) \/ Drain(m) \/ Collect(m) \/ Reset(m) \/ Return(m)
  \/ \E e \in Events : Readd(m, e) \/ RunTask(m, e)

Next ==
  \/ Tick
  \/ \E a \in Agents : User(a) \/ FinishCall(a)
  \/ \E m \in Timers : OnTimer(m)

SafetySpec == Init /\ [][Next]_vars

\* Time passes, loop threads run, and a thread inside a call finishes it.
Fairness ==
  /\ WF_vars(Tick)
  /\ \A a \in Agents : WF_vars(FinishCall(a))
  /\ \A m \in Timers : WF_vars(OnTimer(m))

Spec == SafetySpec /\ Fairness

-----------------------------------------------------------------------------
(* Properties.                                                             *)

CallOn(m) == \E a \in Agents : call[a] # Idle /\ call[a].timer = m

\* No timer is forgotten: while an event is pending the timerfd is armed or
\* readable, or some thread is between its insertion and timerfd_settime, or
\* onTimer is on its way to re-arm.
NoForgottenTimer ==
  \A m \in Timers : Pending(m) # {} =>
    \/ timerfd[m] # -1
    \/ phase[m] \in {"collect", "readd"}
    \/ CallOn(m)

\* A repeated event that is not cancelled stays scheduled, through every
\* interleaving of onTimer with the calls of other threads.
RepeatedStaysScheduled ==
  \A m \in Timers : \A e \in (added[m] \cap Repeated) \ cancelled :
    e \in Pending(m) \cup readds[m]

\* The key of a pending event is its arrive time, on which the lookup of
\* deleteTimerEvvent and the arming of the timerfd rely.  The code keeps it
\* only while no event is in two timers.
KeyIsArriveTime ==
  \A m \in Timers : \A e \in Pending(m) : m_pending_events[m][e] = arrive[e]

\* Once no call is under way, the timerfd expires no later than the first
\* pending event arrives, or within the grace of an event that was due when the
\* timerfd was armed.  The code keeps it only while one thread uses the timer.
ArmedInTime ==
  \A m \in Timers :
    Pending(m) # {} /\ ~ CallOn(m) /\ phase[m] \notin {"collect", "readd"} =>
      \/ timerfd[m] <= Overdue
      \/ \A e \in Pending(m) : timerfd[m] <= arrive[e]

\* Every event that was added leaves the multimap, whichever threads re-arm
\* the timerfd meanwhile.
TimerFires ==
  \A m \in Timers, e \in Events : e \in Pending(m) ~> e \notin Pending(m)
=============================================================================
