------------------------------- MODULE Logger -------------------------------
(***************************************************************************)
(* The logger: rocket::Logger, rocket::AsyncLogger (rocket/common/log.cc)  *)
(* and the ScopeMutex they lock with (rocket/common/mutex.h).              *)
(*                                                                         *)
(* There are two logs, "rpc" and "app".  A line goes from the thread that  *)
(* logs it into the Logger's buffer; syncLoop, a repeated timer event of   *)
(* one event loop, swaps the buffer out and pushes it to the queue of the  *)
(* AsyncLogger of that log, whose own thread takes it out and writes it.   *)
(*                                                                         *)
(* A ScopeMutex does not remember an explicit unlock: its destructor       *)
(* unlocks a second time, whoever holds the mutex by then.  An access to a *)
(* buffer or a queue is therefore two steps, the lock it begins with and   *)
(* the change it ends with, so that two threads can be inside at once.     *)
(* That is undefined behaviour: from then on nothing is promised, and the  *)
(* model takes no further step (Undefined).                                *)
(*                                                                         *)
(* Abstractions.  A line is a name.  The vectors in the queue of an        *)
(* AsyncLogger are one sequence, and the thread takes some part of it from *)
(* the front.  The size of a file is the number of its lines, and a file   *)
(* is new when it is opened for the first time.                            *)
(***************************************************************************)
EXTENDS Naturals, Sequences

CONSTANTS
  Producers,        \* the threads that log
  MaxLines,         \* bound: how many lines each of them logs
  Used,             \* the logs that they use
  Stopped,          \* the logs whose AsyncLogger may be stopped
  Types,            \* the values of m_type: 0 prints, 1 writes files
  Days,             \* bound: the dates, 1 .. Days
  m_max_file_size   \* lines after which a file is full

Logs == {"rpc", "app"}

ASSUME LoggerAssumption ==
  /\ "sync" \notin Producers    \* the name of syncLoop in AtBuffer and AtQueue
  /\ Used \subseteq Logs
  /\ Stopped \subseteq Logs
  /\ MaxLines \in Nat
  /\ Types \subseteq {0, 1}
  /\ Days \in Nat \ {0}
  /\ m_max_file_size \in Nat

Line == [by : Producers, no : 1 .. MaxLines]

\* m_mutex and m_app_mutex of the Logger, and the m_mutex of each AsyncLogger.
Mutex == {"m_mutex", "m_app_mutex"} \cup Logs

VARIABLES
  m_type,
  locked,       \* of each mutex: it is held
  stolen,       \* history: a mutex was unlocked for a thread that held it
  m_buffer,     \* Logger::m_buffer and m_app_buffer
  tmp_vec,      \* the locals of syncLoop, tmp_vec and tmp_vec2
  queue,        \* AsyncLogger::m_buffer
  batch,        \* AsyncLogger::loop: tmp
  written,      \* the lines that reached the files (or the terminal)
  disk,         \* the files: date, number and size, in the order of opening
  day,          \* today
  m_stop_flag,
  logging,      \* each producer: idle, or inside pushLog or pushAppLog
  count,        \* how many lines each producer logged
  sync,         \* syncLoop: where, and for which log
  async         \* each AsyncLogger's thread: where in its loop

lines == <<m_buffer, tmp_vec, queue, batch, written>>
files == <<disk, day>>
flags == <<m_type, m_stop_flag>>
locks == <<locked, stolen>>
vars  == <<lines, files, flags, locks, logging, count, sync, async>>

Typed ==
  /\ m_type \in Types
  /\ locked \in [Mutex -> BOOLEAN]
  /\ stolen \in BOOLEAN
  /\ m_buffer \in [Logs -> Seq(Line)]
  /\ tmp_vec \in [Logs -> Seq(Line)]
  /\ queue \in [Logs -> Seq(Line)]
  /\ batch \in [Logs -> Seq(Line)]
  /\ written \in [Logs -> Seq(Line)]
  /\ disk \in [Logs -> Seq([date : 1 .. Days, no : Nat, size : Nat])]
  /\ day \in 1 .. Days
  /\ m_stop_flag \in [Logs -> BOOLEAN]
  /\ logging \in [Producers -> Logs \cup {"idle"}]
  /\ count \in [Producers -> 0 .. MaxLines]
  /\ sync \in [at : {"idle", "lock", "swap", "lockQueue", "push", "signal",
                     "release", "end"}, log : Logs]
  /\ async \in [Logs -> {"lock", "check", "asleep", "write", "release",
                         "leave", "exited"}]

\* A logger that prints has no AsyncLogger and no syncLoop, and the buffer of its
\* rpc log stays empty.
PrintsOnly ==
  m_type = 0 => /\ sync.at = "idle" /\ \A l \in Logs : async[l] = "exited"
                /\ m_buffer["rpc"] = <<>>
                /\ \A p \in Producers : logging[p] # "rpc"

TypeOK == Typed /\ PrintsOnly

Init ==
  /\ m_type \in Types
  /\ locked = [m \in Mutex |-> FALSE]
  /\ stolen = FALSE
  /\ m_buffer = [l \in Logs |-> <<>>]
  /\ tmp_vec = [l \in Logs |-> <<>>]
  /\ queue = [l \in Logs |-> <<>>]
  /\ batch = [l \in Logs |-> <<>>]
  /\ written = [l \in Logs |-> <<>>]
  /\ disk = [l \in Logs |-> <<>>]
  /\ day = 1
  /\ m_stop_flag = [l \in Logs |-> FALSE]
  /\ logging = [p \in Producers |-> "idle"]
  /\ count = [p \in Producers |-> 0]
  /\ sync = [at |-> "idle", log |-> "rpc"]
  /\ async = [l \in Logs |-> IF m_type = 0 THEN "exited" ELSE "lock"]

-----------------------------------------------------------------------------
(* ScopeMutex.                                                             *)

\* The constructor blocks until the mutex is free.
Lock(m) ==
  /\ ~ locked[m]
  /\ locked' = [locked EXCEPT ![m] = TRUE]
  /\ UNCHANGED stolen

\* unlock(), or the destructor where unlock() was not called.
Unlock(m) ==
  /\ locked' = [locked EXCEPT ![m] = FALSE]
  /\ UNCHANGED stolen

\* The destructor after unlock(): m_is_lock is still set.
UnlockAgain(m) ==
  /\ locked' = [locked EXCEPT ![m] = FALSE]
  /\ stolen' = (stolen \/ locked[m])

-----------------------------------------------------------------------------
(* The threads that log.                                                   *)

MutexOfApp(l) == "m_app_mutex"    \* mutant
\* The mutex that pushLog and pushAppLog lock.
MutexOf(l) == IF l = "rpc" THEN "m_mutex" ELSE "m_app_mutex"

NextLine(p) == [by |-> p, no |-> count[p] + 1]

PrintLogToo(p) ==    \* mutant
  /\ m_type = 0
  /\ logging[p] = "idle" /\ count[p] < MaxLines
  /\ written' = [written EXCEPT !["rpc"] = Append(@, NextLine(p))]
  /\ Lock("m_mutex")
  /\ logging' = [logging EXCEPT ![p] = "rpc"]
  /\ UNCHANGED <<m_buffer, tmp_vec, queue, batch, files, flags, count, sync, async>>
\* pushLog with m_type 0 prints and returns.
PrintLog(p) ==
  /\ m_type = 0
  /\ logging[p] = "idle" /\ count[p] < MaxLines
  /\ written' = [written EXCEPT !["rpc"] = Append(@, NextLine(p))]
  /\ count' = [count EXCEPT ![p] = @ + 1]
  /\ UNCHANGED <<m_buffer, tmp_vec, queue, batch, files, flags, locks, logging,
                 sync, async>>

\* pushLog and pushAppLog: the lock ...
StartLog(p, l) ==
  /\ l = "rpc" => m_type = 1
  /\ logging[p] = "idle" /\ count[p] < MaxLines
  /\ Lock(MutexOf(l))
  /\ logging' = [logging EXCEPT ![p] = l]
  /\ UNCHANGED <<lines, files, flags, count, sync, async>>

\* ... and push_back.
PushLog(p) ==
  \E l \in Logs :
    /\ logging[p] = l
    /\ m_buffer' = [m_buffer EXCEPT ![l] = Append(@, NextLine(p))]
    /\ Unlock(MutexOf(l))
    /\ logging' = [logging EXCEPT ![p] = "idle"]
    /\ count' = [count EXCEPT ![p] = @ + 1]
    /\ UNCHANGED <<tmp_vec, queue, batch, written, files, flags, sync, async>>

-----------------------------------------------------------------------------
(* syncLoop, run by the event loop whenever its timer event is due.        *)

GoTo(place, l) == sync' = [at |-> place, log |-> l]

\* After the rpc log comes the app log, in a block of its own.
GoOn(l) == IF l = "rpc" THEN GoTo("lock", "app") ELSE GoTo("end", "app")

SyncLoop ==
  /\ m_type = 1
  /\ sync.at = "idle"
  /\ Lock("m_mutex")
  /\ GoTo("swap", "rpc")
  /\ UNCHANGED <<lines, files, flags, logging, count, async>>

LockForApp ==
  /\ sync.at = "lock"
  /\ Lock("m_mutex")
  /\ GoTo("swap", "app")
  /\ UNCHANGED <<lines, files, flags, logging, count, async>>

Copy ==    \* mutant
  /\ sync.at = "swap"
  /\ tmp_vec' = [tmp_vec EXCEPT ![sync.log] = m_buffer[sync.log]]
  /\ Unlock("m_mutex")
  /\ IF m_buffer[sync.log] # <<>> THEN GoTo("lockQueue", sync.log) ELSE GoOn(sync.log)
  /\ UNCHANGED <<m_buffer, queue, batch, written, files, flags, logging, count, async>>
\* m_app_buffer, too, is swapped under m_mutex.
Swap ==
  LET l == sync.log IN
  /\ sync.at = "swap"
  /\ tmp_vec' = [tmp_vec EXCEPT ![l] = m_buffer[l]]
  /\ m_buffer' = [m_buffer EXCEPT ![l] = tmp_vec[l]]
  /\ Unlock("m_mutex")
  /\ IF m_buffer[l] # <<>> THEN GoTo("lockQueue", l) ELSE GoOn(l)
  /\ UNCHANGED <<queue, batch, written, files, flags, logging, count, async>>

\* pushLogBuffer: the lock ...
LockQueue ==
  /\ sync.at = "lockQueue"
  /\ Lock(sync.log)
  /\ GoTo("push", sync.log)
  /\ UNCHANGED <<lines, files, flags, logging, count, async>>

\* ... the push; the vector of syncLoop is not used again ...
PushLogBuffer ==
  LET l == sync.log IN
  /\ sync.at = "push"
  /\ queue' = [queue EXCEPT ![l] = @ \o tmp_vec[l]]
  /\ tmp_vec' = [tmp_vec EXCEPT ![l] = <<>>]
  /\ Unlock(l)
  /\ GoTo("signal", l)
  /\ UNCHANGED <<m_buffer, batch, written, files, flags, logging, count, async>>

NoSignal ==    \* mutant
  /\ sync.at = "signal"
  /\ GoTo("release", sync.log)
  /\ UNCHANGED <<lines, files, flags, locks, logging, count, async>>
\* ... pthread_cond_signal ...
Signal ==
  LET l == sync.log IN
  /\ sync.at = "signal"
  /\ async' = [async EXCEPT ![l] = IF @ = "asleep" THEN "lock" ELSE @]
  /\ GoTo("release", l)
  /\ UNCHANGED <<lines, files, flags, locks, logging, count>>

\* ... and the destructor.
EndPush ==
  /\ sync.at = "release"
  /\ UnlockAgain(sync.log)
  /\ GoOn(sync.log)
  /\ UNCHANGED <<lines, files, flags, logging, count, async>>

\* The destructor of the first ScopeMutex of syncLoop.
EndSync ==
  /\ sync.at = "end"
  /\ UnlockAgain("m_mutex")
  /\ GoTo("idle", "rpc")
  /\ UNCHANGED <<lines, files, flags, logging, count, async>>

-----------------------------------------------------------------------------
(* AsyncLogger::loop.                                                      *)

\* The lock at the top of the loop, or the one with which
\* pthread_cond_wait returns.
LockAsync(l) ==
  /\ async[l] = "lock"
  /\ Lock(l)
  /\ async' = [async EXCEPT ![l] = "check"]
  /\ UNCHANGED <<lines, files, flags, logging, count, sync>>

Wait(l) ==
  /\ async[l] = "check" /\ queue[l] = <<>>
  /\ Unlock(l)
  /\ async' = [async EXCEPT ![l] = "asleep"]
  /\ UNCHANGED <<lines, files, flags, logging, count, sync>>

\* pthread_cond_wait may return without a signal.
WakeSpuriously(l) ==
  /\ async[l] = "asleep"
  /\ async' = [async EXCEPT ![l] = "lock"]
  /\ UNCHANGED <<lines, files, flags, locks, logging, count, sync>>

TakeBatch(l) ==
  /\ async[l] = "check"
  /\ \E n \in 1 .. Len(queue[l]) :
       /\ batch' = [batch EXCEPT ![l] = SubSeq(queue[l], 1, n)]
       /\ queue' = [queue EXCEPT ![l] = SubSeq(@, n + 1, Len(@))]
  /\ Unlock(l)
  /\ async' = [async EXCEPT ![l] = "write"]
  /\ UNCHANGED <<m_buffer, tmp_vec, written, files, flags, logging, count, sync>>

\* The file of a batch: a new one on a new date, with m_no 0, and one with the
\* next number if that file is full.
Newest(opened) == opened[Len(opened)]
New(date, no) == [date |-> date, no |-> no, size |-> 0]

Dated(opened) ==
  IF opened = <<>> \/ Newest(opened).date # day THEN Append(opened, New(day, 0))
                                              ELSE opened

RolledSame(opened) ==    \* mutant
  IF Newest(opened).size > m_max_file_size
    THEN Append(opened, New(day, Newest(opened).no))
    ELSE opened
Rolled(opened) ==
  IF Newest(opened).size > m_max_file_size
    THEN Append(opened, New(day, Newest(opened).no + 1))
    ELSE opened

Grown(f, n) == [f EXCEPT !.size = @ + n]
Fill(opened, n) == [opened EXCEPT ![Len(opened)] = Grown(Newest(opened), n)]

WriteOn(l) ==    \* mutant
  /\ async[l] = "write"
  /\ written' = [written EXCEPT ![l] = @ \o batch[l]]
  /\ disk' = [disk EXCEPT ![l] = Fill(Rolled(Dated(@)), Len(batch[l]))]
  /\ batch' = [batch EXCEPT ![l] = <<>>]
  /\ async' = [async EXCEPT ![l] = "release"]
  /\ UNCHANGED <<m_buffer, tmp_vec, queue, day, flags, locks, logging, count, sync>>
\* The batch is written and flushed; then the stop flag is tested.
WriteBatch(l) ==
  /\ async[l] = "write"
  /\ written' = [written EXCEPT ![l] = @ \o batch[l]]
  /\ disk' = [disk EXCEPT ![l] = Fill(Rolled(Dated(@)), Len(batch[l]))]
  /\ batch' = [batch EXCEPT ![l] = <<>>]
  /\ async' = [async EXCEPT ![l] = IF m_stop_flag[l] THEN "leave" ELSE "release"]
  /\ UNCHANGED <<m_buffer, tmp_vec, queue, day, flags, locks, logging, count, sync>>

LeaveLoop(l) ==    \* mutant
  /\ async[l] \in {"release", "leave"}
  /\ UnlockAgain(l)
  /\ async' = [async EXCEPT ![l] = "exited"]
  /\ UNCHANGED <<lines, files, flags, logging, count, sync>>
\* The destructor, at the end of an iteration and at break.
EndIteration(l) ==
  /\ async[l] \in {"release", "leave"}
  /\ UnlockAgain(l)
  /\ async' = [async EXCEPT ![l] = IF @ = "leave" THEN "exited" ELSE "lock"]
  /\ UNCHANGED <<lines, files, flags, logging, count, sync>>

stop(l) ==
  /\ l \in Stopped /\ ~ m_stop_flag[l]
  /\ m_stop_flag' = [m_stop_flag EXCEPT ![l] = TRUE]
  /\ UNCHANGED <<lines, files, m_type, locks, logging, count, sync, async>>

Midnight ==
  /\ day < Days
  /\ day' = day + 1
  /\ UNCHANGED <<lines, disk, flags, locks, logging, count, sync, async>>

-----------------------------------------------------------------------------
(* Undefined behaviour.                                                    *)

\* The threads inside an access to the Logger's buffer of a log, and to the
\* queue of its AsyncLogger.  An AsyncLogger's thread has the log's name.
AtBuffer(l) == {p \in Producers : logging[p] = l}
                 \cup {s \in {"sync"} : sync.at = "swap" /\ sync.log = l}
AtQueue(l) == {s \in {"sync"} : sync.at = "push" /\ sync.log = l}
                \cup {s \in {l} : async[l] = "check"}

Alone(threads) == \A s, t \in threads : s = t

\* From here on nothing is known.
Undefined == \E l \in Logs : ~ Alone(AtBuffer(l)) \/ ~ Alone(AtQueue(l))

-----------------------------------------------------------------------------
Producer(p) == PrintLog(p) \/ (\E l \in Used : StartLog(p, l)) \/ PushLog(p)

SyncThread == SyncLoop \/ LockForApp \/ Swap \/ LockQueue \/ PushLogBuffer
              \/ Signal \/ EndPush \/ EndSync

AsyncThread(l) == LockAsync(l) \/ Wait(l) \/ TakeBatch(l) \/ WriteBatch(l)
                  \/ EndIteration(l)

Next ==
  /\ ~ Undefined
  /\ \/ \E p \in Producers : Producer(p)
     \/ SyncThread
     \/ \E l \in Logs : AsyncThread(l) \/ WakeSpuriously(l) \/ stop(l)
     \/ Midnight

SafetySpec == Init /\ [][Next]_vars

\* The event loop runs its timer event again and again, the threads of the
\* AsyncLoggers are scheduled, and a thread that is inside a log call goes on.
\* A thread that waits for a mutex which is free again and again gets it (the
\* thread of an AsyncLogger may wake without a signal as often as it likes).
Fairness ==
  /\ SF_vars(~ Undefined /\ LockQueue)
  /\ WF_vars(~ Undefined /\ SyncThread)
  /\ \A l \in Logs : WF_vars(~ Undefined /\ AsyncThread(l))
  /\ \A p \in Producers : WF_vars(~ Undefined /\ PushLog(p))

Spec == SafetySpec /\ Fairness

-----------------------------------------------------------------------------
(* Properties.                                                             *)

\* log.cc: the lines of a log on their way from the thread that logs them to
\* the file, oldest first.
Underway(l) == batch[l] \o queue[l] \o tmp_vec[l] \o m_buffer[l]

Rpc == INSTANCE LogStream
         WITH lines <- written["rpc"] \o Underway("rpc"),
              written <- Len(written["rpc"])
App == INSTANCE LogStream
         WITH lines <- written["app"] \o Underway("app"),
              written <- Len(written["app"])

\* log.cc:49-72, 202-292: until two threads meet in a buffer or a queue, every
\* line pushed to either log is written once, in the order of the pushes, by
\* whatever of syncLoop, the AsyncLogger's thread and other threads interleave.
LinesInOrder == Rpc!Spec /\ App!Spec

\* log.cc:211-214, 302-310: the thread of an AsyncLogger does not sleep on lines
\* in its queue: whoever pushed them has yet to signal.
NoLostSignal ==
  \A l \in Logs : async[l] = "asleep" /\ queue[l] # <<>> =>
    sync = [at |-> "signal", log |-> l]

\* mutex.h:17-36: the second unlock of a ScopeMutex is the only way for two
\* threads to meet in the critical section of one mutex; and until it unlocks
\* for another thread, only the app buffer, which is swapped under the wrong
\* mutex, is accessed by two threads at once.
OnlySecondUnlockHarms ==
  ~ stolen => /\ Alone(AtBuffer("rpc"))
              /\ \A l \in Logs : Alone(AtQueue(l))
              /\ Alone(AtBuffer("app") \ {"sync"})

\* README.md:8, thread safety: no two threads access a buffer or a queue at
\* the same time.
ThreadSafe == ~ Undefined

\* log.cc:225-267: files are opened in the order of their names, no file twice,
\* and a file was left because it was full or the date had changed.
FilesInOrder ==
  \A l \in Logs : \A i \in 1 .. Len(disk[l]) - 1 :
    LET f == disk[l][i]
        g == disk[l][i + 1]
    IN \/ g.date = f.date /\ g.no = f.no + 1 /\ f.size > m_max_file_size
       \/ g.date > f.date /\ g.no = 0

\* log.cc:49-72: a line that was pushed is written, unless its AsyncLogger was
\* stopped or two threads met; printing loggers aside, whose app log nobody
\* empties.
LineWritten ==
  \A l \in Logs : \A line \in Line :
    m_type = 1 /\ (\E i \in 1 .. Len(m_buffer[l]) : m_buffer[l][i] = line)
      ~> \/ \E i \in 1 .. Len(written[l]) : written[l][i] = line
         \/ m_stop_flag[l]
         \/ Undefined

\* log.cc:281-292: a stopped AsyncLogger with lines left ends.
StopEndsLogger ==
  \A l \in Logs : m_stop_flag[l] /\ queue[l] # <<>>
                    ~> async[l] = "exited" \/ Undefined
=============================================================================
