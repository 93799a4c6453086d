---------------------------- MODULE LoggerProofs ----------------------------
(***************************************************************************)
(* Proofs about Logger, for any number of producers and lines, any limits  *)
(* of the files and any dates.                                             *)
(***************************************************************************)
EXTENDS Logger, SequenceTheorems, TLAPS

USE DEF Logs

File == [date : 1 .. Days, no : Nat, size : Nat]

-----------------------------------------------------------------------------
(* Sequences.                                                              *)

\* A batch and what it leaves in the queue are the queue.
LEMMA TakenAndLeft ==
  ASSUME NEW S, NEW q \in Seq(S), NEW n \in 1 .. Len(q)
  PROVE  /\ SubSeq(q, 1, n) \in Seq(S)
         /\ SubSeq(q, n + 1, Len(q)) \in Seq(S)
         /\ SubSeq(q, 1, n) \o SubSeq(q, n + 1, Len(q)) = q
<1>1. /\ Len(q) \in Nat
      /\ \A i \in 1 .. Len(q) : q[i] \in S
  BY LenProperties
<1>2. SubSeq(q, 1, n) \in Seq(S) /\ SubSeq(q, n + 1, Len(q)) \in Seq(S)
  BY <1>1, SubSeqProperties
<1>3. SubSeq(q, 1, n) \o SubSeq(q, n + 1, Len(q)) = SubSeq(q, 1, Len(q))
  BY <1>1, ConcatAdjacentSubSeq
<1> QED
  BY <1>2, <1>3, SubSeqFull

\* The files of a log after a batch.
LEMMA DatedType ==
  ASSUME Typed, NEW opened \in Seq(File)
  PROVE  Dated(opened) \in Seq(File) /\ Dated(opened) # <<>>
<1>1. New(day, 0) \in File
  BY DEF New, File, Typed
<1>2. Append(opened, New(day, 0)) \in Seq(File) /\ Append(opened, New(day, 0)) # <<>>
  BY <1>1, AppendProperties
<1> QED
  BY <1>2 DEF Dated

LEMMA NewestType ==
  ASSUME NEW opened \in Seq(File), opened # <<>>
  PROVE  Len(opened) \in 1 .. Len(opened) /\ Newest(opened) \in File
BY LenProperties, EmptySeq DEF Newest

LEMMA RolledType ==
  ASSUME Typed, NEW opened \in Seq(File), opened # <<>>
  PROVE  Rolled(opened) \in Seq(File) /\ Rolled(opened) # <<>>
<1>1. New(day, Newest(opened).no + 1) \in File
  <2>1. Newest(opened).no \in Nat
    BY NewestType DEF File
  <2>2. day \in 1 .. Days /\ Newest(opened).no + 1 \in Nat
    BY <2>1 DEF Typed
  <2> QED
    BY <2>2 DEF New, File
<1>2. /\ Append(opened, New(day, Newest(opened).no + 1)) \in Seq(File)
      /\ Append(opened, New(day, Newest(opened).no + 1)) # <<>>
  BY <1>1, AppendProperties
<1> QED
  BY <1>2 DEF Rolled

LEMMA FillType ==
  ASSUME NEW opened \in Seq(File), opened # <<>>, NEW n \in Nat
  PROVE  /\ Fill(opened, n) \in Seq(File)
         /\ Len(Fill(opened, n)) = Len(opened)
         /\ \A i \in 1 .. Len(opened) :
              Fill(opened, n)[i] = IF i = Len(opened)
                                     THEN Grown(Newest(opened), n)
                                     ELSE opened[i]
<1> DEFINE f == Grown(Newest(opened), n)
<1>1. Newest(opened) \in File /\ Len(opened) \in 1 .. Len(opened)
  BY NewestType
<1>2. f \in File
  BY <1>1 DEF File, Grown
<1> HIDE DEF f
<1>3. /\ [opened EXCEPT ![Len(opened)] = f] \in Seq(File)
      /\ Len([opened EXCEPT ![Len(opened)] = f]) = Len(opened)
      /\ \A j \in 1 .. Len(opened) :
           [opened EXCEPT ![Len(opened)] = f][j] = IF j = Len(opened) THEN f ELSE opened[j]
  BY <1>1, <1>2, ExceptSeq
<1> QED
  BY <1>3 DEF f, Fill

-----------------------------------------------------------------------------
(* Types.                                                                  *)

LEMMA InitType == Init => Typed
<1> SUFFICES ASSUME Init PROVE Typed
  OBVIOUS
<1>1. \A S : <<>> \in Seq(S)
  BY EmptySeq
<1>2. \A S : [l \in Logs |-> <<>>] \in [Logs -> Seq(S)]
  BY <1>1
<1>3. day \in 1 .. Days
  BY LoggerAssumption DEF Init
<1>4. count \in [Producers -> 0 .. MaxLines]
  BY LoggerAssumption DEF Init
<1> QED
  BY <1>2, <1>3, <1>4 DEF Init, Typed

LEMMA NextLineType ==
  ASSUME Typed, NEW p \in Producers, count[p] < MaxLines
  PROVE  NextLine(p) \in Line /\ count[p] + 1 \in 0 .. MaxLines
<1>1. MaxLines \in Nat
  BY LoggerAssumption
<1>2. count[p] \in 0 .. MaxLines
  BY DEF Typed
<1> QED
  BY <1>1, <1>2 DEF NextLine, Line

\* A log whose lock is held has a line to push.
Counted == \A p \in Producers : logging[p] # "idle" => count[p] < MaxLines

LEMMA StepType == Typed /\ Counted /\ [Next]_vars => Typed' /\ Counted'
<1> SUFFICES ASSUME Typed, Counted, [Next]_vars PROVE Typed' /\ Counted'
  OBVIOUS
<1> USE DEF lines, files, flags, locks
<1>1. ASSUME NEW p \in Producers, PrintLog(p) PROVE Typed' /\ Counted'
  <2>1. NextLine(p) \in Line /\ count[p] + 1 \in 0 .. MaxLines
    BY <1>1, NextLineType DEF PrintLog
  <2>2. Append(written["rpc"], NextLine(p)) \in Seq(Line)
    BY <2>1, AppendProperties DEF Typed
  <2>3. written' \in [Logs -> Seq(Line)] /\ count' \in [Producers -> 0 .. MaxLines]
    BY <1>1, <2>1, <2>2 DEF PrintLog, Typed
  <2>4. Counted'
    BY <1>1 DEF PrintLog, Counted, Typed
  <2> QED
    BY <1>1, <2>3, <2>4 DEF PrintLog, Typed
<1>2. ASSUME NEW p \in Producers, NEW l \in Used, StartLog(p, l) PROVE Typed' /\ Counted'
  <2>1. l \in Logs /\ MutexOf(l) \in Mutex
    BY LoggerAssumption DEF MutexOf, Mutex
  <2>2. Counted'
    BY <1>2 DEF StartLog, Counted, Typed
  <2> QED
    BY <1>2, <2>1, <2>2 DEF StartLog, Lock, Typed
<1>3. ASSUME NEW p \in Producers, PushLog(p) PROVE Typed' /\ Counted'
  <2> PICK l \in Logs : PushLog(p)!(l)
    BY <1>3 DEF PushLog
  <2>1. NextLine(p) \in Line /\ count[p] + 1 \in 0 .. MaxLines
    BY NextLineType DEF Counted
  <2>2. Append(m_buffer[l], NextLine(p)) \in Seq(Line)
    BY <2>1, AppendProperties DEF Typed
  <2>3. m_buffer' \in [Logs -> Seq(Line)] /\ count' \in [Producers -> 0 .. MaxLines]
    BY <2>1, <2>2 DEF Typed
  <2>4. locked' \in [Mutex -> BOOLEAN] /\ logging' \in [Producers -> Logs \cup {"idle"}]
    BY DEF Unlock, Typed
  <2>5. Counted'
    BY DEF Counted, Typed
  <2> QED
    BY <2>3, <2>4, <2>5 DEF Unlock, Typed
<1>4. ASSUME NEW m \in Mutex, Lock(m)
      PROVE  locked' \in [Mutex -> BOOLEAN] /\ stolen' \in BOOLEAN
  BY <1>4 DEF Lock, Typed
<1>5. ASSUME NEW m \in Mutex, Unlock(m) \/ UnlockAgain(m)
      PROVE  locked' \in [Mutex -> BOOLEAN] /\ stolen' \in BOOLEAN
  BY <1>5 DEF Unlock, UnlockAgain, Typed
<1>6. /\ \A l \in Logs : l \in Mutex
      /\ "m_mutex" \in Mutex
      /\ sync.log \in Logs
  BY DEF Mutex, Typed
<1> DEFINE Place == {"idle", "lock", "swap", "lockQueue", "push", "signal", "release", "end"}
<1>7. ASSUME NEW place \in Place, NEW l \in Logs, GoTo(place, l) \/ GoOn(l)
      PROVE  sync' \in [at : Place, log : Logs]
  BY <1>7 DEF GoTo, GoOn
<1>8. CASE SyncLoop
  BY <1>4, <1>6, <1>7, <1>8 DEF SyncLoop, Typed, Counted
<1>9. CASE LockForApp
  BY <1>4, <1>6, <1>7, <1>9 DEF LockForApp, Typed, Counted
<1>10. CASE Swap
  <2>1. sync' \in [at : Place, log : Logs]
    BY <1>6, <1>7, <1>10 DEF Swap
  <2>2. tmp_vec' \in [Logs -> Seq(Line)] /\ m_buffer' \in [Logs -> Seq(Line)]
    BY <1>6, <1>10 DEF Swap, Typed
  <2> QED
    BY <1>5, <1>6, <1>10, <2>1, <2>2 DEF Swap, Typed, Counted
<1>11. CASE LockQueue
  BY <1>4, <1>6, <1>7, <1>11 DEF LockQueue, Typed, Counted
<1>12. CASE PushLogBuffer
  <2>1. sync' \in [at : Place, log : Logs]
    BY <1>6, <1>7, <1>12 DEF PushLogBuffer
  <2>2. queue[sync.log] \o tmp_vec[sync.log] \in Seq(Line)
    BY <1>6, ConcatProperties DEF Typed
  <2>3. queue' \in [Logs -> Seq(Line)] /\ tmp_vec' \in [Logs -> Seq(Line)]
    BY <1>6, <1>12, <2>2, EmptySeq DEF PushLogBuffer, Typed
  <2> QED
    BY <1>5, <1>6, <1>12, <2>1, <2>3 DEF PushLogBuffer, Typed, Counted
<1>13. CASE Signal
  BY <1>6, <1>7, <1>13 DEF Signal, Typed, Counted
<1>14. CASE EndPush
  BY <1>5, <1>6, <1>7, <1>14 DEF EndPush, Typed, Counted
<1>15. CASE EndSync
  BY <1>5, <1>6, <1>7, <1>15 DEF EndSync, Typed, Counted
<1>16. ASSUME NEW l \in Logs, LockAsync(l) PROVE Typed' /\ Counted'
  BY <1>4, <1>6, <1>16 DEF LockAsync, Typed, Counted
<1>17. ASSUME NEW l \in Logs, Wait(l) PROVE Typed' /\ Counted'
  BY <1>5, <1>6, <1>17 DEF Wait, Typed, Counted
<1>18. ASSUME NEW l \in Logs, WakeSpuriously(l) PROVE Typed' /\ Counted'
  BY <1>18 DEF WakeSpuriously, Typed, Counted
<1>19. ASSUME NEW l \in Logs, TakeBatch(l) PROVE Typed' /\ Counted'
  <2> PICK n \in 1 .. Len(queue[l]) :
         /\ batch' = [batch EXCEPT ![l] = SubSeq(queue[l], 1, n)]
         /\ queue' = [queue EXCEPT ![l] = SubSeq(queue[l], n + 1, Len(queue[l]))]
    BY <1>19 DEF TakeBatch
  <2>1. /\ SubSeq(queue[l], 1, n) \in Seq(Line)
        /\ SubSeq(queue[l], n + 1, Len(queue[l])) \in Seq(Line)
    BY TakenAndLeft DEF Typed
  <2>2. queue' \in [Logs -> Seq(Line)] /\ batch' \in [Logs -> Seq(Line)]
    BY <2>1 DEF Typed
  <2> QED
    BY <1>5, <1>6, <1>19, <2>2 DEF TakeBatch, Typed, Counted
<1>20. ASSUME NEW l \in Logs, WriteBatch(l) PROVE Typed' /\ Counted'
  <2>1. written[l] \o batch[l] \in Seq(Line) /\ Len(batch[l]) \in Nat
    BY ConcatProperties, LenProperties DEF Typed
  <2>2. Fill(Rolled(Dated(disk[l])), Len(batch[l])) \in Seq(File)
    <3>1. disk[l] \in Seq(File)
      BY DEF Typed, File
    <3>2. Dated(disk[l]) \in Seq(File) /\ Dated(disk[l]) # <<>>
      BY <3>1, DatedType
    <3>3. Rolled(Dated(disk[l])) \in Seq(File) /\ Rolled(Dated(disk[l])) # <<>>
      BY <3>2, RolledType
    <3> QED
      BY <2>1, <3>3, FillType
  <2>3. /\ written' \in [Logs -> Seq(Line)]
        /\ batch' \in [Logs -> Seq(Line)]
        /\ disk' \in [Logs -> Seq(File)]
    BY <1>20, <2>1, <2>2, EmptySeq DEF WriteBatch, Typed, File
  <2> QED
    BY <1>20, <2>3 DEF WriteBatch, Typed, Counted, File
<1>21. ASSUME NEW l \in Logs, EndIteration(l) PROVE Typed' /\ Counted'
  BY <1>5, <1>6, <1>21 DEF EndIteration, Typed, Counted
<1>22. ASSUME NEW l \in Logs, stop(l) PROVE Typed' /\ Counted'
  BY <1>22 DEF stop, Typed, Counted
<1>23. CASE Midnight
  BY <1>23, LoggerAssumption DEF Midnight, Typed, Counted
<1>24. CASE UNCHANGED vars
  BY <1>24 DEF vars, Typed, Counted
<1> QED
  BY <1>1, <1>2, <1>3, <1>8, <1>9, <1>10, <1>11, <1>12, <1>13, <1>14, <1>15, <1>16,
     <1>17, <1>18, <1>19, <1>20, <1>21, <1>22, <1>23, <1>24
     DEF Next, Producer, SyncThread, AsyncThread

LEMMA TypedAlways == SafetySpec => [](Typed /\ Counted)
<1>1. Init => Typed /\ Counted
  BY InitType DEF Init, Counted
<1>2. Typed /\ Counted /\ [Next]_vars => (Typed /\ Counted)'
  BY StepType
<1> QED
  BY <1>1, <1>2, PTL DEF SafetySpec

LEMMA StepPrints == Typed /\ PrintsOnly /\ [Next]_vars => PrintsOnly'
<1> SUFFICES ASSUME Typed, PrintsOnly, [Next]_vars, m_type' = 0 PROVE PrintsOnly'
  BY DEF PrintsOnly
<1> USE DEF lines, files, flags, locks
<1>1. m_type' = m_type
  BY DEF Next, Producer, PrintLog, StartLog, PushLog, SyncThread, SyncLoop, LockForApp, Swap,
     LockQueue, PushLogBuffer, Signal, EndPush, EndSync, AsyncThread, LockAsync, Wait,
     WakeSpuriously, TakeBatch, WriteBatch, EndIteration, stop, Midnight, vars
<1>2. /\ m_type = 0 /\ sync.at = "idle" /\ m_buffer["rpc"] = <<>>
      /\ \A l \in Logs : async[l] = "exited"
      /\ \A p \in Producers : logging[p] # "rpc"
  BY <1>1 DEF PrintsOnly
<1>3. CASE UNCHANGED <<m_buffer, logging, sync, async>>
  BY <1>2, <1>3 DEF PrintsOnly
<1>4. ASSUME NEW p \in Producers, NEW l \in Used, StartLog(p, l) PROVE PrintsOnly'
  <2>1. l # "rpc" /\ logging' = [logging EXCEPT ![p] = l]
        /\ UNCHANGED <<m_buffer, sync, async>>
    BY <1>2, <1>4 DEF StartLog
  <2>2. \A q \in Producers : logging'[q] # "rpc"
    BY <1>2, <2>1 DEF Typed
  <2> QED
    BY <1>2, <2>1, <2>2 DEF PrintsOnly
<1>5. ASSUME NEW p \in Producers, PushLog(p) PROVE PrintsOnly'
  <2> PICK l \in Logs : PushLog(p)!(l)
    BY <1>5 DEF PushLog
  <2>1. l # "rpc"
    BY <1>2
  <2>2. m_buffer'["rpc"] = m_buffer["rpc"] /\ \A q \in Producers : logging'[q] # "rpc"
    BY <1>2, <2>1 DEF Typed
  <2> QED
    BY <1>2, <2>2 DEF PrintsOnly
<1>6. ~ SyncThread
  BY <1>2 DEF SyncThread, SyncLoop, LockForApp, Swap, LockQueue, PushLogBuffer, Signal, EndPush,
     EndSync
<1>7. \A l \in Logs : ~ AsyncThread(l) /\ ~ WakeSpuriously(l)
  BY <1>2 DEF AsyncThread, LockAsync, Wait, TakeBatch, WriteBatch, EndIteration, WakeSpuriously
<1> QED
  BY <1>3, <1>4, <1>5, <1>6, <1>7 DEF Next, Producer, PrintLog, stop, Midnight, vars

\* Every reachable state is well typed, and a logger that prints does nothing else.
THEOREM TypeCorrect == SafetySpec => []TypeOK
<1>1. Init => PrintsOnly
  BY DEF Init, PrintsOnly, Logs
<1>2. Typed /\ PrintsOnly => TypeOK
  BY DEF TypeOK
<1> QED
  BY <1>1, <1>2, StepPrints, TypedAlways, PTL DEF SafetySpec

-----------------------------------------------------------------------------
(* The thread of an AsyncLogger sleeps only on an empty queue.             *)

LEMMA StepSignal == Typed /\ NoLostSignal /\ [Next]_vars => NoLostSignal'
<1> SUFFICES ASSUME Typed, NoLostSignal, [Next]_vars,
                    NEW l \in Logs, async'[l] = "asleep", queue'[l] # <<>>
             PROVE  sync' = [at |-> "signal", log |-> l]
  BY DEF NoLostSignal
<1> USE DEF lines, files, flags, locks
<1>1. async[l] = "asleep" /\ queue[l] # <<>> => sync = [at |-> "signal", log |-> l]
  BY DEF NoLostSignal
<1>2. CASE UNCHANGED <<async, queue, sync>>
  BY <1>1, <1>2
<1>3. CASE UNCHANGED <<async, queue>> /\ sync.at # "signal"
  BY <1>1, <1>3
<1>4. CASE PushLogBuffer
  BY <1>1, <1>4 DEF PushLogBuffer, GoTo, Typed
<1>5. CASE Signal
  BY <1>1, <1>5 DEF Signal, GoTo, Typed
<1>6. ASSUME NEW k \in Logs, AsyncThread(k) PROVE sync' = [at |-> "signal", log |-> l]
  <2>1. UNCHANGED sync
    BY <1>6 DEF AsyncThread, LockAsync, Wait, TakeBatch, WriteBatch, EndIteration
  <2>2. async[l] = "asleep" /\ queue[l] # <<>>
    BY <1>6 DEF AsyncThread, LockAsync, Wait, TakeBatch, WriteBatch, EndIteration, Typed
  <2> QED
    BY <1>1, <2>1, <2>2
<1>7. ASSUME NEW k \in Logs, WakeSpuriously(k) PROVE sync' = [at |-> "signal", log |-> l]
  BY <1>1, <1>7 DEF WakeSpuriously, Typed
<1> QED
  BY <1>2, <1>3, <1>4, <1>5, <1>6, <1>7
     DEF Next, Producer, PrintLog, StartLog, PushLog, SyncThread, SyncLoop, LockForApp, Swap,
         LockQueue, EndPush, EndSync, stop, Midnight, vars

\* Nobody's signal is lost.
THEOREM SignalNotLost == SafetySpec => []NoLostSignal
<1>1. Init => NoLostSignal
  BY DEF Init, NoLostSignal
<1> QED
  BY <1>1, StepSignal, TypedAlways, PTL DEF SafetySpec

-----------------------------------------------------------------------------
(* Mutual exclusion, as long as no second unlock takes a mutex from its    *)
(* holder.                                                                 *)

\* Who is inside a critical section holds its mutex, alone.
Exclusion ==
  /\ \A p \in Producers : logging[p] # "idle" => locked[MutexOf(logging[p])]
  /\ \A p, q \in Producers : logging[p] # "idle" /\ logging[p] = logging[q] => p = q
  /\ sync.at = "swap" =>
       locked["m_mutex"] /\ \A p \in Producers : logging[p] # "rpc"
  /\ sync.at = "push" => locked[sync.log] /\ async[sync.log] # "check"
  /\ \A l \in Logs : async[l] = "check" => locked[l]

MutexInv == ~ stolen => Exclusion

\* A second unlock that unlocks for nobody changes nothing.
LEMMA SecondUnlock ==
  ASSUME Typed, NEW m \in Mutex, UnlockAgain(m), ~ stolen'
  PROVE  UNCHANGED <<locked, stolen>>
<1>1. /\ locked' = [locked EXCEPT ![m] = FALSE]
      /\ stolen' = (stolen \/ locked[m])
  BY DEF UnlockAgain
<1>2. locked \in [Mutex -> BOOLEAN] /\ stolen \in BOOLEAN
  BY DEF Typed
<1>3. ~ locked[m] /\ ~ stolen
  BY <1>1
<1>4. locked[m] = FALSE /\ stolen = FALSE
  BY <1>2, <1>3
<1>5. locked' = locked
  BY <1>1, <1>2, <1>4
<1>6. stolen' = stolen
  BY <1>1, <1>4
<1> QED
  BY <1>5, <1>6

LEMMA StepMutex == Typed /\ MutexInv /\ [Next]_vars => MutexInv'
<1> SUFFICES ASSUME Typed, MutexInv, [Next]_vars, ~ stolen' PROVE Exclusion'
  BY DEF MutexInv
<1> USE DEF lines, files, flags, locks
<1>1. /\ locked \in [Mutex -> BOOLEAN]
      /\ logging \in [Producers -> Logs \cup {"idle"}]
      /\ sync.log \in Logs
      /\ async \in [Logs -> {"lock", "check", "asleep", "write", "release",
                              "leave", "exited"}]
      /\ stolen \in BOOLEAN
  BY DEF Typed
<1>2. /\ \A l \in Logs : l \in Mutex /\ MutexOf(l) \in Mutex /\ MutexOf(l) \notin Logs
      /\ "m_mutex" \in Mutex /\ "m_mutex" \notin Logs
      /\ MutexOf("rpc") = "m_mutex" /\ MutexOf("app") # "m_mutex"
      /\ "idle" \notin Logs
  BY DEF Mutex, MutexOf
<1>3. \A k, l \in Logs : MutexOf(k) = MutexOf(l) => k = l
  BY DEF MutexOf
<1>4. CASE UNCHANGED <<locks, logging, sync, async>>
  BY <1>4 DEF MutexInv, Exclusion
<1>5. CASE /\ UNCHANGED <<locks, logging, async>>
           /\ sync.at # "swap" /\ sync'.at \notin {"swap", "push"}
  BY <1>5 DEF MutexInv, Exclusion
<1>6. ASSUME NEW l \in Logs, UNCHANGED <<locks, logging, sync>>,
             async' \in [Logs -> {"lock", "check", "asleep", "write", "release",
                                  "leave", "exited"}],
             \A k \in Logs : async'[k] = "check" => async[k] = "check"
      PROVE  Exclusion'
  BY <1>1, <1>6 DEF MutexInv, Exclusion
<1>7. ASSUME NEW p \in Producers, NEW l \in Used, StartLog(p, l) PROVE Exclusion'
  <2>1. l \in Logs
    BY LoggerAssumption
  <2>2. ~ stolen /\ ~ locked[MutexOf(l)]
    BY <1>7 DEF StartLog, Lock
  <2>3. \A q \in Producers : logging[q] # l
    BY <1>2, <2>1, <2>2 DEF MutexInv, Exclusion
  <2>4. sync.at = "swap" => l # "rpc"
    BY <1>2, <2>2 DEF MutexInv, Exclusion
  <2>5. /\ locked' = [locked EXCEPT ![MutexOf(l)] = TRUE]
        /\ logging' = [logging EXCEPT ![p] = l]
        /\ UNCHANGED <<sync, async>>
    BY <1>7 DEF StartLog, Lock
  <2> QED
    BY <1>1, <1>2, <2>1, <2>2, <2>3, <2>4, <2>5 DEF MutexInv, Exclusion
<1>8. ASSUME NEW p \in Producers, PushLog(p) PROVE Exclusion'
  <2> PICK l \in Logs : PushLog(p)!(l)
    BY <1>8 DEF PushLog
  <2>1. /\ logging[p] = l
        /\ locked' = [locked EXCEPT ![MutexOf(l)] = FALSE]
        /\ logging' = [logging EXCEPT ![p] = "idle"]
        /\ UNCHANGED <<stolen, sync, async>>
    BY DEF Unlock
  <2>2. \A q \in Producers : q # p => logging[q] # l
    BY <1>2, <2>1 DEF MutexInv, Exclusion
  <2>3. sync.at = "swap" => l # "rpc"
    BY <2>1 DEF MutexInv, Exclusion
  <2> QED
    BY <1>1, <1>2, <1>3, <2>1, <2>2, <2>3 DEF MutexInv, Exclusion
<1>9. CASE SyncLoop \/ LockForApp
  <2>1. /\ ~ locked["m_mutex"]
        /\ locked' = [locked EXCEPT !["m_mutex"] = TRUE]
        /\ sync'.at = "swap"
        /\ UNCHANGED <<stolen, logging, async>>
    BY <1>9 DEF SyncLoop, LockForApp, Lock, GoTo
  <2>2. \A p \in Producers : logging[p] # "rpc"
    BY <1>2, <2>1 DEF MutexInv, Exclusion
  <2> QED
    BY <1>1, <1>2, <2>1, <2>2 DEF MutexInv, Exclusion
<1>10. CASE Swap
  <2>1. /\ sync.at = "swap"
        /\ locked' = [locked EXCEPT !["m_mutex"] = FALSE]
        /\ sync'.at \notin {"swap", "push"}
        /\ UNCHANGED <<stolen, logging, async>>
    BY <1>10 DEF Swap, Unlock, GoTo, GoOn
  <2>2. \A p \in Producers : logging[p] # "rpc"
    BY <2>1 DEF MutexInv, Exclusion
  <2>3. \A p \in Producers : logging[p] # "idle" => MutexOf(logging[p]) # "m_mutex"
    BY <1>1, <2>2 DEF MutexOf
  <2> QED
    BY <1>1, <1>2, <2>1, <2>2, <2>3 DEF MutexInv, Exclusion
<1>11. CASE LockQueue
  <2>1. /\ ~ locked[sync.log]
        /\ locked' = [locked EXCEPT ![sync.log] = TRUE]
        /\ sync' = [at |-> "push", log |-> sync.log]
        /\ UNCHANGED <<stolen, logging, async>>
    BY <1>11 DEF LockQueue, Lock, GoTo
  <2>2. async[sync.log] # "check"
    BY <1>1, <2>1 DEF MutexInv, Exclusion
  <2> QED
    BY <1>1, <1>2, <2>1, <2>2 DEF MutexInv, Exclusion
<1>12. CASE PushLogBuffer
  <2>1. /\ sync.at = "push"
        /\ locked' = [locked EXCEPT ![sync.log] = FALSE]
        /\ sync' = [at |-> "signal", log |-> sync.log]
        /\ UNCHANGED <<stolen, logging, async>>
    BY <1>12 DEF PushLogBuffer, Unlock, GoTo
  <2>2. async[sync.log] # "check"
    BY <2>1 DEF MutexInv, Exclusion
  <2> QED
    BY <1>1, <1>2, <2>1, <2>2 DEF MutexInv, Exclusion
<1>13. CASE Signal
  <2>1. /\ sync' = [at |-> "release", log |-> sync.log]
        /\ async' = [async EXCEPT ![sync.log] = IF @ = "asleep" THEN "lock" ELSE @]
        /\ UNCHANGED <<locks, logging>>
    BY <1>13 DEF Signal, GoTo
  <2> QED
    BY <1>1, <2>1 DEF MutexInv, Exclusion
<1>14. CASE EndPush
  <2>1. UnlockAgain(sync.log)
    BY <1>14 DEF EndPush
  <2>2. sync.log \in Mutex
    BY <1>1, <1>2
  <2>3. UNCHANGED <<locked, stolen>>
    BY <2>1, <2>2, SecondUnlock
  <2> QED
    BY <1>5, <1>14, <2>3 DEF EndPush, GoOn, GoTo
<1>15. CASE EndSync
  <2>1. UNCHANGED <<locked, stolen>>
    <3>1. UnlockAgain("m_mutex") /\ "m_mutex" \in Mutex
      BY <1>2, <1>15 DEF EndSync
    <3> QED
      BY <3>1, SecondUnlock
  <2> QED
    BY <1>5, <1>15, <2>1 DEF EndSync, GoTo
<1>16. ASSUME NEW l \in Logs, LockAsync(l) PROVE Exclusion'
  <2>1. /\ ~ locked[l]
        /\ locked' = [locked EXCEPT ![l] = TRUE]
        /\ async' = [async EXCEPT ![l] = "check"]
        /\ UNCHANGED <<stolen, logging, sync>>
    BY <1>16 DEF LockAsync, Lock
  <2>2. sync.at = "push" => sync.log # l
    BY <2>1 DEF MutexInv, Exclusion
  <2> QED
    BY <1>1, <1>2, <2>1, <2>2 DEF MutexInv, Exclusion
<1>17. ASSUME NEW l \in Logs, Wait(l) \/ TakeBatch(l) PROVE Exclusion'
  <2>1. /\ async[l] = "check"
        /\ locked' = [locked EXCEPT ![l] = FALSE]
        /\ async' = [async EXCEPT ![l] = "asleep"] \/ async' = [async EXCEPT ![l] = "write"]
        /\ UNCHANGED <<stolen, logging, sync>>
    BY <1>17 DEF Wait, TakeBatch, Unlock
  <2>2. sync.at = "push" => sync.log # l
    BY <2>1 DEF MutexInv, Exclusion
  <2> QED
    BY <1>1, <1>2, <2>1, <2>2 DEF MutexInv, Exclusion
<1>18. ASSUME NEW l \in Logs, WakeSpuriously(l) \/ WriteBatch(l) PROVE Exclusion'
  <2>1. /\ UNCHANGED <<locks, logging, sync>>
        /\ \/ async' = [async EXCEPT ![l] = "lock"]
           \/ async' = [async EXCEPT ![l] = "leave"]
           \/ async' = [async EXCEPT ![l] = "release"]
    BY <1>18 DEF WakeSpuriously, WriteBatch
  <2> QED
    BY <1>1, <1>6, <2>1
<1>19. ASSUME NEW l \in Logs, EndIteration(l) PROVE Exclusion'
  <2>1. UNCHANGED <<locked, stolen>>
    <3>1. UnlockAgain(l) /\ l \in Mutex
      BY <1>2, <1>19 DEF EndIteration
    <3> QED
      BY <3>1, SecondUnlock
  <2> QED
    BY <1>1, <1>6, <1>19, <2>1 DEF EndIteration
<1> QED
  BY <1>4, <1>7, <1>8, <1>9, <1>10, <1>11, <1>12, <1>13, <1>14, <1>15, <1>16,
     <1>17, <1>18, <1>19
     DEF Next, Producer, PrintLog, SyncThread, AsyncThread, stop, Midnight, vars

\* Only the second unlock of a ScopeMutex lets two threads into a critical
\* section.
THEOREM SecondUnlockIsTheHarm == SafetySpec => []OnlySecondUnlockHarms
<1>1. Init => MutexInv
  BY DEF Init, MutexInv, Exclusion
<1>2. Typed /\ MutexInv => OnlySecondUnlockHarms
  <2> SUFFICES ASSUME Typed, Exclusion, ~ stolen PROVE OnlySecondUnlockHarms
    BY DEF MutexInv, OnlySecondUnlockHarms
  <2>1. Alone(AtBuffer("rpc"))
    BY DEF Exclusion, Alone, AtBuffer
  <2>2. ASSUME NEW l \in Logs PROVE Alone(AtQueue(l))
    BY DEF Exclusion, Alone, AtQueue
  <2>3. Alone(AtBuffer("app") \ {"sync"})
    BY DEF Exclusion, Alone, AtBuffer
  <2> QED
    BY <2>1, <2>2, <2>3 DEF OnlySecondUnlockHarms
<1> QED
  BY <1>1, <1>2, StepMutex, TypedAlways, PTL DEF SafetySpec

-----------------------------------------------------------------------------
(* The files.                                                              *)

\* What FilesInOrder says of two files, one opened after the other.
Follows(f, g) ==
  \/ g.date = f.date /\ g.no = f.no + 1 /\ f.size > m_max_file_size
  \/ g.date > f.date /\ g.no = 0

Ordered(opened) ==
  /\ \A i \in 1 .. Len(opened) - 1 : Follows(opened[i], opened[i + 1])
  /\ \A i \in 1 .. Len(opened) : opened[i].date <= day

FileInv == \A l \in Logs : Ordered(disk[l])

LEMMA AppendOrdered ==
  ASSUME NEW opened \in Seq(File), Ordered(opened), NEW g \in File,
         opened # <<>> => Follows(Newest(opened), g), g.date <= day
  PROVE  Ordered(Append(opened, g))
<1>1. /\ Len(opened) \in Nat
      /\ Len(Append(opened, g)) = Len(opened) + 1
      /\ \A i \in 1 .. Len(opened) : Append(opened, g)[i] = opened[i]
      /\ Append(opened, g)[Len(opened) + 1] = g
  BY LenProperties, AppendProperties
<1>2. opened # <<>> => Follows(opened[Len(opened)], g)
  BY DEF Newest
<1>3. Len(opened) # 0 => opened # <<>>
  BY EmptySeq
<1> QED
  BY <1>1, <1>2, <1>3 DEF Ordered

LEMMA DatedOrdered ==
  ASSUME Typed, NEW opened \in Seq(File), Ordered(opened)
  PROVE  Ordered(Dated(opened))
<1>1. CASE opened = <<>> \/ Newest(opened).date # day
  <2>1. New(day, 0) \in File /\ New(day, 0).date <= day /\ day \in Nat
    BY DEF New, File, Typed
  <2>2. ASSUME opened # <<>> PROVE Follows(Newest(opened), New(day, 0))
    <3>1. Len(opened) \in 1 .. Len(opened) /\ Newest(opened) \in File
      BY <2>2, NewestType
    <3>2. Newest(opened).date <= day
      BY <3>1 DEF Ordered, Newest
    <3>3. Newest(opened).date \in Nat
      BY <3>1 DEF File
    <3> QED
      BY <1>1, <2>1, <2>2, <3>2, <3>3 DEF Follows, New
  <2> QED
    BY <1>1, <2>1, <2>2, AppendOrdered DEF Dated
<1>2. CASE ~ (opened = <<>> \/ Newest(opened).date # day)
  BY <1>2 DEF Dated
<1> QED
  BY <1>1, <1>2

LEMMA RolledOrdered ==
  ASSUME Typed, NEW opened \in Seq(File), opened # <<>>, Ordered(opened),
         Newest(opened).date = day
  PROVE  Ordered(Rolled(opened))
<1>1. Newest(opened) \in File
  BY NewestType
<1>2. CASE Newest(opened).size > m_max_file_size
  <2> DEFINE g == New(day, Newest(opened).no + 1)
  <2>1. g \in File /\ g.date <= day
    <3>1. Newest(opened).no + 1 \in Nat
      BY <1>1 DEF File
    <3>2. day \in 1 .. Days /\ day <= day
      BY DEF Typed
    <3> QED
      BY <3>1, <3>2 DEF New, File
  <2>2. Follows(Newest(opened), g)
    BY <1>2 DEF Follows, New
  <2> QED
    BY <1>2, <2>1, <2>2, AppendOrdered DEF Rolled
<1>3. CASE ~ (Newest(opened).size > m_max_file_size)
  BY <1>3 DEF Rolled
<1> QED
  BY <1>2, <1>3

\* A batch goes to a file of today.
LEMMA DatedNewest ==
  ASSUME Typed, NEW opened \in Seq(File)
  PROVE  Newest(Dated(opened)).date = day
<1>1. CASE opened = <<>> \/ Newest(opened).date # day
  <2>1. New(day, 0) \in File /\ New(day, 0).date = day
    BY DEF New, File, Typed
  <2>2. Newest(Append(opened, New(day, 0))) = New(day, 0)
    BY <2>1, AppendProperties DEF Newest
  <2> QED
    BY <1>1, <2>1, <2>2 DEF Dated
<1>2. CASE ~ (opened = <<>> \/ Newest(opened).date # day)
  BY <1>2 DEF Dated
<1> QED
  BY <1>1, <1>2

\* To grow, a file need not be left: only the last one grows.
LEMMA FillOrdered ==
  ASSUME NEW opened \in Seq(File), opened # <<>>, Ordered(opened), NEW n \in Nat
  PROVE  Ordered(Fill(opened, n))
<1>1. /\ Len(Fill(opened, n)) = Len(opened)
      /\ \A i \in 1 .. Len(opened) :
           Fill(opened, n)[i] = IF i = Len(opened)
                                  THEN Grown(Newest(opened), n)
                                  ELSE opened[i]
  BY FillType
<1>2. Len(opened) \in Nat /\ Newest(opened) = opened[Len(opened)]
  BY LenProperties DEF Newest
<1>3. Newest(opened) \in File
  BY NewestType
<1>4. /\ Grown(Newest(opened), n).date = Newest(opened).date
      /\ Grown(Newest(opened), n).no = Newest(opened).no
  BY <1>3 DEF Grown, File
<1>5. \A i \in 1 .. Len(opened) : Fill(opened, n)[i].date = opened[i].date
                                /\ Fill(opened, n)[i].no = opened[i].no
  BY <1>1, <1>2, <1>4
<1>6. \A i \in 1 .. Len(opened) - 1 : Fill(opened, n)[i].size = opened[i].size
  BY <1>1, <1>2
<1>7. ASSUME NEW i \in 1 .. Len(opened) - 1
      PROVE  Follows(Fill(opened, n)[i], Fill(opened, n)[i + 1])
  <2>1. i \in 1 .. Len(opened) /\ i + 1 \in 1 .. Len(opened)
    BY <1>2
  <2> QED
    BY <1>5, <1>6, <2>1 DEF Ordered, Follows
<1> QED
  BY <1>1, <1>5, <1>7 DEF Ordered

LEMMA StepFiles == Typed /\ FileInv /\ [Next]_vars => FileInv'
<1> SUFFICES ASSUME Typed, FileInv, [Next]_vars, NEW k \in Logs PROVE Ordered(disk[k])'
  BY DEF FileInv
<1> USE DEF lines, files, flags, locks
<1>1. Ordered(disk[k]) /\ disk[k] \in Seq(File) /\ day \in Nat
  BY DEF FileInv, Typed, File
<1>2. CASE UNCHANGED files
  BY <1>1, <1>2 DEF Ordered, Follows
<1>3. CASE Midnight
  <2>1. UNCHANGED disk /\ day' = day + 1
    BY <1>3 DEF Midnight
  <2>2. \A i \in 1 .. Len(disk[k]) : disk[k][i] \in File
    BY <1>1, LenProperties
  <2>3. \A i \in 1 .. Len(disk[k]) : disk[k][i].date <= day + 1
    BY <1>1, <2>2 DEF Ordered, File
  <2> QED
    BY <1>1, <2>1, <2>3 DEF Ordered, Follows
<1>4. ASSUME NEW l \in Logs, WriteBatch(l) PROVE Ordered(disk[k])'
  <2>1. CASE k # l
    BY <1>1, <1>4, <2>1 DEF WriteBatch, Typed, Ordered, Follows
  <2>2. CASE k = l
    <3> DEFINE dated == Dated(disk[k])
               rolled == Rolled(dated)
    <3>1. dated \in Seq(File) /\ dated # <<>> /\ Ordered(dated) /\ Newest(dated).date = day
      BY <1>1, DatedType, DatedOrdered, DatedNewest
    <3>2. rolled \in Seq(File) /\ rolled # <<>> /\ Ordered(rolled)
      BY <3>1, RolledType, RolledOrdered
    <3>3. Len(batch[k]) \in Nat
      BY LenProperties DEF Typed
    <3>4. Ordered(Fill(rolled, Len(batch[k])))
      BY <3>2, <3>3, FillOrdered
    <3>5. disk'[k] = Fill(rolled, Len(batch[k])) /\ day' = day
      BY <1>4, <2>2 DEF WriteBatch, Typed
    <3> HIDE DEF rolled
    <3> QED
      BY <3>4, <3>5 DEF Ordered, Follows
  <2> QED
    BY <2>1, <2>2
<1> QED
  BY <1>2, <1>3, <1>4
     DEF Next, Producer, PrintLog, StartLog, PushLog, SyncThread, SyncLoop, LockForApp, Swap,
         LockQueue, PushLogBuffer, Signal, EndPush, EndSync, AsyncThread, LockAsync, Wait,
         TakeBatch, EndIteration, WakeSpuriously, stop, vars

\* The files of a log are opened in the order of their names.
THEOREM FilesNeverReopened == SafetySpec => []FilesInOrder
<1>1. Init => FileInv
  BY EmptySeq DEF Init, FileInv, Ordered
<1>2. FileInv => FilesInOrder
  BY DEF FileInv, Ordered, Follows, FilesInOrder
<1> QED
  BY <1>1, <1>2, StepFiles, TypedAlways, PTL DEF SafetySpec

-----------------------------------------------------------------------------
(* Every line is written once, in order.                                   *)

\* The vector of syncLoop is in use only between its swap and its push, and a
\* batch only until it is written; a printing logger moves no line of "rpc".
PlaceInv ==
  /\ \A l \in Logs : tmp_vec[l] # <<>> => sync.at \in {"lockQueue", "push"} /\ sync.log = l
  /\ \A l \in Logs : batch[l] # <<>> => async[l] = "write"
  /\ m_type = 0 =>
       /\ sync.at = "idle"
       /\ \A l \in Logs : async[l] = "exited" /\ queue[l] = <<>>
       /\ m_buffer["rpc"] = <<>>
       /\ \A p \in Producers : logging[p] # "rpc"

LEMMA StepPlace == Typed /\ PlaceInv /\ [Next]_vars => PlaceInv'
<1> SUFFICES ASSUME Typed, PlaceInv, [Next]_vars PROVE PlaceInv'
  OBVIOUS
<1> USE DEF lines, files, flags, locks
<1>1. /\ sync \in [at : {"idle", "lock", "swap", "lockQueue", "push", "signal",
                        "release", "end"}, log : Logs]
      /\ logging \in [Producers -> Logs \cup {"idle"}]
      /\ async \in [Logs -> {"lock", "check", "asleep", "write", "release",
                              "leave", "exited"}]
      /\ m_buffer \in [Logs -> Seq(Line)] /\ tmp_vec \in [Logs -> Seq(Line)]
      /\ queue \in [Logs -> Seq(Line)] /\ batch \in [Logs -> Seq(Line)]
      /\ "rpc" \in Logs
  BY DEF Typed
<1>2. CASE UNCHANGED <<m_type, m_buffer, tmp_vec, queue, batch, logging, sync, async>>
  BY <1>2 DEF PlaceInv
<1>3. ASSUME NEW p \in Producers, PrintLog(p) PROVE PlaceInv'
  BY <1>3 DEF PrintLog, PlaceInv
<1>4. ASSUME NEW p \in Producers, NEW l \in Used, StartLog(p, l) PROVE PlaceInv'
  BY <1>1, <1>4 DEF StartLog, PlaceInv
<1>5. ASSUME NEW p \in Producers, PushLog(p) PROVE PlaceInv'
  <2> PICK l \in Logs : PushLog(p)!(l)
    BY <1>5 DEF PushLog
  <2>1. m_type = 0 => l = "app"
    BY DEF PlaceInv
  <2> QED
    BY <1>1, <2>1 DEF PlaceInv
<1>6. CASE SyncLoop
  BY <1>1, <1>6 DEF SyncLoop, GoTo, PlaceInv
<1>7. CASE LockForApp \/ LockQueue \/ EndPush \/ EndSync
  BY <1>1, <1>7 DEF LockForApp, LockQueue, EndPush, EndSync, GoTo, GoOn, PlaceInv
<1>8. CASE Swap
  <2>1. m_type # 0 /\ \A l \in Logs : tmp_vec[l] = <<>>
    BY <1>1, <1>8 DEF Swap, PlaceInv
  <2>2. /\ UNCHANGED <<m_type, queue, batch, logging, async>>
        /\ tmp_vec' = [tmp_vec EXCEPT ![sync.log] = m_buffer[sync.log]]
        /\ m_buffer[sync.log] # <<>> => sync' = [at |-> "lockQueue", log |-> sync.log]
    BY <1>8 DEF Swap, GoTo
  <2> QED
    BY <1>1, <2>1, <2>2 DEF PlaceInv
<1>9. CASE PushLogBuffer
  <2>1. m_type # 0
    BY <1>1, <1>9 DEF PushLogBuffer, PlaceInv
  <2>2. /\ UNCHANGED <<m_type, batch, logging, async>>
        /\ tmp_vec' = [tmp_vec EXCEPT ![sync.log] = <<>>]
    BY <1>9 DEF PushLogBuffer
  <2> QED
    BY <1>1, <2>1, <2>2 DEF PlaceInv
<1>10. CASE Signal
  <2>1. m_type # 0
    BY <1>1, <1>10 DEF Signal, PlaceInv
  <2>2. /\ UNCHANGED <<m_type, tmp_vec, batch, logging>>
        /\ sync.at = "signal"
        /\ async' = [async EXCEPT ![sync.log] = IF @ = "asleep" THEN "lock" ELSE @]
    BY <1>10 DEF Signal
  <2> QED
    BY <1>1, <2>1, <2>2 DEF PlaceInv
<1>11. ASSUME NEW l \in Logs, LockAsync(l) \/ Wait(l) \/ WakeSpuriously(l) \/ EndIteration(l)
       PROVE  PlaceInv'
  <2>1. m_type # 0 /\ async[l] # "write"
    BY <1>11 DEF LockAsync, Wait, WakeSpuriously, EndIteration, PlaceInv
  <2>2. /\ UNCHANGED <<m_type, tmp_vec, batch, logging, sync>>
        /\ \A k \in Logs : k # l => async'[k] = async[k]
    BY <1>1, <1>11 DEF LockAsync, Wait, WakeSpuriously, EndIteration
  <2> QED
    BY <2>1, <2>2 DEF PlaceInv
<1>12. ASSUME NEW l \in Logs, TakeBatch(l) PROVE PlaceInv'
  <2>1. m_type # 0
    BY <1>12 DEF TakeBatch, PlaceInv
  <2>2. /\ UNCHANGED <<m_type, tmp_vec, logging, sync>>
        /\ async' = [async EXCEPT ![l] = "write"]
        /\ \A k \in Logs : k # l => batch'[k] = batch[k]
    BY <1>1, <1>12 DEF TakeBatch
  <2> QED
    BY <1>1, <2>1, <2>2 DEF PlaceInv
<1>13. ASSUME NEW l \in Logs, WriteBatch(l) PROVE PlaceInv'
  <2>1. m_type # 0
    BY <1>13 DEF WriteBatch, PlaceInv
  <2>2. /\ UNCHANGED <<m_type, tmp_vec, logging, sync>>
        /\ \A k \in Logs : k # l => async'[k] = async[k]
        /\ batch' = [batch EXCEPT ![l] = <<>>]
    BY <1>1, <1>13 DEF WriteBatch
  <2> QED
    BY <1>1, <2>1, <2>2 DEF PlaceInv
<1> QED
  BY <1>2, <1>3, <1>4, <1>5, <1>6, <1>7, <1>8, <1>9, <1>10, <1>11, <1>12, <1>13
     DEF Next, Producer, SyncThread, AsyncThread, stop, Midnight, vars

\* What a step does to a log, its files and what is under way to them.
Stream(l) == written[l] \o Underway(l)

Logged(l) == /\ \E line \in Line : Stream(l)' = Append(Stream(l), line)
             /\ written'[l] = written[l]

Written(l) == /\ Stream(l)' = Stream(l)
              /\ Len(written'[l]) \in Len(written[l]) + 1 .. Len(Stream(l))

Printed(l) == /\ Len(written[l]) = Len(Stream(l))
              /\ \E line \in Line : Stream(l)' = Append(Stream(l), line)
              /\ Len(written'[l]) = Len(Stream(l)')

Nothing(l) == Stream(l)' = Stream(l) /\ written'[l] = written[l]

StreamStep(l) == Logged(l) \/ Written(l) \/ Printed(l) \/ Nothing(l)

\* Concatenation and Append, under names that the provers do not know.
Cat(s, t) == s \o t
Put(s, x) == Append(s, x)

LEMMA CatType ==
  ASSUME NEW S, NEW s \in Seq(S), NEW t \in Seq(S)
  PROVE  Cat(s, t) \in Seq(S)
BY ConcatProperties DEF Cat

LEMMA CatAssociative ==
  ASSUME NEW S, NEW s \in Seq(S), NEW t \in Seq(S), NEW u \in Seq(S)
  PROVE  Cat(Cat(s, t), u) = Cat(s, Cat(t, u))
BY ConcatAssociative DEF Cat

LEMMA CatEmpty ==
  ASSUME NEW S, NEW s \in Seq(S)
  PROVE  Cat(s, <<>>) = s /\ Cat(<<>>, s) = s
BY ConcatEmptySeq DEF Cat

LEMMA CatAppend ==
  ASSUME NEW S, NEW s \in Seq(S), NEW t \in Seq(S), NEW x \in S
  PROVE  Cat(s, Put(t, x)) = Put(Cat(s, t), x)
<1>1. Append(t, x) = t \o <<x>> /\ <<x>> \in Seq(S) /\ s \o t \in Seq(S)
  BY AppendIsConcat, ConcatProperties
<1>2. Append(s \o t, x) = (s \o t) \o <<x>>
  BY <1>1, AppendIsConcat
<1> QED
  BY <1>1, <1>2, ConcatAssociative DEF Cat, Put

\* The stream of a log, from its parts.
Flow(a, b, c, d, e) == Cat(a, Cat(Cat(Cat(b, c), d), e))

LEMMA LoggedMoves ==
  ASSUME NEW S, NEW a \in Seq(S), NEW b \in Seq(S), NEW c \in Seq(S), NEW d \in Seq(S),
         NEW e \in Seq(S), NEW x \in S
  PROVE  Flow(a, b, c, d, Put(e, x)) = Put(Flow(a, b, c, d, e), x)
<1> DEFINE bcd == Cat(Cat(b, c), d)
<1>1. bcd \in Seq(S)
  BY CatType
<1>2. Cat(bcd, e) \in Seq(S)
  BY <1>1, CatType
<1>3. Cat(bcd, Put(e, x)) = Put(Cat(bcd, e), x)
  BY <1>1, CatAppend
<1>4. Cat(a, Put(Cat(bcd, e), x)) = Put(Cat(a, Cat(bcd, e)), x)
  BY <1>2, CatAppend
<1> QED
  BY <1>3, <1>4 DEF Flow

LEMMA PushedMoves ==
  ASSUME NEW S, NEW a, NEW b \in Seq(S), NEW c \in Seq(S), NEW d \in Seq(S), NEW e \in Seq(S)
  PROVE  Flow(a, b, Cat(c, d), <<>>, e) = Flow(a, b, c, d, e)
<1>1. Cat(b, Cat(c, d)) = Cat(Cat(b, c), d)
  BY CatAssociative
<1>2. Cat(Cat(b, c), d) \in Seq(S)
  BY CatType
<1> QED
  BY <1>1, <1>2, CatEmpty DEF Flow

LEMMA WrittenMoves ==
  ASSUME NEW S, NEW a \in Seq(S), NEW b \in Seq(S), NEW c \in Seq(S), NEW d \in Seq(S),
         NEW e \in Seq(S)
  PROVE  Flow(Cat(a, b), <<>>, c, d, e) = Flow(a, b, c, d, e)
<1>1. Cat(<<>>, c) = c
  BY CatEmpty
<1>2. Cat(c, d) \in Seq(S) /\ Cat(Cat(c, d), e) \in Seq(S)
  BY CatType
<1>3. Cat(Cat(b, c), d) = Cat(b, Cat(c, d))
  BY CatAssociative
<1>4. Cat(Cat(b, Cat(c, d)), e) = Cat(b, Cat(Cat(c, d), e))
  BY <1>2, CatAssociative
<1>5. Cat(Cat(a, b), Cat(Cat(c, d), e)) = Cat(a, Cat(b, Cat(Cat(c, d), e)))
  BY <1>2, CatAssociative
<1> QED
  BY <1>1, <1>3, <1>4, <1>5 DEF Flow

LEMMA FirstFits ==
  ASSUME NEW S, NEW b \in Seq(S), NEW c \in Seq(S), NEW d \in Seq(S), NEW e \in Seq(S)
  PROVE  Len(b) <= Len(b \o c \o d \o e)
<1> DEFINE bc == b \o c
           bcd == bc \o d
<1>1. Len(b) \in Nat /\ Len(c) \in Nat /\ Len(d) \in Nat /\ Len(e) \in Nat
  BY LenProperties
<1>2. bc \in Seq(S) /\ Len(bc) = Len(b) + Len(c)
  BY ConcatProperties
<1> HIDE DEF bc
<1>3. bcd \in Seq(S) /\ Len(bcd) = Len(bc) + Len(d)
  BY <1>2, ConcatProperties
<1> HIDE DEF bcd
<1>4. Len(bcd \o e) = Len(bcd) + Len(e)
  BY <1>3, ConcatProperties
<1>5. Len(b) <= Len(bcd \o e)
  BY <1>1, <1>2, <1>3, <1>4
<1> QED
  BY <1>5 DEF bc, bcd

LEMMA StreamType ==
  ASSUME Typed, NEW l \in Logs
  PROVE  /\ written[l] \in Seq(Line) /\ batch[l] \in Seq(Line) /\ queue[l] \in Seq(Line)
         /\ tmp_vec[l] \in Seq(Line) /\ m_buffer[l] \in Seq(Line)
         /\ batch[l] \o queue[l] \o tmp_vec[l] \in Seq(Line)
         /\ Underway(l) \in Seq(Line) /\ Stream(l) \in Seq(Line)
         /\ Len(Stream(l)) = Len(written[l]) + Len(Underway(l))
         /\ Len(written[l]) \in Nat /\ Len(Underway(l)) \in Nat
<1>1. /\ written[l] \in Seq(Line) /\ batch[l] \in Seq(Line) /\ queue[l] \in Seq(Line)
      /\ tmp_vec[l] \in Seq(Line) /\ m_buffer[l] \in Seq(Line)
  BY DEF Typed
<1>2. batch[l] \o queue[l] \in Seq(Line)
  BY <1>1, ConcatProperties
<1>3. batch[l] \o queue[l] \o tmp_vec[l] \in Seq(Line)
  BY <1>1, <1>2, ConcatProperties
<1>4. Underway(l) \in Seq(Line)
  BY <1>1, <1>3, ConcatProperties DEF Underway
<1>5. Stream(l) \in Seq(Line) /\ Len(Stream(l)) = Len(written[l]) + Len(Underway(l))
  BY <1>1, <1>4, ConcatProperties DEF Stream
<1>6. Len(written[l]) \in Nat /\ Len(Underway(l)) \in Nat
  BY <1>1, <1>4, LenProperties
<1> QED
  BY <1>1, <1>3, <1>4, <1>5, <1>6

LEMMA NothingMoved ==
  ASSUME NEW l \in Logs,
         /\ written'[l] = written[l] /\ batch'[l] = batch[l] /\ queue'[l] = queue[l]
         /\ tmp_vec'[l] = tmp_vec[l] /\ m_buffer'[l] = m_buffer[l]
  PROVE  StreamStep(l)
BY DEF StreamStep, Nothing, Stream, Underway

LEMMA StepStream ==
  ASSUME Typed, Counted, PlaceInv, [Next]_vars, NEW l \in Logs
  PROVE  StreamStep(l)
<1> USE DEF lines, files, flags, locks
<1>1. /\ written \in [Logs -> Seq(Line)] /\ m_buffer \in [Logs -> Seq(Line)]
      /\ tmp_vec \in [Logs -> Seq(Line)] /\ queue \in [Logs -> Seq(Line)]
      /\ batch \in [Logs -> Seq(Line)] /\ sync.log \in Logs /\ "rpc" \in Logs
  BY DEF Typed
<1>2. CASE UNCHANGED lines
  BY <1>2, NothingMoved
<1>3. ASSUME NEW p \in Producers, PrintLog(p) PROVE StreamStep(l)
  <2>1. NextLine(p) \in Line
    BY <1>3, NextLineType DEF PrintLog
  <2>2. CASE l = "rpc"
    <3>1. /\ written'[l] = Append(written[l], NextLine(p))
          /\ UNCHANGED <<batch, queue, tmp_vec, m_buffer>>
      BY <1>1, <1>3, <2>2 DEF PrintLog
    <3>2. batch[l] = <<>> /\ queue[l] = <<>> /\ tmp_vec[l] = <<>> /\ m_buffer[l] = <<>>
      BY <1>3, <2>2 DEF PlaceInv, PrintLog
    <3>3. <<>> \in Seq(Line) /\ <<>> \o <<>> = <<>>
      BY EmptySeq, ConcatEmptySeq
    <3>4. Underway(l) = <<>> /\ Underway(l)' = <<>>
      BY <3>1, <3>2, <3>3 DEF Underway
    <3>5. /\ Stream(l) = written[l]
          /\ Append(written[l], NextLine(p)) \in Seq(Line)
      BY <2>1, <3>4, StreamType, ConcatEmptySeq, AppendProperties DEF Stream
    <3>6. Stream(l)' = Append(written[l], NextLine(p))
      BY <3>1, <3>4, <3>5, ConcatEmptySeq DEF Stream
    <3> QED
      BY <2>1, <3>1, <3>5, <3>6 DEF StreamStep, Printed
  <2>3. CASE l # "rpc"
    BY <1>1, <1>3, <2>3, NothingMoved DEF PrintLog
  <2> QED
    BY <2>2, <2>3
<1>4. ASSUME NEW p \in Producers, PushLog(p) PROVE StreamStep(l)
  <2> PICK k \in Logs : PushLog(p)!(k)
    BY <1>4 DEF PushLog
  <2>1. NextLine(p) \in Line
    BY NextLineType DEF Counted
  <2>2. CASE k = l
    <3>1. /\ m_buffer'[l] = Append(m_buffer[l], NextLine(p))
          /\ UNCHANGED <<batch, queue, tmp_vec, written>>
      BY <1>1, <2>2
    <3>2. Stream(l) = Flow(written[l], batch[l], queue[l], tmp_vec[l], m_buffer[l])
      BY DEF Stream, Underway, Flow, Cat
    <3>3. Stream(l)' = Flow(written[l], batch[l], queue[l], tmp_vec[l], Put(m_buffer[l], NextLine(p)))
      BY <3>1 DEF Stream, Underway, Flow, Cat, Put
    <3>4. /\ written[l] \in Seq(Line) /\ batch[l] \in Seq(Line) /\ queue[l] \in Seq(Line)
          /\ tmp_vec[l] \in Seq(Line) /\ m_buffer[l] \in Seq(Line)
      BY StreamType
    <3>5. Stream(l)' = Append(Stream(l), NextLine(p))
      <4> DEFINE line == NextLine(p)
      <4>1. line \in Line
        BY <2>1
      <4> HIDE DEF line
      <4>2. Flow(written[l], batch[l], queue[l], tmp_vec[l], Put(m_buffer[l], line))
              = Put(Flow(written[l], batch[l], queue[l], tmp_vec[l], m_buffer[l]), line)
        BY <3>4, <4>1, LoggedMoves
      <4> QED
        BY <3>2, <3>3, <4>2 DEF line, Put
    <3> QED
      BY <2>1, <3>1, <3>5 DEF StreamStep, Logged
  <2>3. CASE k # l
    BY <1>1, <2>3, NothingMoved
  <2> QED
    BY <2>2, <2>3
<1>5. CASE Swap
  <2>1. CASE sync.log = l
    <3>1. /\ tmp_vec'[l] = m_buffer[l] /\ m_buffer'[l] = tmp_vec[l]
          /\ UNCHANGED <<batch, queue, written>>
      BY <1>1, <1>5, <2>1 DEF Swap
    <3>2. tmp_vec[l] = <<>>
      BY <1>5 DEF Swap, PlaceInv
    <3>3. batch[l] \o queue[l] \in Seq(Line) /\ (batch[l] \o queue[l]) \o m_buffer[l] \in Seq(Line)
      BY StreamType, ConcatProperties
    <3>4. Underway(l)' = Underway(l)
      BY <3>1, <3>2, <3>3, ConcatEmptySeq DEF Underway
    <3> QED
      BY <3>1, <3>4 DEF StreamStep, Nothing, Stream
  <2>2. CASE sync.log # l
    BY <1>1, <1>5, <2>2, NothingMoved DEF Swap
  <2> QED
    BY <2>1, <2>2
<1>6. CASE PushLogBuffer
  <2>1. CASE sync.log = l
    <3>1. /\ queue'[l] = queue[l] \o tmp_vec[l] /\ tmp_vec'[l] = <<>>
          /\ UNCHANGED <<batch, m_buffer, written>>
      BY <1>1, <1>6, <2>1 DEF PushLogBuffer
    <3>2. Stream(l) = Flow(written[l], batch[l], queue[l], tmp_vec[l], m_buffer[l])
      BY DEF Stream, Underway, Flow, Cat
    <3>3. Stream(l)' = Flow(written[l], batch[l], Cat(queue[l], tmp_vec[l]), <<>>, m_buffer[l])
      BY <3>1 DEF Stream, Underway, Flow, Cat
    <3>4. /\ batch[l] \in Seq(Line) /\ queue[l] \in Seq(Line)
          /\ tmp_vec[l] \in Seq(Line) /\ m_buffer[l] \in Seq(Line)
      BY StreamType
    <3>5. Stream(l)' = Stream(l)
      BY <3>2, <3>3, <3>4, PushedMoves
    <3> QED
      BY <3>1, <3>5 DEF StreamStep, Nothing
  <2>2. CASE sync.log # l
    BY <1>1, <1>6, <2>2, NothingMoved DEF PushLogBuffer
  <2> QED
    BY <2>1, <2>2
<1>7. ASSUME NEW k \in Logs, TakeBatch(k) PROVE StreamStep(l)
  <2> PICK n \in 1 .. Len(queue[k]) :
         /\ batch' = [batch EXCEPT ![k] = SubSeq(queue[k], 1, n)]
         /\ queue' = [queue EXCEPT ![k] = SubSeq(queue[k], n + 1, Len(queue[k]))]
    BY <1>7 DEF TakeBatch
  <2>1. UNCHANGED <<tmp_vec, m_buffer, written>>
    BY <1>7 DEF TakeBatch
  <2>2. CASE k = l
    <3>1. /\ batch'[l] = SubSeq(queue[l], 1, n)
          /\ queue'[l] = SubSeq(queue[l], n + 1, Len(queue[l]))
      BY <1>1, <2>2
    <3>2. batch'[l] \o queue'[l] = queue[l]
      BY <2>2, <3>1, StreamType, TakenAndLeft
    <3>3. batch[l] = <<>>
      BY <1>7, <2>2 DEF TakeBatch, PlaceInv
    <3>4. batch[l] \o queue[l] = queue[l]
      BY <3>3, StreamType, ConcatEmptySeq
    <3>5. Underway(l)' = Underway(l)
      BY <2>1, <3>2, <3>4 DEF Underway
    <3> QED
      BY <2>1, <3>5 DEF StreamStep, Nothing, Stream
  <2>3. CASE k # l
    BY <1>1, <2>1, <2>3, NothingMoved
  <2> QED
    BY <2>2, <2>3
<1>8. ASSUME NEW k \in Logs, WriteBatch(k) PROVE StreamStep(l)
  <2>1. CASE k = l
    <3>1. /\ written'[l] = written[l] \o batch[l] /\ batch'[l] = <<>>
          /\ UNCHANGED <<queue, tmp_vec, m_buffer>>
      BY <1>1, <1>8, <2>1 DEF WriteBatch
    <3>2. Stream(l)' = Stream(l)
      <4>1. /\ written[l] \in Seq(Line) /\ batch[l] \in Seq(Line) /\ queue[l] \in Seq(Line)
            /\ tmp_vec[l] \in Seq(Line) /\ m_buffer[l] \in Seq(Line)
        BY StreamType
      <4>2. Stream(l) = Flow(written[l], batch[l], queue[l], tmp_vec[l], m_buffer[l])
        BY DEF Stream, Underway, Flow, Cat
      <4>3. Stream(l)' = Flow(Cat(written[l], batch[l]), <<>>, queue[l], tmp_vec[l], m_buffer[l])
        BY <3>1 DEF Stream, Underway, Flow, Cat
      <4> QED
        BY <4>1, <4>2, <4>3, WrittenMoves
    <3>3. CASE batch[l] = <<>>
      BY <3>1, <3>2, <3>3, StreamType, ConcatEmptySeq DEF StreamStep, Nothing
    <3>4. CASE batch[l] # <<>>
      <4>1. Len(batch[l]) \in Nat \ {0}
        BY <3>4, StreamType, EmptySeq
      <4>2. Len(written'[l]) = Len(written[l]) + Len(batch[l])
        BY <3>1, StreamType, ConcatProperties
      <4>3. Len(batch[l]) <= Len(Underway(l))
        <5>1. /\ batch[l] \in Seq(Line) /\ queue[l] \in Seq(Line)
              /\ tmp_vec[l] \in Seq(Line) /\ m_buffer[l] \in Seq(Line)
          BY StreamType
        <5> QED
          BY <5>1, FirstFits DEF Underway
      <4>4. Len(written'[l]) \in Len(written[l]) + 1 .. Len(Stream(l))
        <5> DEFINE lw == Len(written[l])
                   lu == Len(Underway(l))
                   lb == Len(batch[l])
                   ls == Len(Stream(l))
        <5>1. ls = lw + lu /\ lw \in Nat /\ lu \in Nat /\ lb \in Nat \ {0} /\ lb <= lu
          BY <4>1, <4>3, StreamType
        <5> HIDE DEF lw, lu, lb, ls
        <5>2. lw + lb \in lw + 1 .. ls
          BY <5>1
        <5> QED
          BY <4>2, <5>2 DEF lw, lu, lb, ls
      <4> QED
        BY <3>2, <4>4 DEF StreamStep, Written
    <3> QED
      BY <3>3, <3>4
  <2>2. CASE k # l
    BY <1>1, <1>8, <2>2, NothingMoved DEF WriteBatch
  <2> QED
    BY <2>1, <2>2
<1> QED
  BY <1>2, <1>3, <1>4, <1>5, <1>6, <1>7, <1>8
     DEF Next, Producer, StartLog, SyncThread, SyncLoop, LockForApp, LockQueue, Signal,
         EndPush, EndSync, AsyncThread, LockAsync, Wait, EndIteration, WakeSpuriously, stop,
         Midnight, vars

\* Both logs write every line once, in the order of the pushes.
THEOREM LinesStayInOrder == SafetySpec => LinesInOrder
<1>1. Init => Rpc!Init /\ App!Init /\ PlaceInv
  <2> SUFFICES ASSUME Init PROVE Rpc!Init /\ App!Init /\ PlaceInv
    OBVIOUS
  <2>1. <<>> \o <<>> = <<>> /\ Len(<<>>) = 0
    BY EmptySeq, ConcatEmptySeq
  <2>2. \A l \in Logs : /\ written[l] = <<>> /\ batch[l] = <<>> /\ queue[l] = <<>>
                        /\ tmp_vec[l] = <<>> /\ m_buffer[l] = <<>>
    BY DEF Init
  <2>3. \A l \in Logs : Underway(l) = <<>>
    BY <2>1, <2>2 DEF Underway
  <2>4. Rpc!Init /\ App!Init
    BY <2>1, <2>2, <2>3 DEF Rpc!Init, App!Init
  <2> QED
    BY <2>2, <2>4 DEF Init, PlaceInv
<1>2. ASSUME NEW l \in Logs, StreamStep(l)
      PROVE  \/ \E line \in Line : Stream(l)' = Append(Stream(l), line) /\ Len(written'[l]) = Len(written[l])
             \/ Len(written'[l]) \in Len(written[l]) + 1 .. Len(Stream(l)) /\ Stream(l)' = Stream(l)
             \/ /\ Len(written[l]) = Len(Stream(l))
                /\ \E line \in Line : Stream(l)' = Append(Stream(l), line)
                /\ Len(written'[l]) = Len(Stream(l)')
             \/ Stream(l)' = Stream(l) /\ Len(written'[l]) = Len(written[l])
  BY <1>2 DEF StreamStep, Logged, Written, Printed, Nothing
<1>3. Typed /\ Counted /\ PlaceInv /\ [Next]_vars
        => [Rpc!Next]_<<Stream("rpc"), Len(written["rpc"])>>
  BY <1>2, StepStream DEF Rpc!Next, Rpc!Log, Rpc!Write, Rpc!LogAtOnce, Stream
<1>4. Typed /\ Counted /\ PlaceInv /\ [Next]_vars
        => [App!Next]_<<Stream("app"), Len(written["app"])>>
  BY <1>2, StepStream DEF App!Next, App!Log, App!Write, App!LogAtOnce, Stream
<1>5. SafetySpec => []PlaceInv
  BY <1>1, StepPlace, TypedAlways, PTL DEF SafetySpec
<1>6. SafetySpec => [][Rpc!Next]_<<Stream("rpc"), Len(written["rpc"])>>
  BY <1>3, <1>5, TypedAlways, PTL DEF SafetySpec
<1>7. SafetySpec => [][App!Next]_<<Stream("app"), Len(written["app"])>>
  BY <1>4, <1>5, TypedAlways, PTL DEF SafetySpec
<1> QED
  BY <1>1, <1>6, <1>7, PTL DEF LinesInOrder, Rpc!Spec, App!Spec, Stream, SafetySpec
=============================================================================
