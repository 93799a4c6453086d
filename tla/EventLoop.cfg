CONSTANTS
  Threads = {t1, t2}
  Fds = {f1}
  WakeFd = wakefd
  MaxEvents = 2
  MaxCalls = 2
SPECIFICATION Spec
INVARIANTS
  TypeOK
  HandlerQueuedOnce
  WakeupLostOnlyToDrain
PROPERTIES
  FirstInFirstOut
  PushedTaskRuns
  StopEndsLoop
CHECK_DEADLOCK FALSE
