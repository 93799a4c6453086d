CONSTANTS
  Channels = {c1, c2}
  TimerFd = timerfd
SPECIFICATION Spec
INVARIANTS
  TypeOK
PROPERTIES
  OutcomeStands
  CallEnds
CHECK_DEADLOCK FALSE
