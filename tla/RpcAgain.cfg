CONSTANTS
  Channels = {c1, c2}
  TimerFd = timerfd
SPECIFICATION Spec
PROPERTY DoneRuns
CHECK_DEADLOCK FALSE
