CONSTANTS
  e1 = e1
  e2 = e2
  Timers = {m1}
  Threads = {t1, t2}
  Events = {e1, e2}
  Repeated = {e2}
  Interval <- MCInterval
  Overdue = 2
  Sharing = FALSE
SPECIFICATION Spec
INVARIANTS
  TypeOK
  NoForgottenTimer
  RepeatedStaysScheduled
  KeyIsArriveTime
PROPERTY TimerFires
CHECK_DEADLOCK FALSE
