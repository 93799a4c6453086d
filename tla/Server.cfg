CONSTANTS
  Peers = {p1, p2, p3}
  Idle = {p2, p3}
  MaxSend = 1
  m_io_threads = 2
  m_size = 2
  FirstFd = 2
SPECIFICATION Spec
INVARIANTS
  TypeOK
  StartInOrder
  EvenShares
  ClosedIsGone
  OwnFdEvent
PROPERTIES
  ClosedForGood
  
  StopEndsServer
CHECK_DEADLOCK FALSE
