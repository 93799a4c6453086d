CONSTANTS
  Producers = {p1, p2}
  MaxLines = 1
  Used = {"rpc", "app"}
  Stopped = {"app"}
  Types = {0, 1}
  Days = 2
  m_max_file_size = 0
SPECIFICATION Spec
INVARIANTS
  TypeOK
  NoLostSignal
  OnlySecondUnlockHarms
  FilesInOrder
PROPERTIES
  LinesInOrder
  LineWritten
  StopEndsLogger
CHECK_DEADLOCK FALSE
