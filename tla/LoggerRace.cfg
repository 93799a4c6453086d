CONSTANTS
  Producers = {p1, p2}
  MaxLines = 1
  Used = {"rpc"}
  Stopped = {}
  Types = {1}
  Days = 1
  m_max_file_size = 0
SPECIFICATION SafetySpec
INVARIANT ThreadSafe
CHECK_DEADLOCK FALSE
