CONSTANTS
  Byte <- MCByte
  Messages <- MCShort
  Reply <- MCReply
  BufferSize = 14
  Capacity = 20
  Cuts = FALSE
  MaxSends = 2
  MaxWrites = 4
SPECIFICATION SafetySpec
INVARIANT HandledOnce
CHECK_DEADLOCK FALSE
