CONSTANTS
  Byte <- MCByte
  Messages <- MCShort
  Reply <- MCReply
  BufferSize = 14
  Capacity = 15
  Cuts = TRUE
  MaxSends = 2
  MaxWrites = 4
SPECIFICATION SafetySpec
INVARIANTS
  TypeOK
  InBufferNeverGrows
PROPERTY NothingLost
CHECK_DEADLOCK FALSE
