CONSTANTS
  Byte <- MCByte
  Messages <- MCThree
  Reply <- MCReply
  BufferSize = 9
  Capacity = 8
  Cuts = FALSE
  MaxSends = 1
  MaxWrites = 4
SPECIFICATION Spec
INVARIANT HandledOnce
PROPERTIES
  CallAnswered
  ServerCloses
CHECK_DEADLOCK FALSE
