CONSTANTS
  Byte <- MCByte
  Messages <- MCOne
  Reply <- MCReply
  BufferSize = 9
  Capacity = 8
  Cuts = TRUE
  MaxSends = 1
  MaxWrites = 4
SPECIFICATION Spec
PROPERTY DecodeReturns
CHECK_DEADLOCK FALSE
