SPECIFICATION FairSpec
CONSTANTS
  SenderRole = "server"
  DEFAULT_WINDOW = 4
  RemoteMaxPacket = 6
  MaxChunk = 5
  U32Max = 15
  MaxWritten = 9
INVARIANT FlowInv
PROPERTY ImplementsStream
CHECK_DEADLOCK FALSE
PROPERTY EndDelivered
