SPECIFICATION FairSpec
CONSTANTS
  SenderRole = "client"
  DEFAULT_WINDOW = 4
  RemoteMaxPacket = 3
  MaxChunk = 15
  U32Max = 15
  MaxWritten = 7
INVARIANT NoWindowViolation
INVARIANT Backpressure
INVARIANT EndAfterData
INVARIANT FlowInv
PROPERTY ImplementsStream
CHECK_DEADLOCK FALSE
PROPERTY AllDelivered
PROPERTY EndDelivered
