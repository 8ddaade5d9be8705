SPECIFICATION Spec
CONSTANTS
  SeqSpace = 9
  RekeyBytes = 9
  RekeyPackets = 3
  EpochHardPackets = 8
  MaxConsecutivePeerRekeys = 2
  FrameLen = 1
  StrictMarker = FALSE
  Compression = {"none"}
  Talkers = {"client"}
  MaxApp = 10
  MaxChaff = 1
  MaxRekeys = 0
  MayDisconnect = TRUE
  QuietClient = FALSE
INVARIANT TypeOK
INVARIANT NonceUnique
PROPERTY ImplementsPipe
CHECK_DEADLOCK FALSE
