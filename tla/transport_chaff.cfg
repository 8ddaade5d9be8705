SPECIFICATION Spec
CONSTANTS
  SeqSpace = 64
  RekeyBytes = 50
  RekeyPackets = 50
  EpochHardPackets = 60
  MaxConsecutivePeerRekeys = 3
  FrameLen = 1
  StrictMarker = TRUE
  Compression = {"zlib"}
  Talkers = {"server"}
  MaxApp = 1
  MaxChaff = 1
  MaxRekeys = 0
  MayDisconnect = FALSE
  QuietClient = FALSE
INVARIANT ChaffDiscarded
CHECK_DEADLOCK FALSE
