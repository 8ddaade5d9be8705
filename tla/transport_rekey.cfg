SPECIFICATION FairSpec
CONSTANTS
  SeqSpace = 64
  RekeyBytes = 50
  RekeyPackets = 50
  EpochHardPackets = 60
  MaxConsecutivePeerRekeys = 1
  FrameLen = 1
  StrictMarker = TRUE
  Compression = {"none", "zlib"}
  Talkers = {"client", "server"}
  MaxApp = 2
  MaxChaff = 0
  MaxRekeys = 2
  MayDisconnect = FALSE
  QuietClient = TRUE
INVARIANT NoEndpointFails
INVARIANT QuietDuringKex
INVARIANT SessionIdAgreement
INVARIANT FloodGuardSound
PROPERTY ImplementsPipe
CHECK_DEADLOCK FALSE
PROPERTY RekeyCompletes
PROPERTY AppDelivered
