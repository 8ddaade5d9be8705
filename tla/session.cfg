SPECIFICATION FairSpec
CONSTANTS
  MaxAuthAttempts = 2
  MaxAuthRequests = 2
  Attempts = {"password_bad", "signature_ok"}
  MaxAttempts = 2
  Sizes = {1, 2}
  MaxOpens = 2
  MaxRaw = 1
  MaxResizes = 1
  StrayRequests = TRUE
  EarlyCalls = FALSE
INVARIANT OneProgramPerChannel
INVARIANT AuthWithinCaps
INVARIANT RepliesAttributed
INVARIANT ResizeReachesProgram
PROPERTY RequestsResolve
PROPERTY EofReachesProgram
CHECK_DEADLOCK FALSE
