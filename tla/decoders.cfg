SPECIFICATION Spec
CONSTANTS
  MAX_LINE = 8
  MAX_BANNER = 12
  Cuts = {1, 30}
  BannerLens = {1, 8}
  MaxBanners = 2
  IdLens = {6, 8, 9, 14}
  Lengths = {0, 1, 2, 3, 4, 5, 6, 7, 8, 9, 10, 11, 12, 13, 14, 15, 16, 17}
  MaxKeys = 2
  HeadBytes = 60
INVARIANT DecodedAsSent
INVARIANT KeysAsTyped
CHECK_DEADLOCK FALSE
