CONSTANTS
  IPs = {i1, i2}
  Conns = {c1, c2}
  NoLimit = NoLimit
  PerIpMaxes = {1, 2, NoLimit}
  Rate = 1
  Burst = 4
  Cost = 2
  BanThreshold = 2
  BanDuration = 2
  Skew = 1
  MaxTime = 4
SPECIFICATION Spec
INVARIANT SlotsExact
INVARIANT RateBound
PROPERTY BansFair
