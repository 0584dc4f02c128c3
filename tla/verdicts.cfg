CONSTANTS
  c1 = c1
  c2 = c2
  Flow = {c1, c2}
  HopCount = 3
  ByteTimes <- SmallRates
  Size <- Small
  DeviceLimit = 1
  DiscLimit = 2
  Delay = 1
  OtherUids = {}
  MaxOffers = 0
  Horizon = 0
  Clients <- Both
  PacketCount = 4
  Interval = 5
  StopAt = 40
  Millisecond = 3
  Threshold = 1
SPECIFICATION FairDetSpec
INVARIANTS
  VerdictFollowsSpreads
  VerdictWithinRounding
  PacedTrainsKeepTheirSpread
  TimetableInv
PROPERTIES
  ImplementsTandem
  VerdictIsReached
CHECK_DEADLOCK FALSE
