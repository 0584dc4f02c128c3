CONSTANTS
  f1 = f1
  f2 = f2
  Flow = {f1, f2}
  HopCount = 3
  ByteTimes <- AnyRates
  Size <- TwoSizes
  DeviceLimit = 1
  DiscLimit = 1
  Delay = 1
  OtherUids = {1}
  MaxOffers = 5
  Horizon = 3
SPECIFICATION FairSpec
INVARIANTS
  NothingForgotten
  TypeOK
  NothingVanishes
  OnlyBottlenecksQueue
  IInv
PROPERTIES
  SpacedByBottleneck
  ImplementsLossyPath
  EveryPacketSettles
CHECK_DEADLOCK FALSE
