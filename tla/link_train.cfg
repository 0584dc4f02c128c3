CONSTANTS
  a = a
  b = b
  c = c
  Device = {a, b}
  NoDevice = NoDevice
  Size = {0, 2}
  EtherType = {2048}
  QueueLimit = 1
  ByteTime <- MixedRates
  InterframeGap = 1
  Delay = 3
  Lossy = {b}
  MaxSends <- Answered
  Horizon = 3
SPECIFICATION FairSpec
INVARIANTS
  ArrivalTimes
  BoundedLatency
  IInv
PROPERTIES
  RefusesOnlyWhenSaturated
  EveryAcceptedArrives
CHECK_DEADLOCK FALSE
