CONSTANTS
  a = a
  b = b
  c = c
  Device = {a, b}
  NoDevice = NoDevice
  Size = {0, 2}
  EtherType = {2048}
  QueueLimit = 1
  ByteTime <- MixedRates
  InterframeGap = 1
  Delay = 3
  Lossy = {b}
  MaxSends <- Answered
  Horizon = 4
SPECIFICATION Spec
INVARIANTS
  MacRxFiredPerPacket
CHECK_DEADLOCK FALSE
