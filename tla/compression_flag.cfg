CONSTANTS
  a = a
  b = b
  Device = {a, b}
  NoDevice = NoDevice
  Size = {0}
  EtherType = {2048}
  QueueLimit = 1
  ByteTime <- EqualRates
  InterframeGap = 0
  Delay = 1
  Lossy = {}
  MaxSends <- Probe
  Horizon = 1
SPECIFICATION FlagSpec
PROPERTIES
  CompressesWhenFlagged
CHECK_DEADLOCK FALSE
