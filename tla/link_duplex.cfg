CONSTANTS
  a = a
  b = b
  c = c
  Device = {a, b, c}
  NoDevice = NoDevice
  Size = {0, 2}
  EtherType = {2048, 16417, 2054}
  QueueLimit = 1
  ByteTime <- MixedRates
  InterframeGap = 0
  Delay = 2
  Lossy = {b}
  MaxSends <- Duplex
  Horizon = 2
SPECIFICATION Spec
INVARIANTS
  TypeOK
  InternalAssertionsHold
  TransmitterAccounted
  DeliveredInOrder
PROPERTIES
  ImplementsFifoLink
CHECK_DEADLOCK FALSE
