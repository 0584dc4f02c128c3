CONSTANTS
  c1 = c1
  c2 = c2
  Client = {c1}
  server = server
  Order <- TheOrder
  StartTime <- Starts
  StopTime <- Stops
  m_count <- Counts
  m_interval <- Intervals
  DataSize = {1}
  Pattern = {}
  MaxConfigs = 0
SPECIFICATION FairSpec
PROPERTIES
  EveryPacketIsReturned
CHECK_DEADLOCK FALSE
