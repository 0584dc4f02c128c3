CONSTANTS
  c1 = c1
  c2 = c2
  Client = {c1, c2}
  server = server
  Order <- TheOrder
  StartTime <- Starts
  StopTime <- Stops
  m_count <- Counts
  m_interval <- Intervals
  DataSize = {0, 1, 2}
  Pattern = {"random"}
  MaxConfigs = 2
SPECIFICATION Spec
INVARIANTS
  TypeOK
  SendsOnSchedule
  TrainComplete
  SendNeverFails
PROPERTIES
  SendsWhatIsConfigured
CHECK_DEADLOCK FALSE
