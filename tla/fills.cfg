CONSTANTS
  Octet <- Octets2
  Wild = Wild
  Width = 6
  MaxCalls = 3
SPECIFICATION FairSpec
INVARIANTS
  TypeOK
  FilledAsAsked
  CopiesStayInside
PROPERTIES
  FillEnds
CHECK_DEADLOCK FALSE
