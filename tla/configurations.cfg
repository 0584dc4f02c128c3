CONSTANTS
  Files <- AnyFile
  NoFile = NoFile
  Commands <- Anything
  Unset = Unset
  NoOption = NoOption
  Unreadable = Unreadable
  Rates = {"4Mbps", "8Mbps"}
  Sizes = {1100}
SPECIFICATION FairSpec
INVARIANTS
  InputsDecide
PROPERTIES
  EveryCommandIsRun
CHECK_DEADLOCK FALSE
