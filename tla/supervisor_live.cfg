SPECIFICATION FairSpec
CONSTANTS
  Policy = "concurrent"
  MaxOps = 1
  MaxFaults = 2
  StoreMayFail = TRUE
CHECK_DEADLOCK FALSE
PROPERTIES
  ThreadTerminates
