SPECIFICATION FairSpec
CONSTANTS
  Policy = "exclusive"
  MaxOps = 1
  MaxFaults = 0
  StoreMayFail = FALSE
CHECK_DEADLOCK FALSE
PROPERTIES
  GroupsStayApart
