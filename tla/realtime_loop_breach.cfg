SPECIFICATION FairSpec
CONSTANTS
  Sessions = {s1}
  MaxFinals = 2
  MaxPartials = 1
  MaxText = 1
  Disconnects = FALSE
  Evictions = FALSE
  MaxUtterances = 2
  MaxGenerations = 1
PROPERTIES
  FinalsAnswered
CHECK_DEADLOCK FALSE
