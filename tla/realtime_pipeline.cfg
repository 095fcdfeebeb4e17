SPECIFICATION Spec
CONSTANTS
  Sessions = {s1}
  MaxFinals = 1
  MaxPartials = 1
  MaxText = 1
  Disconnects = TRUE
  Evictions = TRUE
  MaxUtterances = 3
  MaxGenerations = 2
INVARIANTS
  PendingCounts
  EventsInOrder
PROPERTIES
  RevisionWindow
CHECK_DEADLOCK FALSE
