SPECIFICATION FairSpec
CONSTANTS
  Models = {qwen}
  Sessions = {s1, s2}
  None = None
  Reopens = {s1}
  MaxStreams = 1
  MaxFailures = 1
INVARIANTS
  LeaseAgrees
PROPERTIES
  LeaseReturns
CHECK_DEADLOCK FALSE
