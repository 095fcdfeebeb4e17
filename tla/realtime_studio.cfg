SPECIFICATION FairSpec
CONSTANTS
  Start = {s1, s2}
  None = none
  Check = {k1}
  Utterance = {u1}
  MaxAttempts = 2
INVARIANTS
  SocketHasCapture
  BusyHasWork
PROPERTIES
  CompletedKept
  SwitchEnds
