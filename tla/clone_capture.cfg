SPECIFICATION Spec
CONSTANTS
  Take = {t1, t2}
  Stop = {s1}
  OwnTimer = own
  None = none
  Check = {k1}
  Synth = {}
  Player = {}
  Deadline = 0
  MaxTries = 1
SYMMETRY Symmetry
INVARIANTS
  CloneHasReference
  CaptureHasWork
