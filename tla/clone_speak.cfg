SPECIFICATION FairSpec
CONSTANTS
  Take = {}
  Stop = {}
  OwnTimer = own
  None = none
  Check = {k1, k2}
  Synth = {g1, g2}
  Player = {p1, p2}
  Deadline = 2
  MaxTries = 2
INVARIANTS
  PlayHasAudio
  SynthesisHasWork
PROPERTIES
  ResetEnds
