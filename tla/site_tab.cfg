SPECIFICATION FairSpec
CONSTANTS
  Locale = {en, ja}
  English = en
  Unsupported = xx
  NoLocale = nolocale
  MaxEnergy = 1
  Callback = {c1, c2}
  NoCallback = nocallback
  Check = {k1, k2}
  Recording = {r1, r2}
  NoRecording = norecording
  idle = idle
  happy = happy
  talking = talking
  AvatarState <- States
  Idle = idle
  NoState = nostate
  NoFrame = noframe
  Candidate <- Manifests
INVARIANTS
  OneAnimationLoop
  ChoiceKept
  BusyHasWork
  PictureMatches
PROPERTIES
  RecordingEnds
  QueuedPlays
