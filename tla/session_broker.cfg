SPECIFICATION GatewaySpec
CONSTANTS
  MaxCreated = 3
  MaxSessions = 2
  MaxEvents = 3
  QueueSize = 2
  Turn = {t1, t2}
  Subscriber = {u1}
  MaxPosts = 2
  MaxEchoes = 1
  Worker = {w1, w2}
  MaxArtifacts = 2
  MaxStores = 5
  MaxRestarts = 1
SYMMETRY TurnSymmetry
CHECK_DEADLOCK FALSE
INVARIANTS
  TurnsExclusive
  InUseKept
  StoryTold
  StateHonest
  FeedsInOrder
  NewestKept
