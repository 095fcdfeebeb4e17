SPECIFICATION FairSpec
CONSTANTS
  Models = {qwen, breeze, whisper}
  Sessions = {s1, s2}
  Default = qwen
  MaxRestarts = 1
INVARIANTS
  SingleResident
  SnapshotHonest
  TranscribesOnItsModel
PROPERTIES
  LeaseSpec
  ActivationEnds
