SPECIFICATION Spec
CONSTANTS
  Policy = "exclusive"
  MaxOps = 2
  MaxFaults = 1
  StoreMayFail = FALSE
CHECK_DEADLOCK FALSE
INVARIANTS
  Serialized
  ExclusiveResidency
  RollbackRestores
  ResetRestartsTarget
PROPERTIES
  PhaseForward
  ReadyDelivers
  LedgerSpec
