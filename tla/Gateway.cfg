SPECIFICATION Spec
CONSTANTS
  Requests = {1, 2, 3, 4}
  Tenants = {1, 2}
  Tenant <- MixedTenant
  Priority <- MixedPriority
  SLOTarget <- MixedTarget
  SatScale = 2
  Instances = {i1, i2}
  NoInstance = NoInstance
  NoRequest = NoRequest
  Configs <- AllConfigs
  ArrivalTimes = {0, 1}
  LoadTimes = {0, 1}
  Budget <- NoBudget
  MaxConcurrency = 1
  TickInterval = 1
  Horizon = 2
INVARIANTS
  QueueSound
  EndsCountedOnce
  TrackersExact
PROPERTIES
  NoPriorityInversion
CHECK_DEADLOCK FALSE
SYMMETRY AnyInstance
