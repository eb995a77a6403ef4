CONSTANTS
  Requests <- MCRequests
  Hashes <- MCHashes
  Initial <- MCInitial
  Late = "i3"
  ModelOf <- MCModelOf
  Configs <- MCConfigs
  LRUCapacity = 2
  KVBlocks = 3
  LoadAwareThreshold = 3
  NoAdapter = ""
  Horizon = 2
  MaxBatch = 1
  BucketCapacity = 3
  RefillRate = 2
  OverloadThreshold = 1
  MinAdmitPriority = 2
  QDThreshold = 2
  KVThreshold = 2
SPECIFICATION Spec
CHECK_DEADLOCK FALSE
INVARIANTS
  RouterExact
  RoutingFair
PROPERTIES
  ViewsSound
