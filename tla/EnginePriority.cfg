SPECIFICATION Spec
CONSTANTS
  x = x
  y = y
  Requests = {1, 2, 3, 4}
  InputLen <- TierInput
  OutputLen <- TierOutput
  MaxOutputLen <- TierBudget
  Timeout <- TierTimeout
  Priority <- TierPriority
  ArrivalTimes = {0, 1}
  Adapter <- Base
  Adapters = {}
  NoAdapter = NoAdapter
  AdapterCapacity = 0
  Scheduler = "priority-fcfs"
  PreemptionPolicy = "priority"
  TotalBlocks = 6
  BlockSize = 1
  MaxNumSeqs = 3
  MaxNumBatchedTokens = 4
  PrefillTokenThreshold = 0
  MaxModelLen = 6
  SpecRate = 3
  SpecScale = 2
  QueueingTimes = {0, 1}
  StepTimes = {1, 2}
  LoadTimes = {1, 2}
  Late = 6
INVARIANTS
  ScanSound
CHECK_DEADLOCK FALSE
