SPECIFICATION FairSpec
CONSTANTS
  x = x
  y = y
  Requests = {1, 2, 3, 4}
  InputLen <- MixedInput
  OutputLen <- MixedOutput
  MaxOutputLen <- None
  Timeout <- MixedTimeout
  Priority <- Flat
  ArrivalTimes = {0, 1, 2}
  Adapter <- MixedAdapter
  Adapters = {x, y}
  NoAdapter = NoAdapter
  AdapterCapacity = 1
  Scheduler = "fcfs"
  PreemptionPolicy = "fcfs"
  TotalBlocks = 3
  BlockSize = 2
  MaxNumSeqs = 3
  MaxNumBatchedTokens = 4
  PrefillTokenThreshold = 2
  MaxModelLen = 0
  SpecRate = 1
  SpecScale = 1
  QueueingTimes = {0, 1}
  StepTimes = {1, 2}
  LoadTimes = {1, 2}
  Late = 6
INVARIANTS
  NothingLeaks
  EventsArmed
  BatchSound
PROPERTIES
  RunEnds
CHECK_DEADLOCK FALSE
