SPECIFICATION LoopSpec
CONSTANTS
  NumInstances = 3
  NumPrefill = 1
  NumDecode = 0
  NumShared = 1
  NumEncode = 1
  Capacity <- SmallCaches
  Requests = {1, 2, 3}
  InputLen <- Prompts
  OutputLen <- Outputs
  Deadline <- Deadlines
  EncodeDecider = "multimodal"
  Multimodal = {2}
  Decider = "prefix-threshold"
  Threshold = 0
  RouteTimes = {0, 1}
  QueueingTimes = {1}
  StepTimes = {1, 2}
  TransferTimes = {2}
  MaxDrains = 1
  Late = 9
INVARIANTS
  HandoffExact
  ReportedOnce
PROPERTIES
  HandoffEnds
