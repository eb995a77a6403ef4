SPECIFICATION FairSpec
CONSTANTS
  NumInstances = 2
  NumPrefill = 1
  NumDecode = 1
  NumShared = 0
  NumEncode = 0
  Capacity <- TightCaches
  Requests = {1, 2}
  InputLen <- EvenPrompts
  OutputLen <- EvenOutputs
  Deadline <- NoDeadlines
  EncodeDecider = "none"
  Multimodal = {}
  Decider = "always"
  Threshold = 0
  RouteTimes = {0}
  QueueingTimes = {1}
  StepTimes = {1}
  TransferTimes = {1}
  MaxDrains = 0
  Late = 9
PROPERTIES
  NeverStranded
