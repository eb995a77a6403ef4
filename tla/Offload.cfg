SPECIFICATION Spec
CONSTANTS
  CPUCapacity = 2
  NRead = 1
  NWrite = 1
  NumRequests = 4
  Prompt <- SharedPrompt
  OutputLen <- SharedOutput
  GPUBlocks = 3
  NumTiers = 1
  Kinds = {"chain", "cpu", "tiered"}
  MaxNumSeqs = 2
INVARIANTS
  TiersExact
  WriteThrough
PROPERTIES
  DeferralsSound
CHECK_DEADLOCK FALSE
