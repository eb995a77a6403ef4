SPECIFICATION Spec
CONSTANTS
  r1 = r1
  r2 = r2
  r3 = r3
  Requests = {r1, r2, r3}
  NumBlocks = 4
  BlockSize = 2
  Tokens = {1, 2}
  InputTokens <- SessionInput
  OutputTokens <- SessionOutput
INVARIANTS
  TypeOK
  Conservation
  RefCountExact
  IndexSound
  AllocationSound
PROPERTIES
  ContentKept
