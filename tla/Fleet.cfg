CONSTANTS
    Pools <- MCPools
    MaxNodes = 2
    TP = 2
    NumInstances = 3
    MaxAuto = 1
    WarmUp = 1
    WarmStart = TRUE
    LoadDelays = {0, 1}
    Requests = {r1, r2}
    Cap = 1
    UpPct = 80
    DownPct = 60
    UpWindow = 1
    DownWindow = 1
    ScrapeDelays = {0, 1}
    Greedy = TRUE
    MaxTicks = 3
    MaxOps = 2
    Policies <- MCPolicies
SPECIFICATION FairSpec
INVARIANTS
  FleetExact
  DecisionsSound
PROPERTIES
  LifecycleSound
CHECK_DEADLOCK FALSE
