SPECIFICATION CommandSpec
CONSTANTS
  Base <- MCBase
  NumInstances = 2
  MaxBatch = 2
  Capacity = 4
  StepTimes = {1, 3}
  OutputTokenTime = 0
  PostDecodeOverhead = 1
  DefaultHorizon = 4
  DefaultClass = 9
  DefaultDriftWindow = 2
  DefaultSlopeK = 200
  DefaultThreshold = 3
  DefaultPeak <- MCDefaultPeak
  DefaultFinalWindow = 3
  TrendMin = 4
  Traces <- MCTraces
  Tunings <- MCTunings
  ReplayTunings <- MCReplayTunings
  Truncations <- MCTruncations
  CalConfigs <- MCCalConfigs
  TargetSources <- MCTargetSources
  Devices <- MCDevices
  Invocations <- MCInvocations
  Imported <- MCImported
  SessionOptions <- MCSessionOptions
  MaxCommands = 3
  Horizon = 6
  RunHorizon = 6
  NoRate <- MCNone
  Bad <- MCNone
  NoReset <- MCNone
  NoReq = NoReq
  ServiceTimes = {1, 3}
  MaxFaults = 1
  Workloads <- MCWorkloads
  Corpora <- MCCorpora
  Pools <- MCPools
  chat1 = chat1
  chat2 = chat2
  chat3 = chat3
  openChat = openChat
  Sessions = {chat1, chat2, chat3, openChat}
  NoSession = NoSession
  NoRequest = NoRequest
  ObservedWorkloads <- AllWorkloads
  MaxRounds = 2
  MaxConcurrency = 2
  WarmupCount = 1
  Interruptible = TRUE
CHECK_DEADLOCK FALSE
INVARIANTS
  ChannelsSound
  NothingLeftBehind
  GenerationSound
  SessionsSound
  ReportsAgree
  TracesFaithful
  CalibrationExact
  DetectorsExact
  ReplayParity
  DeploymentSound
PROPERTIES
  Returns
  LazyIsEager
  SessionsGoOn
