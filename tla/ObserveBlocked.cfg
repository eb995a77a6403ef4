SPECIFICATION FairSpec
CONSTANTS
  chat1 = chat1
  chat2 = chat2
  chat3 = chat3
  openChat = openChat
  Sessions = {chat1, chat2}
  NoSession = NoSession
  NoRequest = NoRequest
  ObservedWorkloads <- ClosedLoopOnly
  MaxRounds = 2
  MaxConcurrency = 1
  WarmupCount = 1
  Interruptible = FALSE
PROPERTIES
  SerializerNotBlocked
CHECK_DEADLOCK FALSE
