\* One flow along a line, up to four of: a break, a loss, an expiry, a forgotten request, a crash, a tick, a hello.
SPECIFICATION FairSpec
CONSTANTS
  Node = {A, B, C}
  NET_DIAMETER = 3
  TTL_START = 1
  TTL_INCREMENT = 1
  TTL_THRESHOLD = 3
  RREQ_RETRIES = 1
  RREQ_RATELIMIT = 2
  RERR_RATELIMIT = 2
  AskGratuitousRREP = TRUE
  Nobody = Nobody
  Everybody = Everybody
  Links <- Line3
  Flows <- AtoC
  Breakable <- AB
  DataTTL = 3
  UseHelloMessages = TRUE
  PromptNetwork = TRUE
  LongLives = FALSE
  MaxSend = 1
  MaxBreak = 1
  MaxLoss = 1
  MaxExpiry = 1
  MaxForget = 1
  MaxCrash = 1
  MaxTick = 1
  MaxHello = 1
  MaxEvents = 4
  A = A
  B = B
  C = C
  D = D
  E = E
INVARIANTS
  TypeOK
  NotCopied
  LoopFree
PROPERTIES
  DatagramsArrive
CHECK_DEADLOCK FALSE
