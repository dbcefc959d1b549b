\* Two flows to one destination, nothing lost, broken or timed out: the requests of the two are confused.
SPECIFICATION Spec
CONSTANTS
  Node = {A, B, C, D}
  NET_DIAMETER = 4
  TTL_START = 2
  TTL_INCREMENT = 2
  TTL_THRESHOLD = 4
  RREQ_RETRIES = 1
  RREQ_RATELIMIT = 3
  RERR_RATELIMIT = 2
  AskGratuitousRREP = FALSE
  Nobody = Nobody
  Everybody = Everybody
  Links <- Kite
  Flows <- ABtoD
  Breakable <- None
  DataTTL = 3
  UseHelloMessages = FALSE
  PromptNetwork = TRUE
  LongLives = FALSE
  MaxSend = 1
  MaxBreak = 0
  MaxLoss = 0
  MaxExpiry = 0
  MaxForget = 0
  MaxCrash = 0
  MaxTick = 0
  MaxHello = 0
  MaxEvents = 0
  A = A
  B = B
  C = C
  D = D
  E = E
INVARIANTS
  LoopFree
CHECK_DEADLOCK FALSE
