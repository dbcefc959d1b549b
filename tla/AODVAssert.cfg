\* One flow over a diamond, nothing lost or broken: the entry of a next hop grows old and is deleted.
SPECIFICATION Spec
CONSTANTS
  Node = {A, B, C, D, E}
  NET_DIAMETER = 4
  TTL_START = 3
  TTL_INCREMENT = 1
  TTL_THRESHOLD = 4
  RREQ_RETRIES = 1
  RREQ_RATELIMIT = 2
  RERR_RATELIMIT = 1
  AskGratuitousRREP = FALSE
  Nobody = Nobody
  Everybody = Everybody
  Links <- Diamond
  Flows <- AtoE
  Breakable <- None
  DataTTL = 4
  UseHelloMessages = FALSE
  PromptNetwork = TRUE
  LongLives = TRUE
  MaxSend = 4
  MaxBreak = 0
  MaxLoss = 0
  MaxExpiry = 3
  MaxForget = 0
  MaxCrash = 0
  MaxTick = 0
  MaxHello = 0
  MaxEvents = 3
  A = A
  B = B
  C = C
  D = D
  E = E
INVARIANTS
  NoFailedAssert
CHECK_DEADLOCK FALSE
