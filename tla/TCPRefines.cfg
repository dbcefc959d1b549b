\* Timers expire and applications close or abort when they like, one segment is lost: the two ends implement the pipe.
SPECIFICATION Spec
CONSTANTS
  A = A
  B = B
  Wnd = 4
  InitialWindow = 2
  MaxRexmitCount = 1
  IssStep = 8
  Active <- OnlyA
  Passive <- OnlyB
  Quota <- TwoFromA
  Closers <- OnlyA
  Responders <- OnlyB
  Aborters <- Both
  Careless <- Nobody
  EarlyClose = TRUE
  PromptNetwork = FALSE
  MaxOpens = 1
  MaxSynRexmit = 0
  MaxLoss = 1
  MaxDup = 0
  MaxCrash = 0
INVARIANTS
  TypeOK
  NoInternalError
  SocketMatchesState
  HandshakeIsTimed
  NothingSentUnqueued
  PeerFinIsAwaited
PROPERTIES
  NothingIsRetracted
  NewAckIsAccepted
  ImplementsService
CHECK_DEADLOCK FALSE
