\* Both close with data of A still to send, on a network that loses nothing.
SPECIFICATION Spec
CONSTANTS
  A = A
  B = B
  Wnd = 4
  InitialWindow = 1
  MaxRexmitCount = 1
  IssStep = 8
  Active <- OnlyA
  Passive <- OnlyB
  Quota <- TwoOne
  Closers <- Both
  Responders <- Nobody
  Aborters <- Nobody
  Careless <- Nobody
  EarlyClose = FALSE
  PromptNetwork = TRUE
  MaxOpens = 1
  MaxSynRexmit = 1
  MaxLoss = 0
  MaxDup = 0
  MaxCrash = 0
INVARIANTS
  PeerFinIsAwaited
CHECK_DEADLOCK FALSE
