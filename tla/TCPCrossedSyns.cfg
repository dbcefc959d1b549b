\* Two SYNs cross and both applications write at once, on a network that loses nothing.
SPECIFICATION FairSpec
CONSTANTS
  A = A
  B = B
  Wnd = 4
  InitialWindow = 2
  MaxRexmitCount = 1
  IssStep = 8
  Active <- Both
  Passive <- Nobody
  Quota <- OneEach
  Closers <- Nobody
  Responders <- Nobody
  Aborters <- Nobody
  Careless <- Nobody
  EarlyClose = FALSE
  PromptNetwork = TRUE
  MaxOpens = 1
  MaxSynRexmit = 1
  MaxLoss = 0
  MaxDup = 0
  MaxCrash = 0
PROPERTIES
  WrittenIsDelivered
CHECK_DEADLOCK FALSE
