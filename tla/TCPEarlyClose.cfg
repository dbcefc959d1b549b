\* An application closes before its SYN is acknowledged, and a segment is lost.
SPECIFICATION Spec
CONSTANTS
  A = A
  B = B
  Wnd = 4
  InitialWindow = 1
  MaxRexmitCount = 1
  IssStep = 8
  Active <- OnlyA
  Passive <- OnlyB
  Quota <- OneEach
  Closers <- Both
  Responders <- Nobody
  Aborters <- Nobody
  Careless <- Nobody
  EarlyClose = TRUE
  PromptNetwork = TRUE
  MaxOpens = 1
  MaxSynRexmit = 1
  MaxLoss = 1
  MaxDup = 0
  MaxCrash = 0
INVARIANTS
  NoInternalError
CHECK_DEADLOCK FALSE
