\* A host crashes and opens again while segments of its first connection are on their way.
SPECIFICATION Spec
CONSTANTS
  A = A
  B = B
  Wnd = 4
  InitialWindow = 1
  MaxRexmitCount = 1
  IssStep = 8
  Active <- OnlyA
  Passive <- OnlyB
  Quota <- OneEach
  Closers <- Nobody
  Responders <- Nobody
  Aborters <- Nobody
  Careless <- Nobody
  EarlyClose = FALSE
  PromptNetwork = TRUE
  MaxOpens = 2
  MaxSynRexmit = 1
  MaxLoss = 0
  MaxDup = 1
  MaxCrash = 1
INVARIANTS
  NothingInvented
  HandshakeAgreement
CHECK_DEADLOCK FALSE
