\* One end closes with data still to send, the other closes, and the first closes again.
SPECIFICATION Spec
CONSTANTS
  A = A
  B = B
  Wnd = 4
  InitialWindow = 1
  MaxRexmitCount = 1
  IssStep = 8
  Active <- OnlyA
  Passive <- OnlyB
  Quota <- TwoFromA
  Closers <- Both
  Responders <- Nobody
  Aborters <- Nobody
  Careless <- OnlyA
  EarlyClose = FALSE
  PromptNetwork = TRUE
  MaxOpens = 1
  MaxSynRexmit = 0
  MaxLoss = 0
  MaxDup = 0
  MaxCrash = 0
INVARIANTS
  SocketRefusesFirst
CHECK_DEADLOCK FALSE
