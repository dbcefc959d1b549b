\* Data both ways, timers that expire while an answer is under way, nothing lost.
SPECIFICATION Spec
CONSTANTS
  A = A
  B = B
  Wnd = 4
  InitialWindow = 2
  MaxRexmitCount = 1
  IssStep = 8
  Active <- OnlyA
  Passive <- OnlyB
  Quota <- TwoTwo
  Closers <- Nobody
  Responders <- Nobody
  Aborters <- Nobody
  Careless <- Nobody
  EarlyClose = FALSE
  PromptNetwork = FALSE
  MaxOpens = 1
  MaxSynRexmit = 0
  MaxLoss = 0
  MaxDup = 0
  MaxCrash = 0
PROPERTIES
  NewAckIsAccepted
CHECK_DEADLOCK FALSE
