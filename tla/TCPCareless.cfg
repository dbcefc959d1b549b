\* Applications that go on writing and closing as long as the socket lets them, data both ways.
SPECIFICATION Spec
CONSTANTS
  A = A
  B = B
  Wnd = 4
  InitialWindow = 2
  MaxRexmitCount = 1
  IssStep = 8
  Active <- OnlyA
  Passive <- OnlyB
  Quota <- ThreeOne
  Closers <- Both
  Responders <- Nobody
  Aborters <- Nobody
  Careless <- Both
  EarlyClose = TRUE
  PromptNetwork = TRUE
  MaxOpens = 1
  MaxSynRexmit = 0
  MaxLoss = 1
  MaxDup = 0
  MaxCrash = 0
PROPERTIES
  CommandsAreLegal
CHECK_DEADLOCK FALSE
