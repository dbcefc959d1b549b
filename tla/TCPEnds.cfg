\* Two units in flight, one segment lost, the peer closes in response: every fair run ends.
SPECIFICATION FairSpec
CONSTANTS
  A = A
  B = B
  Wnd = 4
  InitialWindow = 2
  MaxRexmitCount = 1
  IssStep = 8
  Active <- OnlyA
  Passive <- OnlyB
  Quota <- TwoOne
  Closers <- OnlyA
  Responders <- OnlyB
  Aborters <- Nobody
  Careless <- Nobody
  EarlyClose = FALSE
  PromptNetwork = TRUE
  MaxOpens = 1
  MaxSynRexmit = 1
  MaxLoss = 1
  MaxDup = 0
  MaxCrash = 0
INVARIANTS
  AckedIsDelivered
  SegmentsMatchQueue
  NoSpuriousReset
  TimeWaitIsComplete
PROPERTIES
  BothCloseBothEnd
  WrittenIsDelivered
CHECK_DEADLOCK FALSE
