\* Three routers on a LAN, one with a stub network, and up to two faults of any kind.
SPECIFICATION FairSpec
CONSTANTS
  Router = {A, B, C}
  Net = {stub, lan}
  Ifaces <- LanIfaces
  Cost <- Cost1
  LinkMetric <- Link20
  Mode <- Mixed
  Static <- NoStatic
  RIP_INFINITE_METRIC = 4
  ExpiryPeriods = 2
  PurgePeriods = 1
  None = None
  MaxWire = 2
  MaxLoss = 1
  MaxDown = 1
  MaxUp = 1
  MaxCrash = 1
  MaxShutdown = 1
  MaxStart = 1
  MaxRefresh = 1
  MaxEvents = 2
  A = A
  B = B
  C = C
  lan = lan
  stub = stub
  hosts = hosts
  far = far
INVARIANTS
  NoCountingToInfinity
  TypeOK
  TablesAgree
PROPERTIES
  Converges
CHECK_DEADLOCK FALSE
