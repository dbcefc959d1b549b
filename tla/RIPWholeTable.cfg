\* Two stub networks behind a LAN: a router crashes and its network is forgotten.
SPECIFICATION Spec
CONSTANTS
  Router = {A, B, C}
  Net = {stub, lan, hosts, far}
  Ifaces <- StubsIfaces
  Cost <- Cost1
  LinkMetric <- Link20
  Mode <- Poisoned
  Static <- StubStatic
  RIP_INFINITE_METRIC = 4
  ExpiryPeriods = 2
  PurgePeriods = 1
  None = None
  MaxWire = 2
  MaxLoss = 0
  MaxDown = 0
  MaxUp = 0
  MaxCrash = 1
  MaxShutdown = 0
  MaxStart = 0
  MaxRefresh = 0
  MaxEvents = 1
  A = A
  B = B
  C = C
  lan = lan
  stub = stub
  hosts = hosts
  far = far
PROPERTIES
  WholeTableIsSent
CHECK_DEADLOCK FALSE
