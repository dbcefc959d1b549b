\* Three connections, two ephemeral ports and two server ports (one is both), one address, two peers.
SPECIFICATION Spec
CONSTANTS
  Conns = {c1, c2, c3}
  LocalAddr = {x}
  Unspecified = Unspecified
  Remote = {r1, r2}
  Blank = Blank
  ServerPort = {2, 9}
  EPHEMERAL_PORTRANGE_START = 1
  EPHEMERAL_PORTRANGE_END = 3
  None = None
  MaxId = 4
SYMMETRY Symmetry
INVARIANTS
  TypeOK
  MapsAgree
  PortsAreCounted
  SocketsAreServed
CHECK_DEADLOCK FALSE
