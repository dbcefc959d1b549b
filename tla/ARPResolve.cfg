\* Hosts a and b send to each other, a also through a proxy and to nobody; packets are lost, a host faults.
SPECIFICATION FairSpec
CONSTANTS
  Host = {a, b}
  Addr = {A, B, Behind, Unused}
  address <- AddressOf
  Recognized <- AnswersFor
  NoMAC = NoMAC
  retryCount = 2
  Flows <- Exchange
  MaxDatagrams <- TwoThenOne
  MaxFaults = 1
  a = a
  b = b
  A = A
  B = B
  Behind = Behind
  Unused = Unused
INVARIANTS
  TypeOK
  QueuesAreAwaited
  CacheIsTrue
PROPERTIES
  ImplementsQueue
  QueuesDrain
CHECK_DEADLOCK FALSE
