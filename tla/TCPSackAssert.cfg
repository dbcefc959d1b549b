\* Five segments of one octet, one timeout, and the threshold of the code.
SPECIFICATION Spec
CONSTANTS
  SeqModulus = 16
  ISS = 14
  Octets = 5
  WriteSizes = {5}
  Mss = 1
  Window = 7
  DupThresh = 3
  MaxRto = 1
INVARIANTS
  NoFailedAssert
CHECK_DEADLOCK FALSE
