\* Seven octets in segments of two, so that regions are split; sequence numbers wrap after four.
SPECIFICATION Spec
CONSTANTS
  SeqModulus = 32
  ISS = 28
  Octets = 7
  WriteSizes = {1, 7}
  Mss = 2
  Window = 12
  DupThresh = 2
  MaxRto = 1
INVARIANTS
  TypeOK
  StreamIsExact
  ScoreboardIsTrue
  ScoreboardIsWhole
CHECK_DEADLOCK FALSE
