SPECIFICATION Spec
CONSTANTS
  w1 = w1  w2 = w2  term = term  small = small  large = large  none = none
  Writers <- MCOneWriter
  Terminal = term
  Sizes <- MCSizes
  TinySizes <- MCNoTiny
  NoSize = none
  QCap = 1
  MaxMsgs = 1
  MaxCalls = 0
  MaxReads = 0
  MaxResizes = 1
  MaxNudges = 1
INVARIANTS
  LatestSizeWins
CHECK_DEADLOCK FALSE
