SPECIFICATION Spec
CONSTANTS
  w1 = w1  w2 = w2  term = term  small = small  large = large  none = none
  Writers <- MCOneWriter
  Terminal = term
  Sizes <- MCSizes
  TinySizes <- MCNoTiny
  NoSize = none
  QCap = 1
  MaxMsgs = 1
  MaxCalls = 2
  MaxReads = 0
  MaxResizes = 0
  MaxNudges = 0
INVARIANTS
  RolledBackAccepts
CHECK_DEADLOCK FALSE
