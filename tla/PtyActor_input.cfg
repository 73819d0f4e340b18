SPECIFICATION Spec
CONSTANTS
  w1 = w1  w2 = w2  term = term  small = small  large = large  none = none
  Writers <- MCWriters
  Terminal = term
  Sizes <- MCSizes
  TinySizes <- MCNoTiny
  NoSize = none
  QCap = 1
  MaxMsgs = 1
  MaxCalls = 3
  MaxReads = 1
  MaxResizes = 0
  MaxNudges = 0
INVARIANTS
  TypeOK AcceptedConserved GateOpenOnlyWhenRunning PausedIsDrained
PROPERTIES
  HandedMasterLeftAlone
CHECK_DEADLOCK FALSE
