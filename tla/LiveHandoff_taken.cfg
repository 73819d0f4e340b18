SPECIFICATION FairSpec
CONSTANTS
  Shown = {s1}
  Popups = {p1}
  Visitors = TRUE
  MaxAttempts = 1
INVARIANTS
  FailedHandoffReachable
CHECK_DEADLOCK FALSE
