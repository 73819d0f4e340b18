SPECIFICATION FairSpec
CONSTANTS
  Shown = {s1, s2}
  Popups = {p1}
  Visitors = TRUE
  MaxAttempts = 2
INVARIANTS
  TypeOK
  OnlyPopupsKilled
  NoStrayImport
  OldReachable
  NewReachable
PROPERTIES
  KeepsCustody
  EveryPaneReadAgain
CHECK_DEADLOCK FALSE
