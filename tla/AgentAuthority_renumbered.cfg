SPECIFICATION Spec
CONSTANTS
  None = None
  opencode = opencode
  claude = claude
  Full = {opencode}
  Native = {claude}
  ByPath = {}
  Adopting = {}
  Replacing <- NewReplaces
  Restored <- EitherWay
  Announcing <- Announces
  MissLimit = 2
  MaxRun = 1
  MaxSession = 2
  MaxSeq = 4
  MaxReports = 2
  MaxEvents = 1
CHECK_DEADLOCK FALSE
PROPERTY StaleReportIgnored
