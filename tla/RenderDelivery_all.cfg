SPECIFICATION Spec
CONSTANTS
  c1 = c1
  c2 = c2
  p1 = p1
  Clients = {c1, c2}
  Panes = {p1}
  Chrome = chrome
  None = None
  Ansi = {c1, c2}
  Stream <- MCStream
  Fickle = {c2}
  MaxVersion = 2
  MaxHappenings = 2
  QueueCap = 1
INVARIANT BaselineIsShown NothingForgotten
PROPERTY LatestFrameShown
