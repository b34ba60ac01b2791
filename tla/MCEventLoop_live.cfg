SPECIFICATION LoopFairSpec
CONSTANTS
  e1 = e1
  e2 = e2
  f1 = f1
  f2 = f2
  d1 = d1
  h1 = h1
  NoEvent = NoEvent
  NoHandler = NoHandler
  Event = {e1, f1}
  FdEvent = {f1}
  Fd = {d1}
  Handler = {h1}
  Body <- MCTask
  StringKey = {}
  Used = {2}
  MaxHandled = 1
  MaxDelay = 1
  MaxNow = 2
  MayFail = FALSE
PROPERTIES FinishStopsTheLoop LoopTakesDueEvents ReadyFdIsServed
