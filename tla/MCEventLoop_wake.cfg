SPECIFICATION LoopSpec
CONSTANTS
  e1 = e1
  e2 = e2
  f1 = f1
  f2 = f2
  d1 = d1
  h1 = h1
  NoEvent = NoEvent
  NoHandler = NoHandler
  Event = {e1, e2, f1, f2}
  FdEvent = {f1, f2}
  Fd = {d1}
  Handler = {h1}
  Body <- MCBody
  StringKey = {}
  Used = {2, 4}
  MaxHandled = 1
  MaxDelay = 1
  MaxNow = 1
  MayFail = TRUE
SYMMETRY Symmetric
INVARIANTS LoopTypeOK NoLostWakeUp OneTaskPerFd
