SPECIFICATION PlatFairSpec
CONSTANTS
  e1 = e1
  e2 = e2
  h1 = h1
  NoEvent = NoEvent
  NoHandler = NoHandler
  Event = {e1, e2}
  Handler = {h1}
  Body <- EventAndTask
  StringKey = {}
  Used = {2}
  MaxHandled = 1
  MaxDelay = 0
  MaxNow = 2
PROPERTY DueEventsAreProcessed
CHECK_DEADLOCK FALSE
