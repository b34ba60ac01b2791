SPECIFICATION TurnsFairSpec
CONSTANTS
  e1 = e1
  e2 = e2
  h1 = h1
  NoEvent = NoEvent
  NoHandler = NoHandler
  Event = {e1, e2}
  Handler = {h1}
  Body <- OneBody
  StringKey = {}
  Used = {1, 3, 4}
  MaxHandled = 1
  MaxDelay = 1
  MaxNow = 2
INVARIANTS TypeOK OnePlace SortedByHandleTime BypassBounded
PROPERTIES NoOvertaking BypassUsesTurns DueEventLeaves
