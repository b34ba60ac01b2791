SPECIFICATION Spec
CONSTANTS
  e1 = e1
  e2 = e2
  h1 = h1
  h2 = h2
  NoEvent = NoEvent
  NoHandler = NoHandler
  StringId = StringId
  Event = {e1, e2}
  Handler = {h1, h2}
  Body <- MixedBody
  StringKey = {StringId}
  Used = {2, 4}
  MaxHandled = 1
  MaxDelay = 0
  MaxNow = 1
SYMMETRY Symmetric
INVARIANT NothingOutlivesItsHandler
PROPERTY ImplementsDelivery
