SPECIFICATION FairSpec
CONSTANTS
  r1 = r1
  counter = counter
  inbox = inbox
  log = log
  NoWatcher = NoWatcher
  Watcher = {r1, counter}
  Receiver = {r1}
  Name = {inbox, log}
  Row <- MCRow
  Timeout <- MCTimeout
  MaxInit = 1
  MaxEvents = 2
INVARIANTS ObserversTypeOK OneTimer ContextsOutliveTasks EventsWaitForTheirObserver
PROPERTIES TimeoutTriggers LastBatchIsReceived
CHECK_DEADLOCK FALSE
