SPECIFICATION FairSpec
CONSTANTS
  t1 = t1
  t2 = t2
  t3 = t3
  r1 = r1
  r2 = r2
  Nobody = Nobody
  Thread = {t1, t2, t3}
  Runner = {r1, r2}
  Looper = {t1, t2}
INVARIANTS SyncTypeOK OneLoop SenderOutlivesItsEvent
PROPERTIES SendersReturn LoopIsStopped
CHECK_DEADLOCK FALSE
