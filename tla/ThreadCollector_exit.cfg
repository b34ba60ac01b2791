SPECIFICATION FairSpec
CONSTANTS
  r1 = r1
  r2 = r2
  NoRunner = NoRunner
  Runner = {r1, r2}
PROPERTIES ExitEnds
CHECK_DEADLOCK FALSE
