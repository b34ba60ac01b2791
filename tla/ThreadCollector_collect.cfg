SPECIFICATION FairSpec
CONSTANTS
  r1 = r1
  r2 = r2
  NoRunner = NoRunner
  Runner = {r1, r2}
INVARIANTS CollectorTypeOK JoinedOnce ReclaimsAreDeposited NothingAfterExit
PROPERTIES ReleasedRunnersEnd EndedThreadsAreJoined
CHECK_DEADLOCK FALSE
