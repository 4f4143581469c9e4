SPECIFICATION FairSpec
CONSTANTS
  Call = {c1, c2}
  NoCall = NoCall
  MaxJobs = 3
  MaxWaiting = 2
INVARIANTS
  TypeOK
  LockGuardsPoll
  NoPollOutlivesStop
PROPERTIES
  ServicePromise
  UnstoppedPollsAgain
CHECK_DEADLOCK FALSE
