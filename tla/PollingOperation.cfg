SPECIFICATION FairSpec
CONSTANTS
  Limit = 2
INVARIANTS
  AttemptsBounded
  DeadlineKept
PROPERTIES
  CancelEndsAttempts
  PollingSettles
CHECK_DEADLOCK FALSE
