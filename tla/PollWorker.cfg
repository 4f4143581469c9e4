SPECIFICATION FairSpec
CONSTANTS
  Stream = {s1, s2}
  NoStream = NoStream
  MaxJobs = 4
  CancelOnException = TRUE
  MaxLateErrors = 2
  MaxDoubled = 1
  MaxLeaked = 2
INVARIANTS
  OverlapsAreLate
  DriftIsBounded
PROPERTIES
  ServicePromise
  PollsAgain
  CloseResolves
CHECK_DEADLOCK FALSE
