SPECIFICATION Spec
CONSTANTS
  Stream = {s1, s2}
  NoStream = NoStream
  Poller = {p1, p2}
  ReconnectEnabled = TRUE
  PollEnabled = FALSE
  MaxFailures = 2
  BatchSize = 2
  MaxBacklog = 2
  ActivationsMayFail = TRUE
  JobsMayRequeue = FALSE
INVARIANT DeferredBackfillCarried
CHECK_DEADLOCK FALSE
