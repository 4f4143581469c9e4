SPECIFICATION FairSpec
CONSTANTS
  Stream = {s1, s2}
  NoStream = NoStream
  Poller = {p1}
  ReconnectEnabled = TRUE
  PollEnabled = FALSE
  MaxFailures = 1
  BatchSize = 2
  MaxBacklog = 3
  ActivationsMayFail = FALSE
  JobsMayRequeue = FALSE
INVARIANT DeferredBackfillCarried
PROPERTIES
  Reconnects
  NoJobStranded
  Quiesces
CHECK_DEADLOCK FALSE
