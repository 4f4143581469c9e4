SPECIFICATION FairSpec
CONSTANTS
  Stream = {s1, s2}
  NoStream = NoStream
  Poller = {p1}
  ReconnectEnabled = FALSE
  PollEnabled = TRUE
  MaxFailures = 1
  BatchSize = 2
  MaxBacklog = 3
  ActivationsMayFail = TRUE
  JobsMayRequeue = TRUE
PROPERTIES
  NoJobStranded
CHECK_DEADLOCK FALSE
