SPECIFICATION Spec
CONSTANTS
  Stream = {s1, s2}
  NoStream = NoStream
  Poller = {p1, p2}
  ReconnectEnabled = TRUE
  PollEnabled = TRUE
  MaxFailures = 2
  BatchSize = 2
  MaxBacklog = 2
  ActivationsMayFail = TRUE
  JobsMayRequeue = TRUE
SYMMETRY Symmetry
INVARIANTS
  TypeOK
  OnePolledBatch
  ReservationHeld
  AtMostOneStream
  NeverStalled
  NothingOutlivesClose
  SidecarAlive
PROPERTIES
  OwedBackfillKept
  HandlePromise
CHECK_DEADLOCK FALSE
