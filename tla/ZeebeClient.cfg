SPECIFICATION FairSpec
CONSTANTS
  Command = {c1}
  Worker = {w1}
  Activation = {s1}
  Forever = {c1}
  MaxRetries = 1
INVARIANTS
  StatusFollows
  NothingOutlivesClose
PROPERTIES
  SilentAfterClose
  CloseSettlesAll
CHECK_DEADLOCK FALSE
