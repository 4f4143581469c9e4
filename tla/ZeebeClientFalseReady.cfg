SPECIFICATION FairSpec
CONSTANTS
  Command = {c1}
  Worker = {w1}
  Activation = {s1}
  Forever = {c1}
  MaxRetries = 1
INVARIANT StatusTruthful
CHECK_DEADLOCK FALSE
