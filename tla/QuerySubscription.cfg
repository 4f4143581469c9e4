SPECIFICATION FairSpec
CONSTANTS
  Item = {i1, i2}
  NoItem = NoItem
  Poll = {q1, q2}
  Window = 2
INVARIANTS
  PollsDoNotOverlap
  NoRepeatWithinWindow
  StateWasEmitted
PROPERTIES
  PollsAgain
CHECK_DEADLOCK FALSE
