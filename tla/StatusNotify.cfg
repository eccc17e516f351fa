SPECIFICATION Spec
CONSTANTS
  Channel = {ch1, ch2}
  Server = {s1}
  Sessions = 1
  NULL = NULL
INVARIANTS ToldOnce StatusLostOnlyByOverlap
PROPERTY AllTold
CHECK_DEADLOCK FALSE
