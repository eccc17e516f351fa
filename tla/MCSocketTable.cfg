SPECIFICATION Spec
CONSTANTS
  Fd = {3, 4, 5, 6}
  Client = {c1, c2, c3, c4}
  Asker = {a1}
  Channel = {ch1}
  VIEWERS_LIMIT = 1
  NONE = NONE
SYMMETRY Symmetry
INVARIANTS ViewersBounded   
CHECK_DEADLOCK FALSE
