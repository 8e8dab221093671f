SPECIFICATION FairSpec
CONSTANTS
  w = w
  v = v
  k = k
  s = s
  Index <- MCIndex
  Keys = {k}
  Switches = {s}
  Mapped = {k, s}
  Boards <- MCBoards
  Threshold = 2
  Workers = {w, v}
  MaxFails = 1
CHECK_DEADLOCK FALSE
PROPERTIES
  Debounced
  FinallyTold
