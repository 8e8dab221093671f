SPECIFICATION FairSpec
CONSTANTS
  M = 16
  BAWinSize = 3
  Scenarios <- MCScenarios
\* The peer has sent all its frames.
CHECK_DEADLOCK FALSE
INVARIANTS
  Window
  OldDropped
  OnceUp
  NoneLeaks
  NoDangling
PROPERTIES
  DuplicateOrLate
  HeldGoesUp
