SPECIFICATION FixedSpec
CONSTANTS
  RingSize = 8
  CounterMod = 16
  DsPerPkt = 2
  DescSplit = TRUE
  IsAr724x = FALSE
  FixedLink = TRUE
INVARIANTS
  NoEarlyTx
  HeldUntilSent
PROPERTIES
  QueueWakes
  PacketsComplete
