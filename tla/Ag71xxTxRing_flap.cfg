SPECIFICATION Spec
CONSTANTS
  RingSize = 8
  CounterMod = 64
  DsPerPkt = 3
  DescSplit = TRUE
  IsAr724x = FALSE
  FixedLink = FALSE
INVARIANT NoEarlyTx
