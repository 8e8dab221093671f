SPECIFICATION RFairSpec
CONSTANTS
  RingSize = 8
  CounterMod = 16
  DsPerPkt = 2
  DescSplit = FALSE
  IsAr724x = TRUE
  FixedLink = FALSE
INVARIANTS
  SoundRing
PROPERTIES
  HangRecovers
