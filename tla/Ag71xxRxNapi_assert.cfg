SPECIFICATION RxSpec
CONSTANTS
  RingSize = 4
  CounterMod = 8
  Limit = 2
  RxAr724x = FALSE
  Payloads = {a}
INVARIANT NoAssert
