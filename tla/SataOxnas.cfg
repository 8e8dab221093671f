SPECIFICATION FairSpec
CONSTANTS
    Ports = {0, 1}
    HotPorts = {1}
    Tags = {t1, t2}
    Internal = internal
INVARIANTS LockCountsCommands OnePortAtOnce EndNotLost
PROPERTIES WaitIsFutile CommandsResolved EhEnds
