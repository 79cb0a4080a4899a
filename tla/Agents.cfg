SPECIFICATION CallFairSpec
CHECK_DEADLOCK FALSE
CONSTANTS
    Retries = 1
    ReadLimit = 2
    KickLimit = 1
    Heirs <- JobOnly
    Hiders <- ShellOnly
INVARIANT NothingLeft
PROPERTY CallEnds
