SPECIFICATION Spec
CONSTANTS
    N = 3
    MaxDeaths = 3
    MaxAsks = 3
INVARIANTS
    PhasesInOrder
    CommittedOnce
    ArgsAreOwn
    CrashLoopEnds
