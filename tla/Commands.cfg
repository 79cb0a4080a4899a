\* Two commands of two phones, a resume from a terminal, an owner that hangs,
\* a watcher that dies, another run.
SPECIFICATION Spec
CONSTANTS
    N = 2
    ph1 = ph1
    ph2 = ph2
    p1 = p1
    p2 = p2
    p3 = p3
    p4 = p4
    Phones = {ph1, ph2}
    Procs = {p1, p2, p3}
    Nobody = Nobody
    Starts = {"needs", "owned", "other"}
    MaxEvents = 1
    MaxUnsaved = 0
    MaxTurns = 1
SYMMETRY Symmetry
INVARIANTS
    NotLostWhileWatched
    DoneMeansOwner
    TextKept
    OnlyTheHungAreKilled
PROPERTIES
    OrderLife
CHECK_DEADLOCK FALSE
