SPECIFICATION Spec
CONSTANTS
    Trees = {base, w1, w2}
    Base = base
    NoTree = none
    Findings = {f1}
    RoundBound = 2
    Decisions = TRUE
    Escalates = TRUE
    EscalateAt = 2
    Scheduled = FALSE
    HasTests = TRUE
    HasTester = TRUE
    Scoped = FALSE
    GateWrites = TRUE
    CompactLimit = 1
    JudgeMaxFailures = 2
    NeedsUserMaxAttempts = 2
    KMax = 1
    Starts <- AllStarts
SYMMETRY TreeSymmetry
INVARIANTS
    ShippedIsApproved
    HaltKeepsWork
PROPERTIES
    ReviewHolds
    StopStartsNothing
