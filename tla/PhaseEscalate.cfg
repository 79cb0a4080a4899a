SPECIFICATION FairSpec
CONSTANTS
    Trees = {base, w1}
    Base = base
    NoTree = none
    Findings = {f1}
    RoundBound = 2
    Decisions = FALSE
    Escalates = TRUE
    EscalateAt = 0
    Scheduled = FALSE
    HasTests = TRUE
    HasTester = FALSE
    Scoped = TRUE
    GateWrites = FALSE
    CompactLimit = 1
    JudgeMaxFailures = 1
    NeedsUserMaxAttempts = 1
    KMax = 2
    Starts <- ShortStarts
INVARIANT ShippedAfterFullGate
INVARIANT EscalatedBeforeStuck
PROPERTY Terminates
