SPECIFICATION Spec
CONSTANTS
    Hosts = {h1}
    Agents = {a1}
    NoPid = NoPid
    Messages = {m1}
    Buttons = {b1}
    NoKey = NoKey
    MaxQuestions = 0
    MaxClock = 1
    AgentTimeout = 1
    Refresh = 1
    Rest = 1
    Gap = 1
    Day = 2
    AutoDaily = 1
    ManualDaily = 1
    MaxFaults = 1
    Terminal = FALSE
    OtherRuns = {}
SYMMETRY Symmetry
CHECK_DEADLOCK FALSE
INVARIANTS
    NoOrphans
    ReadOnce
