SPECIFICATION Spec
CONSTANTS
    Hosts = {h1, h2}
    Agents = {a1, a2}
    NoPid = NoPid
    Messages = {}
    Buttons = {}
    NoKey = NoKey
    MaxQuestions = 1
    MaxClock = 1
    AgentTimeout = 1
    Refresh = 1
    Rest = 1
    Gap = 1
    Day = 2
    AutoDaily = 2
    ManualDaily = 1
    MaxFaults = 0
    Terminal = TRUE
    OtherRuns = {"manual"}
SYMMETRY Symmetry
CHECK_DEADLOCK FALSE
INVARIANTS
    StartedOnce
    OnlyOneOnDuty
    LimitsHold
PROPERTIES
    LeasePassesOn
