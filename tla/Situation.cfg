SPECIFICATION Spec
CHECK_DEADLOCK FALSE
CONSTANTS
    SonnetMax = 1
    CfgSonnetMax = 1
    MoleRounds = 2
    PolishMinRound = 2
    MaxDebt = 2
    MaxRounds = 3
    MoreRounds = 1
    KMax = 2
    Judged = {"blocker", "nit"}
    Sevs = {"unsure", "minor"}
    JevOn <- Both
    HasTests = TRUE
    MaxOpen = 2
    Answers = 1
    Faults = 1
    Crashes = 1
INVARIANTS
    DebtIsSmall
    OpenIsDebt
