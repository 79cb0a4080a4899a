SPECIFICATION FairSpec
CONSTANTS
    s1 = s1
    s2 = s2
    s3 = s3
    d1 = d1
    e1 = e1
    Slots = {s1, s2}
    Endpoints = {e1}
    Devices = {d1}
    NoDevice = NoDevice
    Reasons <- PushReasons
    MaxWrites = 2
    MaxFaults = 1
INVARIANTS
    FinalIsShown
    SilenceIsTold
PROPERTIES
    StateNeverOlder
    StateCatchesUp
    PhoneIsRight
    AskIsPushed
CHECK_DEADLOCK FALSE
