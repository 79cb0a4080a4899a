\* Two requests at a time of six, two codes, two devices, wrong codes, a
\* request that dies.
SPECIFICATION Spec
CONSTANTS
    s1 = s1
    s2 = s2
    d1 = d1
    d2 = d2
    c1 = c1
    c2 = c2
    e1 = e1
    e2 = e2
    t1 = t1
    Slots = {s1, s2}
    Endpoints = {e1, e2}
    Devices = {d1, d2}
    NoDevice = NoDevice
    Reasons = {t1}
    Codes = {c1, c2}
    NoCode = NoCode
    MaxBad = 2
    PerWindow = 1
    MaxRequests = 6
    MaxKills = 1
SYMMETRY Symmetry
INVARIANTS
    UsedCodeHasItsDevice
    TriesAreLimited
    NoPushToRevoked
CHECK_DEADLOCK FALSE
