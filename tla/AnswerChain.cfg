SPECIFICATION Spec
CONSTANTS
    Phases = 2
    Seqs = 4
    Answers = 0
    Crashes = 0
    Duties = 0
    Reasons = {"provider_quota"}
    Offers <- NoOffers
    HasRelay = FALSE
    LossyAcks = FALSE
    Budget = 3
    LimitWaits = 3
INVARIANT NoSkipChain
