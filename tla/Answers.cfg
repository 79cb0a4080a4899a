SPECIFICATION Live
PROPERTY QuestionsEnd
CONSTANTS
    Phases = 1
    Seqs = 2
    Answers = 1
    Crashes = 1
    Duties = 1
    Reasons = {"stuck", "provider_quota"}
    Offers <- AnswerOffers
    HasRelay = TRUE
    LossyAcks = TRUE
    Budget = 1
    LimitWaits = 2
INVARIANTS
    OneAnswerPerQuestion
    AcceptedIsExecuted
    BudgetHolds
    PausesAreAnswered
