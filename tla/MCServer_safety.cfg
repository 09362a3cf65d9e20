SPECIFICATION FairSpec
CONSTANTS
    r1 = r1
    r2 = r2
    r3 = r3
    None = None
    Requests = {r1, r2, r3}
    Html = {r3}
    S3Out = {r1}
    Rid <- ClientIds
    MaxJobs = 2
INVARIANTS
    SlotsBalance
    ScratchWithinBudget
    NothingLeftBehind
    HistoryTruthful
PROPERTIES
    ConvertsOwnInput
    EveryRequestAnswered
