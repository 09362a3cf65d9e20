SPECIFICATION OneShotFairSpec
CONSTANTS
    Plan <- ThreeChunks
    Parallel = 2
    CacheActive = TRUE
    OomDepth = 1
    Faults = {"fails", "killed", "clientGone"}
INVARIANTS
    OutputIsDocument
    CacheSound
    MergeFailsOnlyIfAbandoned
    HalvingBudget
PROPERTY JobEnds
