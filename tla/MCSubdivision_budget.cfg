SPECIFICATION OneShotSpec
CONSTANTS
    Plan <- ThreeChunks
    Parallel = 2
    CacheActive = FALSE
    OomDepth = 1
    Faults = {}
INVARIANT ProcessBudget
