SPECIFICATION OneShotSpec
CONSTANTS
    Plan <- CollidingChunks
    Parallel = 2
    CacheActive = FALSE
    OomDepth = 2
    Faults = {}
INVARIANT OutputIsDocument
