SPECIFICATION FairSpec
CONSTANTS
    j1 = j1
    c1 = c1
    c2 = c2
    Jobs = {j1}
    Caching = {j1}
    Chunks = {c1, c2}
    Parallel = 1
    Blocks = 3
    PipeCap = 1
    Faults = {"clientGone"}
PROPERTY JobEnds
CHECK_DEADLOCK FALSE
