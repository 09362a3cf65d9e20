SPECIFICATION FairSpec
CONSTANTS
    MaxPages = 6
    Costs = {0, 3, 5}
    Probes <- AllProbes
    Limits <- AllLimits
    MinPagesFloor = 2
    MinChunks = 2
    PoolMinChunks = 2
    PageCounts = {0, 1, 5}
INVARIANTS
    PlanCovers
    PlanIsGreedy
    FitsWorker
PROPERTY PlanEnds
