SPECIFICATION Spec
CONSTANTS
    j1 = j1
    j2 = j2
    c1 = c1
    c2 = c2
    Jobs = {j1, j2}
    Caching = {j1, j2}
    Chunks = {c1, c2}
    Parallel = 1
    Blocks = 2
    PipeCap = 1
    Faults = {"fails", "oom", "clientGone", "qpdfDies", "clear"}
SYMMETRY ChunkSymmetry
INVARIANTS
    SuccessIsComplete
    FinalCacheSound
    FailsForCause
    NeverStuck
