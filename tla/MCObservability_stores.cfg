SPECIFICATION Spec
CONSTANTS
    Jobs = {1, 2}
    Office = {1}
    Old <- MCOld
    Filters = {"all", "failed"}
    MaxChunks = 2
    MaxLines = 3
    TTL = 1
    MaxNow = 2
    RingMax = 2
    Maxlen = 2
    Limit = 1
INVARIANTS
    ActiveIsTruthful
    RingKeepsNewest
    WalkComplete
PROPERTY
    PercentNeverFalls
