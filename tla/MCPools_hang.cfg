SPECIFICATION PoolsHangSpec
CONSTANTS
    c1 = c1
    c2 = c2
    c3 = c3
    Loader = Loader
    Chunks = {c1, c2}
    LegacyChunks = {c1, c2, c3}
    PoolSize = 2
    Faults = {"timeout", "oom", "bootFails", "killed", "childKilled", "leaderKilled", "cancel"}
INVARIANTS
    ReaderNeverBlocks
    EofWakesEveryone
    OneRenderPerChild
    WorkersAccounted
PROPERTIES
    ImplementsChunkRenderer
    ForkedCallsReturn
    NoProcessLeaks
    ImplementsWeakChunkRenderer
    LegacyCallsReturn
