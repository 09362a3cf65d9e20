SPECIFICATION Spec
CONSTANTS
    c1 = c1
    c2 = c2
    Loader = Loader
    Chunks = {c1, c2}
    PoolSize = 2
    Faults = {"oom"}
INVARIANT LeaderSurvivesChildDeath
