SPECIFICATION Spec
CONSTANTS
    c1 = c1
    c2 = c2
    c3 = c3
    Clients = {c1, c2, c3}
    NoXFF = NoXFF
    TrustXFF = TRUE
    PerMinute = 40
    Burst = 2
    MaxKeys = 2
    MaxTime = 4
INVARIANTS
    TableAgrees
    AdmissionBound
    RetryAfterKept
