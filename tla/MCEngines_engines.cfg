SPECIFICATION Spec
CONSTANTS
    q = q
    poll = poll
    Callers <- MCCallers
    Req = q
    Nobody = nobody
    Licences <- MCLicences
    Docs <- MCDocs
    Endpoints = {"convert", "html/aspose", "html/gotenberg"}
    MaxMtime = 2
    MaxChanges = 1
    LastDay = 1
INVARIANTS
    VerdictFresh
    GateForesees
    RefusalHasCause
    OkIsBacked
PROPERTY
    EngineEnds
