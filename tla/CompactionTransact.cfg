SPECIFICATION Spec
CONSTANTS
    MaxJobs = 1
    MaxFailures = 1
    MaxCnt = 1
    BackoffMin = 1
    BackoffMax = 8
    BackoffMul = 2
    NsPerSecond = 1000
    DisableBackoff = FALSE
    None = None
INVARIANTS
    TypeOK
    CatalogOnStorage
    NoLeakWhileOpen
PROPERTIES
    CloseCompletes
    WriterReturns
