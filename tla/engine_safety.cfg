SPECIFICATION Spec
CONSTANTS
    a1 = a1  a2 = a2  c1 = c1  c2 = c2  t1 = t1  t2 = t2
    Asset = {a1, a2}
    Checksum = {c1, c2}
    ChecksumOf <- DistinctContent
    Thread = {t1, t2}
    NoItem = NoItem
    WorkerThreads = {1, 2}
    BatchLimit = 2
    MaxAttempts = 2
    RetryDelays <- OneTick
    HaltDelay = 1
    WindowDelay = 1
    CapDelays <- OneTick
    PauseRetryAfter = 1
    StaleAge = 1
    ReconcileEvery = 1
    Reports <- MixedReports
    AlbumAllowlist = FALSE
    Disruptions = {"crash", "account", "asset"}
    Budget = 1
    Recurring = {"asset"}
SYMMETRY Symmetry
INVARIANTS
    TypeOK
    RowsConsistent
    BackedUp
    WorkOwnsItsRow
    MovedOnce
    FailedMeansExhausted
    PrepaidInFlight
PROPERTY SettledStays
