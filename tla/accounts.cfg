SPECIFICATION Spec
CONSTANTS
    r1 = r1  r2 = r2  r3 = r3  v = v
    Id = {1, 2, 3}
    NoId = NoId
    AccountKey = {"deletions_enabled"}
    Credentials <- ImmichConnection
    GlobalKey = {"bandwidth_bytes_per_second"}
    CarriedKey = {"ui_password"}
    CapKey = "bandwidth_bytes_per_second"
    Value = {v}
    Unset = Unset
    Absent = Absent
    NoDb = NoDb
    NoControl = NoControl
    NoGraph = NoGraph
    Free = Free
    OldRows <- SetOrNot
    NewRows <- Capped
    Req = {r1, r2}
    Patches <- HalfPatches
    ConcurrentSaves = FALSE
    Disruptions = {"crash", "database", "lost"}
    Budget = 2
SYMMETRY Requests
INVARIANTS
    TypeOK
    OneLimiter
    SavedIsServed
    RemovedIsGone
    BareWebhookOwner
PROPERTY KeepsBook
CHECK_DEADLOCK FALSE
