SPECIFICATION Spec
CONSTANTS
    a1 = a1  a2 = a2
    Asset = {a1, a2}
    NoAsset = NoAsset
    BatchLimit = 2
    Threads = {2}
    Caps = {100}
    NoCap = NoCap
    CapDelay = 1
    HaltDelay = 0
    RetryDelay = 0
    Saves = 2
SYMMETRY Assets
INVARIANTS
    ClaimedOnce
    DeadlinesFollowTheCap
    ClientOutlivesItsCalls
PROPERTY SaveResumesNothing
