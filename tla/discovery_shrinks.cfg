SPECIFICATION Spec
CONSTANTS
    Asset = {1, 2}
    PageSize = 1
    Overlap = 2
    DeletionsEnabled = TRUE
    TrashingAllowed = TRUE
    Deletable = {1}
    MaxSkew = 0
    MaxDelay = 1
    MaxTime = 4
    Budget = 1
INVARIANT NothingForgotten
