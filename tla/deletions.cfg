SPECIFICATION FairSpec
CONSTANTS
    a1 = a1  a2 = a2  a3 = a3  c1 = c1  c2 = c2  c3 = c3
    Asset = {a1, a2, a3}
    Checksum = {c1, c2, c3}
    ChecksumOf <- Distinct
    MaxAbsolute = 2
    MaxPercent = 67
    Budget = 1
INVARIANTS
    TypeOK
    DeletedMeansTrashed
    LostOnlyByTrashing
PROPERTIES
    LossIsBounded
    TrashingIsPropagated
CHECK_DEADLOCK FALSE
