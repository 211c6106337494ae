SPECIFICATION Spec
CONSTANTS
    a1 = a1  a2 = a2  a3 = a3  c1 = c1  c2 = c2  c3 = c3
    Asset = {a1, a2}
    Checksum = {c1}
    ChecksumOf <- ComesBack
    MaxAbsolute = 2
    MaxPercent = 100
    Budget = 0
INVARIANT LiveIsBackedUp
CHECK_DEADLOCK FALSE
