SPECIFICATION FairSpec
CONSTANTS
    r1 = r1
    a1 = a1
    Regs = {r1}
    Admins = {a1}
    MaxAttempts = 2
    Cap = 1
    Batch = 2
    MaxResends = 2
    MaxFaults = 2
INVARIANTS
    TypeOK
    GivenUpAfterAttempts
    DuplicatesAccounted
PROPERTIES
    EveryJobSettles
CHECK_DEADLOCK FALSE
