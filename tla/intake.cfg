SPECIFICATION Spec
CONSTANTS
    p1 = p1
    p2 = p2
    p3 = p3
    d1 = d1
    s1 = s1
    s2 = s2
    Submits = {p1, p2, p3}
    Drafts = {d1}
    Years = {1, 2}
    Schools = {s1, s2}
    MaxRetries = 1
    MaxSeq = 2
    Cap = 1
    MaxChanges = 1
    MaxFaults = 1
SYMMETRY Symmetry
INVARIANTS
    TypeOK
    ClashOnlyWhenBeaten
    LaterIsHigher
    RepeatStoredOnce
    OneJobEach
    CapPassedByOverlapOnly
CHECK_DEADLOCK FALSE
