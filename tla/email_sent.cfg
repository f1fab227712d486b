SPECIFICATION Spec
CONSTANTS
    r1 = r1
    a1 = a1
    Regs = {r1}
    Admins = {a1}
    MaxAttempts = 5
    Cap = 3
    Batch = 100
    MaxResends = 1
    MaxFaults = 0
PROPERTIES
    SentIsFinal
CHECK_DEADLOCK FALSE
