SPECIFICATION FairSpec
CONSTANTS
    Regs = {r1}
    Requests = {q1, q2}
    ana = ana
    ion = ion
    Answers <- TwoAnswers
    MaxRev = 2
    MaxFaults = 2
INVARIANTS
    TypeOK
    SettledAgrees
    OrphanOnlyFromOverlap
PROPERTIES
    AcordKept
    NeverOlder
    EveryBuildSettles
CHECK_DEADLOCK FALSE
