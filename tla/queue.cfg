SPECIFICATION FairSpec
CONSTANTS
    d1 = d1
    d2 = d2
    Ids = {d1, d2}
    Debounce = 2
    MaxWait = 10
INVARIANTS
    TypeOK
    DelayIsCapped
    PendingIsArmed
PROPERTIES
    UpsertIsTaken
    ImplementsQueue
