SPECIFICATION Spec
CONSTANTS
    d1 = d1
    d2 = d2
    Ids = {d1, d2}
    ScriptForm = {d1}
    Seasons = {s1, s2}
    Fallback = fb
    s1 = s1
    s2 = s2
    fb = fb
    MayEmpty = FALSE
    Workers = {"queue", "cron"}
    FailingCalls <- RowCalls
    MaxEdits = 2
    MaxToggles = 0
    MaxFaults = 0
INVARIANTS
    AlignedAtRest
CHECK_DEADLOCK FALSE
