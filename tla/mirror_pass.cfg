SPECIFICATION Spec
CONSTANTS
    d1 = d1
    d2 = d2
    Ids = {d1, d2}
    ScriptForm = {}
    Seasons = {s1, s2}
    Fallback = fb
    s1 = s1
    s2 = s2
    fb = fb
    MayEmpty = TRUE
    Workers = {"queue", "cron", "admin"}
    FailingCalls <- RowCalls
    MaxEdits = 2
    MaxToggles = 2
    MaxFaults = 1
PROPERTIES
    PassRepairs
CHECK_DEADLOCK FALSE
