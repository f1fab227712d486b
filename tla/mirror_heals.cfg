SPECIFICATION FairSpec
CONSTANTS
    d1 = d1
    d2 = d2
    Ids = {d1, d2}
    ScriptForm = {}
    Seasons = {s1, s2}
    Fallback = fb
    s1 = s1
    s2 = s2
    fb = fb
    MayEmpty = TRUE
    Workers = {"queue", "cron"}
    FailingCalls <- RowCalls
    MaxEdits = 2
    MaxToggles = 0
    MaxFaults = 1
PROPERTIES
    Converges
CHECK_DEADLOCK FALSE
