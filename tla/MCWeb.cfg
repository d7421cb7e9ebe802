CONSTANTS
    Parts = {"tokens", "session", "events"}
    None = None
    \* two requests at a time, or two tabs; three reads of the session, or streams
    Requests = {t1, t2}
    Tasks = {s1, s2, s3}
    CacheTicks = 1
    CallTicks = 1
    Settings <- WebSettings
    MaxMail = 2
    MaxBreaks = 1
    MaxFaults = 1
    MaxSwitch = 1
SPECIFICATION PartSpec
SYMMETRY Alike
INVARIANTS WriteRunsOnce TokensCurrent SessionSound ArrivalsReach
PROPERTY RecoverableOnce
\* the browser stops when the bound on write tokens is used up
CHECK_DEADLOCK FALSE
