\* Passkeys: registration, login and step-up, and accounts purged between.
\* StepUp is longer than a session lives, so that its cap matters in every one.
SPECIFICATION Spec
CONSTANTS
    None = None
    Emails = {e1}
    Roles = {"user"}
    AccountIds = {a1, a2}
    LoginTokens = {l1, l2}
    SessionTokens = {s1, s2}
    CeremonyTokens = {t1, t2}
    Credentials = {k1}
    MaxTime = 1
    MaxDraws = 4
    MaxSignCount = 1
    Period = 2
    Window = 1
    RecoveryCount = 1
    ChallengeLifetime = 1
    FailureLimit = 2
    SessionIdle = 1
    SessionAbsolute = 2
    StepUp = 3
    MaxSessions = 2
    MaxChallenges = 2
    MaxCeremonies = 1
    MaxLoginCeremonies = 1
    MaxPasskeys = 1
SYMMETRY Pools
INVARIANTS TablesSound EnrolledBeforeSession
PROPERTIES SessionIsEarned ElevationIsEarned
