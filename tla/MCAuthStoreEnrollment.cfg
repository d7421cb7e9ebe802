\* Enrollment and password logins, no passkeys.
SPECIFICATION ApiSpec
CONSTANTS
    None = None
    Emails = {e1}
    Roles = {"user", "admin"}
    AccountIds = {a1, a2}
    LoginTokens = {l1, l2, l3}
    SessionTokens = {s1, s2}
    CeremonyTokens = {}
    Credentials = {}
    MaxTime = 1
    MaxDraws = 4
    MaxSignCount = 0
    Period = 1
    Window = 1
    RecoveryCount = 1
    ChallengeLifetime = 1
    FailureLimit = 2
    SessionIdle = 1
    SessionAbsolute = 1
    StepUp = 1
    MaxSessions = 1
    MaxChallenges = 2
    MaxCeremonies = 1
    MaxLoginCeremonies = 1
    MaxPasskeys = 1
SYMMETRY Pools
INVARIANTS TypeOK PendingHasOwner ProofsAreOneTime
PROPERTIES SensitiveChangeRevokes
