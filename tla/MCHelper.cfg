CONSTANTS
    Parts = {"dispatch", "stepUp", "rate", "fullTable", "lifecycle", "bootstrap", "submitDocker", "submitNative", "certNative", "certDocker", "data"}
    Accounts = {"adm", "usr"}
    Admins = {"adm"}
    Requests = {"r1", "r2"}
    Ops = {"unknown", "maddy.health", "auth.session_peek", "auth.logout", "auth.recovery_regenerate", "auth.step_up", "auth.change_password", "accounts.list", "accounts.get_append_limit", "accounts.disable_credentials", "messages.latest", "messages.get", "messages.append"}
    Paired = {"auth.step_up", "auth.change_password", "accounts.disable_credentials"}
    MaxServed = 2
    MaxOutside = 3
    MaxKills = 1
    None = None
    Users = {"u1", "u2"}
    Changes = {"create", "disable", "reset", "change", "delete", "bootstrap"}
    MaxFaults = 4
    MaxEnabled = 2
    MaxGen = 4
    Renamed = {4}
    MaxBroken = 3
    Attempts = {"r1", "r2", "r3"}
SPECIFICATION PartSpec
INVARIANTS
    RequestsSound LimitsExact PasswordsRetired SubmissionSound FailureSound DataExact
PROPERTIES AccountsSound SuccessServed
\* requests and messages come to their end
CHECK_DEADLOCK FALSE
