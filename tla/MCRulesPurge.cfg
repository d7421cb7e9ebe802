\* An address purged by auth-purge and created again while the helper runs
CONSTANTS
    Parts = {"store"}
    Emails = {e1}
    AccountIds = {a1, a2}
    RuleIds = {r1, r2}
    Contents = {c1}
    None = None
    Missing = Missing
    Bad = Bad
    MaxRules = 2
    MaxRevision = 2
    MaxFaults = 2
    Settings <- FilterSettings
    NL = NL
    Control = Control
    d1 = d1
    d2 = d2
    d3 = d3
SPECIFICATION PartSpec
INVARIANT RulesStayInGeneration
CHECK_DEADLOCK FALSE
