\* Two generations of one address and three rules over time
CONSTANTS
    Parts = {"store", "bridge", "trees", "lists"}
    Emails = {e1}
    AccountIds = {a1, a2}
    RuleIds = {r1, r2, r3}
    Contents = {c1, c2}
    None = None
    Missing = Missing
    Bad = Bad
    MaxRules = 2
    MaxRevision = 2
    MaxFaults = 2
    Settings <- FilterSettings
    NL = NL
    Control = Control
    d1 = d1
    d2 = d2
    d3 = d3
SPECIFICATION PartSpec
SYMMETRY Pools
INVARIANTS SnapshotsSound FilterSound EvaluatedAsWritten
