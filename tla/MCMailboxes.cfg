CONSTANTS
    \* three messages and two things that go wrong with a deletion
    Quarantines = {"q1", "q2"}
    MaxMsgs = 3
    MaxFaults = 2
    Parts = {"runs", "delete"}
    None = None
    Msgs = {m1, m2, n1, n2}
    Matching = {m1, m2}
    Listing <- WorkAndFiled
    Target = "filed"
    Excluded = {"filed"}
    Batch = 2
    MaxRuns = 2
    MaxUid = 4
    MaxRenames = 1
    MaxBreaks = 1
SPECIFICATION PartSpec
SYMMETRY Verdicts
INVARIANTS RunsSound MailKept
PROPERTY MovesOnlyPlanned
