CONSTANTS
    Parts = {"accounts", "messages"}
    \* two callers with different authority, two changes, two reads at a time
    Readers = {r1, r2}
    Muts = {m1, m2}
    Keys = {k1, k2}
    Tasks = {t1, t2}
    r1 = r1
    m1 = m1
    k1 = k1
    Folders = Folders
    Settings <- ListSettings
    None = None
SPECIFICATION PartSpec
SYMMETRY Pools
INVARIANTS CachesCurrent
PROPERTY ImplementsRegister
