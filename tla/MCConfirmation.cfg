CONSTANTS
    Parts = {"tokens", "selection", "overlap", "previews"}
    None = None
    c1 = c1
    c2 = c2
    o1 = o1
    o2 = o2
    r1 = r1
    r2 = r2
SPECIFICATION Spec
SYMMETRY Pools
INVARIANTS ActsOnceOnShown StoresExact
