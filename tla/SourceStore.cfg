CONSTANTS
    p1 = p1
    p2 = p2
    j1 = j1
    j2 = j2
    j3 = j3
    c1 = c1
    c2 = c2
    d1 = d1
    d2 = d2
    d3 = d3
    Procs = {p1, p2}
    Jobs = {j1, j2, j3}
    Contents = {c1, c2}
    Dirs = {d1, d2, d3}
    Torn = Torn
    Pending = Pending
    None = None
    MaxEntries = 2
SYMMETRY Symmetry
SPECIFICATION Spec
INVARIANTS PutIsDurable WithinLimit
PROPERTIES ReadsAreWhole
