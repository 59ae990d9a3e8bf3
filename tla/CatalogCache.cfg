SPECIFICATION Spec
CONSTANTS
    Connections = {c1, c2}
    Databases = {d1}
    Entries = {e1, e2, e3}
    Preparers = {}
    None = None
    MaxTransactions = 2
    MaxClears = 2
SYMMETRY Symmetry
INVARIANTS
    TypeOK
    NoDanglingPointer
    FreshAfterClear
    StampsSorted
    LoadedIsComplete
CHECK_DEADLOCK FALSE
