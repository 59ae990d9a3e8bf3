SPECIFICATION Spec
CONSTANTS
    Sessions = {s1, s2}
    Replicas = {r1, r2}
    Here = r1
    Tables <- MCTables
    Values = {v}
    Types <- MCTypes
    Syncs = {0, 1, 2}
INVARIANTS
    StuckOnlyWhenRaced
    CountIsAffected
PROPERTIES
    AlterKeepsValues
    AddGivesDefault
SYMMETRY Symmetry
CHECK_DEADLOCK FALSE
