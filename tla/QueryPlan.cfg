SPECIFICATION Spec
CONSTANTS
    Null = Null
    Labels <- MCLabels
    Trees <- MCTrees
    Values = {0, 2}
    Representable <- MCRepresentable
    Scans <- MCScans
    Conditions <- MCConditions
    ScanConditions <- MCScanConditions
    Lists <- MCLists
    MaxConditions = 2
    MaxOperators = 2
    MaxSteps = 3
INVARIANTS
    PushedFilterExact
    LimitOverExactRows
    DeleteRemovesExactly
    UpdateSetsExactly
    UncheckedUpdateNeverStuck
CHECK_DEADLOCK FALSE
