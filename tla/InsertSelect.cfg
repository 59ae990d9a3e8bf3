SPECIFICATION FairSpec
CONSTANTS
    Sessions = {s1, s2}
    None = None
    Query <- MCQuery
    Layouts <- MCLayouts
    Limit = 2
    Modes = {"wait"}
    MaxStatements = 2
    MaxChanges = 1
INVARIANTS
    RowsUnderTheirNames
    IfNotExistsChecksTheServer
    AloneNeverWaits
PROPERTY
    StatementEnds
CHECK_DEADLOCK FALSE
