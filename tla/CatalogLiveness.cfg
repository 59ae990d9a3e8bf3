SPECIFICATION FairSpec
CONSTANTS
    Connections = {c1, c2}
    Databases = {d1}
    Entries = {e1, e2}
    Preparers = {c1}
    None = None
    MaxTransactions = 2
    MaxClears = 1
INVARIANT
    PlanOwnsItsEntry
PROPERTIES
    RollbackWarns
    ImplementsGracePeriod
    StatementTerminates
CHECK_DEADLOCK FALSE
