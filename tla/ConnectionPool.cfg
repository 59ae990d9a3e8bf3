SPECIFICATION Spec
CONSTANTS
    Handles = {h1, h2, h3}
    Threads = {t1, t2, t3}
    None = None
    Modes = {"force", "wait", "try"}
    Limits = {0, 1, 2}
    TLCacheEnabled = FALSE
    DeadlinePasses = FALSE
SYMMETRY Symmetry
INVARIANTS
    PoolTypeOK
    Accounting
    IdleWithinLimit
    NoLostWakeup
