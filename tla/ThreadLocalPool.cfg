SPECIFICATION FairSpec
CONSTANTS
    Handles = {h1, h2}
    Threads = {t1, t2}
    None = None
    Modes = {"force", "wait"}
    Limits = {0, 1, 3}
    TLCacheEnabled = TRUE
    DeadlinePasses = TRUE
INVARIANTS
    Accounting
    IdleWithinLimit
PROPERTY
    ShutdownWakesWaiters
