SPECIFICATION Spec
CONSTANTS
    Threads = {t1, t2}
    Names = {n1, n2}
    NULL = NULL
    Files = {1, 2}
    OPEN_FILE_LIMIT = 2
    MAX_SLOTS = 2
INVARIANTS NoRace FilesPinned NoLockedDestroy NoWaitCycle IdleHoldsNothing
PROPERTY EveryCallReturns
