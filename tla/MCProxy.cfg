SPECIFICATION Spec
CONSTANTS
    Workers = {w1, w2}
    Keys = {k1, k2, k3}
    NULL = NULL
    Objects = {a1, a2, a3}
    MAX_CACHE_SIZE = 3
    MAX_OBJECT_SIZE = 3
    MAXBUF = 2
    MaxClock = 4
SYMMETRY MCSymmetry
INVARIANTS BudgetKept OneObjectPerKey NoDangling HitsAreResponses NoLockOverIO
PROPERTY ImplementsLru
CHECK_DEADLOCK FALSE
