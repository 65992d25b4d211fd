SPECIFICATION CacheLabSpec
CONSTANTS
    NULL = NULL
    Garbage = Garbage
    CounterRange = 65536
    Geometries <- MCGeometries
    Cases <- MCCases
    Addresses = {0, 1, 2, 4, 6, 8}
    MAX_TRACE = 7
CHECK_DEADLOCK FALSE
INVARIANTS Transposed MissesAsReported
PROPERTY ImplementsLru
