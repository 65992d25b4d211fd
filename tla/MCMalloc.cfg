SPECIFICATION Spec
CONSTANTS
    MAX_HEAP = 176
    CHUNKSIZE = 64
    Requests = {16, 40}
    Ids = {1, 2, 3}
INVARIANTS TagsAgree ListsHoldFreeBlocks LiveAreAllocated PayloadsIntact
CHECK_DEADLOCK FALSE
