SPECIFICATION ListSpec
CONSTANTS
    NBlocks = 4
    BLOCK_DATA_SIZE = 1
    Names = {n1, n2, n3}
    NoName = NoName
    NULL = NULL
    OPEN_FILE_LIMIT = 1
    DIR_ENTRIES_PER_BLOCK = 1
    SFS_MAX_FILE_SIZE = 1
    Bytes = {0}
    WriteSizes = {1}
    Mark = 0
    Lengths = {0}
    Buffers <- MCBuffers
    Deltas <- MCDeltas
SYMMETRY MCNames
INVARIANT AlwaysListed
