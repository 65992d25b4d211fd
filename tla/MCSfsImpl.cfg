SPECIFICATION ImplSpec
CONSTANTS
    NBlocks = 3
    BLOCK_DATA_SIZE = 2
    Names = {n1, n2}
    NoName = NoName
    NULL = NULL
    OPEN_FILE_LIMIT = 2
    DIR_ENTRIES_PER_BLOCK = 2
    SFS_MAX_FILE_SIZE = 3
    Bytes = {0, 1}
    WriteSizes = {1, 3}
    Mark = 1
    Lengths = {0, 2}
    Buffers <- MCBuffers
    Deltas <- MCDeltas
SYMMETRY MCNames
INVARIANTS CachedBlocksRight LoopsInPlace
PROPERTY ImplementsApi
