SPECIFICATION ListSpec
CONSTANTS
    NBlocks = 4
    BLOCK_DATA_SIZE = 1
    Names = {n1, n2}
    NoName = NoName
    NULL = NULL
    OPEN_FILE_LIMIT = 2
    DIR_ENTRIES_PER_BLOCK = 1
    SFS_MAX_FILE_SIZE = 3
    Bytes = {0}
    WriteSizes = {2}
    Mark = 0
    Lengths = {0, 2}
    Buffers <- MCBuffers
    Deltas <- MCDeltas
SYMMETRY MCNames
INVARIANTS TypeOK BlocksPartitioned ListsWellFormed SizesMatchBlocks
    PosWithinSize RefCounts OpenFilesTrackEntries FsckAccepts KeptListedOnce
