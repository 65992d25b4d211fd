SPECIFICATION TracesSpec
CONSTANTS
    NBlocks = 8
    BLOCK_DATA_SIZE = 500
    Names <- ScriptNames
    EmptyName = "empty"
    LongName = "long"
    NoName = "none"
    NULL = NULL
    OPEN_FILE_LIMIT = 32
    DIR_ENTRIES_PER_BLOCK = 15
    SFS_MAX_FILE_SIZE = 4000
    Bytes <- MCBytes
    Buffers = {}
    Lengths = {}
    Deltas = {}
    Traces = {"A00", "A01", "A02", "A03", "A04", "B00", "B01", "B02", "B03", "D00", "X00", "X02",
              "C00", "C01", "C02"}
    NUM_THREADS = 2
    STORMS = 2
    CHURN_ITERS = 2
    PASSES = 2
INVARIANT ChecksHold
PROPERTY TracesEnd
