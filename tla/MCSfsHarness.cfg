SPECIFICATION HarnessSpec
CONSTANTS
    PERF_THREADS <- MCThreads
    PERF_SAMPLE_RUNS = 2
    Modes = {"grade", "tsan_only", "developer_only"}
    Categories <- MCCategories
    DISK_NAME = "test"
    ConcDisks <- MCConcDisks
    NoOne = "NoOne"
    TRACE_CAPTURE_LIMIT = 3
    PIPE_SIZE = 2
    READS = 2
    TRACE_TIMEOUT = 2
    PERF_BUDGET = 2
    TSAN_FUZZ_SEEDS = 3
INVARIANTS VerdictsTrue KeptAndCleaned
PROPERTY GraderEnds
CHECK_DEADLOCK FALSE
