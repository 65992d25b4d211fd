SPECIFICATION Spec
CONSTANTS
    Pids = {1, 2}
    Lines <- MCLines
    MAXJOBS = 2
    Keys = {"INT", "TSTP"}
    MaxJid = 2
INVARIANT AtMostOneForeground
CHECK_DEADLOCK FALSE
