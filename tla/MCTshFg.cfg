SPECIFICATION Spec
CONSTANTS
    Pids = {1, 2}
    Lines <- MCLines
    MAXJOBS = 1
    Keys = {"INT"}
    MaxJid = 1
PROPERTY FgReturns
CHECK_DEADLOCK FALSE
