SPECIFICATION Spec
CONSTANTS
    c1 = c1
    c2 = c2
    Clients = {c1, c2}
    Cmds <- ProgLines
    Ctls = {}
    InitialCounts = {0}
    MaxPid = 3
    Signals = {}
    MAX_CMD_SIZE = 8
INVARIANT DaemonStaysUp
CHECK_DEADLOCK FALSE
