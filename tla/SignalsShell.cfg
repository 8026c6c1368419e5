SPECIFICATION MCSpec
SYMMETRY Symmetry
CONSTRAINT Orderly
CONSTANTS
    c1 = c1
    c2 = c2
    Clients = {c1, c2}
    Cmds <- Lines
    Ctls = {"SIGINT", "SIGTSTP", "other"}
    InitialCounts = {0}
    MaxPid = 3
    Signals = {"stop", "kill", "killStopped"}
    MAX_CMD_SIZE = 5
INVARIANT ApartWaits
CHECK_DEADLOCK FALSE
PROPERTY CtlReachesOwn
