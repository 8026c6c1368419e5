SPECIFICATION UserSpec
CONSTANTS
    c1 = c1
    c2 = c2
    Clients = {c1, c2}
    Cmds <- PoojaLines
    Ctls = {}
    InitialCounts = {0}
    MaxPid = 2
    Signals = {"kill", "stop", "killStopped"}
    MAX_CMD_SIZE = 8
CONSTRAINT Undecided
SYMMETRY Symmetry
 
INVARIANT AloneWaits
INVARIANT CountIsStopped
CHECK_DEADLOCK FALSE
