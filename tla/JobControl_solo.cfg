SPECIFICATION FairSpec
CONSTANTS
    c1 = c1
    c2 = c2
    Clients = {c1}
    Cmds <- NoAmp
    Ctls = {"SIGTSTP", "other"}
    InitialCounts <- Counts
    MaxPid = 3
    Signals = {"kill", "stop", "killStopped"}
    MAX_CMD_SIZE = 8
INVARIANT SoloInv
INVARIANT WaitHasChild
INVARIANT DaemonStaysUp
PROPERTY PromptReturns
CHECK_DEADLOCK FALSE
