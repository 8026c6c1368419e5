SPECIFICATION ListsSpec
CONSTANTS
    c1 = c1
    c2 = c2
    Clients = {c1}
    Cmds <- NoPipe
    Ctls = {}
    InitialCounts = {0, 1}
    MaxPid = 3
    Signals = {"kill", "stop", "killStopped"}
    MAX_CMD_SIZE = 8
INVARIANT IndexCoversPosition
INVARIANT PlainChildrenListed
INVARIANT PlainSlotPerProgram
PROPERTY NeverForgotten
PROPERTY PlainPromptMeansSettled
CHECK_DEADLOCK FALSE
