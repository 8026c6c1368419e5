SPECIFICATION FairSpec
CONSTANTS
    Clients = {c1, c2}
    Room = 2
    MaxFd = 1
    MaxSent = 5
INVARIANT NothingLost
INVARIANT LeakNeedsEcho
PROPERTY EchoComes
CHECK_DEADLOCK FALSE
