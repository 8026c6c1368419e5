SPECIFICATION Spec
CONSTANTS
    NUM_CLIENTS = 2
    MaxConn = 4
    MaxFd = 3
INVARIANT EachServed
INVARIANT NoCrossTalk
INVARIANT NewestServed
INVARIANT ThInBounds
PROPERTY OnlyGoneClosed
CHECK_DEADLOCK FALSE
