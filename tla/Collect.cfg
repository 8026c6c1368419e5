SPECIFICATION CollectSpec
CONSTANTS
    c1 = c1
    c2 = c2
    f1 = f1
    f2 = f2
    Clients = {c1, c2}
    Files = {f1, f2}
    MaxLines = 2
    MaxTyped = 2
SYMMETRY Symmetry
INVARIANT OwnOutput
INVARIANT NothingLeft
PROPERTY TypedArrives
PROPERTY FirstCatWrites
CHECK_DEADLOCK FALSE
