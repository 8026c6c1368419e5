SPECIFICATION FairSpec
CONSTANT Lines <- AnyLine
INVARIANT ExitsForFailedFork
INVARIANT GroupReady
INVARIANT NoEarlyEof
INVARIANT ByteUnlessBad
PROPERTY LineEnds
CHECK_DEADLOCK FALSE
