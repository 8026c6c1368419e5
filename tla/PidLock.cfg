SPECIFICATION FairSpec
CONSTANTS
    Instances <- MCInstances
    Digits <- MCDigits
    Newline <- MCNewline
INVARIANT OneInstance
INVARIANT FileNamesHolder
PROPERTY Implements
PROPERTY StartEnds
CHECK_DEADLOCK FALSE
