SPECIFICATION FairSpec
CONSTANT Lines <- JobsLines
PROPERTY SignalComes
CHECK_DEADLOCK FALSE
