SPECIFICATION FairSpec
CONSTANTS
    Versions = {"daemon", "signals", "pooja"}
    Inputs = {"line", "wc", "quit", "ctrlC", "ctrlZ", "end", "eof"}
    MaxSent = 4
INVARIANT EveryMessageAnswered
INVARIANT NoEarlyPrompt
INVARIANT NoStray
PROPERTY ThreadEnds
PROPERTY AnswerComes
CHECK_DEADLOCK FALSE
