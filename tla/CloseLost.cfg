SPECIFICATION FairSpec
CONSTANTS
    w1 = w1
    w2 = w2
    None = None
    Windows = {w1}
    MaxPending = 2
    MaxCommands = 1
    MaxStreams = 1
    MaxEpoch = 2
PROPERTY CloseApplied
CHECK_DEADLOCK FALSE
