SPECIFICATION FairBenchSpec
CONSTANTS
    Benches = {"delivery", "clients"}
    Connections = {s1}
    None = "none"
    Windows = {"w1", "w2"}
    MaxPending = 3
    MaxCommands = 3
    MaxStreams = 2
    MaxEpoch = 1
PROPERTY CommandsApplied
PROPERTY DrainedRemovalCompletes
CHECK_DEADLOCK FALSE
