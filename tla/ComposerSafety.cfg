SPECIFICATION BenchSpec
CONSTANTS
    Benches = {"backlog", "broken", "moving", "staying", "racing", "reopened"}
    Connections = {s1, s2}
    None = "none"
    Windows = {"w1", "w2"}
    MaxPending = 3
    MaxCommands = 3
    MaxStreams = 2
    MaxEpoch = 1
 
INVARIANT GrantsAccounted
 
 
PROPERTY ScreenAdvances
SYMMETRY Interchangeable
CHECK_DEADLOCK FALSE
