SPECIFICATION BenchSpec
CONSTANTS
    HostForwards = "0"
    UnitWipesRuntime = FALSE
    Pids = {1, 2}
    MaxProcs = 6
    MaxFaults = 3
    MaxRequests = 1
 
INVARIANT RootWhole
 
INVARIANT SleepsOnOwner
 
INVARIANT FloorsHonest
PROPERTY StartsGetThrough
PROPERTY CellRecovers
 
CHECK_DEADLOCK FALSE
