SPECIFICATION BenchSpec
CONSTANTS
    Benches = {"pool", "eager", "lane", "lanes", "shared"}
    Sizes = {small, large}
    PoolLength = 2
    MaxReservations = 2
    SerialSpace = 8
    Lazy = TRUE
    Exact = TRUE
    MaxSerial = 2
    MaxFrames = 3
    MaxRefreshes = 1
    small = small
    large = large
INVARIANTS
    NoProtocolError
    ReleaseBeforeReuse
    FramesOwned
    BothPoolsAgree
    LayersIntact
PROPERTIES
    CommitsCurrentGeneration
    LoanSpec
CHECK_DEADLOCK FALSE
