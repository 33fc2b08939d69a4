SPECIFICATION FairBenchSpec
CONSTANTS
    Benches = {"pool"}
    Sizes = {small}
    PoolLength = 3
    MaxReservations = 2
    SerialSpace = 8
    Lazy = TRUE
    Exact = TRUE
    MaxSerial = 2
    MaxFrames = 3
    MaxRefreshes = 0
    small = small
PROPERTIES
    Converges
    FramesReturn
    NeverStarved
CHECK_DEADLOCK FALSE
