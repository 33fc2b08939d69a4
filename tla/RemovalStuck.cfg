SPECIFICATION FairSpec
CONSTANTS
    ControlThreads = {c1}
    SurfaceThreads = {s1}
    MaxObjects = 1
    MaxFrames = 1
    MaxConfigures = 1
    MaxPublishes = 1
    Nobody = Nobody
PROPERTIES
    RemovalCompletes
CHECK_DEADLOCK FALSE
