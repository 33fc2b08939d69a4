SPECIFICATION Spec
CONSTANTS
    t1 = t1
    t2 = t2
    o1 = o1
    o2 = o2
    NoOutput = NoOutput
    Tasks = {t1, t2}
    Outputs = {o1, o2}
    Places = {o1, o2}
    Rate <- TwoOutputs
    HostClock = TRUE
    CanIdle = TRUE
    CanBlock = FALSE
    CanLoseManager = FALSE
    FrameLimit = 2
    SceneLimit = 2
    MaxSubmissions = 2
    MaxGrants = 1
    MaxEra = 1
    MaxProxies = 1
    MaxEvents = 1
INVARIANT NothingForgotten
