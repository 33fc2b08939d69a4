SPECIFICATION BenchSpec
CONSTANTS
    Sources = {f1, f2, f3}
    Created = {f3}
    Projects = {p1, p2}
    Pins = {1, 2}
    ResourceSize <- Sizes
    MaxKills = 2
    Releases = {1, 2}
    Links = {l1}
    Files = {c1, c2}
    MaxCrashes = 2
    MaxFailures = 1
 
INVARIANT InstalledWhole
 
INVARIANT TicksSteady
INVARIANT PeersUnderstand
INVARIANT CatalogCurrent
INVARIANT WindowsSized
 
PROPERTY TransactionsClose
CHECK_DEADLOCK FALSE
