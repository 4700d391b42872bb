SPECIFICATION Safety
CONSTANTS
    c1 = c1
    c2 = c2
    c3 = c3
    web = web
    db = db
    None = None
    Containers <- TwoContainers
    ContainerNames <- TwoNames
    NumNodes = 2
    MaxTimers = 3
    MaxCrashes = 1
INVARIANTS TypeOK NoLostContainer RetriesBounded
SYMMETRY Symmetry
PROPERTIES AssignedOnce PicksLeastLoaded
