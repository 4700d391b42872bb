SPECIFICATION Spec
CONSTANTS
    c1 = c1
    s1 = s1
    web = web
    None = None
    Containers <- OneContainer
    ContainerNames <- OneName
    NumNodes = 1
    Streams <- OneStream
    MaxTimers = 2
    MaxWire = 1
    MaxCrashes = 1
PROPERTIES ImplementsNodeWatch EveryContainerArrives
