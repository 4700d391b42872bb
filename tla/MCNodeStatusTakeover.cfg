SPECIFICATION Spec
CONSTANTS
    mine = mine
    foreign = foreign
    unknown = unknown
    Mine <- NoContainers
    Foreign <- NoContainers
    Unknown <- NoContainers
    Contents <- OnlyEmpty
    Width = 2
    MaxRuns = 2
    MaxInFlight = 2
PROPERTIES NewSessionIsForNewRun
CHECK_DEADLOCK FALSE
