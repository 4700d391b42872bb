CHECK_DEADLOCK FALSE
SPECIFICATION Spec
CONSTANTS
    mine = mine
    foreign = foreign
    unknown = unknown
    Mine <- OneMine
    Foreign <- OneForeign
    Unknown <- OneUnknown
    Contents <- FourContents
    Width = 2
    MaxRuns = 2
    MaxInFlight = 2
INVARIANTS AckedIsStored ReadyIsReported
PROPERTIES OlderNeverOverwrites OldRunsAreFenced ReportIsWhole RunEnds
