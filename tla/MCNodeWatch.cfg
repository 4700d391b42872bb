SPECIFICATION Safety
CONSTANTS
    n1 = n1
    n2 = n2
    c1 = c1
    c2 = c2
    s1 = s1
    s2 = s2
    s3 = s3
    None = None
    Nodes <- TwoNodes
    Containers <- TwoContainers
    Streams <- TwoStreams
    MaxWire = 2
    MaxCrashes = 1
SYMMETRY Symmetry
INVARIANTS NoMissedChange NoClosedChannelKept
PROPERTIES SeenOnlyGrows
