SPECIFICATION Spec
CONSTANTS
    n1 = n1
    n2 = n2
    n3 = n3
    g1 = g1
    g2 = g2
    g3 = g3
    NoName = NoName
    Names <- ThreeNames
    Getters <- ThreeGetters
    MaxTimers = 1
INVARIANTS
    TypeOK
    QueueIsExact
    NoLostWakeup
PROPERTIES
    EveryAddIsServed
    ShutdownCompletes
    ImplementsCoalescingQueue
