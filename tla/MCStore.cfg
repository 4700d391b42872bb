SPECIFICATION StoreSpec
CONSTANTS
    c1 = c1
    c2 = c2
    k1 = k1
    k2 = k2
    Clients = {c1, c2}
    Keys = {k1, k2}
    Values = {0, 1}
    Initial = 0
    None = None
    Unreadable = Unreadable
    Change <- MCChange
    Functions <- MCFunctions
PROPERTIES
    ImplementsAtomicStore
    EveryCallReturns
