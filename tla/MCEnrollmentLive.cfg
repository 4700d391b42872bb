CHECK_DEADLOCK FALSE
SPECIFICATION Spec
CONSTANTS
    d1 = d1
    d2 = d2
    p1 = p1
    p2 = p2
    t1 = t1
    t2 = t2
    east = east
    west = west
    k1 = k1
    k2 = k2
    k3 = k3
    n1 = n1
    n2 = n2
    n3 = n3
    None = None
    Dirs = {d1}
    Procs = {p1, p2}
    TokenIDs = {t1, t2}
    Names = {east}
    Keys = {k1, k2}
    NodeIDs = {n1, n2}
PROPERTIES PendingCompletes
