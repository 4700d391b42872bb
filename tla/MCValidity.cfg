SPECIFICATION Spec
CONSTANTS
    n1 = n1
    Server = Server
    Admin = Admin
    None = None
    Nodes <- OneNode
    Backdate = 1
    CALife = 7
    LeafLife = 4
    HeartbeatMaxAge = 2
    TokenTTL = 2
    MaxSkew = 1
    MaxTime = 10
INVARIANTS YoungIsAccepted OldIsRefused ExpiredNodeIsGone
