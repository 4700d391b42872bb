SPECIFICATION Spec
CONSTANTS
    r1 = r1
    r2 = r2
    Requests = {r1, r2}
INVARIANTS TypeOK NothingIsCutOff
PROPERTIES ShutdownEnds PromptShutdown
CHECK_DEADLOCK FALSE
