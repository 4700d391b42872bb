SPECIFICATION RunsSpec
CONSTANTS
    r1 = r1
    r2 = r2
    r3 = r3
    NoFile = NoFile
    Runs = {r1, r2, r3}
    MaxOperator = 1
INVARIANTS SuccessStays FailureLeavesNothing ServerHasItsCA
SYMMETRY Symmetry
CHECK_DEADLOCK FALSE
