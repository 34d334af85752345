SPECIFICATION Spec
CONSTANTS
    n1 = n1
    n2 = n2
    Nodes = {n1, n2}
    Concurrency = 1
    MaxSessions = 2
INVARIANTS
    RowsShowOutcomes
CHECK_DEADLOCK FALSE
