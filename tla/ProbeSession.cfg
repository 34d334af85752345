SPECIFICATION FairSpec
CONSTANTS
    n1 = n1
    n2 = n2
    Nodes = {n1, n2}
    Concurrency = 1
    MaxSessions = 2
INVARIANTS
    TypeOK ProbeLimit SessionComplete
PROPERTIES
    SessionsEnd
CHECK_DEADLOCK FALSE
