SPECIFICATION Spec
CONSTANTS
    Ipv6Enabled = TRUE
    FaultSets <- AddFaults
INVARIANTS
    ActiveIsClosed
