SPECIFICATION FairSpec
CONSTANTS
    Ipv6Enabled = TRUE
    FaultSets <- WorstFaults
INVARIANTS
    TypeOK EnableBuildsPolicy FailedEnableAddsNothing DisableRemovesPolicy
PROPERTIES
    ActiveStaysComplete CommandEnds
