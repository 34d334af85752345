SPECIFICATION FairSpec
CONSTANTS
    None = None
    c1 = c1
    t1 = t1
    n1 = n1
    n2 = n2
    s1 = s1
    r1 = r1
    r2 = r2
    Procs = {c1}
    Tuis = {}
    Nodes = {n1, n2}
    Subs = {s1}
    SubOf <- MCSubOf
    NameOf <- MCNameOf
    Renderable = {n1}
    Routings = {r1, r2}
    DefaultRouting = r1
    MaxGen = 3
    Keep = 2
    LockFileKept = FALSE
    Crashes = FALSE
    IoErrors = FALSE
INVARIANTS
    TypeOK SyncedFailureKeepsActive RollbackSwapsLinks StateMatchesLinks CurrentExists RunningIsCurrent
PROPERTIES
    RemovalsSpareLinked OperationEnds ImplementsActivation
