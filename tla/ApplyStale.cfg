SPECIFICATION Spec
CONSTANTS
    None = None
    c1 = c1
    t1 = t1
    n1 = n1
    n2 = n2
    s1 = s1
    r1 = r1
    r2 = r2
    Procs = {c1, t1}
    Tuis = {t1}
    Nodes = {n1, n2}
    Subs = {s1}
    SubOf <- MCSubOf
    NameOf <- MCNameOf
    Renderable = {n1, n2}
    Routings = {r1, r2}
    DefaultRouting = r1
    MaxGen = 3
    Keep = 2
    LockFileKept = TRUE
    Crashes = FALSE
    IoErrors = FALSE
INVARIANTS
    FailureKeepsActive
