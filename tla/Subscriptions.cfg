SPECIFICATION Spec
CONSTANTS
    None = None
    Malformed = Malformed
    c1 = c1
    t1 = t1
    s1 = s1
    Procs = {c1, t1}
    Tuis = {t1}
    Subs = {s1}
    Responses <- MCResponses
INVARIANTS
    TypeOK ActiveIsSupported RefusalIsMarked
PROPERTIES
    SelectionSurvives
