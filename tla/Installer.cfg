SPECIFICATION Spec
CONSTANTS
    None = None
    Versions = {v1, v2}
    MaxGen = 3
    MaxOps = 3
    Crashes = TRUE
    Damages = TRUE
SYMMETRY Symmetry
INVARIANTS
    TypeOK
    FailureRestores
    InstallReconciles
    SuccessIsTested
    ChangeIsRunning
    UpgradeKeepsWayBack
    RepairKeepsHealthy
PROPERTY ForeignGroupStays
