SPECIFICATION Spec
CONSTANTS
    None = None
    AutoId = AutoId
    b1 = b1
    b2 = b2
    Ops = {"install", "apply"}
    Builds = {b1}
    Compiled <- MCCompiled
    Removable = {"nft"}
    Watched = {}
    CliChoices <- MCCliChoices
    ConfigChoices <- MCConfigChoices
INVARIANTS
    UsesAreProbed
