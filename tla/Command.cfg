SPECIFICATION Spec
CONSTANTS
    None = None
    AutoId = AutoId
    b1 = b1
    b2 = b2
    Ops = {"install", "purge", "apply", "tun_enable", "app_run", "upgrade_manager"}
    Builds = {b1, b2}
    Compiled <- MCCompiled
    Removable = {"nft", "useradd"}
    Watched = {8}
    CliChoices <- MCCliChoices
    ConfigChoices <- MCConfigChoices
INVARIANTS
    TypeOK DemandsAreMet HintSuffices WayBack OutcomeTellsExecutable
