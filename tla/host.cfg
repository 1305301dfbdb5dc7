SPECIFICATION Spec
CONSTANTS
    Parts = {"gateway", "config", "update", "wizard"}
    Gateways = {1, 2}
    MaxGwTurns = 2
    Writers = {1, 2}
    Settings = {"m"}
    Commands = {"set", "tui", "wizard", "restore", "cleanup", "create"}
    MaxCommands = 3
    MaxSeconds = 1
    Clis = {1, 2}
    Hosts = {{"venv"}, {"uv", "pinned"}, {"frozen", "dpkg"}}
    Breaking = {}
    MaxRelease = 2
    MaxStarts = 2
    WizAgents = {"a", "b"}
    FirstAgent = "a"
    WizProviders = {"both", "key", "oauth"}
INVARIANTS
    GatewaySound
    LastConfigSurvives
    UpdateSound
    WizardSound
CHECK_DEADLOCK FALSE
