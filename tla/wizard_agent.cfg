SPECIFICATION Spec
CONSTANTS
    Parts = {"wizard"}
    Gateways = {1, 2}
    MaxGwTurns = 2
    Writers = {1, 2}
    Settings = {"m"}
    Commands = {"set", "tui", "wizard", "restore", "cleanup", "create"}
    MaxCommands = 3
    MaxSeconds = 1
    Clis = {1, 2}
    Hosts = {{"venv"}, {"frozen", "dpkg"}}
    Breaking = {}
    MaxRelease = 2
    MaxStarts = 2
    WizAgents = {"a", "b"}
    FirstAgent = "a"
    WizProviders = {"both", "key", "oauth"}
INVARIANTS
    OnlyChosenWritten
CHECK_DEADLOCK FALSE
