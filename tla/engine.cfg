SPECIFICATION Spec
CONSTANTS
    Parts = {"provider", "messages", "stream", "files", "tools", "mcp"}
    Reqs = {1, 2}
    Models = 2
    Images = {2}
    Persistent = {2}
    Responses = {1}
    Retries = 1
    SameLimit = 2
    Threshold = 2
    ApiThreshold = 1
    MaxErrors = 4
    MaxMessages = 7
    Sizes = {1, 3}
    Budget = 5
    KeepRecent = 2
    StreamApis = {"chat", "responses", "anthropic"}
    StreamCalls = {1, 2}
    Paths = {"p", "q", "lost"}
    LostPaths = {"lost"}
    MaxTries = 2
    Files = {"f", "g"}
    Lines = {1, 2}
    MaxOps = 2
    MaxEdits = 2
    ToolKinds = {"search", "alone", "spawn", "missing"}
    AgentLists <- AllowLists
    MaxToolCalls = 2
    MaxDepth = 1
    SameLookup = 1
    BlockedTurns = {}
    LastTurn = 2
    Spawned = 1
    MaxCalls = 2
    MaxAnswers = 1
    Configs <- ServerLists
    DirectTurns = {"d1"}
    MaxSessions = 4
    MaxMcpSyncs = 1
    MaxBusMsgs = 1
INVARIANTS
    OneVoice
    RequestSound
    CallsSound
    StubTrue
    PatchWhole
    CallLimits
    NoStackLost
CHECK_DEADLOCK FALSE
