CONSTANTS
    Parts = {"cron", "subagents", "exec", "browser", "stream", "telegram", "signal"}
    Shots = {"s"}
    Repeats = {}
    SystemJobs = {"d"}
    ShotTime = 2
    Every = 1
    MaxSleep = 1
    MaxClock = 3
    MaxCrash = 1
    Subs = {"s1", "s2", "s3"}
    SubKeys = {"k1", "k2"}
    KeyOf <- SubagentKey
    MaxParallel = 1
    MaxRecent = 1
    CancelLost = FALSE
    MaxRestart = 1
    MaxCalls = 2
    MaxProcs = 1
    MaxSlots = 1
    MaxOut = 1
    Chats = {"k1", "k2"}
    IdleClose = FALSE
    MaxBrowser = 2
    Kinds = {"telegram"}
    Streams = {1, 2}
    Topics <- AllTopics
    ChatOf <- TopicChat
    Layouts <- TopicLayouts
    Pieces <- StreamPieces
    MaxLen = 1
    MaxAttempts = 2
    MaxFail = 1
    Updates = {1, 3, 4}
    KeyOfUpdate <- UpdateKey
    KindOf <- UpdateKind
    MaxStaged = 2
    SignalMsgs = {1, 2, 3, 4}
    RoomOf <- SignalRoom
    Groups = {"g"}
    GateOf <- SignalGate
    Heard = 2
    MaxDelay = 4
    MaxBreaks = 2
SPECIFICATION Spec
PROPERTIES
    ServicesSettle
    ChannelsSettle
CHECK_DEADLOCK FALSE
