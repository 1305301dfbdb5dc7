CONSTANTS
    Parts = {"cron", "subagents", "exec", "browser", "pairing", "session", "history"}
    Shots = {"s"}
    Repeats = {"r"}
    SystemJobs = {"d"}
    ShotTime = 2
    Every = 1
    MaxSleep = 1
    MaxClock = 2
    MaxCrash = 1
    Subs = {"s1", "s2", "s3"}
    SubKeys = {"k1", "k2"}
    KeyOf <- SubagentKey
    MaxParallel = 1
    MaxRecent = 1
    CancelLost = FALSE
    MaxRestart = 1
    MaxCalls = 3
    MaxProcs = 2
    MaxSlots = 1
    MaxOut = 1
    Chats = {"k1", "k2"}
    IdleClose = TRUE
    MaxBrowser = 3
    Senders = {"u", "v"}
    MaxCode = 2
    MaxOps = 4
    PairProcs = {"gateway", "tui"}
    Misreads = TRUE
    MaxRow = 4
    MaxSuffix = 1
    MaxChunk = 2
    MaxRounds = 2
    MaxCut = 1
    MaxUpset = 1
    DirectCalls = FALSE
    MaxHistory = 2
    MaxBatch = 1
    MaxWritten = 5
    Kills = TRUE
    Legacy = 1
SPECIFICATION Spec
INVARIANTS
    HiddenIsArchived
    RowsKept
    HistorySound
    CronSound
    SubagentsSound
    ExecSound
    BrowserSound
    PairingSound
CHECK_DEADLOCK FALSE
