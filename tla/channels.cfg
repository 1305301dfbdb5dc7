CONSTANTS
    Parts = {"stream", "telegram", "websocket", "signal", "whatsapp", "email", "work", "discord", "matrix"}
    Kinds = {"telegram", "discord", "matrix"}
    Streams = {1, 2}
    Topics <- AllTopics
    ChatOf <- TopicChat
    Layouts <- TopicLayouts
    Pieces <- StreamPieces
    MaxLen = 2
    MaxAttempts = 2
    MaxFail = 1
    Updates = {1, 2, 3, 4}
    KeyOfUpdate <- UpdateKey
    KindOf <- UpdateKind
    MaxStaged = 2
    Conns = {1, 2}
    WsChats = {9}
    Tokens = {1}
    NeedToken = FALSE
    MaxTokens = 2
    MaxFrames = 2
    MaxSends = 1
    MaxTurns = 2
    MaxLines = 1
    SignalMsgs = {1, 2, 3, 4}
    RoomOf <- SignalRoom
    Groups = {"g"}
    GateOf <- SignalGate
    Heard = 2
    MaxDelay = 4
    MaxBreaks = 2
    WaMsgs = {1, 2, 3, 4}
    WaChat <- WaRoom
    Unpaired = {"u"}
    PairTry = {4}
    Codes = {"c"}
    CodeIn <- WaCode
    MaxIds = 2
    MaxGaps = 2
    MaxPublished = 4
    Mails = {1, 2, 3}
    WithUid = {1, 2}
    VerdictOf <- MailVerdict
    FromOf <- MailFrom
    MarkSeen = TRUE
    MaxUids = 1
    MaxDrops = 2
    MaxStarts = 1
    Posts = {1, 2}
    Mentions = {1, 2}
    Direct = {2}
    AnyPost = TRUE
    Activities = {1, 2}
    ConvOf <- Conversation
    MaxEvents = 1
    MaxFaults = 2
    DMsgs = {1, 2, 3}
    DRoom <- DiscordRoom
    XMsgs = {1, 2}
    XRoom <- MatrixRoom
    XMedia = {2}
    MaxDropped = 1
SPECIFICATION Spec
INVARIANTS
    StreamSound
    TurnsInOrder
    SocketsSound
    TypingMeansWork
    PublishedOnce
    MailOnce
    WorkSound
    QuietShowsNothing
CHECK_DEADLOCK FALSE
