CONSTANTS
    a = a  uni = uni
    m1 = m1  m2 = m2  x = x  r = r  s1 = s1  s2 = s2  c1 = c1  w1 = w1  d1 = d1
    None = None
    Msgs <- Live
    Keys <- MCKeys
    UnifiedKey = uni
    Kind <- MCKind
    ChatKey <- MCChatKey
    Override <- MCOverride
    Unified = FALSE
    PendingMax = 4
    GateSize = 2
    MaxInject = 2
    MaxDrains = 1
    EagerConsume = TRUE
SPECIFICATION FairSpec
PROPERTIES EveryMessageTaken SerialSpec
