CONSTANTS
    a = a  uni = uni
    m1 = m1  m2 = m2  x = x  r = r  s1 = s1  s2 = s2  c1 = c1  w1 = w1  d1 = d1
    None = None
    Msgs <- Burst
    Keys <- MCKeys
    UnifiedKey = uni
    Kind <- MCKind
    ChatKey <- MCChatKey
    Override <- MCOverride
    Unified = FALSE
    PendingMax = 1
    GateSize = 1
    MaxInject = 1
    MaxDrains = 1
    EagerConsume = TRUE
SPECIFICATION Spec
CONSTRAINT BurstBound
INVARIANTS
    TypeOK
    SessionSerial
    DispatchSound
PROPERTIES StopReaches
