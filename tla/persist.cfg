CONSTANTS
    m1 = m1  m2 = m2  s1 = s1
    Msgs <- Two
    Subs <- OneSub
    Follow <- Second
    MaxIterations = 2
    MaxIter = 2
    MaxInterrupts = 2
    MaxCommands = 2
    Commands <- AllCommands
SPECIFICATION MCSpec
INVARIANTS
    TurnsLegal
    TurnsClosed
    TurnsSavedOnce
    SessionSound
PROPERTIES
    TurnsSavedWhole
CHECK_DEADLOCK FALSE
