CONSTANTS
    m1 = m1  m2 = m2  s1 = s1
    Msgs <- Two
    Subs = {}
    Follow = {}
    MaxIterations = 2
    MaxIter = 1
    MaxInterrupts = 0
    MaxCommands = 1
    Commands <- RegenerateOnly
SPECIFICATION MCSpec
PROPERTIES TurnSaved
CHECK_DEADLOCK FALSE
