SPECIFICATION WindowSpec
CONSTANTS
    Motor = Motor
    NoControl = NoControl
    NULL = NULL
    m1 = m1
    m2 = m2
    r1 = r1
    Channels <- MCChannels
    HasFinal <- MCHasFinal
    Levels = {1}
    Confs <- MCRefConfs
    RefConfs <- MCRefConfs
    Measures = {m1}
    References = {r1}
    MaxInbox = 1
    MaxOutbox = 3
    MaxRows = 1
INVARIANT
    RunningMeasureKept
