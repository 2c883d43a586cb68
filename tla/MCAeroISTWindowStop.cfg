SPECIFICATION WindowFairSpec
CONSTANTS
    Motor = Motor
    NoControl = NoControl
    NULL = NULL
    m1 = m1
    m2 = m2
    r1 = r1
    Channels <- MCChannels
    HasFinal <- MCHasFinal
    Levels = {1}
    Confs <- MCEndless
    RefConfs <- MCRefConfs
    Measures = {m1}
    References = {}
    MaxInbox = 1
    MaxOutbox = 2
    MaxRows = 0
PROPERTIES
    StopEnds
    ErrorReported
