SPECIFICATION FairSpec
CONSTANTS
    Motor = Motor
    Alpha = Alpha
    NoControl = NoControl
    Channels <- MCChannels
    HasFinal <- MCHasFinal
    Levels = {0, 1}
    Confs <- MCConfs
    MaxInbox = 2
    MaxOutbox = 2
INVARIANTS
    SampledOnGrid
    WholeGroups
    ManualHeld
    RowCount
PROPERTIES
    GroupsKept
    ProgressForward
    BoundedRunEnds
