SPECIFICATION Spec
CONSTANTS
    Motor = Motor
    Alpha = Alpha
    NoControl = NoControl
    Channels <- MCChannels
    HasFinal <- MCHasFinal
    Levels = {0, 1}
    Confs <- MCLiveConfs
    MaxInbox = 1
    MaxOutbox = 2
INVARIANT
    SafeAfterAnyEnd
