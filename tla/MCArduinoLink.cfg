SPECIFICATION FairSpec
CONSTANTS
    Relays = {"0", "1"}
    Pins = {"5"}
    MuxChannels = {"3", "4"}
    Digits = {"0", "1", "2", "5"}
    Readings <- MCReadings
    Idle = Idle
    MaxTries = 3
    MaxLost = 2
INVARIANTS
    LossTolerance
    ChannelSelected
PROPERTIES
    RelayContract
    ExchangeEnds
