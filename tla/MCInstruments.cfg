SPECIFICATION InstrumentsSpec
CONSTANTS
    Installations <- MCInstallations
    DvmTimes = {4}
    MaxEdits = 1
    MaxDialogs = 3
    MaxStarts = 2
    NumChannels = 3
    MaxIter = 2
    Tolerance <- MCTolerance
    NewtonPerVolt <- MCNewtonPerVolt
    Balances <- MCBalances
    MaxTries = 2
    WordBits = 8
    Positions <- MCPositions
    NoPosition = NoPosition
    MaxTurns = 1
    MaxFaults = 1
    MaxReads = 2
    Shafts <- MCShafts
    DisplayValues <- MCDisplayValues
    MaxMoves = 1
INVARIANTS
    AsAccepted
    StartsAsShown
    OnlyThrownOpen
    ForcesTrue
    EncodersTrue
PROPERTIES
    AnglesReadEnds
CHECK_DEADLOCK FALSE
