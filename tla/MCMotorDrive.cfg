SPECIFICATION DriveFairSpec
CONSTANTS
    Full = 4
    Percent = 8
    Precision = 2
    MaxTries = 1
    Requests <- MCRequests
    MaxFaults = 2
INVARIANTS
    CallsTrue
    SpeedTrue
PROPERTIES
    SetValueEnds
