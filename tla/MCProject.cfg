SPECIFICATION ProjectSpec
CONSTANTS
    Motor = Motor
    Fx = Fx
    Columns = {Motor, Fx}
    First = Motor
    ZeroColumns = {Fx}
    Confs <- MCConfs
    ReferenceConfs <- MCReferenceConfs
    Samples <- MCSamples
    Raw <- MCRaw
    MATRIX_ALLOW = FALSE
    Digit10 = 4
    Digit15 = 2
    Second = 100
    NaN = NaN
    MaxReferences = 2
    MaxMeasurements = 1
    MaxReferenceRows = 1
    MaxRows = 3
INVARIANTS
    TablesKept
    ZeroOfReference
    AveragesAgree
CHECK_DEADLOCK FALSE
