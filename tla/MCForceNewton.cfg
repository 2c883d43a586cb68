SPECIFICATION ForceSpec
CONSTANTS
    NumChannels = 1
    MaxIter = 3
    Tolerance <- MCTolerance
    NewtonPerVolt <- MCNewtonPerVolt
    Balances <- MCBalances
INVARIANTS
    StopsConverged
CHECK_DEADLOCK FALSE
