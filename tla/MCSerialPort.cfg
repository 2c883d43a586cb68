SPECIFICATION PortFairSpec
CONSTANTS
    p1 = p1
    p2 = p2
    Procs = {p1, p2}
    Me = p1
    NoFile = NoFile
    Torn = Torn
    Stale = Stale
    Rates = {9600, 115200}
    CustomRate = 250000
    Cases <- MCCases
    BlockSize = 2
    Newline = 2
    MaxDepth = 3
INVARIANTS
    BytesKept
    MutedByWaitOnly
    LockHolds
    
PROPERTIES
    WaitEnds
    WriteDrains
