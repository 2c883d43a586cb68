SPECIFICATION AxisFairSpec
CONSTANTS
    up = up
    down = down
    increase = up
    decrease = down
    Relays = {up, down}
    Idle = Idle
    anglemax = 5
    precision = 3
    Slew = 2
    Coast = 1
    EndStop = 12
    Requests <- MCRequests
INVARIANTS
    RelaysExclusive
    Arrived
PROPERTIES
    TravelBounded
    SetValueEnds
