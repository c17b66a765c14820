SPECIFICATION PortsSpec
CONSTANTS
    Procs = {p1, p2}
    First = 1
    Last = 3
    MaxOps = 2
INVARIANTS
    GivenPortsDistinct
    CounterPastGiven
PROPERTIES
    ZeroMeansExhausted
    AllocationEnds
CHECK_DEADLOCK FALSE
