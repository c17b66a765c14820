SPECIFICATION Spec
CONSTANTS
    p = p
    q = q
    a = a
    g = g
    h = h
    Procs = {p, q}
    Devices = {a}
    DevicePorts = {1, 2}
    HostPorts = {11, 12}
    Groups = {g, h}
    Requests <- OwnPorts
INVARIANTS
    MapsAreInverse
    LeaksOnlyFromFailures
    ForwardsHold
    InitializedRuns
PROPERTIES
    CallsEnd
CHECK_DEADLOCK FALSE
