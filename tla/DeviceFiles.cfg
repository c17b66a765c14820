SPECIFICATION Spec
CONSTANTS
    Files = {f, g}
    Contents = {x, y}
    Absent = Absent
    Torn = Torn
    Retries = 1
    MaxEvents = 2
SYMMETRY Symmetry
INVARIANTS
    CacheAgrees
    PushedIsThere
