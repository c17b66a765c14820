SPECIFICATION Spec
CONSTANTS
    Procs = {p, q, r}
    Inodes = {i, j, k, l}
    Hashes = {g, h}
    None = None
    MaxEvents = 5
SYMMETRY Symmetry
INVARIANTS
    StampIsTrue
    HeldIsAtPath
PROPERTIES
    ImplementsPathLock
