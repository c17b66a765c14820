SPECIFICATION Spec
CONSTANTS
    Updaters = {u, v}
    Platforms = {a, b}
    Hashes = {g, h}
    None = None
    Torn = Torn
    MaxJobs = 3
    MaxEvents = 2
SYMMETRY Symmetry
CONSTRAINT OneOrFew
CHECK_DEADLOCK FALSE
INVARIANTS
    NamedIsStored
    RollbackRestores
