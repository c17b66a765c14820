SPECIFICATION Spec
CONSTANTS
    Procs = {p, q}
    Default = "default"
    Wanted <- Asked
    Hashes = {g, h}
    Paths = {x, y}
    g = g
    h = h
    x = x
    y = y
    Configs <- TwoVersions
    None = None
    MaxEvents = 2
SYMMETRY Symmetry
CONSTRAINT DittoForArchives
PROPERTIES
    ReturnedIsWhole
    LocalPathsInOrder
