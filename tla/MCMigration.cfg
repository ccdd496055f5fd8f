\* Both programs, two heights and two blocks, a record, two faults, on both platforms.
SPECIFICATION Spec
SYMMETRY Symmetry
CONSTANTS
    api = api
    stratum = stratum
    x = x
    y = y
    None = None
    Services = {api, stratum}
    h1 = h1
    h2 = h2
    Heights = {h1, h2}
    Hashes = {x, y}
    FoundAt <- FoundAtHere
    Platforms = {"umbrel", "windows"}
    MaxRecords = 1
    MaxFaults = 2
INVARIANTS
    NothingLost
    OldDataIsIn
PROPERTIES
    NoEmptyStart
    WorkIsKept
