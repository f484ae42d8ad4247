SPECIFICATION Spec
CONSTANTS
    b1 = b1
    b2 = b2
    Beams = {b1, b2}
    Per = 3
    Overlap = 1
    MaxFiles = 6
    MaxRuns = 2
SYMMETRY Symmetry
INVARIANTS
    PartsTile
    IndexedStaysIndexed
    CompleteOneKept
CHECK_DEADLOCK FALSE
