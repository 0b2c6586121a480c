SPECIFICATION CellSpec
CONSTANTS
    Cells = {"r1", "r2", "m", "l"}
    Children <- MCChildren
    Shards = {s, t}
    Retainers = {p, q}
    None = None
    MaxRefs = 4
SYMMETRY RetainerSymmetry
INVARIANT
    StaleTreesCollected
CHECK_DEADLOCK FALSE
