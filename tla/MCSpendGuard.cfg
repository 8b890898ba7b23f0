CONSTANTS
    Attempts = {a1, a2}
    Limit = 2
    MaxCost = 2
    Stale = 1
    MaxRows = 2
    LastDay = 1
SYMMETRY Symmetry
SPECIFICATION Spec
INVARIANTS
    NoOvercommit
    ConflictFlagged
    ExecuteOnce
PROPERTIES
    FailClosed
