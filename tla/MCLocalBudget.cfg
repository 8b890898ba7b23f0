CONSTANTS
    Ops = {o1, o2, o3}
    NoOne = NoOne
    Limit = 2
    MaxCost = 2
    Lease = 1
    LastDay = 1
SYMMETRY Symmetry
SPECIFICATION Spec
CHECK_DEADLOCK FALSE
INVARIANTS
    NeverUndercounts
    BoundedOverspend
