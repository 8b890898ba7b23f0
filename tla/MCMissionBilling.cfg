CONSTANTS
    Workers = {w1, w2, w3}
    NoOne = NoOne
    MaxUsage = 1
    ReceiptLimit = 1
    CostLimit = 2
SYMMETRY Symmetry
SPECIFICATION BillSpec
INVARIANTS
    BillExact
    EnvelopeNoDouble
CHECK_DEADLOCK FALSE
