CONSTANTS
    Workers = {w1, w2}
    NoOne = NoOne
    MaxUsage = 2
    ReceiptLimit = 2
    CostLimit = 4
SPECIFICATION BillSpec
INVARIANT StaleReportsSpend
CHECK_DEADLOCK FALSE
