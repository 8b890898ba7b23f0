CONSTANTS
    Runs = {r1, r2}
    NoOne = NoOne
SPECIFICATION PoolSpec
INVARIANT NoDeafWait
PROPERTY RunsEnd
CHECK_DEADLOCK FALSE
