CONSTANTS
    Runs = {r1, r2}
    NoOne = NoOne
SPECIFICATION PoolSpec
INVARIANT CacheUsable
CHECK_DEADLOCK FALSE
