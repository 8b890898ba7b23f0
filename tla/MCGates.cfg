CONSTANTS
    Requests = {"r1", "r2"}
    Calls = {"r1", "r2"}
    Tokens = {"token"}
    Entitled <- MCEntitled
    Modes <- MCModes
    ServiceScopes = {"connect", "invoke"}
    Arrivals <- MCArrivals
    MaxInflight = 1
    Ops <- MCOps
    GenPermits = 1
    FilePermits = 1
    WorkerCounts = {1}
    Deadline = 2
    Margin = 1
SPECIFICATION Spec
INVARIANTS
    ServedWithinGrant
    DeniedForCause
    OnceAtProvider
    
PROPERTIES RequestEnds
