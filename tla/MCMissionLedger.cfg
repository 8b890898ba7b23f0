CONSTANTS
    Workers = {w1, w2}
    NoOne = NoOne
    TTL = 1
SPECIFICATION FairSpec
CHECK_DEADLOCK FALSE
INVARIANTS
    DurableWinner
    SessionExactlyOnce
    ProjectionTruth
    SealLetsGo
    OneLiteralRepair
PROPERTIES
    TerminalFinal
    StaleReadOnly
    ImplementsTruth
    LeaseNotStranded
