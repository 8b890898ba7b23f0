CONSTANTS
    Pollers = {"p1"}
    Resumes = {"r1"}
SPECIFICATION Spec
INVARIANTS
    OneVerdict
    NoFalseLost
    ReviewStored
    
    ReceiptTruth
PROPERTIES JobSettles
