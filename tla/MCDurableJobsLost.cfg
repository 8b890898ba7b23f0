CONSTANTS
    Pollers = {"p1"}
    Resumes = {"r1"}
SPECIFICATION Spec
PROPERTIES LostNotCancelled
