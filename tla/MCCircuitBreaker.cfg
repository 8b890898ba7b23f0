CONSTANTS
    Calls = {c1, c2, c3, c4, c5, c6}
    Threshold = 2
    Cooldown = 1
    Deadline = 2
SPECIFICATION FairSpec
CHECK_DEADLOCK FALSE
INVARIANTS
    OneProbe
    ProbeHeld
PROPERTIES
    StaleIgnored
    ProbeAvailable
