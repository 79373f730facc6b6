\* A CR is deleted while its first push is under way.
SPECIFICATION Spec
CONSTANTS
    Policies = {p1, p2}
    Specs = {s1, s2}
    Rejected = {}
    None = None
    FaultKinds = {}
    SameSecond = FALSE
    MaxTime = 2
    MaxEdits = 0
    MaxFaults = 0
    MaxCrashes = 0
INVARIANTS
    LastDeleteReverts
CHECK_DEADLOCK FALSE
