\* Two CRs, one older than the other, under fair scheduling; the gateway rejects one policy.
SPECIFICATION FairSpec
CONSTANTS
    Policies = {p1, p2}
    Specs = {s1, s2}
    Rejected = {s2}
    None = None
    FaultKinds = {"lost"}
    SameSecond = FALSE
    MaxTime = 2
    MaxEdits = 1
    MaxFaults = 1
    MaxCrashes = 0
PROPERTIES
    Converges
    DeletionCompletes
CHECK_DEADLOCK FALSE
