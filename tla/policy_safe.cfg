\* Two CRs that may be created in the same second or one after the other.
SPECIFICATION Spec
CONSTANTS
    Policies = {p1, p2}
    Specs = {s1, s2}
    Rejected = {}
    None = None
    FaultKinds = {"error", "lost"}
    SameSecond = TRUE
    MaxTime = 1
    MaxEdits = 1
    MaxFaults = 1
    MaxCrashes = 1
SYMMETRY Symmetry
INVARIANTS
    TypeOK
    SyncedStatusIsTrue
    OneApplied
PROPERTIES
    OnlyOldestPushes
    RetractsOnlyLast
CHECK_DEADLOCK FALSE
