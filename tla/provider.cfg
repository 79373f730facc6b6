\* Two credentials, whose Secrets change while they are read, and one config key, under fair
\* scheduling; one call fails before or after it took effect, or the operator restarts, or
\* another client deletes the provider.
SPECIFICATION FairSpec
CONSTANTS
    t1 = t1
    t2 = t2
    v = v
    CredKeys = {1, 2}
    ConfigKeys = {3}
    Values = {v}
    Empty = Empty
    Absent = Absent
    Types = {t1, t2}
    Specs <- FewSpecs
    FaultKinds = {"error", "lost"}
    MaxEdits = 3
    MaxFaults = 1
    MaxCrashes = 1
    MaxDrift = 1
CONSTRAINT OneMishap
INVARIANTS
    TypeOK
    SyncedStatusIsTrue
    ProviderHasOwner
PROPERTIES
    ForgetsOnlyRetracted
    Converges
    DeletionCompletes
CHECK_DEADLOCK FALSE
