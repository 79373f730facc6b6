\* One CR and a ServiceAccount that may be recreated, under fair scheduling: users, faults,
\* crashes and drift stop at their bounds.
SPECIFICATION FairSpec
CONSTANTS
    Members = {m1}
    Accounts = {a1}
    Workspaces = {w1}
    UIDs = {u1, u2}
    Roles = {user, admin}
    None = None
    FaultKinds = {"error", "lost"}
    MaxEdits = 3
    MaxFaults = 1
    MaxCrashes = 1
    MaxDrift = 1
INVARIANTS
    TypeOK
    SyncedStatusIsTrue
PROPERTIES
    FinalizerGuardsRemoval
    GrantsAfterRemoval
    ReplacesOnlyRemoved
    Converges
    DeletionCompletes
CHECK_DEADLOCK FALSE
CONSTRAINT DriftAlone
