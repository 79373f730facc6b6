\* One CR whose role changes, and whose deletion follows: the re-add of the member takes effect
\* although its reply is lost.
SPECIFICATION Spec
CONSTANTS
    Members = {m1}
    Accounts = {a1}
    Workspaces = {w1}
    UIDs = {u1}
    Roles = {user, admin}
    None = None
    FaultKinds = {"error", "lost"}
    MaxEdits = 3
    MaxFaults = 1
    MaxCrashes = 0
    MaxDrift = 0
PROPERTY ForgetsOnlyRemoved
CHECK_DEADLOCK FALSE
