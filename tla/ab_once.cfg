\* Two concurrent requests and four random strings.
SPECIFICATION Spec
CONSTANTS
    Handlers = {h1, h2}
    Handles = {c1, c2, c3, c4}
    Users = {k}
    ServiceAccounts = {}
    KubeAdmin = k
    Configs <- Closed
    None = None
    MaxPending = 2
    StateTTL = 1
    CodeTTL = 0
    MaxTime = 2
    MaxChanges = 0
    MaxRestarts = 1
SYMMETRY Symmetry
CHECK_DEADLOCK FALSE
INVARIANTS
    TypeOK
    CodesBounded
PROPERTIES
    OneTime
    LiveEntriesKept
