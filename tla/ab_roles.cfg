\* One request for a user, a ServiceAccount or kube:admin, under every configuration.
SPECIFICATION FairSpec
CONSTANTS
    Handlers = {h1}
    Handles = {c1, c2}
    Users = {u, sa, k}
    ServiceAccounts = {sa}
    KubeAdmin = k
    Configs <- AllConfigs
    None = None
    MaxPending = 2
    StateTTL = 0
    CodeTTL = 0
    MaxTime = 1
    MaxChanges = 2
    MaxRestarts = 1
CHECK_DEADLOCK FALSE
INVARIANTS
    OnlyMembersGetTokens
PROPERTIES
    ExpiredSwept
