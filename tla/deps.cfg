\* One or two gateways in five clusters; one fault or restart.
SPECIFICATION FairSpec
CONSTANTS
    Gateways = {g1, g2}
    Groups = {u1, u2}
    g1 = g1
    g2 = g2
    u1 = u1
    u2 = u2
    None = None
    Clusters <- AllClusters
    MaxTime = 3
    MaxEdits = 3
    MaxFaults = 1
INVARIANTS
    TypeOK
    ClassMarksInstall
    InstalledIsGranted
    NothingLeftBehind
    OneManaged
PROPERTIES
    GroupsInUseSurvive
    Converges
    DeletionCompletes
CHECK_DEADLOCK FALSE
