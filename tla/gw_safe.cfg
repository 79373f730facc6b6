\* Two user actions and a failed step or a restart, on OpenShift and elsewhere.
SPECIFICATION Spec
CONSTANTS
    Hosts = {"h1", "h2"}
    None = None
    Specs <- MixedSpecs
    Platforms = {TRUE, FALSE}
    MaxEdits = 2
    MaxFaults = 1
    MaxEvents = 3
INVARIANTS
    TypeOK
    ClusterObjectsHaveOwner
    RunningIsReachable
CHECK_DEADLOCK FALSE
