\* A change of hostname or a deletion, then a failure or a restart, under fair scheduling.
SPECIFICATION FairSpec
CONSTANTS
    Hosts = {"h1", "h2"}
    None = None
    Specs <- LiveSpecs
    Platforms = {TRUE, FALSE}
    MaxEdits = 2
    MaxFaults = 1
    MaxEvents = 2
PROPERTIES
    Converges
    DeletionCompletes
CONSTRAINT HostnameChanges
CHECK_DEADLOCK FALSE
