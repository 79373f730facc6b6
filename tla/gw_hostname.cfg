\* Gateway API off OpenShift, first without a hostname.
SPECIFICATION FairSpec
CONSTANTS
    Hosts = {"h1", "h2"}
    None = None
    Specs <- HostnameSpecs
    Platforms = {FALSE}
    MaxEdits = 2
    MaxFaults = 0
    MaxEvents = 2
PROPERTIES
    HostnamePickedUp
CHECK_DEADLOCK FALSE
