SPECIFICATION Spec
CONSTANTS
    None = None
    Pending = Pending
    Unreadable = Unreadable
    DriverNetwork = "oshl"
    OptNetworks = {"oshl", "lab"}
    OptTLSDirs <- MCTLSDirs
    Addresses = {"a1", "a2"}
    Builds = {"v1", "v2"}
    Casks = {TRUE, FALSE}
    MaxActs = 3
    Corrupt = "corrupt"
    Latest = "v2"
    ContainerVersions <- MCContainerVersions
    OpenShellVersions <- MCOpenShellVersions
    Upgrades <- MCUpgrades
INVARIANT SetupWiresTheDriver
CHECK_DEADLOCK FALSE
