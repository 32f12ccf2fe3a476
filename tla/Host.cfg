SPECIFICATION Spec
CONSTANTS
    None = None
    Pending = Pending
    Unreadable = Unreadable
    DriverNetwork = "oshl"
    OptNetworks = {"oshl"}
    OptTLSDirs <- MCTLSDirs
    Addresses = {a1, a2}
    Builds = {"v1", "v2"}
    Casks = {TRUE, FALSE}
    MaxActs = 3
    Corrupt = "corrupt"
    Latest = "v2"
    ContainerVersions <- MCContainerVersions
    OpenShellVersions <- MCOpenShellVersions
    Upgrades <- MCUpgrades
SYMMETRY AddressSymmetry
INVARIANTS
    SetupRepairs
    GuestsCanVerifyTheGateway
    UserLinesSurvive
    CleanupIsThorough
    PlistNeverDangles
    OnlyReleasesAreInstalled
    UpdateReachesTheService
    RuntimeIsStartedAgain
    VerdictsFollowTheOrder
CHECK_DEADLOCK FALSE
