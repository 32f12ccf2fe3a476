SPECIFICATION Spec
CONSTANTS
    NotSet = NotSet
    Unset = Unset
    Malformed = Malformed
    Error = Error
    Kibi = 4
    Kilo = 3
    MaxInt = 9
    Settings <- MCSettings
    Defaults <- MCDefaults
    Requests <- MCRequests
    Releases = {"0.0.97"}
    Digests = {d1, d2, NoDigest}
    NoDigest = NoDigest
    FileSystems <- MCFileSystems
INVARIANTS
    GuestFindsItsMaterial
    IdentityIsTheDrivers
    MountsArePermitted
    AdmittedIsProvisionable
    RunsWhatItRecords
    SupervisorIsChosen
    SizedAsAsked
CHECK_DEADLOCK FALSE
