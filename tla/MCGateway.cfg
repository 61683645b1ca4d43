SPECIFICATION Spec
CONSTANTS
    None = None
    Class <- MCClass
    Configs <- MCConfigs
    Vars = {"V", "W"}
    Words = {"t", "u", "-"}
    Requests <- MCRequests
    Dependencies <- MCDependencies
    MaxCacheTtl = 3
    SomeDigest <- MCDigest
    SomeChart <- MCChart
INVARIANTS
    PullsAreAuthorized
    PrivateNotRepublished
    NoLiteralSecrets
    HostPathsArePublic
    OneNameOneTarget
    DependencyComesBack
