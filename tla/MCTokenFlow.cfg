SPECIFICATION Spec
CONSTANTS
    Requests = {r1, r2}
    Targets <- MCTargets
    Margin = 1
    MinTtl = 1
    MaxTtl = 3
    DefaultTtl = 2
    Advertised = {0, 2}
    Silent = 1
    MaxFlight = 1
    MaxTime = 3
    MaxTokens = 2
INVARIANTS
    RetryIsFresher
    TokensNotShared
PROPERTIES
    LiveIsUnexpired
