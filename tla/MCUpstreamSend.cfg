SPECIFICATION FairSpec
CONSTANTS
    Hosts = {registry, cdn, intranet}
    PublicHosts = {registry, cdn}
    MaxRedirects = 5
INVARIANTS
    CredentialsStayHome
    PrivateOnlyAsNamed
    TrustNeverReturns
PROPERTIES
    SendEnds
