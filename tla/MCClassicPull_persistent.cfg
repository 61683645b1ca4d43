SPECIFICATION FairSpec
CONSTANTS
    b1 = b1
    b2 = b2
    cfg = cfg
    l1 = l1
    l2 = l2
    m1 = m1
    m2 = m2
    Clients = {c1, c2}
    Tags = {t1}
    EphemeralTags = {}
    HostPathTags = {}
    Digests = {cfg, l1, l2, m1, m2}
    Builds = {b1, b2}
    DigestOf <- MCDigestOf
    None = None
    Faults = {"Storage", "HangUp", "Restart"}
INVARIANTS
    PointerComplete
    PulledBlobsKnown
    
PROPERTIES
    Answered
