SPECIFICATION Spec
CONSTANTS
    b1 = b1
    b2 = b2
    cfg = cfg
    l1 = l1
    l2 = l2
    m1 = m1
    m2 = m2
    Clients = {c1}
    Tags = {t1, t2}
    EphemeralTags = {t1}
    HostPathTags = {t2}
    Digests = {cfg, l1, m1}
    Builds = {b1}
    DigestOf <- MCDigestOf1
    None = None
    Faults = {"Storage", "Damage", "Overwrite", "HangUp", "Restart", "Evict", "Upstream"}
INVARIANTS
    ServedManifestsVerified
    IndexPolicyHeld
