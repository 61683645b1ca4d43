SPECIFICATION Spec
CONSTANTS
    img = img
    idx = idx
    layer = layer
    big = big
    Clients = {c1, c2}
    Tags = {t1}
    StoredTags = {t1}
    Digests = {img, layer, big}
    Kind <- BlobKinds
    Typed = {}
    Large = {layer, big}
    Oversized = {big}
    Attributes = TRUE
    None = None
    Faults = {"Storage", "Damage", "Overwrite", "HangUp", "Upstream", "NoHeader"}
SYMMETRY ClientSymmetry
INVARIANTS
    OnlyVerifiedStored
    ServedVerified
