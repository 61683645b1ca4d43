SPECIFICATION Spec
CONSTANTS
    img = img
    idx = idx
    layer = layer
    big = big
    Clients = {c1, c2}
    Tags = {t1}
    StoredTags = {t1}
    Digests = {img, idx}
    Kind <- ManifestKinds
    Typed = {}
    Large = {}
    Oversized = {}
    Attributes = TRUE
    None = None
    Faults = {"Overwrite", "HangUp", "Upstream"}
SYMMETRY ClientSymmetry
INVARIANTS
    PointerResolves
    MediaTypeTruthful
    AcceptHonoured
    CachedImageServed
