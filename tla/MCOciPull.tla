----------------------------- MODULE MCOciPull ------------------------------
(* OciPull for TLC: an image manifest and an index, neither with a mediaType *)
(* field, a layer that is cached and one that is too long for the cache.     *)
EXTENDS OciPull, TLC

CONSTANTS img, idx, layer, big

\* Bytes: one manifest, two blobs.
BlobKinds == (img :> "image" @@ layer :> "layer" @@ big :> "layer")

\* Media types: one manifest of either kind.
ManifestKinds == (img :> "image" @@ idx :> "index")

ClientSymmetry == Permutations(Clients)
=============================================================================
