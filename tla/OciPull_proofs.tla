--------------------------- MODULE OciPull_proofs ---------------------------
(* Proofs about OciPull, for any number of clients, tags and digests, on      *)
(* backends with and without content types and whatever goes wrong.           *)
EXTENDS OciPull, TLAPS

\* type is what manifest d is, unless nothing could tell.
Fits(d, type) == d \in Manifests /\ type \in ManifestTypes /\ (Undeclared(d) \/ type = Kind[d])

\* What the bucket holds was verified, and a content type that names a
\* manifest type names the right one.
StoreOK ==
    \A d \in Digests : /\ blobs[d].bytes # "wrong"
                       /\ blobs[d].ct \in ManifestTypes => Fits(d, blobs[d].ct)

PtrOK ==
    \A t \in Tags : ptr[t] # NoPointer =>
        Fits(ptr[t].digest, ptr[t].type) /\ Present(blobs[ptr[t].digest])

\* What holds of a request at each control point.
ReqOK(r) ==
    /\ r.pc = "pointer" => r.tag \in Tags /\ r.kind = "manifest"
    /\ r.pc = "manifest" =>
           /\ r.kind = "manifest" /\ r.digest \in Digests
           /\ r.tag = None => r.type = "none"
           /\ r.tag # None => r.type \in r.accept /\ Fits(r.digest, r.type)
    /\ r.pc = "blob" => r.kind = "blob" /\ r.digest \in Digests
    /\ r.pc = "upstream" /\ r.tag = None => r.digest \in Digests
    /\ r.pc \in {"blob", "upstream", "put", "commit"} /\ r.kind = "blob" => r.tag = None
    /\ r.pc \in {"put", "commit"} =>
           /\ r.digest \in Digests /\ r.bytes = "good"
           /\ IF r.kind = "blob" THEN r.type \in ManifestTypes => Fits(r.digest, r.type)
                                 ELSE Fits(r.digest, r.type)
    /\ r.pc = "commit" => r.tag \in Tags /\ r.kind = "manifest"
    /\ r.pc # "done" => r.res = "none"
    /\ r.res \in {"manifest", "blob"} => r.bytes = "good" \/ r.head
    /\ r.res = "manifest" /\ ~r.head => Fits(r.digest, r.type)
    /\ r.res = "manifest" /\ r.tag # None /\ r.from = "cache" /\ ~Undeclared(r.digest)
           => r.type \in r.accept
    /\ RefusedIntact(r) => Kind[r.digest] = "index" /\ r.digest \notin Typed

\* A handler about to write a pointer has seen its manifest stored.
CommitOK ==
    \A c \in Clients : req[c].pc = "commit" => Present(blobs[req[c].digest])

IInv ==
    /\ TypeOK
    /\ StoreOK
    /\ PtrOK
    /\ CommitOK
    /\ \A c \in Clients : ReqOK(req[c])

-----------------------------------------------------------------------------
(* Media types.                                                               *)

\* What upstream declares, with the body, gives the right type or none.
LEMMA DeclaredFits ==
    ASSUME NEW d \in Manifests, NEW declared \in DeclaredTypes(d),
           manifest_media_type(d, declared) # "none"
    PROVE  Fits(d, manifest_media_type(d, declared))
<1>1. d \in Digests /\ Kind[d] \in ManifestTypes
  BY DEF Manifests
<1>2. CASE d \in Typed
  BY <1>1, <1>2 DEF manifest_media_type, Fits
<1>3. CASE d \notin Typed
  <2>1. manifest_media_type(d, declared) = declared /\ declared \in ManifestTypes
    BY <1>1, <1>3 DEF manifest_media_type, normalized_manifest_media_type
  <2>2. declared = Kind[d] \/ (declared = "image" /\ "NoHeader" \in Faults)
    BY <2>1 DEF DeclaredTypes, ManifestTypes
  <2>3. Kind[d] = "image" \/ Kind[d] = "index"
    BY <1>1 DEF ManifestTypes
  <2> QED BY <1>3, <2>1, <2>2, <2>3 DEF Fits, Undeclared
<1> QED BY <1>2, <1>3

\* So do the recorded content type, the pointer's type and the inference, and
\* together they give none only for an index that does not name its type.
LEMMA CachedTypeFits ==
    ASSUME NEW d \in Digests, NEW stored \in ContentTypes, NEW declared \in ContentTypes,
           stored \in ManifestTypes => Fits(d, stored),
           declared \in ManifestTypes => Fits(d, declared)
    PROVE  /\ CachedType(d, stored, declared) # "none"
                  => Fits(d, CachedType(d, stored, declared))
           /\ CachedType(d, stored, declared) = "none" /\ d \in Manifests
                  => Kind[d] = "index" /\ d \notin Typed
<1> DEFINE said == IF stored # "none" THEN stored ELSE declared
           type == manifest_media_type(d, said)
           guess == inferred_cached_manifest_media_type(d)
<1>1. said \in ManifestTypes => Fits(d, said)
  OBVIOUS
<1>2. type # "none" => Fits(d, type)
  <2>1. CASE Kind[d] \notin ManifestTypes
    BY <2>1 DEF manifest_media_type
  <2>2. CASE Kind[d] \in ManifestTypes /\ d \in Typed
    BY <2>2 DEF manifest_media_type, Fits, Manifests
  <2>3. CASE Kind[d] \in ManifestTypes /\ d \notin Typed
    BY <2>3, <1>1 DEF manifest_media_type, normalized_manifest_media_type
  <2> QED BY <2>1, <2>2, <2>3
<1>3. guess # "none" => Fits(d, guess)
  BY DEF inferred_cached_manifest_media_type, Fits, Manifests, ManifestTypes
<1>4. type = "none" /\ guess = "none" /\ d \in Manifests
          => Kind[d] = "index" /\ d \notin Typed
  BY DEF inferred_cached_manifest_media_type, manifest_media_type, Manifests, ManifestTypes
<1>5. CachedType(d, stored, declared) = IF type # "none" THEN type ELSE guess
  BY DEF CachedType
<1> HIDE DEF said, type, guess
<1> QED BY <1>2, <1>3, <1>4, <1>5

-----------------------------------------------------------------------------
(* Steps that replace one request.                                            *)

LEMMA Members ==
    /\ \A x \in {"idle", "pointer", "manifest", "blob", "upstream", "put", "commit",
                 "done"} : x \in Points
    /\ \A x \in {"none", "manifest", "blob", "stream", "cut", "ManifestUnknown",
                 "BlobUnknown", "Upstream", "TooLarge", "Internal"} : x \in Responses
    /\ \A x \in {"none", "good", "wrong", "damaged"} : x \in Bytes
    /\ \A x \in {"image", "index", "octet", "none"} : x \in ContentTypes
  BY DEF Points, Responses, Bytes, ContentTypes, ManifestTypes

LEMMA IdleOK == Idle \in Request /\ ReqOK(Idle) /\ Idle.pc = "idle"
<1>1. Idle \in Request
  BY Members DEF Idle, Request
<1> QED BY <1>1 DEF Idle, ReqOK, RefusedIntact

\* Blobs may be added to the bucket, never removed or replaced by others.
Grows ==
    /\ blobs' \in [Digests -> Object]
    /\ StoreOK'
    /\ \A d \in Digests : Present(blobs[d]) => Present(blobs'[d])

LEMMA RequestStep ==
    ASSUME IInv, NEW c \in Clients, NEW r \in Request, ReqOK(r),
           req' = [req EXCEPT ![c] = r], Grows, tagged' = tagged,
           ptr' \in [Tags -> Pointer], PtrOK',
           r.pc = "commit" => Present(blobs'[r.digest])
    PROVE  IInv'
<1>1. TypeOK'
  BY DEF IInv, TypeOK, Grows
<1>2. ASSUME NEW e \in Clients
      PROVE  ReqOK(req'[e]) /\ (req'[e].pc = "commit" => Present(blobs'[req'[e].digest]))
  <2>1. CASE e = c
    BY <2>1 DEF IInv, TypeOK
  <2>2. CASE e # c
    <3>1. req'[e] = req[e] /\ ReqOK(req[e])
      BY <2>2 DEF IInv, TypeOK
    <3>2. req[e].pc = "commit" => req[e].digest \in Digests /\ Present(blobs[req[e].digest])
      BY <3>1 DEF ReqOK, IInv, CommitOK
    <3> QED BY <3>1, <3>2 DEF Grows
  <2> QED BY <2>1, <2>2
<1>3. CommitOK'
  BY <1>2 DEF CommitOK
<1> QED BY <1>1, <1>2, <1>3 DEF IInv, Grows

LEMMA HandlerStep ==
    ASSUME IInv, NEW c \in Clients, NEW r \in Request, ReqOK(r),
           req' = [req EXCEPT ![c] = r], UNCHANGED <<blobs, ptr, tagged>>, r.pc # "commit"
    PROVE  IInv'
<1>1. Grows /\ PtrOK'
  BY DEF IInv, TypeOK, Grows, StoreOK, PtrOK
<1> QED BY <1>1, RequestStep DEF IInv, TypeOK

\* An answer that is an error, or a body that promises nothing.
LEMMA ErrorStep ==
    ASSUME IInv, NEW c \in Clients, req[c].pc # "done",
           NEW res \in {"stream", "cut", "ManifestUnknown", "BlobUnknown", "Upstream",
                        "TooLarge", "Internal"},
           NEW from \in {"cache", "upstream"}, NEW type \in ContentTypes,
           NEW bytes \in Bytes,
           res = "ManifestUnknown" /\ from = "cache" /\ bytes = "good"
               /\ req[c].digest \in Manifests
               => Kind[req[c].digest] = "index" /\ req[c].digest \notin Typed,
           Reply(c, res, from, type, bytes), UNCHANGED <<blobs, ptr, tagged>>
    PROVE  IInv'
<1> DEFINE r == [req[c] EXCEPT !.pc = "done", !.res = res, !.from = from,
                               !.type = type, !.bytes = bytes]
<1>1. req[c] \in Request /\ ReqOK(req[c])
  BY DEF IInv, TypeOK
<1>2. r \in Request
  BY <1>1, Members DEF Request
<1>3. r.pc = "done" /\ r.res = res /\ r.from = from /\ r.bytes = bytes
      /\ r.digest = req[c].digest
  BY <1>1 DEF Request
<1> HIDE DEF r
<1>4. ReqOK(r)
  BY <1>3 DEF ReqOK, RefusedIntact
<1>5. req' = [req EXCEPT ![c] = r]
  BY DEF Reply, r
<1> QED BY <1>2, <1>3, <1>4, <1>5, HandlerStep

LEMMA FailStep ==
    ASSUME IInv, NEW c \in Clients, req[c].pc # "done",
           NEW res \in {"ManifestUnknown", "BlobUnknown", "Upstream", "TooLarge", "Internal"},
           NEW from \in {"cache", "upstream"},
           Fail(c, res, from), UNCHANGED <<blobs, ptr, tagged>>
    PROVE  IInv'
  BY ErrorStep, Members DEF Fail

\* An answer with a verified body, or with none to a HEAD.
LEMMA ServeStep ==
    ASSUME IInv, NEW c \in Clients, req[c].pc # "done",
           NEW res \in {"manifest", "blob"}, NEW from \in {"cache", "upstream"},
           NEW type \in ContentTypes, NEW bytes \in {"good", "none"},
           bytes = "good" \/ req[c].head,
           res = "manifest" /\ ~req[c].head => Fits(req[c].digest, type),
           res = "manifest" /\ req[c].tag # None /\ from = "cache"
               /\ ~Undeclared(req[c].digest) => type \in req[c].accept,
           Reply(c, res, from, type, bytes), UNCHANGED <<blobs, ptr, tagged>>
    PROVE  IInv'
<1> DEFINE r == [req[c] EXCEPT !.pc = "done", !.res = res, !.from = from,
                               !.type = type, !.bytes = bytes]
<1>1. req[c] \in Request /\ ReqOK(req[c])
  BY DEF IInv, TypeOK
<1>2. r \in Request
  BY <1>1, Members DEF Request
<1>3. /\ r.pc = "done" /\ r.res = res /\ r.from = from /\ r.bytes = bytes /\ r.type = type
      /\ r.digest = req[c].digest /\ r.head = req[c].head /\ r.tag = req[c].tag
      /\ r.accept = req[c].accept
  BY <1>1 DEF Request
<1> HIDE DEF r
<1>4. ReqOK(r)
  BY <1>3 DEF ReqOK, RefusedIntact
<1>5. req' = [req EXCEPT ![c] = r]
  BY DEF Reply, r
<1> QED BY <1>2, <1>3, <1>4, <1>5, HandlerStep

LEMMA MissStep ==
    ASSUME IInv, NEW c \in Clients, req[c].pc \in {"pointer", "manifest", "blob"},
           Miss(c), UNCHANGED <<blobs, ptr, tagged>>
    PROVE  IInv'
<1> DEFINE r == [req[c] EXCEPT !.pc = "upstream", !.type = "none",
                     !.digest = IF req[c].tag = None THEN req[c].digest ELSE None]
<1>1. req[c] \in Request /\ ReqOK(req[c])
  BY DEF IInv, TypeOK
<1>2. r \in Request
  BY <1>1, Members DEF Request
<1>3. /\ r.pc = "upstream" /\ r.res = req[c].res /\ r.kind = req[c].kind
      /\ r.tag = req[c].tag /\ (r.tag = None => r.digest = req[c].digest)
  BY <1>1 DEF Request
<1> HIDE DEF r
<1>4. req[c].res = "none" /\ (req[c].tag = None => req[c].digest \in Digests)
      /\ (req[c].kind = "blob" => req[c].tag = None)
  BY <1>1, OciAssumption DEF ReqOK
<1>5. ReqOK(r)
  BY <1>3, <1>4 DEF ReqOK, RefusedIntact
<1>6. req' = [req EXCEPT ![c] = r]
  BY DEF Miss, r
<1> QED BY <1>2, <1>3, <1>5, <1>6, HandlerStep

-----------------------------------------------------------------------------
(* The actions.                                                               *)

LEMMA AskInv ==
    ASSUME IInv, NEW c \in Clients, NEW point \in {"pointer", "manifest", "blob"},
           NEW kind \in {"manifest", "blob"}, NEW t \in Tags \cup {None},
           NEW d \in Digests \cup {None}, NEW store \in BOOLEAN, NEW head \in BOOLEAN,
           NEW accept \in SUBSET ManifestTypes,
           point = "pointer" => t \in Tags /\ kind = "manifest",
           point = "manifest" => t = None /\ d \in Digests /\ kind = "manifest",
           point = "blob" => t = None /\ d \in Digests /\ kind = "blob",
           Ask(c, point, kind, t, d, store, head, accept)
    PROVE  IInv'
<1> DEFINE r == [Idle EXCEPT
               !.pc = IF store THEN point ELSE "upstream", !.kind = kind, !.tag = t,
               !.digest = d, !.store = store, !.head = head, !.accept = accept]
<1>1. r \in Request
  BY IdleOK, Members DEF Request
<1>2. /\ r.pc \in {point, "upstream"} /\ r.kind = kind /\ r.tag = t /\ r.digest = d
      /\ r.type = "none" /\ r.res = "none"
  BY DEF Idle
<1>3. None \notin Tags /\ None \notin Digests
  BY OciAssumption
<1> HIDE DEF r
<1>4. ReqOK(r)
  BY <1>2, <1>3 DEF ReqOK, RefusedIntact
<1>5. req' = [req EXCEPT ![c] = r] /\ UNCHANGED <<blobs, ptr, tagged>>
  BY DEF Ask, r
<1> QED BY <1>1, <1>2, <1>4, <1>5, HandlerStep

LEMMA AskAnyInv == ASSUME IInv, NEW c \in Clients, AskAny(c) PROVE IInv'
<1>1. ASSUME NEW head \in BOOLEAN, NEW t \in Tags,
             NEW accept \in SUBSET ManifestTypes \ {{}}, AskTag(c, t, head, accept)
      PROVE  IInv'
  <2> DEFINE store == t \in StoredTags
  <2>1. store \in BOOLEAN
    OBVIOUS
  <2>2. Ask(c, "pointer", "manifest", t, None, store, head, accept)
    BY <1>1, Zenon DEF AskTag
  <2>3. accept \in SUBSET ManifestTypes /\ None \in Digests \cup {None} /\ t \in Tags \cup {None}
    OBVIOUS
  <2> HIDE DEF store
  <2> QED BY <2>1, <2>2, <2>3, AskInv
<1>2. ASSUME NEW head \in BOOLEAN, NEW d \in Digests, NEW store \in BOOLEAN,
             AskDigest(c, d, store, head) \/ AskBlob(c, d, store, head)
      PROVE  IInv'
  <2>1. ManifestTypes \in SUBSET ManifestTypes /\ {} \in SUBSET ManifestTypes
    OBVIOUS
  <2> QED BY <1>2, <2>1, AskInv DEF AskDigest, AskBlob
<1> QED BY <1>1, <1>2 DEF AskAny

LEMMA ReceiveInv == ASSUME IInv, NEW c \in Clients, Receive(c) PROVE IInv'
  BY IdleOK, HandlerStep DEF Receive

\* The pointer that is read fits what the client accepts.
LEMMA ReadPointerInv == ASSUME IInv, NEW c \in Clients, ReadPointer(c) PROVE IInv'
<1> DEFINE p == ptr[req[c].tag]
           r == [req[c] EXCEPT !.pc = "manifest", !.digest = p.digest, !.type = p.type]
<1>1. req[c] \in Request /\ ReqOK(req[c]) /\ req[c].pc = "pointer"
      /\ UNCHANGED <<blobs, ptr, tagged>>
  BY DEF IInv, TypeOK, ReadPointer
<1>2. req[c].tag \in Tags /\ req[c].kind = "manifest" /\ req[c].res = "none" /\ p \in Pointer
  BY <1>1 DEF ReqOK, IInv, TypeOK
<1>3. CASE Miss(c)
  BY <1>1, <1>3, MissStep
<1>4. CASE Fail(c, "Internal", "cache")
  BY <1>1, <1>4, FailStep
<1>5. CASE p.type \in req[c].accept /\ req' = [req EXCEPT ![c] = r]
  <2>1. p.type \in ManifestTypes
    BY <1>1, <1>5 DEF Request
  <2>2. p # NoPointer
    BY <2>1 DEF NoPointer, ManifestTypes
  <2>3. Fits(p.digest, p.type)
    BY <1>2, <2>2 DEF IInv, PtrOK
  <2>4. p.digest \in Digests /\ p.type \in ContentTypes
    BY <2>1, <2>3 DEF Fits, Manifests, ContentTypes
  <2>5. r \in Request
    BY <1>1, <2>4, Members DEF Request
  <2>6. /\ r.pc = "manifest" /\ r.digest = p.digest /\ r.type = p.type
        /\ r.tag = req[c].tag /\ r.kind = req[c].kind /\ r.accept = req[c].accept
        /\ r.res = req[c].res
    BY <1>1 DEF Request
  <2> HIDE DEF r, p
  <2>7. ReqOK(r)
    BY <1>2, <1>5, <2>3, <2>4, <2>6, OciAssumption DEF ReqOK, RefusedIntact
  <2> QED BY <1>1, <1>5, <2>5, <2>6, <2>7, HandlerStep
<1> QED BY <1>3, <1>4, <1>5 DEF ReadPointer

LEMMA ReadManifestInv == ASSUME IInv, NEW c \in Clients, ReadManifest(c) PROVE IInv'
<1> DEFINE d == req[c].digest
           o == blobs[d]
           type == CachedType(d, o.ct, req[c].type)
<1>1. req[c] \in Request /\ ReqOK(req[c]) /\ req[c].pc = "manifest"
      /\ UNCHANGED <<blobs, ptr, tagged>>
  BY DEF IInv, TypeOK, ReadManifest
<1>2. d \in Digests /\ req[c].type \in ContentTypes
  BY <1>1 DEF ReqOK, Request
<1>3. o \in Object /\ o.ct \in ContentTypes /\ o.bytes \in Bytes
  BY <1>2 DEF IInv, TypeOK, Object
<1>4. o.ct \in ManifestTypes => Fits(d, o.ct)
  BY <1>2 DEF IInv, StoreOK
<1>5. req[c].type \in ManifestTypes => Fits(d, req[c].type)
  BY <1>1 DEF ReqOK, ManifestTypes
<1>6. /\ type # "none" => Fits(d, type)
      /\ type = "none" /\ d \in Manifests => Kind[d] = "index" /\ d \notin Typed
  BY <1>2, <1>3, <1>4, <1>5, CachedTypeFits
<1>7. CASE Miss(c)
  BY <1>1, <1>7, MissStep
<1>8. CASE type # "none" /\ Reply(c, "manifest", "cache", type, "good")
  <2>1. type \in ContentTypes
    BY <1>6, <1>8 DEF Fits, ContentTypes
  <2>2. req[c].tag # None /\ ~Undeclared(d) => type \in req[c].accept
    BY <1>1, <1>6, <1>8 DEF ReqOK, Fits
  <2> HIDE DEF type
  <2> QED BY <1>1, <1>6, <1>8, <2>1, <2>2, ServeStep
<1>9. CASE /\ o.bytes # "good" \/ type = "none"
           /\ Reply(c, "ManifestUnknown", "cache", "none", o.bytes)
  <2> HIDE DEF type
  <2> QED BY <1>1, <1>3, <1>6, <1>9, ErrorStep, Members
<1>10. CASE Reply(c, "TooLarge", "cache", "none", o.bytes)
  BY <1>1, <1>3, <1>10, ErrorStep, Members
<1>11. CASE Fail(c, "Internal", "cache")
  BY <1>1, <1>11, FailStep
<1> HIDE DEF type
<1> QED BY <1>7, <1>8, <1>9, <1>10, <1>11 DEF ReadManifest, type

LEMMA ReadBlobInv == ASSUME IInv, NEW c \in Clients, ReadBlob(c) PROVE IInv'
<1> DEFINE o == blobs[req[c].digest]
           type == CachedBlobType(o)
<1>1. req[c] \in Request /\ ReqOK(req[c]) /\ req[c].pc = "blob"
      /\ UNCHANGED <<blobs, ptr, tagged>>
  BY DEF IInv, TypeOK, ReadBlob
<1>7. type \in ContentTypes
  BY <1>1, Members DEF IInv, TypeOK, ReqOK, Object, CachedBlobType
<1>2. CASE Miss(c)
  BY <1>1, <1>2, MissStep
<1> HIDE DEF type
<1>3. CASE Reply(c, "blob", "cache", type, "good")
  BY <1>7, <1>1, <1>3, ServeStep, Members
<1>4. CASE req[c].head /\ Reply(c, "blob", "cache", type, "none")
  BY <1>7, <1>1, <1>4, ServeStep, Members
<1>5. CASE Reply(c, "cut", "cache", type, "none")
  BY <1>7, <1>1, <1>5, ErrorStep, Members
<1>6. CASE Fail(c, "Internal", "cache")
  BY <1>1, <1>6, FailStep
<1> USE DEF type
<1> QED BY <1>2, <1>3, <1>4, <1>5, <1>6 DEF ReadBlob, BufferedBlob, StreamedBlob

\* A verified body goes to the store or to the client.
LEMMA AcceptedStep ==
    ASSUME IInv, NEW c \in Clients, req[c].pc = "upstream", ~req[c].head,
           NEW d \in Digests, NEW type \in ContentTypes,
           IF req[c].kind = "blob" THEN type \in ManifestTypes => Fits(d, type)
                                   ELSE Fits(d, type),
           Accepted(c, req[c].kind, d, type), UNCHANGED <<blobs, ptr, tagged>>
    PROVE  IInv'
<1>1. req[c] \in Request /\ ReqOK(req[c])
  BY DEF IInv, TypeOK
<1>2. req[c].res = "none" /\ req[c].kind \in {"manifest", "blob"}
      /\ (req[c].kind = "blob" => req[c].tag = None)
  BY <1>1 DEF ReqOK, Request
<1>3. CASE req[c].store
  <2> DEFINE r == [req[c] EXCEPT !.pc = "put", !.digest = d, !.type = type,
                                 !.bytes = "good", !.from = "upstream"]
  <2>1. r \in Request
    BY <1>1, Members DEF Request
  <2>2. /\ r.pc = "put" /\ r.digest = d /\ r.type = type /\ r.bytes = "good"
        /\ r.kind = req[c].kind /\ r.tag = req[c].tag /\ r.res = req[c].res
    BY <1>1 DEF Request
  <2>3. req' = [req EXCEPT ![c] = r]
    BY <1>3 DEF Accepted
  <2> HIDE DEF r
  <2>4. ReqOK(r)
    BY <1>2, <2>2 DEF ReqOK, RefusedIntact
  <2> QED BY <2>1, <2>2, <2>3, <2>4, HandlerStep
<1>4. CASE ~req[c].store
  <2> DEFINE r == [req[c] EXCEPT !.pc = "done", !.digest = d, !.type = type,
                     !.bytes = "good", !.from = "upstream", !.res = req[c].kind]
  <2>1. r \in Request
    BY <1>1, <1>2, Members DEF Request
  <2>2. /\ r.pc = "done" /\ r.digest = d /\ r.type = type /\ r.bytes = "good"
        /\ r.kind = req[c].kind /\ r.from = "upstream" /\ r.res = req[c].kind
    BY <1>1 DEF Request
  <2>3. req' = [req EXCEPT ![c] = r]
    BY <1>4 DEF Accepted
  <2> HIDE DEF r
  <2>4. ReqOK(r)
    BY <1>2, <2>2 DEF ReqOK, RefusedIntact
  <2> QED BY <2>1, <2>2, <2>3, <2>4, HandlerStep
<1> QED BY <1>3, <1>4

LEMMA FetchManifestInv == ASSUME IInv, NEW c \in Clients, FetchManifest(c) PROVE IInv'
<1>1. /\ req[c] \in Request /\ ReqOK(req[c]) /\ req[c].pc = "upstream"
      /\ req[c].kind = "manifest" /\ UNCHANGED <<blobs, ptr, tagged>>
  BY DEF IInv, TypeOK, FetchManifest
<1>2. ASSUME NEW d \in Manifests, ManifestReceived(c, d) PROVE IInv'
  <2>1. PICK declared \in DeclaredTypes(d) :
          \/ Fail(c, "Upstream", "upstream")
          \/ /\ normalized_manifest_media_type(declared) # "none" /\ req[c].head
             /\ Reply(c, "manifest", "upstream",
                      normalized_manifest_media_type(declared), "none")
          \/ /\ manifest_media_type(d, declared) # "none" /\ ~req[c].head
             /\ Accepted(c, "manifest", d, manifest_media_type(d, declared))
    BY <1>2 DEF ManifestReceived
  <2>2. CASE Fail(c, "Upstream", "upstream")
    BY <1>1, <2>2, FailStep
  <2>3. CASE /\ normalized_manifest_media_type(declared) # "none" /\ req[c].head
             /\ Reply(c, "manifest", "upstream",
                      normalized_manifest_media_type(declared), "none")
    <3>1. normalized_manifest_media_type(declared) \in ContentTypes
      BY DEF normalized_manifest_media_type, ContentTypes
    <3> QED BY <1>1, <2>3, <3>1, ServeStep
  <2>4. CASE /\ manifest_media_type(d, declared) # "none" /\ ~req[c].head
             /\ Accepted(c, "manifest", d, manifest_media_type(d, declared))
    <3>1. Fits(d, manifest_media_type(d, declared))
      BY <2>4, DeclaredFits
    <3>2. d \in Digests /\ manifest_media_type(d, declared) \in ContentTypes
      BY <3>1 DEF Fits, Manifests, ContentTypes
    <3> QED BY <1>1, <2>4, <3>1, <3>2, AcceptedStep
  <2> QED BY <2>1, <2>2, <2>3, <2>4
<1>3. CASE Unknown(c, "upstream")
  BY <1>1, <1>3, FailStep DEF Unknown
<1>4. CASE \E error \in {"ManifestUnknown", "Upstream", "TooLarge"} : Fail(c, error, "upstream")
  BY <1>1, <1>4, FailStep
<1> QED BY <1>2, <1>3, <1>4 DEF FetchManifest

LEMMA FetchBlobInv == ASSUME IInv, NEW c \in Clients, FetchBlob(c) PROVE IInv'
<1>1. /\ req[c] \in Request /\ ReqOK(req[c]) /\ req[c].pc = "upstream"
      /\ req[c].kind = "blob" /\ UNCHANGED <<blobs, ptr, tagged>>
  BY DEF IInv, TypeOK, FetchBlob
<1>2. req[c].digest \in Digests
  BY <1>1 DEF ReqOK
<1>3. ASSUME NEW bytes \in SentBytes, NEW type \in BlobTypes(req[c].digest),
             BlobReceived(c, bytes, type)
      PROVE  IInv'
  <2>1. bytes \in Bytes
    BY DEF SentBytes, Bytes
  <2>6. type \in ContentTypes /\ (type \in ManifestTypes => Fits(req[c].digest, type))
    BY <1>2 DEF BlobTypes, ContentTypes, Fits, Manifests, ManifestTypes
  <2>2. CASE req[c].head /\ Reply(c, "blob", "upstream", type, "none")
    BY <1>1, <2>6, <2>2, ServeStep, Members
  <2>3. CASE Reply(c, "stream", "upstream", type, bytes)
    BY <1>1, <2>6, <2>1, <2>3, ErrorStep, Members
  <2>4. CASE ~req[c].head /\ Accepted(c, "blob", req[c].digest, type)
    BY <1>1, <1>2, <2>6, <2>4, AcceptedStep, Members
  <2>5. CASE Fail(c, "Upstream", "upstream")
    BY <1>1, <2>5, FailStep
  <2> QED BY <1>3, <2>2, <2>3, <2>4, <2>5 DEF BlobReceived
<1>4. CASE \E error \in {"BlobUnknown", "Upstream"} : Fail(c, error, "upstream")
  BY <1>1, <1>4, FailStep
<1> QED BY <1>3, <1>4 DEF FetchBlob

\* What a put leaves in the bucket: more than before, and only verified bytes.
LEMMA PutGrows ==
    ASSUME IInv, NEW c \in Clients, req[c].pc = "put", blobs' \in Put(req[c])
    PROVE  Grows /\ Present(blobs'[req[c].digest])
<1> DEFINE r == req[c]
           old == blobs[r.digest]
<1>1. r \in Request /\ ReqOK(r) /\ blobs \in [Digests -> Object]
  BY DEF IInv, TypeOK
<1>2. /\ r.digest \in Digests /\ r.bytes = "good" /\ r.type \in ContentTypes
      /\ r.type \in ManifestTypes => Fits(r.digest, r.type)
  BY <1>1 DEF ReqOK, Request, ManifestTypes
<1>3. PICK new \in put_blob(old, r.bytes, r.type) : blobs' = [blobs EXCEPT ![r.digest] = new]
  BY <1>1 DEF Put
<1>4. old \in Object /\ old.bytes # "wrong" /\ (old.ct \in ManifestTypes => Fits(r.digest, old.ct))
  BY <1>1, <1>2 DEF IInv, StoreOK
<1>5. /\ new \in Object /\ new.bytes # "wrong" /\ Present(new)
      /\ new.ct \in ManifestTypes => Fits(r.digest, new.ct)
  <2>1. CASE Present(old) /\ new = old
    BY <1>4, <2>1
  <2>2. CASE ~(Present(old) /\ new = old)
    <3>1. \E ct \in {r.type, "none"} : new = [bytes |-> "good", ct |-> ct]
      BY <1>2, <1>3, <2>2 DEF put_blob
    <3> HIDE DEF r
    <3> QED BY <1>2, <3>1, Members DEF Object, Present, ManifestTypes
  <2> QED BY <2>1, <2>2
<1>6. /\ blobs' \in [Digests -> Object] /\ blobs'[r.digest] = new
      /\ \A d \in Digests \ {r.digest} : blobs'[d] = blobs[d]
  BY <1>1, <1>2, <1>3, <1>5
<1> HIDE DEF r, old
<1>7. StoreOK'
  BY <1>5, <1>6 DEF IInv, StoreOK
<1> QED BY <1>2, <1>5, <1>6, <1>7 DEF Grows, r

\* A bucket that only gains blobs leaves every pointer resolved.
LEMMA PointersStay == ASSUME IInv, Grows, ptr' = ptr PROVE PtrOK'
<1>1. ASSUME NEW t \in Tags, ptr[t] # NoPointer
      PROVE  Fits(ptr[t].digest, ptr[t].type) /\ Present(blobs'[ptr[t].digest])
  BY <1>1 DEF IInv, PtrOK, Grows, Fits, Manifests
<1> QED BY <1>1 DEF PtrOK

\* The pointer that is written resolves.
LEMMA CommittedPointer ==
    ASSUME IInv, NEW c \in Clients, req[c].pc = "commit", ptr' = put_tag_pointer(req[c]),
           blobs' = blobs
    PROVE  ptr' \in [Tags -> Pointer] /\ PtrOK'
<1> DEFINE r == req[c]
           p == [digest |-> r.digest, type |-> r.type]
<1>1. r \in Request /\ ReqOK(r) /\ ptr \in [Tags -> Pointer]
  BY DEF IInv, TypeOK
<1>2. r.tag \in Tags /\ Fits(r.digest, r.type) /\ Present(blobs[r.digest])
  BY <1>1 DEF ReqOK, IInv, CommitOK
<1>3. p \in Pointer /\ p.digest = r.digest /\ p.type = r.type
  BY <1>2 DEF Pointer, Fits, Manifests
<1>4. ptr' = [ptr EXCEPT ![r.tag] = p]
  BY DEF put_tag_pointer
<1> HIDE DEF p, r
<1>5. ptr' \in [Tags -> Pointer]
  BY <1>1, <1>3, <1>4
<1>6. ASSUME NEW t \in Tags, ptr'[t] # NoPointer
      PROVE  Fits(ptr'[t].digest, ptr'[t].type) /\ Present(blobs'[ptr'[t].digest])
  <2>1. CASE t = r.tag
    BY <1>1, <1>2, <1>3, <1>4, <2>1
  <2>2. CASE t # r.tag
    BY <1>1, <1>4, <1>6, <2>2 DEF IInv, PtrOK
  <2> QED BY <2>1, <2>2
<1> QED BY <1>5, <1>6 DEF PtrOK

\* The answer after a write: the verified body, or the storage's error.
LEMMA WriterReply ==
    ASSUME NEW c \in Clients, IInv, req[c].pc \in {"put", "commit"},
           \/ Reply(c, req[c].kind, "upstream", req[c].type, req[c].bytes)
           \/ Fail(c, "Internal", "upstream")
    PROVE  \E r \in Request : ReqOK(r) /\ r.pc = "done" /\ req' = [req EXCEPT ![c] = r]
<1>1. req[c] \in Request /\ ReqOK(req[c])
  BY DEF IInv, TypeOK
<1>2. /\ req[c].kind \in {"manifest", "blob"} /\ req[c].bytes = "good"
      /\ req[c].kind = "manifest" => Fits(req[c].digest, req[c].type)
  BY <1>1 DEF ReqOK, Request
<1>3. CASE Reply(c, req[c].kind, "upstream", req[c].type, req[c].bytes)
  <2> DEFINE r == [req[c] EXCEPT !.pc = "done", !.res = req[c].kind, !.from = "upstream",
                                 !.type = req[c].type, !.bytes = req[c].bytes]
  <2>1. r \in Request
    BY <1>1, <1>2, Members DEF Request
  <2>2. /\ r.pc = "done" /\ r.res = req[c].kind /\ r.from = "upstream" /\ r.bytes = "good"
        /\ r.type = req[c].type /\ r.digest = req[c].digest
    BY <1>1, <1>2 DEF Request
  <2>3. req' = [req EXCEPT ![c] = r]
    BY <1>3 DEF Reply
  <2> HIDE DEF r
  <2>4. ReqOK(r)
    BY <1>2, <2>2 DEF ReqOK, RefusedIntact
  <2> QED BY <2>1, <2>2, <2>3, <2>4
<1>4. CASE Fail(c, "Internal", "upstream")
  <2> DEFINE r == [req[c] EXCEPT !.pc = "done", !.res = "Internal", !.from = "upstream",
                                 !.type = "none", !.bytes = "none"]
  <2>1. r \in Request
    BY <1>1, Members DEF Request
  <2>2. r.pc = "done" /\ r.res = "Internal"
    BY <1>1 DEF Request
  <2>3. req' = [req EXCEPT ![c] = r]
    BY <1>4 DEF Fail, Reply
  <2> HIDE DEF r
  <2>4. ReqOK(r)
    BY <2>2 DEF ReqOK, RefusedIntact
  <2> QED BY <2>1, <2>2, <2>3, <2>4
<1> QED BY <1>3, <1>4

\* An unchanged bucket grows.
LEMMA SameGrows == ASSUME IInv, blobs' = blobs PROVE Grows
  BY DEF IInv, TypeOK, Grows, StoreOK

LEMMA PutBlobInv == ASSUME IInv, NEW c \in Clients, PutBlob(c) PROVE IInv'
<1>1. /\ req[c] \in Request /\ ReqOK(req[c]) /\ req[c].pc = "put"
      /\ ptr' = ptr /\ tagged' = tagged /\ ptr \in [Tags -> Pointer]
  BY DEF IInv, TypeOK, PutBlob
<1>2. blobs' \in Put(req[c]) \/ blobs' = blobs
  BY DEF PutBlob
<1>3. Grows /\ PtrOK'
  BY <1>1, <1>2, PutGrows, SameGrows, PointersStay
<1>4. CASE Reply(c, req[c].kind, "upstream", req[c].type, req[c].bytes)
           \/ Fail(c, "Internal", "upstream")
  <2>1. PICK r \in Request : ReqOK(r) /\ r.pc = "done" /\ req' = [req EXCEPT ![c] = r]
    BY <1>1, <1>4, WriterReply
  <2> QED BY <1>1, <1>3, <2>1, RequestStep
<1>5. CASE blobs' \in Put(req[c]) /\ req[c].tag # None /\ Go(c, "commit")
  <2> DEFINE r == [req[c] EXCEPT !.pc = "commit"]
  <2>1. r \in Request
    BY <1>1, Members DEF Request
  <2>2. /\ r.pc = "commit" /\ r.kind = req[c].kind /\ r.tag = req[c].tag
        /\ r.digest = req[c].digest /\ r.type = req[c].type /\ r.bytes = req[c].bytes
        /\ r.res = req[c].res
    BY <1>1 DEF Request
  <2>3. req' = [req EXCEPT ![c] = r]
    BY <1>5 DEF Go
  <2>4. req[c].tag \in Tags /\ req[c].kind = "manifest"
    BY <1>1, <1>5 DEF ReqOK, Request
  <2>5. Present(blobs'[r.digest])
    BY <1>1, <1>5, <2>2, PutGrows
  <2> HIDE DEF r
  <2>6. ReqOK(r)
    BY <1>1, <2>2, <2>4, OciAssumption DEF ReqOK, RefusedIntact
  <2> QED BY <1>1, <1>3, <2>1, <2>3, <2>5, <2>6, RequestStep
<1> QED BY <1>4, <1>5 DEF PutBlob, Stored

LEMMA CommitInv == ASSUME IInv, NEW c \in Clients, Commit(c) PROVE IInv'
<1>1. /\ req[c] \in Request /\ ReqOK(req[c]) /\ req[c].pc = "commit"
      /\ blobs' = blobs /\ tagged' = tagged
  BY DEF IInv, TypeOK, Commit
<1>2. req[c].kind = "manifest"
  BY <1>1 DEF ReqOK
<1>3. ptr' = put_tag_pointer(req[c]) \/ ptr' = ptr
  BY DEF Commit
<1>4. Grows /\ ptr' \in [Tags -> Pointer] /\ PtrOK'
  BY <1>1, <1>3, CommittedPointer, SameGrows, PointersStay DEF IInv, TypeOK
<1>5. PICK r \in Request : ReqOK(r) /\ r.pc = "done" /\ req' = [req EXCEPT ![c] = r]
  BY <1>1, <1>2, WriterReply DEF Commit
<1> QED BY <1>1, <1>4, <1>5, RequestStep

LEMMA HangUpInv == ASSUME IInv, NEW c \in Clients, HangUp(c) PROVE IInv'
<1>1. tagged' = tagged /\ req' = [req EXCEPT ![c] = Idle]
  BY DEF HangUp
<1>2. \/ req[c].pc = "put" /\ blobs' \in Put(req[c]) /\ ptr' = ptr
      \/ req[c].pc = "commit" /\ ptr' = put_tag_pointer(req[c]) /\ blobs' = blobs
      \/ blobs' = blobs /\ ptr' = ptr
  BY DEF HangUp
<1>3. Grows /\ ptr' \in [Tags -> Pointer] /\ PtrOK'
  BY <1>2, CommittedPointer, PutGrows, SameGrows, PointersStay DEF IInv, TypeOK
<1> QED BY <1>1, <1>3, IdleOK, RequestStep

\* A damaged object is still there.
LEMMA DamageInv == ASSUME IInv, NEW d \in Digests, Damage(d) PROVE IInv'
<1>1. /\ blobs' = [blobs EXCEPT ![d].bytes = "damaged"] /\ blobs \in [Digests -> Object]
      /\ ptr' = ptr /\ tagged' = tagged /\ req' = req
  BY DEF Damage, IInv, TypeOK
<1>2. /\ blobs' \in [Digests -> Object]
      /\ blobs'[d].bytes = "damaged" /\ blobs'[d].ct = blobs[d].ct
      /\ \A e \in Digests \ {d} : blobs'[e] = blobs[e]
  BY <1>1, Members DEF Object
<1>3. StoreOK'
  BY <1>2 DEF IInv, StoreOK
<1>4. Grows
  BY <1>2, <1>3 DEF Grows, Present
<1>5. PtrOK'
  BY <1>1, <1>4, PointersStay
<1>6. ASSUME NEW c \in Clients, req[c].pc = "commit" PROVE Present(blobs'[req[c].digest])
  BY <1>4, <1>6 DEF IInv, CommitOK, Grows, ReqOK
<1>7. CommitOK'
  BY <1>1, <1>6 DEF CommitOK
<1>8. TypeOK'
  BY <1>1, <1>2 DEF IInv, TypeOK
<1> QED BY <1>1, <1>3, <1>5, <1>7, <1>8 DEF IInv

LEMMA RetagInv ==
    ASSUME IInv, NEW t \in Tags, NEW ds \in SUBSET Manifests, Retag(t, ds) PROVE IInv'
<1>1. TypeOK'
  BY DEF Retag, IInv, TypeOK
<1> QED BY <1>1 DEF Retag, IInv, StoreOK, PtrOK, CommitOK

-----------------------------------------------------------------------------
(* The inductive invariant.                                                   *)

LEMMA InitInv == Init => IInv
<1> SUFFICES ASSUME Init PROVE IInv
  OBVIOUS
<1>1. NoObject \in Object /\ NoPointer \in Pointer
  BY Members DEF NoObject, Object, NoPointer, Pointer
<1>2. TypeOK
  BY <1>1, IdleOK DEF Init, TypeOK
<1>3. StoreOK
  BY DEF Init, StoreOK, NoObject, ManifestTypes
<1>4. PtrOK
  BY DEF Init, PtrOK
<1>5. CommitOK /\ \A c \in Clients : ReqOK(req[c])
  BY IdleOK DEF Init, CommitOK
<1> QED BY <1>2, <1>3, <1>4, <1>5 DEF IInv

LEMMA NextInv == IInv /\ [Next]_vars => IInv'
<1> SUFFICES ASSUME IInv, [Next]_vars PROVE IInv'
  OBVIOUS
<1>1. ASSUME NEW c \in Clients, AskAny(c) \/ Handle(c) \/ Receive(c) \/ HangUp(c)
      PROVE  IInv'
  <2>1. CASE AskAny(c)       BY <2>1, AskAnyInv
  <2>2. CASE ReadPointer(c)  BY <2>2, ReadPointerInv
  <2>3. CASE ReadManifest(c) BY <2>3, ReadManifestInv
  <2>4. CASE ReadBlob(c)     BY <2>4, ReadBlobInv
  <2>5. CASE FetchManifest(c) BY <2>5, FetchManifestInv
  <2>6. CASE FetchBlob(c)    BY <2>6, FetchBlobInv
  <2>7. CASE PutBlob(c)      BY <2>7, PutBlobInv
  <2>8. CASE Commit(c)       BY <2>8, CommitInv
  <2>9. CASE Receive(c)      BY <2>9, ReceiveInv
  <2>10. CASE HangUp(c)      BY <2>10, HangUpInv
  <2> QED BY <1>1, <2>1, <2>2, <2>3, <2>4, <2>5, <2>6, <2>7, <2>8, <2>9, <2>10 DEF Handle
<1>2. ASSUME NEW d \in Digests, Damage(d) PROVE IInv'
  BY <1>2, DamageInv
<1>3. ASSUME NEW t \in Tags, NEW ds \in SUBSET Manifests, Retag(t, ds) PROVE IInv'
  BY <1>3, RetagInv
<1>4. CASE UNCHANGED vars
  BY <1>4 DEF vars, IInv, TypeOK, StoreOK, PtrOK, CommitOK
<1> QED BY <1>1, <1>2, <1>3, <1>4 DEF Next

LEMMA Invariance == Spec => []IInv
  BY InitInv, NextInv, PTL DEF Spec

-----------------------------------------------------------------------------
(* The theorems.                                                              *)

\* The handlers of passthrough.rs keep every variable in its type.
THEOREM TypeCorrect == Spec => []TypeOK
<1>1. IInv => TypeOK
  BY DEF IInv
<1> QED BY <1>1, Invariance, PTL

\* No failed put_blob, dropped handler or concurrent pull leaves a tag pointer
\* without its manifest.
THEOREM PointersResolve == Spec => []PointerResolves
<1>1. IInv => PointerResolves
  BY DEF IInv, PtrOK, PointerResolves
<1> QED BY <1>1, Invariance, PTL

\* Bytes that do not hash to a digest are never stored under it by manifest()
\* or blob(), whatever the upstream registries send.
THEOREM OnlyVerifiedIsStored == Spec => []OnlyVerifiedStored
<1>1. IInv => OnlyVerifiedStored
  BY DEF IInv, StoreOK, OnlyVerifiedStored
<1> QED BY <1>1, Invariance, PTL

\* What manifest() and blob() answer in full was verified.
THEOREM ServedIsVerified == Spec => []ServedVerified
<1>1. IInv => ServedVerified
  BY DEF IInv, ReqOK, ServedVerified
<1> QED BY <1>1, Invariance, PTL

\* The media type that manifest() sends with a body is the body's own, from the
\* upstream and from the cache.
THEOREM MediaTypesAreTruthful == Spec => []MediaTypeTruthful
<1>1. IInv => MediaTypeTruthful
  BY DEF IInv, ReqOK, Fits, MediaTypeTruthful
<1> QED BY <1>1, Invariance, PTL

\* A tag answered from the cache is answered within the client's Accept header.
THEOREM AcceptIsHonoured == Spec => []AcceptHonoured
<1>1. IInv => AcceptHonoured
  BY DEF IInv, ReqOK, AcceptHonoured
<1> QED BY <1>1, Invariance, PTL

\* cached_manifest_response refuses an intact manifest only if it is an index
\* that does not name its media type.
THEOREM CachedImagesAreServed == Spec => []CachedImageServed
<1>1. IInv => CachedImageServed
  BY DEF IInv, ReqOK, CachedImageServed
<1> QED BY <1>1, Invariance, PTL
=============================================================================
