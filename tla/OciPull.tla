------------------------------ MODULE OciPull -------------------------------
(* Pulling through an OCI alias (the manifest and blob handlers of           *)
(* bins/helmoci/src/passthrough.rs): answer from persistent storage if the   *)
(* alias stores, otherwise ask the upstream registry, verify what it sends,  *)
(* store it and answer.  One action per await.  Manifests and blobs of all   *)
(* aliases share one digest-addressed namespace, so what one handler stores  *)
(* another one finds.  The registry dance itself is TokenFlow.               *)

CONSTANTS
    Clients,     \* clients, each with one request in flight at a time
    Tags,        \* tag keys: proxy host, repository name and tag together
    StoredTags,  \* ... of store:true aliases
    Digests,
    Kind,        \* Kind[d]: what the bytes with digest d are, one of Kinds
    Typed,       \* the manifests whose body has a mediaType field
    Large,       \* longer than MAX_BUFFERED_CACHED_BLOB_BYTES
    Oversized,   \* longer than max_chart_bytes
    Attributes,  \* whether the storage backend keeps content types
    None,        \* no tag, no digest
    Faults       \* what may go wrong, a subset of AllFaults

ManifestTypes == {"image", "index"}

Kinds == ManifestTypes \cup {"layer"}

AllFaults == {"Storage", "Damage", "Overwrite", "HangUp", "Upstream", "NoHeader"}

Manifests == {d \in Digests : Kind[d] \in ManifestTypes}

ASSUME OciAssumption ==
    /\ StoredTags \subseteq Tags
    /\ Kind \in [Digests -> Kinds]
    /\ Typed \subseteq Manifests
    /\ Large \subseteq Digests /\ Oversized \subseteq Large \ Manifests
    /\ Attributes \in BOOLEAN
    /\ None \notin Tags \cup Digests
    /\ Faults \subseteq AllFaults

VARIABLES
    blobs,   \* what persistent storage holds at each digest
    ptr,     \* the tag pointers
    tagged,  \* upstream: the manifests a tag names, one per representation
    req      \* the request each client has in flight

vars == <<blobs, ptr, tagged, req>>

ContentTypes == ManifestTypes \cup {"octet", "none"}

\* "wrong": bytes that upstream sent for another digest; "damaged": good bytes
\* that the bucket lost.
Bytes == {"none", "good", "wrong", "damaged"}

Object == [bytes : Bytes, ct : ContentTypes]

NoObject == [bytes |-> "none", ct |-> "none"]

Pointer == [digest : Digests \cup {None}, type : ManifestTypes \cup {"none"}]

NoPointer == [digest |-> None, type |-> "none"]

\* "stream": an upstream body passed on as it comes; "cut": a body that ends in
\* an error, short of its Content-Length.
Responses == {"none", "manifest", "blob", "stream", "cut", "ManifestUnknown",
              "BlobUnknown", "Upstream", "TooLarge", "Internal"}

\* The awaits of the handlers, in the order they are reached.
Points == {"idle", "pointer", "manifest", "blob", "upstream", "put", "commit", "done"}

Request == [
    pc     : Points,
    kind   : {"manifest", "blob"},
    tag    : Tags \cup {None},
    digest : Digests \cup {None},   \* asked for, or what the tag turned out to be
    store  : BOOLEAN,               \* the alias stores
    head   : BOOLEAN,
    accept : SUBSET ManifestTypes,
    type   : ContentTypes,          \* the pointer's, then the response's
    bytes  : Bytes,                 \* the body received or served
    from   : {"none", "cache", "upstream"},
    res    : Responses]

TypeOK ==
    /\ blobs \in [Digests -> Object]
    /\ ptr \in [Tags -> Pointer]
    /\ tagged \in [Tags -> SUBSET Manifests]
    /\ req \in [Clients -> Request]

Idle == [pc |-> "idle", kind |-> "blob", tag |-> None, digest |-> None, store |-> FALSE,
         head |-> FALSE, accept |-> {}, type |-> "none", bytes |-> "none",
         from |-> "none", res |-> "none"]

Init ==
    /\ blobs = [d \in Digests |-> NoObject]
    /\ ptr = [t \in Tags |-> NoPointer]
    /\ tagged \in [Tags -> SUBSET Manifests]
    /\ req = [c \in Clients |-> Idle]

-----------------------------------------------------------------------------
(* Storage.                                                                  *)

MayFail == "Storage" \in Faults

Present(o) == o.bytes # "none"

\* put_blob: whatever is stored at the digest stays, its content type too,
\* unless the backend cannot create conditionally and the call did not see it
\* (ObjectStore); what may be stored afterwards.
put_blob(old, bytes, ct) ==
    LET new == [bytes |-> bytes, ct |-> IF Attributes THEN ct ELSE "none"]
    IN  IF ~Present(old) THEN {new}
        ELSE IF "Overwrite" \in Faults THEN {old, new} ELSE {old}

Put(r) == {[blobs EXCEPT ![r.digest] = o] : o \in put_blob(blobs[r.digest], r.bytes, r.type)}

put_tag_pointer(r) == [ptr EXCEPT ![r.tag] = [digest |-> r.digest, type |-> r.type]]

-----------------------------------------------------------------------------
(* Media types.                                                              *)

\* Only the manifest types that the proxy knows get any further.
normalized_manifest_media_type(type) ==
    IF type \in ManifestTypes THEN type ELSE "none"

\* The body's mediaType field counts; without one, what was declared.
manifest_media_type(d, declared) ==
    IF Kind[d] \notin ManifestTypes THEN "none"
    ELSE IF d \in Typed THEN Kind[d]
    ELSE normalized_manifest_media_type(declared)

inferred_cached_manifest_media_type_always(d) ==
    IF d \notin Typed THEN "image" ELSE "none"

\* A body without a mediaType field, but with a config and layers.
inferred_cached_manifest_media_type(d) ==
    IF d \notin Typed /\ Kind[d] = "image" THEN "image" ELSE "none"

CachedType_not_inferred(d, stored, declared) ==
    manifest_media_type(d, IF stored # "none" THEN stored ELSE declared)

\* cached_manifest_response: the media type of the stored manifest d.  What
\* the storage has recorded comes before what the pointer says.
CachedType(d, stored, declared) ==
    LET type == manifest_media_type(d, IF stored # "none" THEN stored ELSE declared)
    IN  IF type # "none" THEN type ELSE inferred_cached_manifest_media_type(d)

-----------------------------------------------------------------------------
(* Where a handler goes.                                                     *)

Go(c, point) == req' = [req EXCEPT ![c].pc = point]

Reply(c, res, from, type, bytes) ==
    req' = [req EXCEPT ![c] = [@ EXCEPT !.pc = "done", !.res = res, !.from = from,
                                        !.type = type, !.bytes = bytes]]

Fail(c, res, from) == Reply(c, res, from, "none", "none")

Unknown(c, from) ==
    Fail(c, IF req[c].kind = "manifest" THEN "ManifestUnknown" ELSE "BlobUnknown", from)

-----------------------------------------------------------------------------
(* Clients.                                                                  *)

Ask(c, point, kind, t, d, store, head, accept) ==
    /\ req[c].pc = "idle"
    /\ req' = [req EXCEPT ![c] = [Idle EXCEPT
                  !.pc = IF store THEN point ELSE "upstream", !.kind = kind, !.tag = t,
                  !.digest = d, !.store = store, !.head = head, !.accept = accept]]
    /\ UNCHANGED <<blobs, ptr, tagged>>

AskTag(c, t, head, accept) ==
    Ask(c, "pointer", "manifest", t, None, t \in StoredTags, head, accept)

AskDigest(c, d, store, head) ==
    Ask(c, "manifest", "manifest", None, d, store, head, ManifestTypes)

AskBlob(c, d, store, head) == Ask(c, "blob", "blob", None, d, store, head, {})

Receive(c) ==
    /\ req[c].pc = "done"
    /\ req' = [req EXCEPT ![c] = Idle]
    /\ UNCHANGED <<blobs, ptr, tagged>>
-----------------------------------------------------------------------------
(* The cache.                                                                *)

\* A miss: of a tag, only upstream can say now which manifest it names.
Miss(c) ==
    req' = [req EXCEPT ![c] = [@ EXCEPT !.pc = "upstream", !.type = "none",
                                  !.digest = IF req[c].tag = None THEN req[c].digest ELSE None]]

ReadPointer_any_type(c) ==
    LET p == ptr[req[c].tag]
    IN  /\ req[c].pc = "pointer"
        /\ \/ p = NoPointer /\ Miss(c)
           \/ /\ p # NoPointer
              /\ req' = [req EXCEPT ![c] = [@ EXCEPT !.pc = "manifest", !.digest = p.digest,
                                                     !.type = p.type]]
           \/ MayFail /\ Fail(c, "Internal", "cache")
        /\ UNCHANGED <<blobs, ptr, tagged>>

\* manifest() for a tag: get_tag_pointer.  A pointer to a representation the
\* client does not accept is a miss.
ReadPointer(c) ==
    LET p == ptr[req[c].tag]
    IN  /\ req[c].pc = "pointer"
        /\ \/ p.type \notin req[c].accept /\ Miss(c)
           \/ /\ p.type \in req[c].accept
              /\ req' = [req EXCEPT ![c] = [@ EXCEPT !.pc = "manifest", !.digest = p.digest,
                                                     !.type = p.type]]
           \/ MayFail /\ Fail(c, "Internal", "cache")
        /\ UNCHANGED <<blobs, ptr, tagged>>

\* manifest(): get_blob and cached_manifest_response.  Only a missing blob is
\* a miss; a stored one that cannot be served ends the request.
ReadManifest(c) ==
    LET d == req[c].digest
        o == blobs[d]
        type == CachedType(d, o.ct, req[c].type)
    IN  /\ req[c].pc = "manifest"
        /\ \/ ~Present(o) /\ Miss(c)
           \/ o.bytes = "good" /\ type # "none" /\ Reply(c, "manifest", "cache", type, "good")
           \/ /\ Present(o) /\ (o.bytes # "good" \/ type = "none")
              /\ Reply(c, "ManifestUnknown", "cache", "none", o.bytes)
           \/ /\ Present(o) /\ (o.bytes # "good" \/ d \in Large \ Manifests)
              /\ Reply(c, "TooLarge", "cache", "none", o.bytes)
           \/ MayFail /\ Fail(c, "Internal", "cache")
        /\ UNCHANGED <<blobs, ptr, tagged>>

\* The Content-Type of a blob from the cache.
CachedBlobType(o) == IF o.ct = "none" THEN "octet" ELSE o.ct

BufferedBlob_unverified(c, o) == Reply(c, "blob", "cache", CachedBlobType(o), o.bytes)

\* cached_blob_response of a short blob: bytes that do not match or cannot be
\* read are a miss.
BufferedBlob(c, o) ==
    \/ o.bytes = "good" /\ Reply(c, "blob", "cache", CachedBlobType(o), "good")
    \/ o.bytes # "good" /\ Miss(c)
    \/ MayFail /\ Miss(c)

\* cached_blob_response of a long blob: verified_cached_blob hashes what it
\* sends and withholds the end of what does not match.
StreamedBlob(c, o) ==
    LET type == CachedBlobType(o)
    IN  \/ req[c].head /\ Reply(c, "blob", "cache", type, "none")
        \/ ~req[c].head /\ o.bytes = "good" /\ Reply(c, "blob", "cache", type, "good")
        \/ ~req[c].head /\ (o.bytes # "good" \/ MayFail) /\ Reply(c, "cut", "cache", type, "none")

\* blob(): get_blob.  A damaged object may have any length.
ReadBlob(c) ==
    LET d == req[c].digest
        o == blobs[d]
    IN  /\ req[c].pc = "blob"
        /\ \/ ~Present(o) /\ Miss(c)
           \/ Present(o) /\ (d \notin Large \/ o.bytes # "good") /\ BufferedBlob(c, o)
           \/ Present(o) /\ (d \in Large \/ o.bytes # "good") /\ StreamedBlob(c, o)
           \/ MayFail /\ Fail(c, "Internal", "cache")
        /\ UNCHANGED <<blobs, ptr, tagged>>

-----------------------------------------------------------------------------
(* Upstream.                                                                 *)

Accepted_pointer_first(c, res, d, type) ==
    IF req[c].store
    THEN req' = [req EXCEPT ![c] = [@ EXCEPT
             !.pc = IF req[c].tag = None THEN "put" ELSE "commit", !.digest = d,
             !.type = type, !.bytes = "good", !.from = "upstream"]]
    ELSE Reply(c, res, "upstream", type, "good")

\* A verified body: store it, or just pass it on.
Accepted(c, res, d, type) ==
    IF req[c].store
    THEN req' = [req EXCEPT ![c] = [@ EXCEPT !.pc = "put", !.digest = d, !.type = type,
                                             !.bytes = "good", !.from = "upstream"]]
    ELSE req' = [req EXCEPT ![c] = [@ EXCEPT !.pc = "done", !.digest = d, !.type = type,
                                    !.bytes = "good", !.from = "upstream", !.res = res]]

\* The Content-Type upstream sends with manifest d.  An absent one is taken
\* for that of an image manifest.
DeclaredTypes(d) ==
    {Kind[d]} \cup (IF "Upstream" \in Faults THEN {"octet"} ELSE {})
              \cup (IF "NoHeader" \in Faults THEN {"image"} ELSE {})

\* The bytes upstream sends for a digest.
SentBytes == {"good"} \cup (IF "Upstream" \in Faults THEN {"wrong"} ELSE {})

\* manifest(): upstream sends manifest d.
ManifestReceived(c, d) ==
    \E declared \in DeclaredTypes(d), bytes \in SentBytes :
        LET type == IF req[c].head THEN normalized_manifest_media_type(declared)
                                   ELSE manifest_media_type(d, declared)
            wrong == req[c].tag = None /\ bytes # "good"
        IN  \/ (wrong \/ type = "none") /\ Fail(c, "Upstream", "upstream")
            \/ /\ ~wrong /\ type # "none" /\ req[c].head
               /\ Reply(c, "manifest", "upstream", type, "none")
            \/ /\ ~wrong /\ type # "none" /\ ~req[c].head
               /\ Accepted(c, "manifest", d, type)

\* manifest(): send_upstream and what follows.  Upstream answers 404 when it
\* has no representation of the tag that the client accepts.
FetchManifest(c) ==
    LET r == req[c]
        found == {d \in Manifests : IF r.tag = None THEN d = r.digest
                                    ELSE d \in tagged[r.tag] /\ Kind[d] \in r.accept}
    IN  /\ r.pc = "upstream" /\ r.kind = "manifest"
        /\ \/ \E d \in found : ManifestReceived(c, d)
           \/ found = {} /\ Unknown(c, "upstream")
           \/ /\ "Upstream" \in Faults
              /\ \E error \in {"ManifestUnknown", "Upstream", "TooLarge"} :
                     Fail(c, error, "upstream")
        /\ UNCHANGED <<blobs, ptr, tagged>>

\* The Content-Type upstream sends with blob d; an absent one is octet-stream.
BlobTypes(d) == {"octet"} \cup ({Kind[d]} \cap ManifestTypes)

BlobReceived_trusts_upstream(c, bytes, type) ==
    \/ req[c].head /\ Reply(c, "blob", "upstream", type, "none")
    \/ /\ ~req[c].head /\ req[c].store
       /\ req' = [req EXCEPT ![c] = [@ EXCEPT !.pc = "put", !.type = type,
                                              !.bytes = bytes, !.from = "upstream"]]

\* blob(): upstream sends the blob.  What is longer than max_chart_bytes, and
\* everything for an alias that does not store, is passed on as it comes.
BlobReceived(c, bytes, type) ==
    LET r == req[c]
        passedOn == ~r.store \/ r.digest \in Oversized
    IN  \/ r.head /\ Reply(c, "blob", "upstream", type, "none")
        \/ /\ ~r.head /\ (passedOn \/ bytes = "wrong")
           /\ Reply(c, "stream", "upstream", type, bytes)
        \/ ~r.head /\ ~passedOn /\ bytes = "good" /\ Accepted(c, "blob", r.digest, type)
        \/ ~r.head /\ r.store /\ bytes = "wrong" /\ Fail(c, "Upstream", "upstream")

\* blob(): send_upstream and what follows.
FetchBlob(c) ==
    /\ req[c].pc = "upstream" /\ req[c].kind = "blob"
    /\ \/ \E bytes \in SentBytes, type \in BlobTypes(req[c].digest) :
             BlobReceived(c, bytes, type)
       \/ /\ "Upstream" \in Faults
          /\ \E error \in {"BlobUnknown", "Upstream"} : Fail(c, error, "upstream")
    /\ UNCHANGED <<blobs, ptr, tagged>>

Stored(c) ==
    IF req[c].tag = None
    THEN Reply(c, req[c].kind, "upstream", req[c].type, req[c].bytes)
    ELSE Go(c, "commit")

\* put_blob; a failed one may have stored the blob.
PutBlob(c) ==
    /\ req[c].pc = "put"
    /\ \/ blobs' \in Put(req[c]) /\ Stored(c)
       \/ MayFail /\ blobs' \in {blobs} \cup Put(req[c]) /\ Fail(c, "Internal", "upstream")
    /\ UNCHANGED <<ptr, tagged>>

\* put_tag_pointer, whatever other requests made of the pointer meanwhile.
Commit(c) ==
    /\ req[c].pc = "commit"
    /\ \/ /\ ptr' = put_tag_pointer(req[c])
          /\ Reply(c, "manifest", "upstream", req[c].type, req[c].bytes)
       \/ /\ MayFail
          /\ ptr' \in {ptr, put_tag_pointer(req[c])}
          /\ Fail(c, "Internal", "upstream")
    /\ UNCHANGED <<blobs, tagged>>

-----------------------------------------------------------------------------
(* What happens around the handlers.                                         *)

\* The client hangs up, or the process restarts; a write that was sent may
\* still reach the store.
HangUp(c) ==
    /\ "HangUp" \in Faults
    /\ req[c].pc # "idle"
    /\ \/ req[c].pc = "put" /\ blobs' \in Put(req[c]) /\ UNCHANGED ptr
       \/ req[c].pc = "commit" /\ ptr' = put_tag_pointer(req[c]) /\ UNCHANGED blobs
       \/ UNCHANGED <<blobs, ptr>>
    /\ req' = [req EXCEPT ![c] = Idle]
    /\ UNCHANGED tagged

\* An object of the bucket is damaged.
Damage(d) ==
    /\ "Damage" \in Faults
    /\ blobs[d].bytes = "good"
    /\ blobs' = [blobs EXCEPT ![d].bytes = "damaged"]
    /\ UNCHANGED <<ptr, tagged, req>>

\* Somebody pushes to the upstream registry.
Retag(t, ds) ==
    /\ tagged[t] # ds
    /\ tagged' = [tagged EXCEPT ![t] = ds]
    /\ UNCHANGED <<blobs, ptr, req>>

Handle(c) ==
    \/ ReadPointer(c) \/ ReadManifest(c) \/ ReadBlob(c)
    \/ FetchManifest(c) \/ FetchBlob(c)
    \/ PutBlob(c) \/ Commit(c)

AskAny(c) ==
    \E head \in BOOLEAN :
        \/ \E t \in Tags, accept \in SUBSET ManifestTypes \ {{}} : AskTag(c, t, head, accept)
        \/ \E d \in Digests, store \in BOOLEAN :
               AskDigest(c, d, store, head) \/ AskBlob(c, d, store, head)

Next ==
    \/ \E c \in Clients : AskAny(c) \/ Handle(c) \/ Receive(c) \/ HangUp(c)
    \/ \E d \in Digests : Damage(d)
    \/ \E t \in Tags, ds \in SUBSET Manifests : Retag(t, ds)

Spec == Init /\ [][Next]_vars

-----------------------------------------------------------------------------
(* Properties.                                                               *)

\* A tag pointer always leads to a stored manifest: no failed put, dropped
\* handler or concurrent pull of a moving tag leaves one that does not.
PointerResolves ==
    \A t \in Tags : ptr[t] # NoPointer => Present(blobs[ptr[t].digest])

\* Whatever upstreams send, only bytes that hash to the digest are stored under
\* it: the namespace that all aliases share cannot be filled with anything else.
OnlyVerifiedStored == \A d \in Digests : blobs[d].bytes # "wrong"

\* A manifest or blob that a client receives in full hashes to its digest, from
\* a bucket that may be damaged and from upstreams that may send anything.
\* Only bodies that are too long to cache, or pass an alias that stores
\* nothing, are passed on unverified.
ServedVerified ==
    \A c \in Clients :
        req[c].res \in {"manifest", "blob"} => req[c].bytes = "good" \/ req[c].head

\* Nothing says what an index without a mediaType field is if upstream sent it
\* without a Content-Type.
Undeclared(d) == "NoHeader" \in Faults /\ Kind[d] = "index" /\ d \notin Typed

\* A manifest is served with the media type it has, although the blob route
\* may have stored it first with another content type, the backend may keep no
\* content types, and the field in the body is optional.
MediaTypeTruthful ==
    \A c \in Clients :
        req[c].res = "manifest" /\ ~req[c].head /\ ~Undeclared(req[c].digest)
            => req[c].type = Kind[req[c].digest]

\* A tag answered from the cache is answered with a representation that the
\* client accepts, whichever one an earlier client made the proxy store.
AcceptHonoured ==
    \A c \in Clients :
        /\ req[c].res = "manifest" /\ req[c].tag # None /\ req[c].from = "cache"
        /\ ~Undeclared(req[c].digest)
        => req[c].type \in req[c].accept

\* The cache refused manifest d although its bytes are intact.
RefusedIntact(r) ==
    r.res = "ManifestUnknown" /\ r.from = "cache" /\ r.bytes = "good" /\ r.digest \in Manifests

\* An image manifest, or one that names its own media type, is never refused by
\* the cache while its bytes are intact, even if the blob route stored it or
\* the backend keeps no content types.
CachedImageServed ==
    \A c \in Clients :
        RefusedIntact(req[c]) => Kind[req[c].digest] = "index" /\ req[c].digest \notin Typed
=============================================================================
