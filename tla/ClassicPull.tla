---------------------------- MODULE ClassicPull -----------------------------
(* Pulling a chart of a classic Helm repository (bins/helmoci/src/classic.rs *)
(* over the two Storage backends): the manifest handler for tags, which      *)
(* answers from the tag pointer or rebuilds the chart from upstream, stores  *)
(* its three blobs and then the pointer; the manifest handler for digests;   *)
(* the blob handler; and the cache of index.yaml texts.  One action per      *)
(* await: between two of them other requests run, the client may hang up     *)
(* (which drops the handler), the process may restart, and entries of the    *)
(* in-memory caches may go.                                                  *)

CONSTANTS
    Clients,        \* clients, each with one request in flight at a time
    Tags,           \* tag keys: proxy host, repository name and tag together
    EphemeralTags,  \* ... of store:false aliases, kept in EphemeralStorage
    HostPathTags,   \* ... reached by host/path; the others by a configured alias
    Digests,        \* the digests blobs are stored under
    Builds,         \* the OCI charts that upstream's charts build into
    DigestOf,       \* DigestOf[b][p]: the digest of part p of b
    None,           \* no tag, digest or chart
    Faults          \* what may go wrong, a subset of AllFaults

Parts == {"config", "layer", "manifest"}

AllFaults == {"Storage", "Damage", "Overwrite", "HangUp", "Restart", "Evict", "Upstream"}

ASSUME ClassicAssumption ==
    /\ EphemeralTags \subseteq Tags
    /\ HostPathTags \subseteq Tags \ EphemeralTags
    /\ None \notin Tags \cup Digests \cup Builds
    /\ DigestOf \in [Builds -> [Parts -> Digests]]
    /\ Faults \subseteq AllFaults

VARIABLES
    blobs,   \* blobs[s][d]: what store s holds at digest d
    ptr,     \* ptr[s][t]: the chart the pointer of tag t in store s names
    index,   \* the index.yaml text cached under each key prefix
    req      \* the request each client has in flight and what it got before

vars == <<blobs, ptr, index, req>>

Stores == {"persistent", "ephemeral"}

Bytes == {"none", "good", "bad"}

Prefixes == {"configured", "host-path"}

\* The HTTP client an index was fetched with.
Vias == {"none", "trusted", "public"}

\* An index.yaml text: what it lists, and which HTTP client fetched it.
IndexText == [kind : {"none", "garbage", "listing"}, lists : SUBSET Tags, via : Vias]

NoIndex == [kind |-> "none", lists |-> {}, via |-> "none"]

\* The awaits of the handlers, in the order they are reached.
Points == {"idle", "pointer", "cached", "index", "fetch", "download", "store",
           "commit", "find", "findEphemeral", "done"}

Kinds == {"tag", "digest", "blob"}

Responses == {"none", "manifest", "blob", "ManifestUnknown", "BlobUnknown",
              "Upstream", "TooLarge", "Internal"}

Request == [
    pc     : Points,
    kind   : Kinds,
    tag    : Tags \cup {None},       \* what a tag request asks for
    digest : Digests \cup {None},    \* what the other requests ask for
    build  : Builds \cup {None},     \* the chart the pointer or upstream gave
    wrote  : SUBSET Parts,           \* the put_blobs of the try_join! that ended
    via    : Vias,                   \* the client that fetched the index used
    res    : Responses,
    bytes  : Bytes,                  \* the body of the response
    outage : BOOLEAN,                \* history: a storage call failed
    got    : Builds \cup {None},     \* the manifest the client got last ...
    gotTag : Tags \cup {None}]       \* ... and the tag it got it for

TypeOK ==
    /\ blobs \in [Stores -> [Digests -> Bytes]]
    /\ ptr \in [Stores -> [Tags -> Builds \cup {None}]]
    /\ index \in [Prefixes -> IndexText]
    /\ req \in [Clients -> Request]

\* No request in flight; the client still knows the manifest it got.
Idle(b, t) ==
    [pc |-> "idle", kind |-> "tag", tag |-> None, digest |-> None, build |-> None,
     wrote |-> {}, via |-> "none", res |-> "none", bytes |-> "none",
     outage |-> FALSE, got |-> b, gotTag |-> t]

Init ==
    /\ blobs = [s \in Stores |-> [d \in Digests |-> "none"]]
    /\ ptr = [s \in Stores |-> [t \in Tags |-> None]]
    /\ index = [k \in Prefixes |-> NoIndex]
    /\ req = [c \in Clients |-> Idle(None, None)]

-----------------------------------------------------------------------------
(* The configuration and the stores.                                         *)

\* backend(state, chart.ephemeral)
backend(t) == IF t \in EphemeralTags THEN "ephemeral" ELSE "persistent"

cache_prefix_shared(t) == "configured"

\* The part of the index cache's key that is not the index URL.
cache_prefix(t) == IF t \in HostPathTags THEN "host-path" ELSE "configured"

classic_client(t) == IF t \in HostPathTags THEN "public" ELSE "trusted"

\* Calls to the object store may fail; the in-memory cache cannot.
MayFail(s) == "Storage" \in Faults /\ s = "persistent"

\* put_blob of a content-addressed store: what is there stays, damaged or not,
\* unless the object store cannot create conditionally and the call did not see
\* it (ObjectStore).
put_blob(old, unseen) == IF old = "none" \/ unseen THEN "good" ELSE old

MayReplace(s) == "Overwrite" \in Faults /\ s = "persistent"

\* What the blobs may be once the parts ps of b have been put into store s.
PutParts(s, b, ps) ==
    LET ds == {DigestOf[b][p] : p \in ps}
    IN  {[blobs EXCEPT ![s] =
              [d \in Digests |-> IF d \in ds THEN put_blob(@[d], d \in unseen) ELSE @[d]]] :
            unseen \in SUBSET {d \in ds : MayReplace(s)}}

-----------------------------------------------------------------------------
(* Where a handler goes.                                                     *)

Go(c, point) == req' = [req EXCEPT ![c].pc = point]

Answer(c, res, bytes) ==
    req' = [req EXCEPT ![c] = [@ EXCEPT !.pc = "done", !.res = res, !.bytes = bytes]]

storage_failure_is_miss(c) ==
    req' = [req EXCEPT ![c] = [@ EXCEPT !.pc = "index", !.outage = TRUE]]

\* storage_failure: an outage ends the request with 500.
storage_failure(c) ==
    req' = [req EXCEPT ![c] = [@ EXCEPT !.pc = "done", !.res = "Internal",
                                        !.bytes = "none", !.outage = TRUE]]

digest_manifest_response_unverified(c, bytes, otherwise) ==
    Answer(c, "manifest", bytes)

\* digest_manifest_response: bytes with another size, digest or schema than
\* asked for are not served.
digest_manifest_response(c, bytes, otherwise) ==
    IF bytes = "good" THEN Answer(c, "manifest", bytes) ELSE otherwise

-----------------------------------------------------------------------------
(* Clients.                                                                  *)

Ask(c, point, kind, t, d) ==
    /\ req[c].pc = "idle"
    /\ req' = [req EXCEPT ![c] =
                  [@ EXCEPT !.pc = point, !.kind = kind, !.tag = t, !.digest = d]]
    /\ UNCHANGED <<blobs, ptr, index>>

AskTag(c, t) == Ask(c, "pointer", "tag", t, None)

AskDigest(c, d) == Ask(c, "find", "digest", None, d)

AskBlob(c, d) == Ask(c, "find", "blob", None, d)

\* The response arrives; of a tag's manifest the client now knows the digests.
Receive(c) ==
    /\ req[c].pc = "done"
    /\ req' = [req EXCEPT ![c] =
           IF req[c].kind = "tag" /\ req[c].res = "manifest"
           THEN Idle(req[c].build, req[c].tag)
           ELSE Idle(req[c].got, req[c].gotTag)]
    /\ UNCHANGED <<blobs, ptr, index>>

-----------------------------------------------------------------------------
(* manifest(), asked for a tag.                                              *)

\* cached_tag_manifest: the pointer.  An unreadable one is no pointer.
ReadPointer(c) ==
    LET s == backend(req[c].tag)
        b == ptr[s][req[c].tag]
    IN  /\ req[c].pc = "pointer"
        /\ \/ b = None /\ Go(c, "index")
           \/ b # None /\ req' = [req EXCEPT ![c] = [@ EXCEPT !.pc = "cached", !.build = b]]
           \/ MayFail(s) /\ storage_failure(c)
        /\ UNCHANGED <<blobs, ptr, index>>

\* cached_tag_manifest: the manifest it names.  One that is missing or fails a
\* check is a miss, and the chart is rebuilt.
ReadTagManifest(c) ==
    LET s == backend(req[c].tag)
    IN  /\ req[c].pc = "cached"
        /\ \/ digest_manifest_response(c, blobs[s][DigestOf[req[c].build]["manifest"]],
                                       Go(c, "index"))
           \/ MayFail(s) /\ storage_failure(c)
        /\ UNCHANGED <<blobs, ptr, index>>

\* resolve_chart_url
resolve_chart_url(c, text) ==
    CASE text.kind = "garbage" -> Answer(c, "Upstream", "none")
      [] text.kind # "garbage" /\ req[c].tag \notin text.lists ->
             Answer(c, "ManifestUnknown", "none")
      [] OTHER -> req' = [req EXCEPT ![c] = [@ EXCEPT !.pc = "download", !.via = text.via]]

\* fetch_index_text_with_source: the cache.
LookupIndex(c) ==
    LET text == index[cache_prefix(req[c].tag)]
    IN  /\ req[c].pc = "index"
        /\ IF text.kind = "none" THEN Go(c, "fetch") ELSE resolve_chart_url(c, text)
        /\ UNCHANGED <<blobs, ptr, index>>

\* The bodies upstream may answer a request for tag t's index.yaml with.
IndexBodies(t) ==
    LET Text(kind, lists) == [kind |-> kind, lists |-> lists, via |-> classic_client(t)]
    IN  {Text("listing", Tags)} \cup
        IF "Upstream" \in Faults THEN {Text("listing", Tags \ {t}), Text("garbage", {})}
                                 ELSE {}

FetchIndex_rereads(c) ==
    /\ req[c].pc = "fetch"
    /\ \E text \in IndexBodies(req[c].tag) :
           index' = [index EXCEPT ![cache_prefix(req[c].tag)] = text]
    /\ Go(c, "index")
    /\ UNCHANGED <<blobs, ptr>>

\* fetch_index_text_with_source: the fetch.  The text is cached before
\* anything finds out whether it is an index.
FetchIndex(c) ==
    /\ req[c].pc = "fetch"
    /\ \/ \E text \in IndexBodies(req[c].tag) :
             /\ index' = [index EXCEPT ![cache_prefix(req[c].tag)] = text]
             /\ resolve_chart_url(c, text)
       \/ /\ "Upstream" \in Faults
          /\ Answer(c, "Upstream", "none")
          /\ UNCHANGED index
    /\ UNCHANGED <<blobs, ptr>>

\* download_chart and the build.  The chart behind the URL may have changed
\* since another request fetched it.
Download(c) ==
    /\ req[c].pc = "download"
    /\ \/ \E b \in Builds :
             req' = [req EXCEPT ![c] = [@ EXCEPT !.pc = "store", !.build = b, !.wrote = {}]]
       \/ /\ "Upstream" \in Faults
          /\ \E error \in {"Upstream", "TooLarge", "Internal"} : Answer(c, error, "none")
    /\ UNCHANGED <<blobs, ptr, index>>

StorePart_any(c, p) ==
    LET s == backend(req[c].tag)
    IN  /\ req[c].pc = "store"
        /\ p \in Parts \ req[c].wrote
        /\ blobs' \in PutParts(s, req[c].build, {p})
        /\ req' = [req EXCEPT ![c] = [@ EXCEPT !.wrote = req[c].wrote \cup {p},
                                                !.pc = "commit"]]
        /\ UNCHANGED <<ptr, index>>

\* One of the three put_blobs under try_join! ends.
StorePart(c, p) ==
    LET s == backend(req[c].tag)
        done == req[c].wrote \cup {p}
    IN  /\ req[c].pc = "store"
        /\ p \in Parts \ req[c].wrote
        /\ blobs' \in PutParts(s, req[c].build, {p})
        /\ req' = [req EXCEPT ![c] = [@ EXCEPT
                      !.wrote = done, !.pc = IF done = Parts THEN "commit" ELSE "store"]]
        /\ UNCHANGED <<ptr, index>>

\* One of them fails: try_join! drops the others, each of which may have
\* reached the store or not, as the failed one may.
StoreFails(c) ==
    LET s == backend(req[c].tag)
    IN  /\ req[c].pc = "store"
        /\ MayFail(s)
        /\ \E ps \in SUBSET (Parts \ req[c].wrote) : blobs' \in PutParts(s, req[c].build, ps)
        /\ storage_failure(c)
        /\ UNCHANGED <<ptr, index>>

\* put_tag_pointer, and the response.
Commit(c) ==
    LET s == backend(req[c].tag)
    IN  /\ req[c].pc = "commit"
        /\ \/ ptr' = [ptr EXCEPT ![s][req[c].tag] = req[c].build] /\ Answer(c, "manifest", "good")
           \/ /\ MayFail(s)
              /\ ptr' \in {ptr, [ptr EXCEPT ![s][req[c].tag] = req[c].build]}
              /\ storage_failure(c)
        /\ UNCHANGED <<blobs, index>>

-----------------------------------------------------------------------------
(* manifest() asked for a digest, and blob().                                *)

\* What the handler does with the blob find_blob returns.
Found(c, s) ==
    LET d == req[c].digest
        isManifest == \E b \in Builds : d = DigestOf[b]["manifest"]
    IN  IF req[c].kind = "blob" THEN Answer(c, "blob", blobs[s][d])
        ELSE digest_manifest_response(c, IF isManifest THEN blobs[s][d] ELSE "bad",
                                      Answer(c, "ManifestUnknown", "none"))

Unknown(c) ==
    Answer(c, IF req[c].kind = "blob" THEN "BlobUnknown" ELSE "ManifestUnknown", "none")

FindPersistent_outage_is_miss(c) ==
    /\ req[c].pc = "find"
    /\ \/ blobs["persistent"][req[c].digest] # "none" /\ Found(c, "persistent")
       \/ blobs["persistent"][req[c].digest] = "none" /\ Go(c, "findEphemeral")
       \/ MayFail("persistent") /\ Go(c, "findEphemeral")
    /\ UNCHANGED <<blobs, ptr, index>>

\* find_blob: persistent storage first ...
FindPersistent(c) ==
    /\ req[c].pc = "find"
    /\ \/ blobs["persistent"][req[c].digest] # "none" /\ Found(c, "persistent")
       \/ blobs["persistent"][req[c].digest] = "none" /\ Go(c, "findEphemeral")
       \/ MayFail("persistent") /\ storage_failure(c)
    /\ UNCHANGED <<blobs, ptr, index>>

\* ... then the ephemeral cache.
FindEphemeral(c) ==
    /\ req[c].pc = "findEphemeral"
    /\ \/ blobs["ephemeral"][req[c].digest] # "none" /\ Found(c, "ephemeral")
       \/ blobs["ephemeral"][req[c].digest] = "none" /\ Unknown(c)
    /\ UNCHANGED <<blobs, ptr, index>>

-----------------------------------------------------------------------------
(* What happens around the handlers.                                         *)

\* The client hangs up and the handler is dropped; a write it had sent may
\* still reach the store.
HangUp(c) ==
    LET s == backend(req[c].tag)
    IN  /\ "HangUp" \in Faults
        /\ req[c].pc # "idle"
        /\ IF req[c].pc = "store"
           THEN \E ps \in SUBSET (Parts \ req[c].wrote) :
                    blobs' \in PutParts(s, req[c].build, ps)
           ELSE UNCHANGED blobs
        /\ IF req[c].pc = "commit"
           THEN ptr' \in {ptr, [ptr EXCEPT ![s][req[c].tag] = req[c].build]}
           ELSE UNCHANGED ptr
        /\ req' = [req EXCEPT ![c] = Idle(req[c].got, req[c].gotTag)]
        /\ UNCHANGED index

\* The process restarts: requests and everything in its heap are gone.
Restart ==
    /\ "Restart" \in Faults
    /\ blobs' = [blobs EXCEPT !["ephemeral"] = [d \in Digests |-> "none"]]
    /\ ptr' = [ptr EXCEPT !["ephemeral"] = [t \in Tags |-> None]]
    /\ index' = [k \in Prefixes |-> NoIndex]
    /\ req' = [c \in Clients |-> Idle(req[c].got, req[c].gotTag)]

\* An entry of the ephemeral cache expires or makes room for another one.
EvictBlob(d) ==
    /\ "Evict" \in Faults
    /\ blobs["ephemeral"][d] # "none"
    /\ blobs' = [blobs EXCEPT !["ephemeral"][d] = "none"]
    /\ UNCHANGED <<ptr, index, req>>

EvictPointer(t) ==
    /\ "Evict" \in Faults
    /\ ptr["ephemeral"][t] # None
    /\ ptr' = [ptr EXCEPT !["ephemeral"][t] = None]
    /\ UNCHANGED <<blobs, index, req>>

\* index_cache_ttl_secs
ExpireIndex(k) ==
    /\ index[k].kind # "none"
    /\ index' = [index EXCEPT ![k] = NoIndex]
    /\ UNCHANGED <<blobs, ptr, req>>

\* An object of the bucket is damaged.
Damage(d) ==
    /\ "Damage" \in Faults
    /\ blobs["persistent"][d] = "good"
    /\ blobs' = [blobs EXCEPT !["persistent"][d] = "bad"]
    /\ UNCHANGED <<ptr, index, req>>

\* A pointer of the bucket becomes unreadable.
DamagePointer(t) ==
    /\ "Damage" \in Faults
    /\ ptr["persistent"][t] # None
    /\ ptr' = [ptr EXCEPT !["persistent"][t] = None]
    /\ UNCHANGED <<blobs, index, req>>

Handle(c) ==
    \/ ReadPointer(c) \/ ReadTagManifest(c)
    \/ LookupIndex(c) \/ FetchIndex(c) \/ Download(c)
    \/ \E p \in Parts : StorePart(c, p)
    \/ StoreFails(c) \/ Commit(c)
    \/ FindPersistent(c) \/ FindEphemeral(c)

Environment ==
    \/ Restart
    \/ \E d \in Digests : EvictBlob(d) \/ Damage(d)
    \/ \E t \in Tags : EvictPointer(t) \/ DamagePointer(t)
    \/ \E k \in Prefixes : ExpireIndex(k)

Next ==
    \/ \E c \in Clients :
          \/ \E t \in Tags : AskTag(c, t)
          \/ \E d \in Digests : AskDigest(c, d) \/ AskBlob(c, d)
          \/ Handle(c) \/ Receive(c) \/ HangUp(c)
    \/ Environment

\* A handler that runs keeps running; upstream and storage requests time out.
Fairness == \A c \in Clients : WF_vars(Handle(c))

Spec == Init /\ [][Next]_vars

FairSpec == Spec /\ Fairness

-----------------------------------------------------------------------------
(* Properties.                                                               *)

\* Everything chart b consists of is in B.
Complete(B, b) == \A p \in Parts : B[DigestOf[b][p]] # "none"

\* A pointer is never visible before what it points to: whenever a tag of the
\* persistent store has a pointer, the manifest, the config and the layer of
\* that chart are all stored, whichever put failed, whoever hung up and
\* whenever the process restarted.
PointerComplete ==
    \A t \in Tags : ptr["persistent"][t] # None =>
        Complete(blobs["persistent"], ptr["persistent"][t])

\* The request is for a digest of the manifest that the client got, and store
\* s is the one that manifest's tag belongs to.
Promised(r, s) ==
    /\ r.got # None
    /\ backend(r.gotTag) = s
    /\ \E p \in Parts : r.digest = DigestOf[r.got][p]

\* A client that got the manifest of a chart in persistent storage is never
\* told BLOB_UNKNOWN for a digest that manifest names.
PulledBlobsKnown ==
    \A c \in Clients :
        req[c].pc = "done" /\ req[c].res = "BlobUnknown" => ~Promised(req[c], "persistent")

\* No manifest leaves the process with bytes that do not match its digest,
\* although stored bytes may be damaged between any two steps and put_blob
\* leaves them as they are wherever it sees them.
ServedManifestsVerified ==
    \A c \in Clients : req[c].res = "manifest" => req[c].bytes = "good"

\* "A storage failure is an outage, not a missing object: it must not be
\* reported as a permanent 404 nor swallowed into a silent upstream rebuild."
OutageSurfaces ==
    \A c \in Clients :
        req[c].outage => req[c].pc = "done" /\ req[c].res = "Internal"

\* A host-path request takes chart URLs only from an index that the public
\* client fetched, although configured aliases of the same repository fill the
\* same cache.
IndexPolicyHeld ==
    \A c \in Clients :
        req[c].pc = "download" => req[c].via = classic_client(req[c].tag)

\* Every request is answered unless its client hangs up or the process
\* restarts.
Answered == \A c \in Clients : req[c].pc \notin {"idle", "done"} ~> req[c].pc \in {"idle", "done"}
=============================================================================
