------------------------- MODULE ClassicPull_proofs --------------------------
(* Proofs about ClassicPull, for any number of clients, tags and charts,      *)
(* whatever digests the charts share and whatever goes wrong.                 *)
EXTENDS ClassicPull, TLAPS

TagPoints == {"pointer", "cached", "index", "fetch", "download", "store", "commit"}

\* If tag t is kept in persistent storage, chart b is all there.
Held(t, b, B) == backend(t) = "persistent" => Complete(B, b)

\* What holds of a request, given the persistent blobs B: which fields its
\* control point has filled in, what it has stored or seen stored so far, and
\* what the client was promised.
ReqOK(r, B) ==
    /\ r.pc \in TagPoints => r.kind = "tag" /\ r.tag \in Tags
    /\ r.pc \in {"find", "findEphemeral"} => r.kind # "tag" /\ r.digest \in Digests
    /\ r.pc \in {"cached", "store", "commit"} => r.build \in Builds
    /\ r.pc = "cached" => Held(r.tag, r.build, B)
    /\ r.pc \in {"store", "commit"} /\ backend(r.tag) = "persistent"
           => \A p \in r.wrote : B[DigestOf[r.build][p]] # "none"
    /\ r.pc = "commit" => r.wrote = Parts
    /\ r.pc = "done" /\ r.kind = "tag" /\ r.res = "manifest"
           => r.build \in Builds /\ Held(r.tag, r.build, B)
    /\ r.got # None => Held(r.gotTag, r.got, B)
    /\ r.pc = "findEphemeral" => ~Promised(r, "persistent")
    /\ r.pc = "done" /\ r.res = "BlobUnknown" => ~Promised(r, "persistent")
    /\ r.res = "manifest" => r.bytes = "good"
    /\ r.outage => r.pc = "done" /\ r.res = "Internal"
    /\ r.pc = "download" => r.via = classic_client(r.tag)

\* Each key prefix holds only what its own client fetched.
IndexOK ==
    \A k \in Prefixes : index[k].kind # "none" =>
        index[k].via = IF k = "host-path" THEN "public" ELSE "trusted"

IInv ==
    /\ TypeOK
    /\ PointerComplete
    /\ IndexOK
    /\ \A c \in Clients : ReqOK(req[c], blobs["persistent"])

\* C has everything B has.
Grows(B, C) == \A d \in Digests : B[d] # "none" => C[d] # "none"

-----------------------------------------------------------------------------
\* The members of the enumerations, so that Request need not be unfolded
\* together with them.
LEMMA Members ==
    /\ \A x \in {"idle", "pointer", "cached", "index", "fetch", "download", "store",
                 "commit", "find", "findEphemeral", "done"} : x \in Points
    /\ \A x \in {"tag", "digest", "blob"} : x \in Kinds
    /\ \A x \in {"none", "manifest", "blob", "ManifestUnknown", "BlobUnknown",
                 "Upstream", "TooLarge", "Internal"} : x \in Responses
    /\ \A x \in {"none", "good", "bad"} : x \in Bytes
    /\ \A x \in {"none", "trusted", "public"} : x \in Vias
  BY DEF Points, Kinds, Responses, Bytes, Vias

LEMMA DigestOfType ==
    ASSUME NEW b \in Builds, NEW p \in Parts PROVE DigestOf[b][p] \in Digests
  BY ClassicAssumption

LEMMA CompleteGrows ==
    ASSUME NEW B, NEW C, Grows(B, C), NEW b \in Builds, Complete(B, b)
    PROVE  Complete(C, b)
  BY DigestOfType DEF Grows, Complete

\* A request in good standing stays so while blobs are only added.
LEMMA ReqOKGrows ==
    ASSUME NEW B, NEW C, Grows(B, C), NEW r \in Request, ReqOK(r, B)
    PROVE  ReqOK(r, C)
<1>1. r.pc \in {"cached", "store", "commit"} => r.build \in Builds
  BY DEF ReqOK
<1>2. r.pc = "cached" => Held(r.tag, r.build, C)
  BY <1>1, CompleteGrows DEF ReqOK, Held
<1>3. r.pc \in {"store", "commit"} /\ backend(r.tag) = "persistent"
          => \A p \in r.wrote : C[DigestOf[r.build][p]] # "none"
  BY <1>1, DigestOfType DEF ReqOK, Grows, Request
<1>4. r.pc = "done" /\ r.kind = "tag" /\ r.res = "manifest"
          => r.build \in Builds /\ Held(r.tag, r.build, C)
  BY CompleteGrows DEF ReqOK, Held
<1>5. r.got # None => Held(r.gotTag, r.got, C)
  BY CompleteGrows DEF ReqOK, Held, Request
<1> QED BY <1>1, <1>2, <1>3, <1>4, <1>5 DEF ReqOK

\* An idle client is in good standing if what it got is stored.
LEMMA IdleOK ==
    ASSUME NEW b \in Builds \cup {None}, NEW t \in Tags \cup {None}, NEW B,
           b # None => Held(t, b, B)
    PROVE  Idle(b, t) \in Request /\ ReqOK(Idle(b, t), B)
<1>1. Idle(b, t) \in Request
  BY Members DEF Idle, Request
<1> QED BY <1>1 DEF Idle, ReqOK, TagPoints

\* put_blob adds and never removes, in the store it is called on only.
LEMMA PutPartsFacts ==
    ASSUME TypeOK, NEW s \in Stores, NEW b \in Builds, NEW ps \in SUBSET Parts,
           blobs' \in PutParts(s, b, ps)
    PROVE  /\ blobs' \in [Stores -> [Digests -> Bytes]]
           /\ Grows(blobs["persistent"], blobs'["persistent"])
           /\ s = "persistent" =>
                  \A p \in ps : blobs'["persistent"][DigestOf[b][p]] # "none"
<1> DEFINE ds == {DigestOf[b][p] : p \in ps}
<1>0. PICK unseen \in SUBSET ds :
          blobs' = [blobs EXCEPT ![s] =
              [d \in Digests |-> IF d \in ds THEN put_blob(@[d], d \in unseen) ELSE @[d]]]
  BY DEF PutParts
<1> DEFINE new == [d \in Digests |-> IF d \in ds THEN put_blob(blobs[s][d], d \in unseen)
                                                ELSE blobs[s][d]]
<1>1. blobs' = [blobs EXCEPT ![s] = new]
  BY <1>0 DEF TypeOK
<1>2. \A d \in Digests : /\ new[d] \in Bytes
                         /\ blobs[s][d] # "none" => new[d] # "none"
                         /\ (\E p \in ps : d = DigestOf[b][p]) => new[d] # "none"
  BY DEF put_blob, Bytes, TypeOK
<1>3. new \in [Digests -> Bytes]
  BY <1>2
<1> HIDE DEF new
<1>4. blobs' \in [Stores -> [Digests -> Bytes]]
  BY <1>1, <1>3 DEF TypeOK
<1>5. s = "persistent" => blobs'["persistent"] = new
  BY <1>1 DEF TypeOK, Stores
<1>6. s # "persistent" => blobs'["persistent"] = blobs["persistent"]
  BY <1>1 DEF TypeOK, Stores
<1>7. Grows(blobs["persistent"], blobs'["persistent"])
  BY <1>2, <1>5, <1>6 DEF Grows
<1> QED BY <1>2, <1>4, <1>5, <1>7, DigestOfType

\* A pointer may be written once the chart it names is complete.
LEMMA PointerWritten ==
    ASSUME TypeOK, PointerComplete, NEW t \in Tags, NEW b \in Builds,
           Held(t, b, blobs["persistent"]),
           Grows(blobs["persistent"], blobs'["persistent"]),
           ptr' \in {ptr, [ptr EXCEPT ![backend(t)][t] = b]}
    PROVE  /\ ptr' \in [Stores -> [Tags -> Builds \cup {None}]]
           /\ PointerComplete'
<1>1. backend(t) \in Stores
  BY DEF backend, Stores
<1>2. ptr' \in [Stores -> [Tags -> Builds \cup {None}]]
  <2>1. [ptr[backend(t)] EXCEPT ![t] = b] \in [Tags -> Builds \cup {None}]
    BY <1>1 DEF TypeOK
  <2> QED BY <1>1, <2>1 DEF TypeOK
<1>3. ASSUME NEW u \in Tags, ptr'["persistent"][u] # None
      PROVE  /\ ptr'["persistent"][u] \in Builds
             /\ Complete(blobs["persistent"], ptr'["persistent"][u])
  <2>1. CASE ptr'["persistent"][u] = ptr["persistent"][u]
    BY <2>1, <1>3 DEF PointerComplete, TypeOK, Stores
  <2>2. CASE ptr'["persistent"][u] # ptr["persistent"][u]
    <3>1. backend(t) = "persistent" /\ u = t /\ ptr'["persistent"][u] = b
      BY <2>2, <1>1 DEF TypeOK, Stores
    <3> QED BY <3>1 DEF Held
  <2> QED BY <2>1, <2>2
<1>4. PointerComplete'
  BY <1>3, CompleteGrows DEF PointerComplete, Complete, Grows
<1> QED BY <1>2, <1>4

\* A step that only replaces the request of one client.
LEMMA RequestStep ==
    ASSUME IInv, NEW c \in Clients, NEW r \in Request,
           req' = [req EXCEPT ![c] = r],
           blobs' \in [Stores -> [Digests -> Bytes]],
           Grows(blobs["persistent"], blobs'["persistent"]),
           ptr' \in [Stores -> [Tags -> Builds \cup {None}]],
           PointerComplete',
           index' \in [Prefixes -> IndexText], IndexOK',
           ReqOK(r, blobs'["persistent"])
    PROVE  IInv'
<1>1. TypeOK'
  BY DEF IInv, TypeOK
<1>2. ASSUME NEW e \in Clients PROVE ReqOK(req'[e], blobs'["persistent"])
  <2>1. CASE e = c
    BY <2>1 DEF IInv, TypeOK
  <2>2. CASE e # c
    <3>1. req'[e] = req[e] /\ req[e] \in Request
      BY <2>2 DEF IInv, TypeOK
    <3> QED BY <3>1, ReqOKGrows DEF IInv
  <2> QED BY <2>1, <2>2
<1> QED BY <1>1, <1>2 DEF IInv

\* ... and leaves the stores alone.
LEMMA HandlerStep ==
    ASSUME IInv, NEW c \in Clients, NEW r \in Request,
           req' = [req EXCEPT ![c] = r], UNCHANGED <<blobs, ptr, index>>,
           ReqOK(r, blobs["persistent"])
    PROVE  IInv'
<1>1. Grows(blobs["persistent"], blobs'["persistent"])
  BY DEF Grows
<1>2. PointerComplete' /\ IndexOK'
  BY DEF IInv, PointerComplete, Complete, IndexOK
<1> QED BY <1>1, <1>2, RequestStep DEF IInv, TypeOK

-----------------------------------------------------------------------------
(* The ways a handler goes on.                                                *)

\* Failing on an outage is always in order.
LEMMA FailureStep ==
    ASSUME IInv, NEW c \in Clients, storage_failure(c), UNCHANGED <<blobs, ptr, index>>
    PROVE  IInv'
<1> DEFINE r == [req[c] EXCEPT !.pc = "done", !.res = "Internal", !.bytes = "none",
                               !.outage = TRUE]
<1>1. req[c] \in Request /\ ReqOK(req[c], blobs["persistent"])
  BY DEF IInv, TypeOK
<1>2. r \in Request
  BY <1>1, Members DEF Request
<1>3. ReqOK(r, blobs["persistent"])
  BY <1>1 DEF ReqOK, Request, TagPoints
<1> QED BY <1>2, <1>3, HandlerStep DEF storage_failure

\* So is answering with an error of upstream's, or with 404 for a manifest.
LEMMA ErrorStep ==
    ASSUME IInv, NEW c \in Clients, req[c].pc # "done",
           NEW error \in {"ManifestUnknown", "Upstream", "TooLarge", "Internal"},
           Answer(c, error, "none"),
           UNCHANGED <<blobs, ptr>>, index' \in [Prefixes -> IndexText], IndexOK'
    PROVE  IInv'
<1> DEFINE r == [req[c] EXCEPT !.pc = "done", !.res = error, !.bytes = "none"]
<1>1. req[c] \in Request /\ ReqOK(req[c], blobs["persistent"])
  BY DEF IInv, TypeOK
<1>2. r \in Request
  BY <1>1, Members DEF Request
<1>3. ReqOK(r, blobs["persistent"])
  BY <1>1 DEF ReqOK, Request, TagPoints
<1>4. Grows(blobs["persistent"], blobs'["persistent"]) /\ PointerComplete'
  BY DEF IInv, Grows, PointerComplete, Complete
<1> QED BY <1>2, <1>3, <1>4, RequestStep DEF Answer, IInv, TypeOK

\* Going back to a miss.
LEMMA MissStep ==
    ASSUME IInv, NEW c \in Clients, NEW point \in {"index", "fetch"},
           req[c].pc \in TagPoints, Go(c, point), UNCHANGED <<blobs, ptr, index>>
    PROVE  IInv'
<1> DEFINE r == [req[c] EXCEPT !.pc = point]
<1>1. req[c] \in Request /\ ReqOK(req[c], blobs["persistent"])
  BY DEF IInv, TypeOK
<1>2. r \in Request
  BY <1>1, Members DEF Request
<1>3. ReqOK(r, blobs["persistent"])
  BY <1>1 DEF ReqOK, Request, TagPoints
<1> QED BY <1>2, <1>3, HandlerStep DEF Go

\* Taking chart URLs from an index text that the right client fetched.
LEMMA ResolveStep ==
    ASSUME IInv, NEW c \in Clients, req[c].pc \in {"index", "fetch"},
           NEW text \in IndexText, text.via = classic_client(req[c].tag),
           resolve_chart_url(c, text),
           UNCHANGED <<blobs, ptr>>, index' \in [Prefixes -> IndexText], IndexOK'
    PROVE  IInv'
<1>1. req[c] \in Request /\ ReqOK(req[c], blobs["persistent"])
  BY DEF IInv, TypeOK
<1>2. CASE Answer(c, "Upstream", "none") \/ Answer(c, "ManifestUnknown", "none")
  BY <1>2, ErrorStep
<1> DEFINE r == [req[c] EXCEPT !.pc = "download", !.via = text.via]
<1>3. CASE req' = [req EXCEPT ![c] = r]
  <2>1. r \in Request
    BY <1>1, Members DEF Request, IndexText
  <2>2. ReqOK(r, blobs["persistent"])
    BY <1>1 DEF ReqOK, Request, TagPoints
  <2>3. Grows(blobs["persistent"], blobs'["persistent"]) /\ PointerComplete'
    BY DEF IInv, Grows, PointerComplete, Complete
  <2> QED BY <1>3, <2>1, <2>2, <2>3, RequestStep DEF IInv, TypeOK
<1> QED BY <1>2, <1>3 DEF resolve_chart_url

-----------------------------------------------------------------------------
(* The actions.                                                               *)

LEMMA AskInv ==
    ASSUME IInv, NEW c \in Clients, NEW point \in {"pointer", "find"},
           NEW kind \in Kinds, NEW t \in Tags \cup {None}, NEW d \in Digests \cup {None},
           point = "pointer" => kind = "tag" /\ t \in Tags,
           point = "find" => kind # "tag" /\ d \in Digests,
           Ask(c, point, kind, t, d)
    PROVE  IInv'
<1> DEFINE r == [req[c] EXCEPT !.pc = point, !.kind = kind, !.tag = t, !.digest = d]
<1>1. req[c] \in Request /\ ReqOK(req[c], blobs["persistent"])
  BY DEF IInv, TypeOK
<1>2. r \in Request
  BY <1>1, Members DEF Request
<1>3. ReqOK(r, blobs["persistent"])
  BY <1>1 DEF ReqOK, Request, TagPoints, Ask
<1> QED BY <1>2, <1>3, HandlerStep DEF Ask

LEMMA ReceiveInv == ASSUME IInv, NEW c \in Clients, Receive(c) PROVE IInv'
<1>1. req[c] \in Request /\ ReqOK(req[c], blobs["persistent"])
  BY DEF IInv, TypeOK
<1>2. CASE req[c].kind = "tag" /\ req[c].res = "manifest"
  <2>1. /\ Idle(req[c].build, req[c].tag) \in Request
        /\ ReqOK(Idle(req[c].build, req[c].tag), blobs["persistent"])
    BY <1>1, <1>2, IdleOK DEF Receive, ReqOK, Request
  <2> QED BY <1>2, <2>1, HandlerStep DEF Receive
<1>3. CASE ~(req[c].kind = "tag" /\ req[c].res = "manifest")
  <2>1. /\ Idle(req[c].got, req[c].gotTag) \in Request
        /\ ReqOK(Idle(req[c].got, req[c].gotTag), blobs["persistent"])
    BY <1>1, IdleOK DEF ReqOK, Request
  <2> QED BY <1>3, <2>1, HandlerStep DEF Receive
<1> QED BY <1>2, <1>3

\* The pointer that is read names a complete chart.
LEMMA ReadPointerInv == ASSUME IInv, NEW c \in Clients, ReadPointer(c) PROVE IInv'
<1> DEFINE s == backend(req[c].tag)
           b == ptr[s][req[c].tag]
           r == [req[c] EXCEPT !.pc = "cached", !.build = b]
<1>1. req[c] \in Request /\ ReqOK(req[c], blobs["persistent"])
  BY DEF IInv, TypeOK
<1>2. req[c].tag \in Tags /\ s \in Stores /\ b \in Builds \cup {None}
  BY <1>1 DEF ReadPointer, ReqOK, TagPoints, backend, Stores, IInv, TypeOK
<1>3. CASE b # None /\ req' = [req EXCEPT ![c] = r]
  <2>1. r \in Request
    BY <1>1, <1>2, Members DEF Request
  <2>2. Held(req[c].tag, b, blobs["persistent"])
    BY <1>2, <1>3 DEF Held, IInv, PointerComplete
  <2>3. ReqOK(r, blobs["persistent"])
    BY <1>1, <1>2, <1>3, <2>2 DEF ReqOK, Request, TagPoints, ReadPointer
  <2> QED BY <1>3, <2>1, <2>3, HandlerStep DEF ReadPointer
<1>4. CASE Go(c, "index")
  BY <1>4, MissStep DEF ReadPointer, TagPoints
<1>5. CASE storage_failure(c)
  BY <1>5, FailureStep DEF ReadPointer
<1> QED BY <1>3, <1>4, <1>5 DEF ReadPointer

LEMMA ReadTagManifestInv == ASSUME IInv, NEW c \in Clients, ReadTagManifest(c) PROVE IInv'
<1> DEFINE r == [req[c] EXCEPT !.pc = "done", !.res = "manifest", !.bytes = "good"]
<1>1. req[c] \in Request /\ ReqOK(req[c], blobs["persistent"])
  BY DEF IInv, TypeOK
<1>2. CASE req' = [req EXCEPT ![c] = r]
  <2>1. r \in Request
    BY <1>1, Members DEF Request
  <2>2. ReqOK(r, blobs["persistent"])
    BY <1>1 DEF ReqOK, Request, TagPoints, ReadTagManifest
  <2> QED BY <1>2, <2>1, <2>2, HandlerStep DEF ReadTagManifest
<1>3. CASE Go(c, "index")
  BY <1>3, MissStep DEF ReadTagManifest, TagPoints
<1>4. CASE storage_failure(c)
  BY <1>4, FailureStep DEF ReadTagManifest
<1> QED BY <1>2, <1>3, <1>4 DEF ReadTagManifest, digest_manifest_response, Answer

LEMMA LookupIndexInv == ASSUME IInv, NEW c \in Clients, LookupIndex(c) PROVE IInv'
<1> DEFINE k == cache_prefix(req[c].tag)
<1>1. CASE Go(c, "fetch")
  BY <1>1, MissStep DEF LookupIndex, TagPoints
<1>2. CASE index[k].kind # "none" /\ resolve_chart_url(c, index[k])
  <2>1. k \in Prefixes /\ index[k] \in IndexText
    BY DEF cache_prefix, Prefixes, IInv, TypeOK
  <2>2. index[k].via = classic_client(req[c].tag)
    BY <1>2, <2>1 DEF IInv, IndexOK, cache_prefix, classic_client
  <2> QED BY <1>2, <2>1, <2>2, ResolveStep DEF LookupIndex, IInv, TypeOK, IndexOK
<1> QED BY <1>1, <1>2 DEF LookupIndex

\* What is cached under a prefix was fetched by that prefix's client.
LEMMA FetchIndexInv == ASSUME IInv, NEW c \in Clients, FetchIndex(c) PROVE IInv'
<1> DEFINE k == cache_prefix(req[c].tag)
<1>1. k \in Prefixes
  BY DEF cache_prefix, Prefixes
<1>2. ASSUME NEW text \in IndexBodies(req[c].tag),
             index' = [index EXCEPT ![k] = text], resolve_chart_url(c, text)
      PROVE  IInv'
  <2>1. text.via = classic_client(req[c].tag) /\ text \in IndexText
    <3>1. \/ text = [kind |-> "listing", lists |-> Tags, via |-> classic_client(req[c].tag)]
          \/ text = [kind |-> "listing", lists |-> Tags \ {req[c].tag},
                     via |-> classic_client(req[c].tag)]
          \/ text = [kind |-> "garbage", lists |-> {}, via |-> classic_client(req[c].tag)]
      BY <1>2 DEF IndexBodies
    <3>2. classic_client(req[c].tag) \in Vias
      BY DEF classic_client, Vias
    <3> QED BY <3>1, <3>2 DEF IndexText
  <2>2. index' \in [Prefixes -> IndexText]
    BY <1>1, <1>2, <2>1 DEF IInv, TypeOK
  <2>3. IndexOK'
    BY <1>1, <1>2, <2>1 DEF IInv, TypeOK, IndexOK, cache_prefix, classic_client
  <2> QED BY <1>2, <2>1, <2>2, <2>3, ResolveStep DEF FetchIndex
<1>3. CASE Answer(c, "Upstream", "none") /\ UNCHANGED index
  BY <1>3, ErrorStep DEF FetchIndex, IInv, TypeOK, IndexOK
<1> QED BY <1>2, <1>3 DEF FetchIndex

LEMMA DownloadInv == ASSUME IInv, NEW c \in Clients, Download(c) PROVE IInv'
<1>1. req[c] \in Request /\ ReqOK(req[c], blobs["persistent"])
  BY DEF IInv, TypeOK
<1>2. ASSUME NEW b \in Builds,
             req' = [req EXCEPT ![c] = [@ EXCEPT !.pc = "store", !.build = b, !.wrote = {}]]
      PROVE  IInv'
  <2> DEFINE r == [req[c] EXCEPT !.pc = "store", !.build = b, !.wrote = {}]
  <2>1. r \in Request
    BY <1>1, Members DEF Request
  <2>2. ReqOK(r, blobs["persistent"])
    BY <1>1 DEF ReqOK, Request, TagPoints, Download
  <2> QED BY <1>2, <2>1, <2>2, HandlerStep DEF Download
<1>3. ASSUME NEW error \in {"Upstream", "TooLarge", "Internal"}, Answer(c, error, "none")
      PROVE  IInv'
  BY <1>3, ErrorStep DEF Download, IInv, TypeOK, IndexOK
<1> QED BY <1>2, <1>3 DEF Download

\* Adding blobs to a store keeps every pointer complete.
LEMMA GrowthKeepsPointers ==
    ASSUME IInv, Grows(blobs["persistent"], blobs'["persistent"]), UNCHANGED ptr
    PROVE  PointerComplete'
<1> SUFFICES ASSUME NEW t \in Tags, ptr["persistent"][t] # None
             PROVE  Complete(blobs'["persistent"], ptr["persistent"][t])
  BY DEF PointerComplete, Complete
<1>1. ptr["persistent"][t] \in Builds
  BY DEF IInv, TypeOK, Stores
<1> QED BY <1>1, CompleteGrows DEF IInv, PointerComplete

LEMMA StorePartInv ==
    ASSUME IInv, NEW c \in Clients, NEW p \in Parts, StorePart(c, p) PROVE IInv'
<1> DEFINE s == backend(req[c].tag)
           done == req[c].wrote \cup {p}
           point == IF done = Parts THEN "commit" ELSE "store"
           r == [req[c] EXCEPT !.wrote = done, !.pc = point]
<1>1. req[c] \in Request /\ ReqOK(req[c], blobs["persistent"])
  BY DEF IInv, TypeOK
<1>2. req[c].build \in Builds /\ s \in Stores /\ req[c].pc = "store"
  BY <1>1 DEF ReqOK, StorePart, backend, Stores
<1>3. /\ blobs' \in [Stores -> [Digests -> Bytes]]
      /\ Grows(blobs["persistent"], blobs'["persistent"])
      /\ s = "persistent" => blobs'["persistent"][DigestOf[req[c].build][p]] # "none"
  BY <1>2, PutPartsFacts DEF StorePart, IInv
<1>4. point \in {"store", "commit"} /\ done \in SUBSET Parts
  BY <1>1 DEF Request
<1>5. r \in Request
  <2> HIDE DEF done, point
  <2> QED BY <1>1, <1>4, Members DEF Request
<1>6. ReqOK(req[c], blobs'["persistent"])
  BY <1>1, <1>3, ReqOKGrows
<1>7. ReqOK(r, blobs'["persistent"])
  <2> HIDE DEF done
  <2>1. s = "persistent" => \A q \in done : blobs'["persistent"][DigestOf[req[c].build][q]] # "none"
    BY <1>2, <1>3, <1>6 DEF ReqOK, done
  <2>2. /\ r.pc = point /\ r.wrote = done
        /\ r.kind = req[c].kind /\ r.tag = req[c].tag /\ r.digest = req[c].digest
        /\ r.build = req[c].build
        /\ r.via = req[c].via /\ r.res = req[c].res /\ r.bytes = req[c].bytes
        /\ r.outage = req[c].outage /\ r.got = req[c].got /\ r.gotTag = req[c].gotTag
    BY <1>1 DEF Request
  <2> HIDE DEF r
  <2> QED BY <1>2, <1>4, <1>6, <2>1, <2>2 DEF ReqOK, TagPoints
<1>8. req' = [req EXCEPT ![c] = r] /\ UNCHANGED <<ptr, index>>
  BY DEF StorePart
<1>9. PointerComplete'
  BY <1>3, <1>8, GrowthKeepsPointers
<1> HIDE DEF r
<1> QED BY <1>3, <1>5, <1>7, <1>8, <1>9, RequestStep DEF IInv, TypeOK, IndexOK

\* A failed or abandoned try_join! may leave any of the blobs behind.
LEMMA StoreFailsInv == ASSUME IInv, NEW c \in Clients, StoreFails(c) PROVE IInv'
<1> DEFINE s == backend(req[c].tag)
           r == [req[c] EXCEPT !.pc = "done", !.res = "Internal", !.bytes = "none",
                               !.outage = TRUE]
<1>1. req[c] \in Request /\ ReqOK(req[c], blobs["persistent"])
  BY DEF IInv, TypeOK
<1>2. req[c].build \in Builds /\ s \in Stores
  BY <1>1 DEF ReqOK, StoreFails, backend, Stores
<1>3. /\ blobs' \in [Stores -> [Digests -> Bytes]]
      /\ Grows(blobs["persistent"], blobs'["persistent"])
  <2>1. PICK ps \in SUBSET (Parts \ req[c].wrote) : blobs' \in PutParts(s, req[c].build, ps)
    BY DEF StoreFails
  <2>2. ps \in SUBSET Parts
    BY <2>1
  <2> QED BY <1>2, <2>1, <2>2, PutPartsFacts DEF IInv
<1>4. r \in Request
  BY <1>1, Members DEF Request
<1>5. ReqOK(r, blobs["persistent"])
  BY <1>1 DEF ReqOK, Request, TagPoints
<1>6. ReqOK(r, blobs'["persistent"])
  BY <1>3, <1>4, <1>5, ReqOKGrows
<1>7. req' = [req EXCEPT ![c] = r] /\ UNCHANGED <<ptr, index>>
  BY DEF StoreFails, storage_failure
<1>8. PointerComplete'
  BY <1>3, <1>7, GrowthKeepsPointers
<1> HIDE DEF r
<1> QED BY <1>3, <1>4, <1>6, <1>7, <1>8, RequestStep DEF IInv, TypeOK, IndexOK

\* The pointer is written when all three blobs are there.
LEMMA CommitInv == ASSUME IInv, NEW c \in Clients, Commit(c) PROVE IInv'
<1> DEFINE t == req[c].tag
           ok == [req[c] EXCEPT !.pc = "done", !.res = "manifest", !.bytes = "good"]
           fail == [req[c] EXCEPT !.pc = "done", !.res = "Internal", !.bytes = "none",
                                  !.outage = TRUE]
<1>1. req[c] \in Request /\ ReqOK(req[c], blobs["persistent"]) /\ req[c].pc = "commit"
  BY DEF IInv, TypeOK, Commit
<1>2. t \in Tags /\ req[c].build \in Builds /\ req[c].kind = "tag"
  BY <1>1 DEF ReqOK, TagPoints
<1>3. Held(t, req[c].build, blobs["persistent"])
  BY <1>1 DEF ReqOK, Held, Complete
<1>4. Grows(blobs["persistent"], blobs'["persistent"]) /\ UNCHANGED <<blobs, index>>
  BY DEF Commit, Grows
<1>5. /\ ptr' \in [Stores -> [Tags -> Builds \cup {None}]]
      /\ PointerComplete'
  <2>1. ptr' \in {ptr, [ptr EXCEPT ![backend(t)][t] = req[c].build]}
    BY DEF Commit
  <2> HIDE DEF t
  <2> QED BY <1>2, <1>3, <1>4, <2>1, PointerWritten DEF IInv
<1>6. CASE req' = [req EXCEPT ![c] = ok]
  <2>1. ok \in Request
    BY <1>1, Members DEF Request
  <2>2. ReqOK(ok, blobs["persistent"])
    BY <1>1, <1>2, <1>3 DEF ReqOK, Request, TagPoints
  <2> QED BY <1>4, <1>5, <1>6, <2>1, <2>2, RequestStep DEF IInv, TypeOK, IndexOK
<1>7. CASE req' = [req EXCEPT ![c] = fail]
  <2>1. fail \in Request
    BY <1>1, Members DEF Request
  <2>2. ReqOK(fail, blobs["persistent"])
    BY <1>1 DEF ReqOK, Request, TagPoints
  <2> QED BY <1>4, <1>5, <1>7, <2>1, <2>2, RequestStep DEF IInv, TypeOK, IndexOK
<1> QED BY <1>6, <1>7 DEF Commit, Answer, storage_failure

\* A digest that was promised is found in persistent storage.
LEMMA FindPersistentInv == ASSUME IInv, NEW c \in Clients, FindPersistent(c) PROVE IInv'
<1>1. /\ req[c] \in Request /\ ReqOK(req[c], blobs["persistent"]) /\ req[c].pc = "find"
      /\ req[c].kind # "tag" /\ req[c].digest \in Digests
  BY DEF IInv, TypeOK, FindPersistent, ReqOK
<1>2. CASE Found(c, "persistent")
  <2>1. ASSUME NEW res \in {"blob", "manifest"}, NEW bytes \in Bytes,
               res = "manifest" => bytes = "good", Answer(c, res, bytes)
        PROVE  IInv'
    <3> DEFINE r == [req[c] EXCEPT !.pc = "done", !.res = res, !.bytes = bytes]
    <3>1. r \in Request
      BY <1>1, Members DEF Request
    <3>2. ReqOK(r, blobs["persistent"])
      BY <1>1, <2>1 DEF ReqOK, Request, TagPoints
    <3> QED BY <2>1, <3>1, <3>2, HandlerStep DEF FindPersistent, Answer
  <2>2. blobs["persistent"][req[c].digest] \in Bytes
    BY <1>1 DEF IInv, TypeOK, Stores
  <2>3. CASE Answer(c, "ManifestUnknown", "none")
    BY <1>1, <2>3, ErrorStep DEF FindPersistent, IInv, TypeOK, IndexOK
  <2> QED BY <1>2, <2>1, <2>2, <2>3, Members DEF Found, digest_manifest_response
<1>3. CASE blobs["persistent"][req[c].digest] = "none" /\ Go(c, "findEphemeral")
  <2> DEFINE r == [req[c] EXCEPT !.pc = "findEphemeral"]
  <2>1. r \in Request
    BY <1>1, Members DEF Request
  <2>2. ~Promised(req[c], "persistent")
    BY <1>1, <1>3 DEF ReqOK, Promised, Held, Complete
  <2>3. ReqOK(r, blobs["persistent"])
    BY <1>1, <2>2 DEF ReqOK, Request, TagPoints, Promised
  <2> QED BY <1>3, <2>1, <2>3, HandlerStep DEF FindPersistent, Go
<1>4. CASE storage_failure(c)
  BY <1>4, FailureStep DEF FindPersistent
<1> QED BY <1>2, <1>3, <1>4 DEF FindPersistent

LEMMA FindEphemeralInv == ASSUME IInv, NEW c \in Clients, FindEphemeral(c) PROVE IInv'
<1>1. /\ req[c] \in Request /\ ReqOK(req[c], blobs["persistent"])
      /\ req[c].pc = "findEphemeral" /\ req[c].kind # "tag" /\ req[c].digest \in Digests
  BY DEF IInv, TypeOK, FindEphemeral, ReqOK
<1>2. ASSUME NEW res \in {"blob", "manifest", "BlobUnknown"}, NEW bytes \in Bytes,
             res = "manifest" => bytes = "good", Answer(c, res, bytes)
      PROVE  IInv'
  <2> DEFINE r == [req[c] EXCEPT !.pc = "done", !.res = res, !.bytes = bytes]
  <2>1. r \in Request
    BY <1>1, Members DEF Request
  <2>2. ReqOK(r, blobs["persistent"])
    BY <1>1, <1>2 DEF ReqOK, Request, TagPoints, Promised
  <2> QED BY <1>2, <2>1, <2>2, HandlerStep DEF FindEphemeral, Answer
<1>3. blobs["ephemeral"][req[c].digest] \in Bytes
  BY <1>1 DEF IInv, TypeOK, Stores
<1>4. CASE Answer(c, "ManifestUnknown", "none")
  BY <1>1, <1>4, ErrorStep DEF FindEphemeral, IInv, TypeOK, IndexOK
<1> QED
  BY <1>2, <1>3, <1>4, Members DEF FindEphemeral, Found, Unknown, digest_manifest_response

LEMMA HangUpInv == ASSUME IInv, NEW c \in Clients, HangUp(c) PROVE IInv'
<1> DEFINE t == req[c].tag
           r == Idle(req[c].got, req[c].gotTag)
<1>1. req[c] \in Request /\ ReqOK(req[c], blobs["persistent"])
  BY DEF IInv, TypeOK
<1>2. /\ blobs' \in [Stores -> [Digests -> Bytes]]
      /\ Grows(blobs["persistent"], blobs'["persistent"])
  <2>1. CASE req[c].pc = "store"
    <3>1. PICK ps \in SUBSET (Parts \ req[c].wrote) :
              blobs' \in PutParts(backend(t), req[c].build, ps)
      BY <2>1 DEF HangUp
    <3>2. ps \in SUBSET Parts /\ backend(t) \in Stores /\ req[c].build \in Builds
      BY <1>1, <2>1, <3>1 DEF ReqOK, backend, Stores
    <3> QED BY <3>1, <3>2, PutPartsFacts DEF IInv
  <2>2. CASE UNCHANGED blobs
    BY <2>2 DEF IInv, TypeOK, Grows
  <2> QED BY <2>1, <2>2 DEF HangUp
<1>3. /\ ptr' \in [Stores -> [Tags -> Builds \cup {None}]]
      /\ PointerComplete'
  <2>1. CASE req[c].pc = "commit"
    <3>1. t \in Tags /\ req[c].build \in Builds /\ Held(t, req[c].build, blobs["persistent"])
      BY <1>1, <2>1 DEF ReqOK, TagPoints, Held, Complete
    <3>2. ptr' \in {ptr, [ptr EXCEPT ![backend(t)][t] = req[c].build]}
      BY <2>1 DEF HangUp
    <3> HIDE DEF t
    <3> QED BY <1>2, <3>1, <3>2, PointerWritten DEF IInv
  <2>2. CASE UNCHANGED ptr
    BY <1>2, <2>2, GrowthKeepsPointers DEF IInv, TypeOK
  <2> QED BY <2>1, <2>2 DEF HangUp
<1>4. r \in Request /\ ReqOK(r, blobs["persistent"])
  BY <1>1, IdleOK DEF ReqOK, Request
<1>5. ReqOK(r, blobs'["persistent"])
  BY <1>2, <1>4, ReqOKGrows
<1>6. req' = [req EXCEPT ![c] = r] /\ UNCHANGED index
  BY DEF HangUp
<1> HIDE DEF r
<1> QED BY <1>2, <1>3, <1>4, <1>5, <1>6, RequestStep DEF IInv, TypeOK, IndexOK

\* What happens to the caches and to the bucket while no handler runs.
LEMMA EnvironmentInv == ASSUME IInv, Environment PROVE IInv'
<1>1. ASSUME Restart PROVE IInv'
  <2>1. blobs'["persistent"] = blobs["persistent"] /\ ptr'["persistent"] = ptr["persistent"]
    BY <1>1 DEF Restart, IInv, TypeOK, Stores
  <2>2. ASSUME NEW c \in Clients
        PROVE  req'[c] \in Request /\ ReqOK(req'[c], blobs["persistent"])
    <3>1. req[c] \in Request /\ ReqOK(req[c], blobs["persistent"])
      BY DEF IInv, TypeOK
    <3>2. req'[c] = Idle(req[c].got, req[c].gotTag)
      BY <1>1 DEF Restart
    <3> QED BY <3>1, <3>2, IdleOK DEF ReqOK, Request
  <2>3. TypeOK'
    <3>1. index' \in [Prefixes -> IndexText]
      BY <1>1, Members DEF Restart, NoIndex, IndexText
    <3>2. req' \in [Clients -> Request]
      BY <1>1, <2>2 DEF Restart
    <3>3. blobs' \in [Stores -> [Digests -> Bytes]]
      BY <1>1, Members DEF Restart, IInv, TypeOK, Stores
    <3>4. ptr' \in [Stores -> [Tags -> Builds \cup {None}]]
      BY <1>1 DEF Restart, IInv, TypeOK, Stores
    <3> QED BY <3>1, <3>2, <3>3, <3>4 DEF TypeOK
  <2>4. IndexOK'
    BY <1>1 DEF Restart, IndexOK, NoIndex
  <2> QED BY <2>1, <2>2, <2>3, <2>4 DEF IInv, PointerComplete, Complete
<1>2. ASSUME blobs' \in [Stores -> [Digests -> Bytes]],
             Grows(blobs["persistent"], blobs'["persistent"]),
             ptr' \in [Stores -> [Tags -> Builds \cup {None}]],
             \A t \in Tags : ptr'["persistent"][t] \in {None, ptr["persistent"][t]},
             index' \in [Prefixes -> IndexText], IndexOK', UNCHANGED req
      PROVE  IInv'
  <2>1. PointerComplete'
    <3> SUFFICES ASSUME NEW t \in Tags, ptr'["persistent"][t] # None
                 PROVE  Complete(blobs'["persistent"], ptr'["persistent"][t])
      BY DEF PointerComplete, Complete
    <3>1. ptr'["persistent"][t] = ptr["persistent"][t] /\ ptr["persistent"][t] \in Builds
      BY <1>2 DEF IInv, TypeOK, Stores
    <3> QED BY <1>2, <3>1, CompleteGrows DEF IInv, PointerComplete
  <2>2. ASSUME NEW c \in Clients PROVE ReqOK(req'[c], blobs'["persistent"])
    BY <1>2, ReqOKGrows DEF IInv, TypeOK
  <2> QED BY <1>2, <2>1, <2>2 DEF IInv, TypeOK
<1>3. ASSUME NEW d \in Digests, EvictBlob(d) PROVE IInv'
  <2>1. /\ blobs' \in [Stores -> [Digests -> Bytes]]
        /\ blobs'["persistent"] = blobs["persistent"]
    <3>1. [blobs["ephemeral"] EXCEPT ![d] = "none"] \in [Digests -> Bytes]
      BY Members DEF IInv, TypeOK, Stores
    <3> QED BY <1>3, <3>1 DEF EvictBlob, IInv, TypeOK, Stores
  <2> QED BY <1>2, <1>3, <2>1 DEF EvictBlob, IInv, TypeOK, Grows, IndexOK
<1>4. ASSUME NEW d \in Digests, Damage(d) PROVE IInv'
  <2>1. /\ blobs' \in [Stores -> [Digests -> Bytes]]
        /\ Grows(blobs["persistent"], blobs'["persistent"])
    <3>1. [blobs["persistent"] EXCEPT ![d] = "bad"] \in [Digests -> Bytes]
      BY Members DEF IInv, TypeOK, Stores
    <3> QED BY <1>4, <3>1 DEF Damage, IInv, TypeOK, Stores, Grows
  <2> QED BY <1>2, <1>4, <2>1 DEF Damage, IInv, TypeOK, IndexOK
<1>5. ASSUME NEW t \in Tags, EvictPointer(t) \/ DamagePointer(t) PROVE IInv'
  <2>1. PICK s \in Stores : ptr' = [ptr EXCEPT ![s][t] = None]
    BY <1>5 DEF EvictPointer, DamagePointer, Stores
  <2>2. [ptr[s] EXCEPT ![t] = None] \in [Tags -> Builds \cup {None}]
    BY DEF IInv, TypeOK
  <2>3. ptr' \in [Stores -> [Tags -> Builds \cup {None}]]
    BY <2>1, <2>2 DEF IInv, TypeOK
  <2>4. \A u \in Tags : ptr'["persistent"][u] \in {None, ptr["persistent"][u]}
    BY <2>1 DEF IInv, TypeOK, Stores
  <2> QED
    BY <1>2, <1>5, <2>3, <2>4 DEF EvictPointer, DamagePointer, IInv, TypeOK, Grows, IndexOK
<1>6. ASSUME NEW k \in Prefixes, ExpireIndex(k) PROVE IInv'
  <2>1. index' \in [Prefixes -> IndexText] /\ IndexOK'
    <3>1. NoIndex \in IndexText
      BY Members DEF NoIndex, IndexText
    <3>2. NoIndex.kind = "none"
      BY DEF NoIndex
    <3> QED BY <1>6, <3>1, <3>2 DEF ExpireIndex, IInv, TypeOK, IndexOK
  <2> QED BY <1>2, <1>6, <2>1 DEF ExpireIndex, IInv, TypeOK, Grows
<1> QED BY <1>1, <1>3, <1>4, <1>5, <1>6 DEF Environment

-----------------------------------------------------------------------------
LEMMA InitInv == Init => IInv
<1> SUFFICES ASSUME Init PROVE IInv OBVIOUS
<1>1. Idle(None, None) \in Request /\ ReqOK(Idle(None, None), blobs["persistent"])
  BY IdleOK
<1>2. TypeOK
  <2>1. NoIndex \in IndexText
    BY Members DEF NoIndex, IndexText
  <2> QED BY <1>1, <2>1, Members DEF Init, TypeOK
<1>3. PointerComplete /\ IndexOK
  BY DEF Init, PointerComplete, IndexOK, NoIndex, Stores
<1> QED BY <1>1, <1>2, <1>3 DEF IInv, Init

LEMMA NextInv == IInv /\ [Next]_vars => IInv'
<1> SUFFICES ASSUME IInv, [Next]_vars PROVE IInv'
  OBVIOUS
<1>1. CASE UNCHANGED vars
  BY <1>1 DEF vars, IInv, TypeOK, PointerComplete, Complete, IndexOK, ReqOK, Held, Promised
<1>2. CASE Environment
  BY <1>2, EnvironmentInv
<1>3. ASSUME NEW c \in Clients, NEW t \in Tags, AskTag(c, t) PROVE IInv'
  BY <1>3, AskInv, Members DEF AskTag
<1>4. ASSUME NEW c \in Clients, NEW d \in Digests, AskDigest(c, d) \/ AskBlob(c, d)
      PROVE  IInv'
  BY <1>4, AskInv, Members DEF AskDigest, AskBlob
<1>5. ASSUME NEW c \in Clients, Handle(c) PROVE IInv'
  BY <1>5, ReadPointerInv, ReadTagManifestInv, LookupIndexInv, FetchIndexInv,
     DownloadInv, StorePartInv, StoreFailsInv, CommitInv, FindPersistentInv,
     FindEphemeralInv DEF Handle
<1>6. ASSUME NEW c \in Clients, Receive(c) \/ HangUp(c) PROVE IInv'
  BY <1>6, ReceiveInv, HangUpInv
<1> QED BY <1>1, <1>2, <1>3, <1>4, <1>5, <1>6 DEF Next

LEMMA Invariance == Spec => []IInv
  BY InitInv, NextInv, PTL DEF Spec

\* The handlers keep their state well-formed.
THEOREM TypeCorrect == Spec => []TypeOK
<1>1. IInv => TypeOK BY DEF IInv
<1> QED BY <1>1, Invariance, PTL

\* Whatever fails, hangs up or restarts, a tag pointer in persistent storage
\* names a chart whose three blobs are stored.
THEOREM PointersAreComplete == Spec => []PointerComplete
<1>1. IInv => PointerComplete BY DEF IInv
<1> QED BY <1>1, Invariance, PTL

\* No client is sent to a blob of a stored chart that the registry then does
\* not know.
THEOREM PulledBlobsAreKnown == Spec => []PulledBlobsKnown
<1>1. IInv => PulledBlobsKnown BY DEF IInv, PulledBlobsKnown, ReqOK
<1> QED BY <1>1, Invariance, PTL

\* No manifest is served with bytes other than its digest's.
THEOREM ManifestsAreVerified == Spec => []ServedManifestsVerified
<1>1. IInv => ServedManifestsVerified BY DEF IInv, ServedManifestsVerified, ReqOK
<1> QED BY <1>1, Invariance, PTL

\* A storage outage is answered as such.
THEOREM OutagesSurface == Spec => []OutageSurfaces
<1>1. IInv => OutageSurfaces BY DEF IInv, OutageSurfaces, ReqOK
<1> QED BY <1>1, Invariance, PTL

\* Host-path requests never act on an index the trusted client fetched.
THEOREM IndexPolicyIsHeld == Spec => []IndexPolicyHeld
<1>1. IInv => IndexPolicyHeld BY DEF IInv, IndexPolicyHeld, ReqOK
<1> QED BY <1>1, Invariance, PTL
=============================================================================
