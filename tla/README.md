# helmoci: verification project

helmoci is an OCI registry front end for Helm charts.  `helm pull oci://...`
reaches it; it answers from a classic Helm repository (an `index.yaml` and
`.tgz` archives, which it repackages as OCI charts) or from another OCI
registry (passthrough), and keeps what it served in an object store or in
memory.  This directory models the parts of it that hold state or talk to
somebody, model-checks them with TLC on small instances, and proves their safety
properties with TLAPS for every instance.

## 1. Inventory

| Component | Source | State | Operations | Model |
|---|---|---|---|---|
| Object storage backend | `crates/helmoci-storage/src/objstore.rs` | objects and tag pointers in a bucket that replicas share | `get_blob`, `head_blob`, `put_blob` (a protocol of up to eight requests), `get_tag_pointer`, `put_tag_pointer` | `ObjectStore`, against `ContentStore` |
| Ephemeral storage | `crates/helmoci-storage/src/ephemeral.rs` | blobs and pointers in a moka cache with a byte bound and a TTL | the same trait; entries go one at a time | the ephemeral store of `ClassicPull` |
| Classic proxy | `bins/helmoci/src/classic.rs`, `helm/index.rs` | index cache; the two stores | `manifest` by tag and by digest, `blob`, `tags` | `ClassicPull`; `tags`: `TagPages` |
| OCI passthrough | `bins/helmoci/src/passthrough.rs`, `respond.rs` | the object store | `manifest`, `blob`, `tags` | `OciPull`; bodies chunk by chunk: `BlobStream`; `tags`: `TagPages`, `TagLinks` |
| Upstream HTTP | `bins/helmoci/src/upstream.rs` | none beyond the call | `send` with its redirects, `read_bounded`, `read_response` | `UpstreamSend`, `BlobStream` |
| Token dance | `passthrough.rs` `send_upstream`, `fetch_token`; `state.rs` | the token cache | look up, try, fetch, insert, retry | `TokenFlow`; where token requests go: `UpstreamSend` |
| Routing and name resolution | `routes.rs`, `resolver/`, `oci/route.rs` | none | proxy host, route, name to target | `Names`, `Gateway` |
| Configuration and process start | `config.rs`, `main.rs` | the file, the aliases, the dependency map, the GCP provider | expansion, `validate`, `build_storage`, start-up | `Gateway` |
| Pull authentication | `auth.rs` | none | `require_pull_auth` on every request | `Gateway` |
| Chart archive, rewriting, OCI build | `helm/tgz.rs`, `helm/rewrite.rs`, `helm/chart.rs`, `oci/build.rs` | none beyond the call | unpack with limits, rewrite, pack, config blob | `ChartBuild`; the three digests of the result: `ClassicPull` |
| Error mapping | `error.rs` | none | `AppError` | the responses of the handlers |
| DNS filter, GCP credentials, metrics, logging | `state.rs`, `gcp.rs`, `metrics.rs` | none the handlers read | | not modelled (section 7) |

How they interact: `routes.rs` resolves a name to an alias or a host path and
calls a handler of `classic.rs` or `passthrough.rs`.  Handlers read and write one
of two `Storage` backends: `store: true` aliases and host paths use the bucket,
`store: false` aliases use memory (classic) or nothing (passthrough).  They ask
upstreams through `upstream::send`; passthrough goes through `send_upstream`,
which adds the bearer-token dance.  All handlers of a process share the index
cache, the token cache and the ephemeral store; all replicas share the bucket.
Blobs are addressed by digest in one namespace, whichever alias stored them.

What is hard:

* **Check-then-act against a shared bucket.**  `put_blob` probes, creates, probes
  again and may write unconditionally; on backends without conditional create
  nothing makes this atomic.
* **Handlers are dropped at any await** when a client hangs up, and `try_join!`
  drops sibling writes when one fails; writes already sent may still land.
* **Three blobs and a pointer** are four independent writes.
* **Caches that lose entries one at a time** (ephemeral blobs, indexes, tokens).
* **Storage is not trusted to hold what was put there**, upstreams are not
  trusted to send what was asked for, and their redirects, chart URLs and realms
  are not trusted at all.
* **Failures that look alike:** a missing object and an outage, a missing
  capability and a lost reply, an expired token and a refused one.
* **Limits and digests are checked while bytes flow**, in chunks whose sizes the
  other side chooses; what has been sent cannot be taken back.
* **A tag list is read over several requests**, from an index that changes between
  them or through links that an upstream wrote.
* **Archives describe themselves** with entries that rename and resize the next one,
  and are unpacked twice, before and after rewriting.
* **One name space** for aliases, host paths and the words of the routes; rewritten
  dependencies come back through it.
* **Checked once, relied on for ever:** secrets, credentials and anonymous access are
  judged when the configuration is loaded.

`PROJECT.json` lists these as hazards, each at its line, with the properties
that would catch it going wrong.

What makes each component correct:

* storage: success means stored, good bytes stay, an object that is seen is not
  overwritten, calls end, and where the backend allows it the whole is an atomic
  write-if-absent;
* classic: a pointer never precedes its blobs, a manifest that was served leads
  to blobs that are served, outages are not hidden, nothing unverified leaves,
  requests of different trust do not mix;
* passthrough: only verified bytes are stored or served as complete, a pointer
  resolves, media types are true, `Accept` is honoured, what is cached is served;
* upstream: credentials and trust stay with the origin that was named, HTTPS is
  not left, calls end;
* tokens: a retry is fresh, a cached token is live, tokens are not shared, there
  is one retry;
* bodies: a corrupt body ends short of what it promised, no byte is lost or
  repeated, limits are exact, and what fits is written through;
* tag lists: what stays published is listed, once, and a link leads where the
  upstream's leads;
* charts: limits and names are those of a plain reading of the archive, and the layer
  is the download with its dependencies rewritten in step;
* the gateway: what the configuration was checked for holds of every request that
  reaches a handler, and a name means the same on every route.

## 2. The modules and the code

Each module has one action per await of the code it models: between two actions
anything that another task, replica, client or upstream can do may happen.
`PROJECT.json` maps every definition to its lines.

**`ContentStore`** is the contract that `Storage::put_blob` documents: a call is
pending until one atomic step writes the object if there is none and ends the
call, or fails.  It is an abstract specification, refined by the next module.

**`ObjectStore`** is `put_blob` of `objstore.rs`.  `obj` is the bucket, `op[w]` the
call that task `w` is in.  `Begin` enters it; `Probe` is `already_stored`, called
before the conditional ladder and again before the unconditional one; `Put` is one
`put_once` on a rung of `put_rungs`, with the answer of the backend
(`PutAnswers`: success, `AlreadyExists`, a missing capability, a denial, a generic
error, or a write that was applied and whose reply was lost); `Return` hands the
result over.  The constants say what the backend can do (`AttrRung`: the first
attribute rung it accepts; `CreateMode`: how it answers `PutMode::Create`) and
which faults occur.  Bytes are `good`, `bad` or `none`: put_blob is only ever called
with verified bytes, so that it writes `good`; a bucket may start out damaged.
`conflict` is a history field: the failed create met an object.

**`ClassicPull`** is the pull path of `classic.rs` over both stores.  A tag request
goes `ReadPointer`, `ReadTagManifest` (`cached_tag_manifest`), and on a miss
`LookupIndex`, `FetchIndex` (`fetch_index_text_with_source`), `Download`
(`download_chart` and the build), three `StorePart`s in any order (`try_join!`) and
`Commit` (`put_tag_pointer` and the answer).  Requests by digest go
`FindPersistent`, `FindEphemeral` (`find_blob`).  `StoreFails` is a put that fails,
with any subset of the others applied.  Around them: `HangUp`, `Restart`,
`EvictBlob`, `EvictPointer`, `ExpireIndex`, `Damage`, `DamagePointer`.  A chart is a
member of `Builds` with three digests; builds may share parts, as two packagings
of one `Chart.yaml` share a config.  Its `put_blob` is what `ObjectStore` shows of the real
one: on a backend without conditional create (the fault `Overwrite`) a put may replace an
object that it did not see, here a damaged one.  An index is a text that is garbage or lists
tags, and remembers which client fetched it.

**`UpstreamSend`** is `upstream::send` and the ways its callers start it
(`OpenIndex`, `OpenChart`, `OpenRegistry`, `OpenToken`).  A URL is a scheme, an
authority and whether it has userinfo, which is all that `redirect_target`,
`validate_public_https` and `build_token_request` look at.  `sent` is a history of
every request that went out, with its client and whether it carried
credentials.

**`TokenFlow`** is `send_upstream` with `fetch_token`, and the cache of
`CachedToken`s with `token_ttl` and `live`.  `Tick` lets time pass between any two
steps; `issuedAt`, `until` and `seen` are histories: when the endpoint minted a
token, when the registry stops taking it, how many tokens there were at the 401.

**`OciPull`** is the manifest and blob handlers of `passthrough.rs`.  `Kind` says
what the bytes behind a digest are, `Typed` which manifests have a `mediaType`
field, `Large` and `Oversized` which bodies exceed the buffering and the cache
limit, `Attributes` whether the backend keeps content types.  `tagged` is the
upstream's view of a tag, one manifest per representation, which `Retag` moves at any
time.  Reads are `ReadPointer`, `ReadManifest`, `ReadBlob` (buffered or streamed);
upstream answers are `FetchManifest` and `FetchBlob` with the right or other bytes,
with or without a Content-Type; writes are `PutBlob` and `Commit`.  With the fault
`Overwrite` a put may replace an object together with its content type.
`normalized_manifest_media_type`, `manifest_media_type` and
`inferred_cached_manifest_media_type` are operators of their source names.

**`BlobStream`** opens the steps that `OciPull` takes at once.  A body is its length
and whether it hashes to the digest; a byte is its position.  The source hands out
the next chunk of any non-empty size, ends or fails.  `ReadDocument` starts the
bounded reads of `upstream.rs`, `CachedBlob` reads of the store (buffered, or through
`verified_cached_blob`, which holds one chunk back), `Fetch` an upstream body, which
`read_upstream_blob` buffers up to the cache limit and otherwise splits into the
buffer (`SendPrefix`), the rest of the chunk (`SendTail`) and the rest of the stream.
That chunks are not empty is an assumption about the backends: with an empty last
chunk a corrupt body would have been sent in full before its digest is known.

**`TagLinks`** has the operators that read and rewrite the `Link` header of an
upstream's tag list, under their source names: `parse_link_field`, `is_next_link`,
`select_next_link`, `is_strict_tag_link_reference`, `resolved_tag_link_url`,
`rewrite_tag_links`.  What returns an `Option` in the code is a set of at most one value
here.  References are taken apart and resolved as in RFC 3986.

**`TagPages`** is a client that walks a tag list.  `ClassicPage` is `classic::tags` over
the index of the moment, `OciPage` is `passthrough::tags` over a page of a registry and
one of the headers of `Headers`; `Change` publishes or withdraws a version between any
two pages.  Tags are numbers in the order of their versions; `index.yaml` lists the
newest first, as `list_versions` says of well-formed indexes, and may go on with `Extra`
entries: versions once more, or none at all.  `listed`, `repeated`, `always`, `restarted`,
`dropped`, `strayed` and `misled` are histories: what the client was given, once or twice,
what was there at every page, whether a page started over, and whether a header was not
plain, its link led to another page than the next, or the proxy changed where it leads.

**`Names`** has the operators of `resolver/mod.rs`, `resolver/hostname.rs`,
`oci/route.rs` and `rewrite_dependency_url`, under their source names.  A path is a
sequence of segments, a segment a sequence of labels, and a label is known by the class
of its characters.

**`Gateway`** is the way from the start of the process to a handler: `Load`
(`load_config` with expansion and `validate`, one operator per rule), `BuildStorage`,
`Listen`, and for each request `Arrive`, `require_pull_auth`, `Dispatch` (`build_router`,
`oci_dispatch`, the three entries) and `Respond`.  A text of the configuration is a
sequence of characters and references to variables (braced, bare, with a default,
escaped); `env` says which variables are set.

**`ChartBuild`** is `build_helm_oci_chart_with_limits`: the download is unpacked entry
by entry (`ReadNew`, `EndOfArchive`), rewritten and packed (`RewriteAndPack`) or left
(`Unmodified`), unpacked again (`ReadAgain`) and turned into a config (`Configure`).  An
entry has a tar type, a size, a name and, for metadata, what it says of the next
member; a YAML file is whether it is a mapping and its dependency list; the sizes of
re-encoded files are free.

The `MC*` modules give constants their values.  `*_proofs` modules hold theorems.
Operators named after another one with a suffix (`Probe_skipped` next to `Probe`) are
plausible mistakes, kept to show that each property notices one (the `mutants` of
`PROJECT.json`).

## 3. Runs

| Run | Checks | Shows |
|---|---|---|
| `put_atomic` | `RefinesContentStore` | with conditional create, under HEAD outages and denials, `put_blob` implements `ContentStore` |
| `put_fallback` | `SuccessMeansStored`, `WritesAreTheCallers`, `PutEnds` | without conditional create, under every fault, the fallback is still safe in what matters, does what the handlers take it to do, and ends |
| `classic_persistent` | `PointerComplete`, `PulledBlobsKnown`, `OutageSurfaces`, `Answered` | two clients and a chart that changes upstream, storage failures, hang-ups, restarts |
| `classic_shared` | `ServedManifestsVerified`, `IndexPolicyHeld` | an alias in memory and a host path in the bucket, all faults, damage and replaced objects included |
| `upstream_send` | `CredentialsStayHome`, `PrivateOnlyAsNamed`, `TrustNeverReturns`, `SendEnds` | every caller, every chain of redirects up to the real limit |
| `token_flow` | `RetryIsFresher`, `TokensNotShared`, `LiveIsUnexpired` | two requests, two repositories, one cache, time passing anywhere |
| `oci_store` | `OnlyVerifiedStored`, `ServedVerified` | manifests, cached blobs and blobs too long to cache, all faults |
| `oci_types` | `PointerResolves`, `MediaTypeTruthful`, `AcceptHonoured`, `CachedImageServed` | an image and an index behind one moving tag, through all routes |
| `blob_stream` | `CorruptEndsShort`, `BodyInOrder`, `LimitExact`, `WriteThrough` | every reader of a body, every way to cut it into chunks, failure anywhere |
| `tag_pages` | `TypeOK`, `WalkComplete`, `LinkMeansTheSame`, `WalkEnds` | walks over both kinds of tag list while versions come and go, with every kind of `Link` header |
| `gateway` | `PullsAreAuthorized`, `PrivateNotRepublished`, `NoLiteralSecrets`, `HostPathsArePublic`, `OneNameOneTarget`, `DependencyComesBack` | every file of a family, every environment, every kind of request |
| `chart_build` | `NamesResolved`, `LimitsExact`, `LayerIsRewritten` | every archive of up to five entries against a reading that looks at the whole archive |

The type invariants of the modules that have proofs are theorems (section 4).  So are
`ObservedNotClobbered`, `GoodBytesStay`, `NoDowngrade` and `ProviderIsThere`, which no run
repeats.

Some properties name an exception, which is what the code does:

* `WalkComplete`: a client that asks for pages of no tags (`n=0`) gets no link; a header
  that is not one plain link to the next page may be dropped, and the walk then ends
  early; a `last` that was withdrawn makes the classic list start over, and tags are
  given again, as they are when the registry's own link leads back.
* `NoLiteralSecrets`: a bare `$V` directly followed by the value of another reference is
  taken for a longer variable name and passes `reject_unexpanded_secret`.
* `OneNameOneTarget`: a repository whose path contains `manifests` or `blobs` behind its
  first segment is reached by one route and split elsewhere by another; only the tags route
  takes the slashes off the end of the name that the answer gives back.
* `LiveIsUnexpired`: a lifetime shorter than margin and minimum is cached for the minimum.

### Divergences from the documentation

Met while modelling; the models contain what the code does.

1. `Storage::put_blob` is documented as "silently a no-op if the digest already
   exists".  On a backend without conditional create two tasks can both pass the
   second probe before either writes; the later write replaces the object and its
   content type (same bytes).  The handlers are modelled, and proved, with and without it.  This is why the refinement assumes `CleanBackend`.
2. The ephemeral store's documentation gives a single replica as what avoids a
   manifest hit followed by BLOB_UNKNOWN.  Entries are evicted one by one, and
   `cached_tag_manifest` looks only at the pointer and the manifest.  `PulledBlobsKnown`
   is therefore about the persistent store.
3. `CachedToken::new` says that measuring from `issued_at` "could only lengthen"
   the deadline.  It could only shorten it; `LiveIsUnexpired` depends on the margin
   covering the flight of the response.
4. A `mediaType`-less index pulled by digest through a backend without attributes
   is answered with 200 the first time and with MANIFEST_UNKNOWN ever after,
   although a test and a comment say such manifests must still be served.
   `CachedImageServed` excepts it.

### Bounds, and why they are enough

* `ObjectStore`: one digest (calls for different digests touch different keys and
  share nothing), two writers (the races are between a probe and one other write),
  two content types (so that a replaced one shows), all three rungs.  The first
  accepted rung is 2 or 3, so that the ladder is climbed.
* `ClassicPull`: two clients and two builds of one tag that share their config, so
  that a pointer may be overwritten while the other build is half stored; or one
  client and two tags over different stores and trust, which meet in the caches that
  outlive a request.  No counter is bounded: the state spaces are finite as they
  are.
* `UpstreamSend`: `MaxRedirects = 5`, the constant of the code; two public
  authorities and a private one, so that chains leave home, pass a third origin and
  return.
* `TokenFlow`: `MaxTime` bounds the clock, `MaxTokens` the tokens issued, `MaxFlight`
  how long a token response travels.  The lifetimes of the code (30 s margin, 60 s
  minimum, 3600 s maximum, 240 s default) are scaled to 1, 1, 3 and 2, which keeps their
  order in every comparison `token_ttl` makes except margin against minimum; the
  advertised lifetimes are one that the minimum replaces and the least one it does
  not.  Two tokens are enough for one to be stale when the other is used, three ticks
  for a token to be issued, travel and expire.
* `OciPull`: two clients, one tag; `oci_store` has a manifest, a blob over the
  buffering limit that is cached and one over the cache limit; `oci_types` has two
  manifests whose type only a header can tell.
* `BlobStream`: bodies of 0 to 6 bytes; limits of 1 (buffered from the store), 2
  (bounded reads) and 3 (cache), so that every limit is met exactly, missed by one and
  passed in the middle of a chunk.  The proofs cover all lengths and limits.
* `TagPages`: four tags, pages of 0, 1 and 3, a registry that gives at most `PageCap = 2`,
  `MaxChanges = 2`: a tag of a page already seen and one still to come can both change.
  The entries after the versions are a repetition and one without a version.  The headers
  are no link, several, and one link in each form of reference, safe or not, to the next
  page, to the first page or to another list.  The proofs cover all tags, sizes, entries
  and headers.
* `Gateway`: a file that is accepted, and files that differ from it in what one rule of
  `validate` looks at, or in aliases, authentication and the override together; two
  variables, set or not; names of each shape on each route.  Its properties are proved for
  all files and requests.
* `ChartBuild`: `MaxEntries = 5` entries of 18 kinds (a global pax header with a path among
  them, which must not rename anything): two metadata entries, the member they
  describe and two more; limits of 3 bytes a file, 5 in all and 4 entries, so that each
  is met exactly and passed, and a rewritten archive can pass one that the download met.
  The proofs cover all archives and limits.

### Fairness

Liveness is checked under weak fairness of a task's own steps only: `Step(w)`
of `put_blob`, `Handle(c)` of the classic handlers, `Loop` of `send`.  The code
justifies it: tasks are polled by the tokio runtime, and
every request to an upstream or a bucket ends, since the HTTP clients have
timeouts.  Nothing is assumed about clients (who may never ask or read), about
eviction, expiry, damage, restarts or time, nor that anything succeeds.  Hang-ups
and restarts end a request without an answer; `Answered` counts them as its end.
`WalkEnds` is about a client that follows links for as long as it is given one, which
its fairness says; that the repository changes only `MaxChanges` times stands for a
repository that comes to rest.  A registry whose own links lead in a circle keeps such a
client walking for ever, with or without the proxy, so that `WalkEnds` is about the others.

`ObjectStore`, `ClassicPull`, `OciPull` and `TokenFlow` never deadlock, and TLC
checks that; the end of one call, body, walk or build in `UpstreamSend`, `BlobStream`,
`TagPages` and `ChartBuild`, and a refused start in `Gateway`, is a stuttering step
(`Done`, `Refused`).

## 4. Proofs

The theorems hold for every value of the constants that satisfies the named
assumptions in the modules (`BackendAssumption`, `ClassicAssumption`,
`UpstreamAssumption`, `OciAssumption`, `TokenAssumption`, `LengthsAreNat`, `LimitsAreNat`,
`ClassAssumption`, `NoneAssumption`, `ConfigAssumption`, `PathsAssumption`,
`EntriesAssumption`, `RewriteOnce`, `TargetAssumption`, `TagsAssumption`, `PagesAssumption`,
`HeadersAssumption`): any number of writers, clients, tags, digests, hosts, path segments,
archive entries and links, every backend capability, every set of faults.  TLC evaluates
the assumptions in every run.  Each theorem `Spec => []P` follows from an inductive
invariant `IInv` of its module: `InitInv`, `NextInv` with one step per action, and
`IInv => P`.

* `ObjectStore_proofs`: `TypeCorrect`, `SuccessIsStored`, `ObservedIsKept`,
  `GoodBytesAreKept`, `WritesAreAsCalled`, `NothingIsReplaced`, `ImplementsContentStore`.
  `ObservedNotClobbered` is not inductive:
  that a call reaches the unconditional write says nothing about what its create
  met before the second probe.  `ConflictMeansStored` adds it: what the create met is
  still there, because no step removes an object (`StepKeepsObjects`).
  `FallbackUnused` is what the refinement needs: on a clean backend no call is on the
  second ladder.  The refinement assumes `CleanBackend` (conditional create, and none of
  the transport errors that `conditional_create_unsupported` takes for a missing
  capability); it is false without (divergence 1).  What holds on every backend is
  `WritesAreAsCalled`: a step leaves at a digest what was there or the bytes and the content
  type of a call for it, and replaces only what that call did not see.  It needs `RungOK`: the
  ladder that writes starts again from the first rung, so that the type is not lost to rungs
  climbed in vain by the creates.  This is the one-step `put_blob` that `ClassicPull` and
  `OciPull` are built on, with their fault `Overwrite`; `NothingIsReplaced` says where they
  may do without it.
* `ClassicPull_proofs`: `TypeCorrect`, `PointersAreComplete`, `PulledBlobsAreKnown`,
  `ManifestsAreVerified`, `OutagesSurface`, `IndexPolicyIsHeld`.  The strengthening,
  `ReqOK`, says what a handler may rely on at each await: the parts it has written
  are stored, at the commit all of them are, a chart read from a pointer is held, and
  what a client was told is held (`Held`) for as long as it remembers it.  It is stable
  because the bucket only grows (`Grows`).  `IndexOK` says that each prefix of the
  index cache holds texts of one client only.
* `Upstream_proofs` has the theorems of `UpstreamSend` and of `TokenFlow`, the two halves of a
  request to an upstream.  Of `send`: `SendTypeCorrect`, which bounds the redirects followed,
  `CredentialsAreKept`, `PrivateIsAsNamed`, `TrustIsNotRegained`, `HttpsIsKept`.  `CallOK` ties
  the request about to be sent to the named target: with trust or credentials, it is of the
  same origin.  Of the token dance: `TypeCorrect`, `RetriesAreFresher`, `TokensAreNotShared`,
  `LiveTokensAreUnexpired`.  `CacheOK` says that the token under a key is for the
  repository of the key, since one key has one scope, and `InTime`: its deadline is
  within the lifetime it was given, if the flight fits the margin.  `ReqOK` carries both,
  and the serial number at the 401, from the response to the retry.
* `OciPull_proofs`: `TypeCorrect`, `PointersResolve`, `OnlyVerifiedIsStored`,
  `ServedIsVerified`, `MediaTypesAreTruthful`, `AcceptIsHonoured`, `CachedImagesAreServed`.
  `StoreOK` says that recorded manifest types fit the bytes, `PtrOK` the same of
  pointers and that they resolve, `CommitOK` that a request about to write a pointer
  finds its manifest stored, `ReqOK` what a request carries at each await.
* `BlobStream_proofs`: `TypeCorrect`, `CorruptBodiesEndShort`, `BodiesAreInOrder`,
  `LimitsAreExact`, `FittingBlobsAreWrittenThrough`.  `Positions` relates the counters at
  each point (while verifying, `sent + held = got` and something is held as soon as
  something was read; after a spill the buffer is full and the chunk is longer);
  `Undecided` says that nothing is stored or decided before the end.
* `Gateway_proofs`: `TypeCorrect`, `PullsAuthorized`, `PrivateIsNotRepublished`,
  `SecretsAreNotLiteral`, `HostPathsStayPublic`, `ProvidersAreThere`.  `Started` says that a
  server beyond loading has a valid configuration and its aliases, `Serving` that nothing is
  answered before it listens, `Progress` that a request past authentication was
  admitted, `Handled` that a handler's target is what some name resolves to;
  `TargetOfName` then says what a target can be.
  `NamesHaveOneTarget` and `DependenciesComeBack` rest on a second invariant, `NameInv`: a
  handler's answer is that of some path of segments (`Routed`), and the dependency map is
  one of the aliases in use (`Mapped`).  The rest is about paths.  The segments that are not
  empty, `NonEmpty`, distribute over concatenation (`NonEmptyConcat`), so that trimming
  slashes at either end does not change them (`TrimKeeps`) and a name resolves to the same
  target with and without them (`SameSegments`); a name followed by a route's word is split
  at that word (`ManifestRoute`, `BlobRoute`, `TagsRoute`), whatever words are in it, because
  the last one counts; equal keys come from the same host and path (`SameKey`); and no alias
  shadows a host (`AliasIsNoHost`).
* `ChartBuild_proofs`: `NamesAreResolved`, `LimitsAreExact`, `LayersAreRewritten`.  The
  properties compare the reader, which goes entry by entry and carries what metadata said,
  with a reading that looks at the whole archive.  `ReadInv` says that at every moment the
  reader is a `Snapshot` of the first `pos` entries: `files` are their members, `expanded`
  their bytes, and `pending` what the metadata since the last member says (`PendingAt`).
  None of these is inductive without the others: the name of the next member is in
  `pending` only.  `Within` and `Refusal` are the limits.  The reading is stable when the
  archive grows (the `...Prefix` lemmas), `PaxMeaning` says what a run of pax records comes to
  (the last record of each key), and `PackUnpack` that unpacking what `pack_tgz` wrote gives
  the files back, long names included.  `LayerInv` then follows `original` and `modified`
  through the second unpacking.

* `TagPages_proofs`: `TypeCorrect`, `WalksAreComplete`, `LinksMeanTheSame`,
  `WalkKeepsItsPlace`.  `WalkComplete` speaks of the end of a walk and says nothing while it
  goes on; `Ahead` is what makes it inductive: on its side of the tag it continues after, the
  client has everything that stayed, and (unless a page started over) it has nothing beyond
  it.  `WalkKeepsItsPlace` states it.  A change of the repository cannot disturb it, since
  `always` only shrinks.  A page preserves it because it is a cut of a sorted list: a finite
  set of numbers has one ascending enumeration (`CanSort`, `AscendingRule`, by induction on
  the cardinality), the versions of an index are the published ones from the highest whatever
  follows them (`VersionsRule`), what follows `last` in them is what is below it
  (`RestRule`), and the first `n` of a sorted list are everything on one side of the `n`-th
  (`FallsCut`, `ClimbsCut`).
  `LinkMeansTheSame` compares two ways to choose a link: the proxy strings the link-values of
  all fields together and takes the one that is a next link, a client of the registry looks
  for one among all positions of all fields.  `Places` and `PlacesDiffer` say that the
  positions correspond one to one, so that there is one candidate here exactly if there is one
  there (`SelectRule`); `LinkRule` says that a link that passes resolves to the tag list of
  the target with the query the client is given, and `PlainRule` that a plain link passes.

**Recursive functions.**  What `PaxAfter`, `Packed`, `Members`, `Bytes`, `NonEmptyTo`,
`EntriesTo`, `VersionsTo` and `LinksTo` compute is proved for sequences of every length.  The
induction is over sets instead of
predicates: `NatInduct` shows from the well-foundedness of `<` on `Nat` (`WFMin`) that a set
with 0 and with every successor of its members is all of `Nat`; `FoldExists` uses it to show
that a function with the defining equation exists, which gives the `...Unfold` lemmas, and
`UpTo` and `Stays` are the forms the other lemmas use.

Only model-checked: everything under fairness (`PutEnds`, `Answered`, `SendEnds`,
`WalkEnds`), which is out of the prover's reach.  Every invariant and action property that
a run checks is also a theorem.

## 5. Running it

`tlc -config MCObjectStore_fallback.cfg MCObjectStore` checks one run, and likewise
for each cfg; `tlapm ObjectStore_proofs.tla` checks the proofs of one module.  The
longest runs (`classic_persistent`, `oci_types`, `chart_build`) take about a minute.

## 6. Plan

Done, in this order: `ContentStore`, `ObjectStore`, `ClassicPull`, `UpstreamSend`,
`TokenFlow`, `OciPull`; then `BlobStream`, `TagLinks` and `TagPages`, `Names` and
`Gateway`, `ChartBuild`; with the proofs above, those about archives, names and tag lists last.

Next:

1. `BlobStream` as a refinement of the one-step reads of `OciPull` (`ReadBlob`,
   `FetchBlob`): the outcomes agree, and the mapping would say so.
2. Liveness in the composition: that a handler ends because the `put_blob` it calls does.

## 7. Not modelled, and why

* Classic blob bodies are streamed to the client as stored, which
  `ClassicPull` records (`bytes` of a `blob` response) and promises nothing about;
  `BlobStream` is about the bodies of `passthrough.rs` and `upstream.rs`.
* YAML and JSON beyond what decides a branch: an index is garbage or lists
  entries, a chart file is a mapping or not with its dependencies.  Compression.
* Lengths and letter case of names, percent-encoding (a path decodes or not).
* Pointer damage in `OciPull` (it is in `ClassicPull`); an unreadable pointer is a
  miss in both handlers.
* Byte weights of the ephemeral store: any entry may go at any time.
* The DNS filter: a predicate over addresses; `UpstreamSend` takes the public hosts
  as a parameter, `Names` has the names of hosts.  `gcp.rs`: one library call that
  succeeds or fails; `Gateway` has whether there is a provider.  Metrics, logging, build
  information: no handler reads them.
* Wording and layout of responses beyond what a property distinguishes.
