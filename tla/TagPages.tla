------------------------------ MODULE TagPages ------------------------------
(***************************************************************************)
(* A client walks the tag list of one repository page by page, following   *)
(* the Link of each page, while versions are published and withdrawn       *)
(* between its requests.  A page is classic::tags over the index.yaml of   *)
(* the moment, or passthrough::tags over a page of the upstream registry   *)
(* and its Link header.                                                    *)
(*                                                                         *)
(* Tags are numbers in the order of their versions.  index.yaml lists the  *)
(* newest first ("in well-formed indexes", list_versions); a registry      *)
(* lists in ascending order and cuts pages after the tag named by last.    *)
(***************************************************************************)
EXTENDS TagLinks, Integers, FiniteSets

CONSTANTS
    Tags,       \* every version there may be, numbers
    NoVersion,  \* an entry of index.yaml without a version
    PageSizes,  \* the n a client may ask with
    PageCap,    \* the longest page the registry gives
    Extra,      \* what may follow the versions in index.yaml: sequences of entries
    MaxChanges, \* bound: how often the repository changes during the walk
    Headers(_)  \* the Link headers the registry may send for a next page, given its query

ASSUME TagsAssumption ==
    /\ Tags \subseteq Int /\ IsFiniteSet(Tags)
    /\ None \notin Tags /\ NoVersion \notin Tags
    /\ \A entries \in Extra : entries \in Seq(Tags \cup {NoVersion})

ASSUME PagesAssumption ==
    PageSizes \subseteq Nat /\ PageCap \in Nat \ {0} /\ MaxChanges \in Nat

Queries == [n : PageSizes \cup {PageCap, None}, last : Tags \cup {None}]

\* What the proxy is sent is a list of fields; their queries are ones a client
\* can ask with.
ASSUME HeadersAssumption ==
    \A q \in Queries : \A fields \in Headers(q) :
        /\ fields \in Seq(Range(fields))
        /\ \A i \in DOMAIN fields :
              /\ fields[i].links \in Seq(Range(fields[i].links))
              /\ \A j \in DOMAIN fields[i].links :
                    LET ref == fields[i].links[j].ref
                    IN  ref.query \in Queries /\ ref.fragment \in BOOLEAN

VARIABLES
    kind,      \* "classic" or "oci"
    published, \* the tags of the repository
    again,     \* entries that follow the versions in index.yaml once more
    changes,   \* how often the repository has changed
    query,     \* what the client asks next: [n, last]
    state,     \* "asking", "done" or "failed"
    listed,    \* tags the client was given
    repeated,  \* it was given one of them twice
    always,    \* tags that were there at every page
    restarted, \* a page started over because its last was withdrawn
    dropped,   \* a header was sent that is not one plain link to the next page
    strayed,   \* the client was given a link to another page than the next
    misled     \* a link was rewritten into one that leads elsewhere

walk == <<kind, again, query, state, listed, repeated, always, restarted, dropped, strayed,
          misled>>
vars == <<walk, published, changes>>

TypeOK ==
    /\ kind \in {"classic", "oci"}
    /\ published \subseteq Tags
    /\ again \in Seq(Tags \cup {NoVersion})
    /\ changes \in 0 .. MaxChanges
    /\ query \in Queries
    /\ state \in {"asking", "done", "failed"}
    /\ listed \subseteq Tags
    /\ always \subseteq Tags
    /\ {repeated, restarted, dropped, strayed, misled} \subseteq BOOLEAN

Init ==
    /\ kind \in {"classic", "oci"}
    /\ published \in SUBSET Tags
    /\ again \in IF kind = "oci" THEN {<<>>} ELSE Extra
    /\ changes = 0
    /\ query \in [n : PageSizes \cup {None}, last : {None}]
    /\ state = "asking"
    /\ listed = {} /\ always = Tags
    /\ repeated = FALSE /\ restarted = FALSE
    /\ dropped = FALSE /\ strayed = FALSE /\ misled = FALSE

-----------------------------------------------------------------------------
\* The tags of a set from the lowest, and from the highest.
Ascending(S) ==
    CHOOSE s \in [1 .. Cardinality(S) -> S] :
        Range(s) = S /\ \A i, j \in DOMAIN s : i < j => s[i] < s[j]

Descending(S) == LET s == Ascending(S) IN [i \in DOMAIN s |-> s[Len(s) + 1 - i]]

\* The entries of the chart in index.yaml, newest first; some come twice and
\* some have no version.
WithExtra(entries, entry) ==
    IF entry \in published \cup {NoVersion} THEN Append(entries, entry) ELSE entries

EntriesTo ==
    LET upto[n \in 0 .. Len(again)] ==
            IF n = 0 THEN Descending(published) ELSE WithExtra(upto[n - 1], again[n])
    IN  upto

Entries == EntriesTo[Len(again)]

\* Entries without a version are listed too.
WithVersion_any(versions, entry) ==
    IF entry \in Range(versions) THEN versions ELSE Append(versions, entry)

\* list_versions: the first entry of each version.
WithVersion(versions, entry) ==
    IF entry = NoVersion \/ entry \in Range(versions) THEN versions ELSE Append(versions, entry)

VersionsTo(entries) ==
    LET upto[n \in 0 .. Len(entries)] ==
            IF n = 0 THEN <<>> ELSE WithVersion(upto[n - 1], entries[n])
    IN  upto

list_versions(entries) == VersionsTo(entries)[Len(entries)]

\* Where a tag is, 0 if it is not there.
Position(tags, tag) ==
    IF tag \in Range(tags)
    THEN CHOOSE i \in DOMAIN tags : tags[i] = tag /\ \A j \in 1 .. i - 1 : tags[j] # tag
    ELSE 0

\* A last that is not there leaves nothing to list.
AfterLast_strict(tags, last) ==
    IF last = None THEN tags
    ELSE IF Position(tags, last) = 0 THEN <<>>
    ELSE SubSeq(tags, Position(tags, last) + 1, Len(tags))

\* The page starts with last instead of after it.
AfterLast_inclusive(tags, last) ==
    IF Position(tags, last) = 0 THEN tags ELSE SubSeq(tags, Position(tags, last), Len(tags))

\* classic::tags: what follows last, or everything if last is not there.
AfterLast(tags, last) == SubSeq(tags, Position(tags, last) + 1, Len(tags))

\* classic::tags: the first n, with a link after the n-th if there are more.
Page(tags, n) ==
    IF n # None /\ Len(tags) > n
    THEN [tags |-> SubSeq(tags, 1, n),
          next |-> IF n > 0 THEN {[n |-> n, last |-> tags[n]]} ELSE NoLink]
    ELSE [tags |-> tags, next |-> NoLink]

\* The client takes a page and follows its link.
Take(tags, next) ==
    /\ listed' = listed \cup Range(tags)
    /\ repeated' = (repeated \/ Range(tags) \cap listed # {}
                             \/ \E i, j \in DOMAIN tags : i # j /\ tags[i] = tags[j])
    /\ always' = always \cap published
    /\ IF next = NoLink THEN state' = "done" /\ UNCHANGED query
                        ELSE query' \in next /\ UNCHANGED state

ClassicPage ==
    /\ kind = "classic" /\ state = "asking"
    /\ Entries # <<>>
    /\ \E entries \in {Entries} : \E tags \in {list_versions(entries)} :
          /\ \E page \in {Page(AfterLast(tags, query.last), query.n)} : Take(page.tags, page.next)
          /\ restarted' = (restarted \/ (query.last # None /\ query.last \notin Range(tags)))
    /\ UNCHANGED <<kind, again, published, changes, dropped, strayed, misled>>

\* chart_entries: the chart has no entries, and the name is unknown.
ChartUnknown ==
    /\ kind = "classic" /\ state = "asking"
    /\ Entries = <<>>
    /\ state' = "failed"
    /\ UNCHANGED <<kind, again, query, listed, repeated, always, restarted, dropped, strayed,
                   misled, published, changes>>

-----------------------------------------------------------------------------
\* The registry's page: the tags after last, at most n and at most its cap.
UpstreamPage(q) ==
    Page(Ascending({t \in published : q.last = None \/ t > q.last}),
         IF q.n = None \/ q.n > PageCap THEN PageCap ELSE q.n)

\* The URL a client that talks to the registry itself would ask next: the one
\* next link of the header, resolved against the URL it asked.
NextLinks(fields) ==
    {x \in UNION {{i} \X DOMAIN fields[i].links : i \in DOMAIN fields} :
        is_next_link(fields[x[1]].links[x[2]])}

DirectNext(fields) ==
    {Resolve(upstream_url(NoQuery), fields[x[1]].links[x[2]].ref) :
        x \in {x \in NextLinks(fields) : NextLinks(fields) = {x}}}

\* A header whose fields are well formed and whose one next link is a plain
\* reference to the page with query q: not a network-path reference, and
\* nothing that has to be repaired.
Plain(fields, q) ==
    /\ \A i \in DOMAIN fields : parse_link_field(fields[i])
    /\ \A i \in DOMAIN fields : \A j \in DOMAIN fields[i].links :
          LET ref == fields[i].links[j].ref IN ref.safe /\ (ref.host = None <=> ref.scheme = None)
    /\ DirectNext(fields) = {upstream_url(q)}

\* The page has a next one, with query q, and the registry's header for it is
\* rewritten or dropped.
Follow(tags, q, fields) ==
    LET next == rewrite_tag_links(fields)
    IN  /\ Take(tags, next)
        /\ dropped' = (dropped \/ ~Plain(fields, q))
        /\ strayed' = (strayed \/ ~(next \subseteq {q}))
        /\ misled' = (misled \/ \E r \in next : DirectNext(fields) # {upstream_url(r)})

\* passthrough::tags: the query goes upstream as it is, and the page comes back
\* under the proxy's name.
OciPage ==
    /\ kind = "oci" /\ state = "asking"
    /\ \E page \in {UpstreamPage(query)} :
          \/ /\ page.next = NoLink
             /\ Take(page.tags, NoLink)
             /\ UNCHANGED <<dropped, strayed, misled>>
          \/ \E q \in page.next : \E fields \in Headers(q) : Follow(page.tags, q, fields)
    /\ UNCHANGED <<kind, again, published, changes, restarted>>

\* No index; an upstream that does not answer, or not with a JSON object of
\* bounded length.
PageFails ==
    /\ state = "asking"
    /\ state' = "failed"
    /\ UNCHANGED <<kind, again, query, listed, repeated, always, restarted, dropped, strayed,
                   misled, published, changes>>

\* A version is published or withdrawn (for the classic proxy: seen in a
\* fresh index).
Change(t) ==
    /\ state = "asking" /\ changes < MaxChanges
    /\ published' = IF t \in published THEN published \ {t} ELSE published \cup {t}
    /\ changes' = changes + 1
    /\ UNCHANGED walk

Done == state # "asking" /\ UNCHANGED vars

Next ==
    \/ ClassicPage \/ ChartUnknown \/ OciPage \/ PageFails
    \/ \E t \in Tags : Change(t)
    \/ Done

\* The client goes on as long as there is a link.
Spec == Init /\ [][Next]_vars /\ WF_vars(ClassicPage \/ ChartUnknown \/ OciPage)

-----------------------------------------------------------------------------
\* classic::tags and passthrough::tags: however the repository changes between
\* the pages, a walk that comes to its end was given every tag that was there
\* all the time, unless it asked for empty pages or the registry sent a header
\* the proxy may drop; and none was given twice, unless a page had to start over
\* because the tag it should have continued after is gone, or
\* the registry's link led to another page than the next.
WalkComplete ==
    /\ (state = "done" /\ query.n # 0 /\ ~dropped) => always \subseteq listed
    /\ repeated => restarted \/ strayed

\* rewrite_tag_links: the link the client is given leads to the page the
\* registry's link leads to, whatever the header: when the client follows it,
\* the proxy asks the URL a client of the registry itself would have asked.
LinkMeansTheSame == ~misled

\* The walk ends once the repository stops changing, unless the registry sends
\* the client to another page than the next.
WalkEnds == <>(state # "asking" \/ strayed)
=============================================================================
