------------------------------ MODULE ChartBuild ------------------------------
(***************************************************************************)
(* build_helm_oci_chart_with_limits: the archive of a chart is unpacked    *)
(* entry by entry within limits (helm/tgz.rs), the dependencies of its     *)
(* Chart.yaml and Chart.lock are pointed at the proxy and the files packed *)
(* again (helm/rewrite.rs), and the layer that results is unpacked once    *)
(* more for the config blob (helm/chart.rs, oci/build.rs).                 *)
(*                                                                         *)
(* The archive is what its reader finds: it grows by an entry whenever the *)
(* reader of the download asks for one, and is closed when it finds the    *)
(* end.  Names are sequences of path segments, sizes are numbers, and of   *)
(* a file's bytes only the YAML with its dependencies is kept.             *)
(***************************************************************************)
EXTENDS Integers, Sequences, SequencesExt

CONSTANTS
    Entries,     \* the tar entries an archive may consist of
    MaxEntries,  \* bound: how many of them
    LongNames,   \* names that do not fit a ustar header
    UnsafeNames, \* names that tar::Builder refuses: .., absolute, empty
    Encodings,   \* the sizes a re-encoded YAML file may have
    Rewrite,     \* rewrite_dependency_url, for the URLs it does not leave alone
    MaxExpanded, \* limits.max_expanded_bytes
    MaxFile,     \* limits.max_file_bytes
    MaxFiles,    \* limits.max_files
    None

\* What is written is an oci:// URL, and those are left alone.
ASSUME RewriteOnce == \A u \in DOMAIN Rewrite : Rewrite[u] \notin DOMAIN Rewrite
ASSUME LimitsAreNat == MaxExpanded \in Nat /\ MaxFile \in Nat /\ MaxFiles \in Nat

Metadata == {"L", "K", "x", "g"}

Names == Seq(STRING)
Contents == [yaml : {"mapping", "scalar", "none"}, deps : Seq(STRING)]

\* The value of a size is a number, which a record may fail to be.
PaxRecords ==
    [key : {"size"}, value : Int] \cup [key : {"path", "sparse", "broken", "other"}, value : Names]

TarEntries ==
    [type : Metadata \cup {"regular", "dir", "sparse"}, size : Nat, name : Names, long : Names,
     records : Seq(PaxRecords), content : Contents]

ASSUME EntriesAssumption ==
    /\ Entries \subseteq TarEntries
    /\ None \notin Names
    /\ LongNames \subseteq Names \ {<<>>}
    /\ Encodings \subseteq Nat
    /\ \A u \in DOMAIN Rewrite : Rewrite[u] \in STRING

VARIABLES
    proxy_host, \* ctx.proxy_host is not empty
    archive,    \* the entries read so far, or all of those that were packed
    closed,     \* the end of the archive has been seen
    pc,         \* "rewriting" and "configuring" are the two times it is unpacked
    pos,        \* entries read this time
    count,      \* entry_count
    expanded,   \* expanded_bytes
    pending,    \* PendingMetadata
    files,      \* the files unpacked
    original,   \* the files of the download
    modified,   \* RewriteResult.modified
    result,     \* how the build ended
    config      \* the dependencies in the config blob

reader == <<pos, count, expanded, pending, files>>
vars == <<proxy_host, archive, closed, pc, reader, original, modified, result, config>>

NoPending == [long_name |-> None, pax_seen |-> FALSE, pax_path |-> None, pax_size |-> None]

Init ==
    /\ proxy_host \in BOOLEAN
    /\ archive = <<>> /\ closed = FALSE
    /\ pc = IF proxy_host THEN "rewriting" ELSE "configuring"
    /\ pos = 0 /\ count = 0 /\ expanded = 0 /\ pending = NoPending /\ files = <<>>
    /\ original = <<>> /\ modified = FALSE
    /\ result = "none" /\ config = None

Unpacking == pc \in {"rewriting", "configuring"}

Fail(how) ==
    /\ pc' = "done" /\ result' = how
    /\ UNCHANGED <<proxy_host, closed, reader, original, modified, config>>

-----------------------------------------------------------------------------
(* unpack_tgz_with_limits.                                                   *)

\* One record of apply_pax_records.
apply_pax_record(acc, record) ==
    IF \/ ~acc.ok \/ record.key \in {"broken", "sparse"}
       \/ record.key = "size" /\ record.value \notin Nat
    THEN [acc EXCEPT !.ok = FALSE]
    ELSE IF record.key = "path" /\ record.value # <<>> THEN [acc EXCEPT !.pax_path = record.value]
    ELSE IF record.key = "size" THEN [acc EXCEPT !.pax_size = record.value]
    ELSE acc

\* What the first n records come to.
PaxAfter(records) ==
    LET after[n \in 0 .. Len(records)] ==
            IF n = 0 THEN [ok |-> TRUE, pax_path |-> None, pax_size |-> None]
            ELSE apply_pax_record(after[n - 1], records[n])
    IN  after

apply_pax_records(records) == PaxAfter(records)[Len(records)]

\* path_override, or the name in the header.
NameOf(entry, metadata) ==
    IF metadata.pax_path # None THEN metadata.pax_path
    ELSE IF metadata.long_name # None THEN metadata.long_name
    ELSE entry.name

\* Metadata entries are not charged.
EntrySize_members(entry) ==
    IF entry.type \in Metadata THEN 0
    ELSE IF pending.pax_size = None THEN entry.size ELSE pending.pax_size

\* entry_size: a pax size holds for the member it describes.
EntrySize(entry) ==
    IF entry.type \in Metadata \/ pending.pax_size = None THEN entry.size ELSE pending.pax_size

OverLimit(entry) ==
    \/ count + 1 > MaxFiles
    \/ EntrySize(entry) > MaxFile
    \/ expanded + EntrySize(entry) > MaxExpanded

\* Sparse members, metadata that comes twice or is malformed, and payloads
\* whose length is not the one that was declared.
Malformed(entry) ==
    \/ entry.type = "sparse"
    \/ entry.type = "L" /\ pending.long_name # None
    \/ entry.type = "x" /\ (pending.pax_seen \/ ~apply_pax_records(entry.records).ok)
    \/ entry.type = "regular" /\ EntrySize(entry) # entry.size

Charge(entry) ==
    /\ pos' = pos + 1
    /\ count' = count + 1
    /\ expanded' = expanded + EntrySize(entry)

\* An entry that carries metadata for the next member; K and g are dropped.
TakeMetadata(entry) ==
    /\ entry.type \in Metadata
    /\ pending' =
         CASE entry.type = "L" -> [pending EXCEPT !.long_name = entry.long]
           [] entry.type = "x" ->
                LET pax == apply_pax_records(entry.records)
                IN  [long_name |-> pending.long_name, pax_seen |-> TRUE,
                     pax_path |-> pax.pax_path, pax_size |-> pax.pax_size]
           [] OTHER -> pending
    /\ UNCHANGED files

\* Metadata waits for the next regular file.
TakeMember_waits(entry) ==
    /\ entry.type \notin Metadata
    /\ IF entry.type = "regular"
       THEN /\ files' = Append(files, [name |-> NameOf(entry, pending), content |-> entry.content,
                                       size |-> EntrySize(entry)])
            /\ pending' = NoPending
       ELSE UNCHANGED <<files, pending>>

\* A member takes the metadata; only regular files are kept.
TakeMember(entry) ==
    /\ entry.type \notin Metadata
    /\ pending' = NoPending
    /\ files' = IF entry.type = "regular"
                THEN Append(files, [name |-> NameOf(entry, pending), content |-> entry.content,
                                    size |-> EntrySize(entry)])
                ELSE files

\* The next entry of the archive.
Read(entry) ==
    \/ OverLimit(entry) /\ Fail("too_large")
    \/ ~OverLimit(entry) /\ Malformed(entry) /\ Fail("invalid")
    \/ /\ ~OverLimit(entry) /\ ~Malformed(entry)
       /\ Charge(entry)
       /\ TakeMetadata(entry) \/ TakeMember(entry)
       /\ UNCHANGED <<proxy_host, closed, pc, original, modified, result, config>>

\* The download is read for the first time.
ReadNew ==
    /\ Unpacking /\ ~closed /\ Len(archive) < MaxEntries
    /\ \E entry \in Entries : archive' = Append(archive, entry) /\ Read(entry)

\* An archive is read that is known already.
ReadAgain ==
    /\ Unpacking /\ closed /\ pos < Len(archive)
    /\ Read(archive[pos + 1])
    /\ UNCHANGED archive

\* The download is no archive, or breaks off.
ReadFails ==
    /\ Unpacking /\ ~closed
    /\ Fail("invalid")
    /\ UNCHANGED archive

\* The end of the archive: metadata without a member is refused.
EndOfArchive ==
    /\ Unpacking /\ pos = Len(archive)
    /\ IF pending.long_name # None \/ pending.pax_seen
       THEN Fail("invalid")
       ELSE /\ closed' = TRUE
            /\ pc' = IF pc = "rewriting" THEN "rewrite" ELSE "config"
            /\ original' = IF ~closed THEN files ELSE original
            /\ UNCHANGED <<proxy_host, reader, modified, result, config>>
    /\ UNCHANGED archive

-----------------------------------------------------------------------------
(* rewrite_chart_dependencies_with_limits.                                   *)

is_root_chart_file(name, basename) ==
    \/ name = <<basename>>
    \/ Len(name) = 2 /\ name[2] = basename /\ name[1] # "charts"

\* The first root file of that name, or 0.
Root(fs, basename) == SelectInSeq(fs, LAMBDA f : is_root_chart_file(f.name, basename))

Rewritten(url) == IF url \in DOMAIN Rewrite THEN Rewrite[url] ELSE url

\* rewrite_deps_list would change something in the file.
Rewritable(f) ==
    f.content.yaml = "mapping" /\ ToSet(f.content.deps) \cap DOMAIN Rewrite # {}

\* The root Chart.yaml is there and has something to rewrite.
Modifies(fs) ==
    LET chart == Root(fs, "Chart.yaml") IN IF chart = 0 THEN FALSE ELSE Rewritable(fs[chart])

\* The file with its dependencies rewritten and its YAML encoded anew.
RewrittenDeps(deps) == [i \in DOMAIN deps |-> Rewritten(deps[i])]

WithDeps(f, size) ==
    [name |-> f.name, size |-> size,
     content |-> [yaml |-> f.content.yaml, deps |-> RewrittenDeps(f.content.deps)]]

\* Chart.lock keeps its URLs.
RewriteFiles_chart_only(fs, size, lockSize) ==
    [fs EXCEPT ![Root(fs, "Chart.yaml")] = WithDeps(@, size)]

RewriteFiles(fs, size, lockSize) ==
    [i \in DOMAIN fs |->
        IF i = Root(fs, "Chart.yaml") THEN WithDeps(fs[i], size)
        ELSE IF i = Root(fs, "Chart.lock") /\ Rewritable(fs[i]) THEN WithDeps(fs[i], lockSize)
        ELSE fs[i]]

\* The entries of a file: a name that does not fit the header has an L entry.
RegularEntry(f, name) ==
    [type |-> "regular", size |-> f.size, name |-> name, long |-> <<>>, records |-> <<>>,
     content |-> f.content]

LongNameEntry(f) ==
    [type |-> "L", size |-> 1, name |-> <<>>, long |-> f.name, records |-> <<>>,
     content |-> [yaml |-> "none", deps |-> <<>>]]

FileEntries(f) ==
    IF f.name \in LongNames
    THEN <<LongNameEntry(f), RegularEntry(f, <<Head(f.name)>>)>>
    ELSE <<RegularEntry(f, f.name)>>

\* The archive of the first n files.
Packed(fs) ==
    LET packed[n \in 0 .. Len(fs)] ==
            IF n = 0 THEN <<>> ELSE packed[n - 1] \o FileEntries(fs[n])
    IN  packed

pack_tgz(fs) == Packed(fs)[Len(fs)]

\* The layer is unpacked from its start.
Rewind ==
    /\ pc' = "configuring"
    /\ pos' = 0 /\ count' = 0 /\ expanded' = 0 /\ pending' = NoPending /\ files' = <<>>
    /\ UNCHANGED <<proxy_host, closed, original, result, config>>

\* Nothing to rewrite: the layer is the download.
Unmodified ==
    /\ pc = "rewrite"
    /\ ~Modifies(files)
    /\ Rewind
    /\ UNCHANGED <<archive, modified>>

\* The files are rewritten and packed; tar::Builder refuses some names.
RewriteAndPack ==
    /\ pc = "rewrite"
    /\ Modifies(files)
    /\ IF \E i \in DOMAIN files : files[i].name \in UnsafeNames
       THEN Fail("invalid") /\ UNCHANGED archive
       ELSE /\ \E size, lockSize \in Encodings :
                   archive' = pack_tgz(RewriteFiles(files, size, lockSize))
            /\ Rewind
            /\ modified' = TRUE

-----------------------------------------------------------------------------
\* chart_config_from_tgz_with_limits and the rest of the build.
Configure ==
    /\ pc = "config"
    /\ LET chart == Root(files, "Chart.yaml") IN
       IF chart = 0 \/ files[chart].content.yaml # "mapping"
       THEN Fail("invalid")
       ELSE /\ pc' = "done" /\ result' = "built"
            /\ config' = files[chart].content.deps
            /\ UNCHANGED <<proxy_host, closed, reader, original, modified>>
    /\ UNCHANGED archive

Done == pc = "done" /\ UNCHANGED vars

Next ==
    \/ ReadNew \/ ReadAgain \/ ReadFails \/ EndOfArchive
    \/ Unmodified \/ RewriteAndPack \/ Configure
    \/ Done

Spec == Init /\ [][Next]_vars

-----------------------------------------------------------------------------
(* What an archive says of its entry at i, without reading one by one.        *)

\* The metadata entries that belong to it, and those of one type.
Described(a, i) ==
    {j \in 1 .. i - 1 : \A k \in j .. i - 1 : a[k].type \in Metadata}

Headers(a, i, type) == {j \in Described(a, i) : a[j].type = type}

AnyOf(S) == CHOOSE j \in S : TRUE

\* The records that give a key a value, of which the last counts.
Given(records, key) ==
    {r \in DOMAIN records : records[r].key = key /\ (key = "path" => records[r].value # <<>>)}

Latest(records, key) ==
    IF Given(records, key) = {} THEN None ELSE records[Max(Given(records, key))].value

PaxValue(a, i, key) ==
    IF Headers(a, i, "x") = {} THEN None
    ELSE Latest(a[AnyOf(Headers(a, i, "x"))].records, key)

\* Its pax path, its GNU long name or its own.
TrueName(a, i) ==
    IF PaxValue(a, i, "path") # None THEN PaxValue(a, i, "path")
    ELSE IF Headers(a, i, "L") # {} THEN a[AnyOf(Headers(a, i, "L"))].long
    ELSE a[i].name

\* The size that is declared for it.
Declared(a, i) ==
    IF a[i].type \in Metadata \/ PaxValue(a, i, "size") = None THEN a[i].size
    ELSE PaxValue(a, i, "size")

\* The bytes and the regular members of its first n entries.
Bytes(a) ==
    LET sum[n \in 0 .. Len(a)] == IF n = 0 THEN 0 ELSE sum[n - 1] + Declared(a, n)
    IN  sum

Member(a, i) == [name |-> TrueName(a, i), content |-> a[i].content, size |-> a[i].size]

WithMember(fs, a, i) == IF a[i].type = "regular" THEN Append(fs, Member(a, i)) ELSE fs

Members(a) ==
    LET upto[n \in 0 .. Len(a)] == IF n = 0 THEN <<>> ELSE WithMember(upto[n - 1], a, n)
    IN  upto

\* unpack_tgz_with_limits, "resolved onto the member it describes": the files
\* are the regular members of the archive in their order, each under its true
\* name.
NamesResolved ==
    pc \in {"rewrite", "config"} => files = Members(archive)[Len(archive)]

\* ArchiveLimits: what is kept in memory stays within the limits at every
\* moment, metadata included; a chart is refused as too large only when the
\* entry it was refused at goes beyond one of them.
LimitsExact ==
    /\ pos <= MaxFiles /\ Bytes(archive)[pos] <= MaxExpanded
    /\ \A i \in DOMAIN files : files[i].size <= MaxFile
    /\ result = "too_large" =>
         /\ pos < Len(archive)
         /\ \/ pos + 1 > MaxFiles
            \/ Bytes(archive)[pos + 1] > MaxExpanded
            \/ Declared(archive, pos + 1) > MaxFile

\* The layer has the files of the download in their order and under their
\* names, however the names were written; the dependencies of Chart.yaml and
\* Chart.lock are rewritten in step, those of subcharts are not; and the config
\* blob describes the layer.
LayerIsRewritten ==
    (result = "built" /\ proxy_host) =>
        LET chart == Root(original, "Chart.yaml")
            lock == Root(original, "Chart.lock")
            changed == Rewritable(original[chart])
        IN  /\ Len(files) = Len(original)
            /\ \A i \in DOMAIN files :
                  /\ files[i].name = original[i].name
                  /\ files[i].content.yaml = original[i].content.yaml
                  /\ files[i].content.deps =
                       IF changed /\ i \in {chart, lock} /\ original[i].content.yaml = "mapping"
                       THEN RewrittenDeps(original[i].content.deps) ELSE original[i].content.deps
            /\ config = RewrittenDeps(original[chart].content.deps)

=============================================================================
