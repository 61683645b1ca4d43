-------------------------------- MODULE Names --------------------------------
(***************************************************************************)
(* Names: the path of a request, the repository it stands for, and the     *)
(* name a dependency is given when it is pointed back at the proxy         *)
(* (resolver/mod.rs, resolver/hostname.rs, oci/route.rs and                *)
(* rewrite_dependency_url of helm/rewrite.rs).                             *)
(*                                                                         *)
(* A path is a sequence of segments, what its slashes separate.  A segment *)
(* is a sequence of labels, what its dots separate, and a label is known   *)
(* by the class of its characters.  Lengths, letter case and percent-      *)
(* encoding are left out.                                                  *)
(***************************************************************************)
EXTENDS Integers, Sequences, SequencesExt

CONSTANTS
    Class, \* the class of each label
    None   \* an absent value

\* "word" letters, digits and inner hyphens; "numeric" digits, or a hexadecimal
\* number; "ragged" begins like a word but has underscores or a last hyphen;
\* "under" and "dash" begin with _ or -; "empty" has no characters; "digest" is
\* an algorithm and a hash; "odd" has characters no name may have.
Classes == {"word", "numeric", "ragged", "under", "dash", "empty", "digest", "odd"}

ASSUME ClassAssumption == Class \in [DOMAIN Class -> Classes]

Segments == Seq(DOMAIN Class)

\* The segment between two slashes in a row.
IsEmpty(segment) == Len(segment) = 1 /\ Class[segment[1]] = "empty"

\* split('/').filter(|s| !s.is_empty()): what is left of the first n segments.
WithSegment(segments, s) == IF IsEmpty(s) THEN segments ELSE Append(segments, s)

NonEmptyTo(path) ==
    LET upto[n \in 0 .. Len(path)] ==
            IF n = 0 THEN <<>> ELSE WithSegment(upto[n - 1], path[n])
    IN  upto

NonEmpty(path) == NonEmptyTo(path)[Len(path)]

\* A label that begins with a letter or a digit.
BeginsWell(label) == Class[label] \in {"word", "numeric", "ragged"}

-----------------------------------------------------------------------------
is_valid_chart_name(segment) ==
    /\ BeginsWell(segment[1])
    /\ \A i \in DOMAIN segment : Class[segment[i]] \notin {"odd", "digest"}

\* An alias may be called like a host.
is_valid_alias_name_dots(segment) == is_valid_chart_name(segment)

is_valid_alias_name(segment) == Len(segment) = 1 /\ BeginsWell(segment[1])

\* is_public_hostname; url::Host::parse finds the addresses of numeric labels.
is_public_hostname(host) ==
    /\ Len(host) >= 2
    /\ Last(host) \notin {"localhost", "local"}
    /\ \E i \in DOMAIN host : Class[host[i]] # "numeric"
    /\ \A i \in DOMAIN host : Class[host[i]] \in {"word", "numeric"}

\* is_valid_manifest_reference: a digest or a tag.
is_valid_manifest_reference(segment) ==
    \/ Len(segment) = 1 /\ Class[segment[1]] = "digest"
    \/ /\ BeginsWell(segment[1]) \/ Class[segment[1]] = "under"
       /\ \A i \in DOMAIN segment : Class[segment[i]] \notin {"odd", "digest"}

-----------------------------------------------------------------------------
(* URLs: a scheme, an authority that is not empty and a path.  The port is   *)
(* None if it is not written or the default of the scheme.                   *)

Schemes == {"https", "http", "oci", "other"}
URLs == [scheme : Schemes, host : Segments, port : Nat \cup {None}, path : Seq(Segments)]

\* trim_start_matches('/'), trim_end_matches('/') and trim_matches('/').
Full(path) == {i \in DOMAIN path : ~IsEmpty(path[i])}

TrimStart(path) ==
    IF Full(path) = {} THEN <<>>
    ELSE SubSeq(path, CHOOSE i \in Full(path) : \A j \in Full(path) : i <= j, Len(path))

TrimEnd(path) ==
    IF Full(path) = {} THEN <<>>
    ELSE SubSeq(path, 1, CHOOSE i \in Full(path) : \A j \in Full(path) : j <= i)

Trim(path) == TrimEnd(TrimStart(path))

\* parse_alias_upstream: a registry and a repository, or the URL of a classic
\* repository without its last slashes.
parse_alias_upstream(url) ==
    CASE url.scheme = "oci" /\ Full(url.path) # {} -> [url EXCEPT !.path = Trim(url.path)]
      [] url.scheme \in {"https", "http"}          -> [url EXCEPT !.path = TrimEnd(url.path)]
      [] OTHER                                     -> None

\* The key of a URL with a port is that of the host without one.
normalize_repo_key_any_port(url) == <<url.host>> \o Trim(url.path)

\* normalize_repo_key.
normalize_repo_key(url) == IF url.port # None THEN None ELSE <<url.host>> \o Trim(url.path)

-----------------------------------------------------------------------------
(* aliases is a function from the configured names to                        *)
(* [upstream, store, auth, plain_http].                                      *)

IsClassic(alias) == alias.upstream.scheme # "oci"

\* classic_alias_rewrite_map: when aliases share a key, one of them has it.
Keys(aliases) ==
    {normalize_repo_key(aliases[a].upstream) : a \in {x \in DOMAIN aliases : IsClassic(aliases[x])}}
        \ {None}

classic_alias_rewrite_map(aliases) ==
    {m \in [Keys(aliases) -> DOMAIN aliases] :
        \A k \in DOMAIN m : IsClassic(aliases[m[k]])
                            /\ normalize_repo_key(aliases[m[k]].upstream) = k}

ClassicChart(url, chart, full_name, ephemeral, source) ==
    [kind |-> "classic", upstream |-> url, chart |-> chart, full_name |-> full_name,
     store |-> ~ephemeral, auth |-> "none", plain_http |-> FALSE, source |-> source]

OciTarget(alias, segments, full_name) ==
    [kind |-> "oci", upstream |-> [alias.upstream EXCEPT !.path = @ \o segments],
     chart |-> None, full_name |-> full_name,
     store |-> alias.store, auth |-> alias.auth, plain_http |-> alias.plain_http,
     source |-> "ConfiguredAlias"]

\* What a name may stand for is never taken for an absent value.
Targets ==
    [kind : {"classic", "oci"}, upstream : URLs, chart : Segments \cup {None},
     full_name : Seq(Segments), store : BOOLEAN, auth : {"none", "gcp"}, plain_http : BOOLEAN,
     source : {"ConfiguredAlias", "HostPath"}]

ASSUME NoneAssumption == None \notin Targets

\* resolve_host_path.
resolve_host_path(segments, name) ==
    IF /\ Len(segments) >= 2
       /\ is_public_hostname(segments[1])
       /\ \A i \in 2 .. Len(segments) : is_valid_chart_name(segments[i])
    THEN ClassicChart([scheme |-> "https", host |-> segments[1], port |-> None,
                       path |-> SubSeq(segments, 2, Len(segments) - 1)],
                      Last(segments), name, FALSE, "HostPath")
    ELSE None

\* resolve_name: a configured alias, or else a public host.
resolve_name(name, aliases) ==
    LET segments == NonEmpty(name)
        rest == Tail(segments)
    IN  IF segments = <<>> THEN None
        ELSE IF segments[1] \notin DOMAIN aliases THEN resolve_host_path(segments, name)
        ELSE LET alias == aliases[segments[1]] IN
             IF rest = <<>> \/ \E i \in DOMAIN rest : ~is_valid_chart_name(rest[i]) THEN None
             ELSE IF ~IsClassic(alias) THEN OciTarget(alias, rest, name)
             ELSE IF Len(rest) > 1 THEN None
             ELSE ClassicChart(alias.upstream, rest[1], name, ~alias.store, "ConfiguredAlias")

-----------------------------------------------------------------------------
(* parse_oci_path, for what follows /v2.                                     *)

NotFound == [route |-> "not_found", name |-> <<>>, reference |-> None]
Api == [route |-> "api", name |-> <<>>, reference |-> None]

\* Where "/word/" stands in a path.
Occurrences(path, word) == {i \in 2 .. Len(path) - 1 : path[i] = <<word>>}

\* find instead of rfind.
FirstOccurrence(path, word) ==
    CHOOSE i \in Occurrences(path, word) : \A j \in Occurrences(path, word) : i <= j

\* rfind.
LastOccurrence(path, word) ==
    CHOOSE i \in Occurrences(path, word) : \A j \in Occurrences(path, word) : j <= i

\* What follows the word at i is one segment, which is a proper reference.
Named(route, path, i, proper) ==
    IF i = Len(path) - 1 /\ proper
    THEN [route |-> route, name |-> SubSeq(path, 1, i - 1), reference |-> Last(path)]
    ELSE NotFound

\* parse_oci_path: the last word splits the path.
parse_oci_path(path) ==
    LET rest == TrimStart(path)
        n == Len(rest)
    IN  IF rest = <<>> THEN Api
        ELSE IF Occurrences(rest, "manifests") # {}
        THEN Named("manifest", rest, LastOccurrence(rest, "manifests"),
                   is_valid_manifest_reference(Last(rest)))
        ELSE IF Occurrences(rest, "blobs") # {}
        THEN Named("blob", rest, LastOccurrence(rest, "blobs"), ~IsEmpty(Last(rest)))
        ELSE IF n >= 3 /\ rest[n - 1] = <<"tags">> /\ rest[n] = <<"list">>
        THEN [route |-> "tags", name |-> TrimEnd(SubSeq(rest, 1, n - 2)), reference |-> None]
        ELSE NotFound

-----------------------------------------------------------------------------
\* rewrite_dependency_url: the name behind oci://<proxy host>/ that a
\* dependency's repository is given, or None if it is left alone.
rewrite_dependency_url(url, repo_alias) ==
    LET key == normalize_repo_key(url)
    IN  IF url.scheme \notin {"https", "http"} \/ ~is_public_hostname(url.host) \/ key = None
        THEN None
        ELSE IF key \in DOMAIN repo_alias THEN <<repo_alias[key]>> ELSE key
=============================================================================
