------------------------------ MODULE TagLinks ------------------------------
(***************************************************************************)
(* The Link header of an upstream tag list, as passthrough.rs reads and    *)
(* rewrites it.  A header is a sequence of fields, a field a sequence of   *)
(* link-values unless its syntax is broken, a link-value a reference and a *)
(* sequence of parameters.  URLs and references are taken apart the way    *)
(* RFC 3986 does; their characters are left out, except that a reference   *)
(* may contain some the proxy does not let through.                        *)
(***************************************************************************)
EXTENDS Naturals, Sequences, SequencesExt

CONSTANTS
    Target, \* OciTarget: [scheme, registry, repo], repo a sequence of segments
    None    \* an absent part

\* A target has a host: parse_alias_upstream and the names accept no empty one.
ASSUME TargetAssumption == Target.registry # ""

\* What the functions below return as an Option is a set of at most one value.

\* A parameter of a link-value: valid by valid_link_param, its name, and the
\* relations it lists if it is a rel.
Param(name, rels) == [valid |-> TRUE, name |-> name, rels |-> rels]

\* The query of a URL that has none.
NoQuery == [n |-> None, last |-> None]

\* A reference; root tells /path from path, and network-path references have
\* a host without a scheme.
Reference(scheme, host, root, path, query) ==
    [scheme |-> scheme, host |-> host, root |-> root, path |-> path, query |-> query,
     fragment |-> FALSE, safe |-> TRUE]

\* upstream_url(target, "tags/list?query").
upstream_url(query) ==
    [scheme |-> Target.scheme, host |-> Target.registry,
     path |-> <<"v2">> \o Target.repo \o <<"tags", "list">>, query |-> query,
     fragment |-> FALSE]

-----------------------------------------------------------------------------
\* RFC 3986, 5.2.4; a last dot segment leaves a final slash.
RemoveDots(path) ==
    LET kept == FoldLeft(LAMBDA out, s : CASE s = "."  -> out
                                           [] s = ".." -> IF out = <<>> THEN out ELSE Front(out)
                                           [] OTHER    -> Append(out, s),
                         <<>>, path)
    IN  IF path # <<>> /\ Last(path) \in {".", ".."} THEN Append(kept, "") ELSE kept

\* url::Url::parse and Url::join: RFC 3986, 5.2.2, for a base without a query.
Resolve(base, ref) ==
    [scheme |-> IF ref.scheme # None THEN ref.scheme ELSE base.scheme,
     host   |-> IF ref.host # None THEN ref.host ELSE base.host,
     path   |-> IF ref.host # None \/ ref.root THEN RemoveDots(ref.path)
                ELSE IF ref.path = <<>> THEN base.path
                ELSE RemoveDots(Front(base.path) \o ref.path),
     query  |-> ref.query,
     fragment |-> ref.fragment]

\* is_strict_tag_link_reference: no network-path reference, and an absolute
\* one has the target's scheme and a host of its own.
is_strict_tag_link_reference(ref) ==
    IF ref.scheme = None
    THEN ref.host = None
    ELSE ref.scheme = Target.scheme /\ ref.host \notin {None, ""}

\* The path of the reference is not looked at.
resolved_tag_link_url_any_path(ref) ==
    LET target == upstream_url(NoQuery)
    IN  {url \in {Resolve(target, ref)} :
            /\ ref.safe /\ is_strict_tag_link_reference(ref)
            /\ url.scheme = target.scheme /\ url.host = target.host
            /\ ~url.fragment}

\* resolved_tag_link_url.
resolved_tag_link_url(ref) ==
    LET target == upstream_url(NoQuery)
    IN  {url \in {Resolve(target, ref)} :
            /\ ref.safe /\ is_strict_tag_link_reference(ref)
            /\ url.scheme = target.scheme /\ url.host = target.host
            /\ url.path = target.path
            /\ ~url.fragment}

-----------------------------------------------------------------------------
\* is_next_link: the first rel parameter decides.
is_next_link(link) ==
    LET rels == SelectSeq(link.params, LAMBDA p : p.name = "rel")
    IN  rels # <<>> /\ "next" \in Head(rels).rels

\* parse_link_field: whether it takes the field, whose link-values are then
\* field.links; one bad parameter spoils all.
parse_link_field(field) ==
    /\ field.syntax
    /\ \A i \in DOMAIN field.links :
          \A j \in DOMAIN field.links[i].params : field.links[i].params[j].valid

\* The link-values of the first n fields, one after the other.
LinksTo(fields) ==
    LET upto[n \in 0 .. Len(fields)] ==
            IF n = 0 THEN <<>> ELSE upto[n - 1] \o fields[n].links
    IN  upto

\* select_next_link: none and several are both no next page.
select_next_link(links) ==
    LET candidates == {i \in DOMAIN links : is_next_link(links[i])}
    IN  {links[i] : i \in {i \in candidates : candidates = {i}}}

\* rewrite_tag_links with rewrite_link_value: the query of the link the client
\* is given, which always points at the proxy's own tag list of the target.
NoLink == {}

rewrite_tag_links(fields) ==
    IF \A i \in DOMAIN fields : parse_link_field(fields[i])
    THEN {url.query : url \in UNION {resolved_tag_link_url(link.ref) :
                                        link \in select_next_link(LinksTo(fields)[Len(fields)])}}
    ELSE NoLink
=============================================================================
