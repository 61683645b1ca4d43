------------------------------ MODULE MCGateway ------------------------------
(* Gateway for TLC: a file that is accepted, and every file that differs from *)
(* it in the parts that one rule of validate looks at.                        *)
EXTENDS Gateway

MCClass == [l \in {"charts", "example", "local", "app", "team", "priv", "proxy",
                   "manifests", "blobs", "tags", "list", "10", "0x7f", "a_b", "_x", "-y",
                   "", "sha256:0", "~u"} |->
    CASE l \in {"10", "0x7f"} -> "numeric"
      [] l = "a_b"            -> "ragged"
      [] l = "_x"             -> "under"
      [] l = "-y"             -> "dash"
      [] l = ""               -> "empty"
      [] l = "sha256:0"       -> "digest"
      [] l = "~u"             -> "odd"
      [] OTHER                -> "word"]

MCDigest == <<"sha256:0">>
MCChart == <<"app">>

Host == <<"charts", "example">>
Url(scheme, host, port, path) == [scheme |-> scheme, host |-> host, port |-> port, path |-> path]

Alias(upstream, store, auth) ==
    [upstream |-> upstream, store |-> store, auth |-> auth, plain_http |-> FALSE]

Upstreams ==
    {Url("oci", <<"priv">>, 443, <<<<"team">>>>), Url("oci", Host, None, <<<<"">>>>),
     Url("https", Host, None, <<<<"team">>, <<"">>>>), Url("https", Host, 8443, <<<<"team">>>>),
     Url("http", Host, None, <<>>), Url("other", Host, None, <<>>)}

AliasSets ==
    {[a \in {<<"team">>} |-> alias] :
        alias \in {Alias(u, s, k) : u \in Upstreams, s \in BOOLEAN, k \in {"none", "gcp"}}} \cup
    {[a \in {<<"team">>, <<"priv">>} |->
         IF a = <<"team">> THEN Alias(u, TRUE, "none") ELSE Alias(v, FALSE, "none")] :
        u \in Upstreams, v \in Upstreams} \cup
    {[a \in {name} |-> Alias(Url("http", <<"priv">>, None, <<>>), FALSE, "none")] :
        name \in {Host, <<"a_b">>, <<"_x">>, <<"10">>, <<"manifests">>}} \cup
    {NoAliases}

Literal(w) == <<Piece("word", w)>>
Ref(form, v) == <<Piece(form, v)>>

Base ==
    [parses |-> TRUE, comment |-> <<>>,
     index_cache_ttl_secs |-> 1, max_chart_bytes |-> 2, max_expanded_chart_bytes |-> 2,
     max_index_bytes |-> 1, ephemeral_cache |-> [ttl_secs |-> 1, max_bytes |-> 2],
     auth |-> [enabled |-> FALSE, tokens |-> <<>>],
     storage |-> [type |-> "memory", endpoint |-> FALSE, region |-> FALSE, secrets |-> <<>>],
     allow_public_private_upstreams |-> FALSE,
     aliases |-> NoAliases]

Auths ==
    [enabled : BOOLEAN,
     tokens : {<<>>, <<<<>>>>, <<<<>>, Literal("t")>>, <<Literal("t")>>, <<Ref("braced", "V")>>}]

\* Texts with references in every form, alone and next to something else.
SecretTexts ==
    {Ref(f, "V") : f \in {"braced", "bare", "default", "escaped"}} \cup
    {Ref("bare", "V") \o <<Piece("sign", "-")>>, Ref("bare", "V") \o Ref("braced", "W"),
     Ref("escaped", "V") \o Ref("bare", "W"), Literal("t") \o Ref("braced", "W")}

S3(endpoint, region, secrets) ==
    [type |-> "s3", endpoint |-> endpoint, region |-> region, secrets |-> secrets]

MCConfigs ==
    {[Base EXCEPT !.aliases = as, !.auth = au, !.allow_public_private_upstreams = p] :
        as \in AliasSets, au \in {[enabled |-> FALSE, tokens |-> <<>>],
                                  [enabled |-> TRUE, tokens |-> <<Literal("t")>>]}, p \in BOOLEAN} \cup
    {[Base EXCEPT !.auth = au] : au \in Auths} \cup
    {[Base EXCEPT !.auth = [enabled |-> e, tokens |-> <<Literal("t"), t>>], !.comment = c] :
        e \in BOOLEAN, t \in SecretTexts, c \in {<<>>, Ref("braced", "V")}} \cup
    {[Base EXCEPT !.storage = S3(e, r, <<t, Literal("t")>>)] :
        e \in BOOLEAN, r \in BOOLEAN, t \in SecretTexts} \cup
    {[Base EXCEPT !.parses = FALSE], [Base EXCEPT !.index_cache_ttl_secs = 4],
     [Base EXCEPT !.ephemeral_cache.ttl_secs = 4], [Base EXCEPT !.max_expanded_chart_bytes = 1],
     [Base EXCEPT !.max_expanded_chart_bytes = 0, !.max_chart_bytes = 0],
     [Base EXCEPT !.max_index_bytes = 0], [Base EXCEPT !.ephemeral_cache.max_bytes = 1]}

ProxyHost == [name |-> <<"proxy">>, bracketed |-> FALSE, ipv6 |-> FALSE, port |-> None]

Get ==
    [place |-> "v2", path |-> <<>>, method |-> "GET", authorization |-> <<>>,
     host |-> ProxyHost, authority |-> None]

Bearer(t) == [scheme |-> "bearer", wellformed |-> TRUE, token |-> t]

MCNames ==
    {<<Host, <<"app">>>>, <<Host, <<"app">>, <<"">>>>, <<<<"manifests">>, <<"app">>>>, <<Host, <<"team">>, <<"app">>>>, <<Host, <<"">>, <<"app">>>>,
     <<Host, <<"manifests">>, <<"app">>>>, <<Host, <<"blobs">>, <<"app">>>>, <<Host>>, <<Host, <<"~u">>>>,
     <<<<"team">>, <<"app">>>>, <<<<"team">>, <<"app">>, <<"a_b">>>>, <<<<"team">>>>,
     <<<<"priv">>, <<"app">>>>, <<<<"10", "0x7f">>, <<"app">>>>, <<<<"app", "local">>, <<"app">>>>}

MCRequests ==
    {[Get EXCEPT !.path = n \o <<<<"manifests">>, r>>] :
        n \in MCNames, r \in {MCDigest, <<"_x", "10">>, <<"-y">>}} \cup
    {[Get EXCEPT !.path = n \o <<<<"blobs">>, MCDigest>>] : n \in MCNames} \cup
    {[Get EXCEPT !.path = n \o <<<<"tags">>, <<"list">>>>] : n \in MCNames} \cup
    {[Get EXCEPT !.path = <<<<"team">>, <<"app">>, <<"manifests">>, MCDigest>>, !.authorization = h] :
        h \in {<<Bearer(Literal("t"))>>, <<Bearer(<<>>)>>, <<Bearer(Literal("u"))>>,
               <<Bearer(Ref("braced", "V"))>>,
               <<Bearer(Literal("t")), Bearer(Literal("u"))>>,
               <<[Bearer(Literal("t")) EXCEPT !.scheme = "basic"]>>,
               <<[Bearer(Literal("t")) EXCEPT !.scheme = "other"]>>,
               <<[Bearer(Literal("t")) EXCEPT !.wellformed = FALSE]>>}} \cup
    {[Get EXCEPT !.place = p, !.method = m] : p \in {"/", "outside", "undecodable", "v2"}, m \in {"GET", "PUT"}} \cup
    {[Get EXCEPT !.host = h, !.authority = a] :
        h \in {None, [ProxyHost EXCEPT !.port = 65536], [ProxyHost EXCEPT !.name = <<"a_b">>]},
        a \in {None, [ProxyHost EXCEPT !.port = 65535],
               [name |-> <<"">>, bracketed |-> TRUE, ipv6 |-> TRUE, port |-> 443]}}

MCDependencies ==
    {Url(s, h, p, path) : s \in {"https", "http", "other"}, h \in {Host, <<"priv">>, <<"app", "local">>},
        p \in {None, 8443},
        path \in {<<>>, <<<<"">>>>, <<<<"team">>>>, <<<<"team">>, <<"">>, <<"app">>>>,
                  <<<<"manifests">>>>, <<<<"~u">>>>}}
=============================================================================
