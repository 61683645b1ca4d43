------------------------------- MODULE Gateway -------------------------------
(***************************************************************************)
(* The proxy from its start to the handler of a request: the configuration *)
(* is expanded, parsed and validated (config.rs), the server is set up     *)
(* (main.rs), and a request passes pull authentication (auth.rs), routing  *)
(* (routes.rs, oci/route.rs) and name resolution (resolver/mod.rs, in      *)
(* Names) before a handler of ClassicPull, OciPull or TagPages gets it.    *)
(*                                                                         *)
(* A text of the configuration is a sequence of pieces: characters, or a   *)
(* reference to an environment variable.                                   *)
(***************************************************************************)
EXTENDS Names, FiniteSets

CONSTANTS
    Configs,      \* the configuration files to start with
    Vars,         \* environment variables
    Words,        \* characters that are no reference
    Requests,     \* the requests to serve
    Dependencies, \* URLs of repositories that charts depend on
    MaxCacheTtl,  \* MAX_CACHE_TTL_SECS
    SomeDigest,   \* a digest, as a segment
    SomeChart     \* the name of a chart, as a segment

\* Paths are made of segments, and the samples are what they stand for.
ASSUME PathsAssumption ==
    /\ \A r \in Requests : r.path \in Seq(Segments)
    /\ Dependencies \subseteq URLs
    /\ SomeDigest \in Segments /\ is_valid_manifest_reference(SomeDigest)
    /\ SomeChart \in Segments /\ is_valid_chart_name(SomeChart)
    /\ {"manifests", "blobs", "tags", "list"} \subseteq DOMAIN Class

VARIABLES
    cfg,        \* the configuration file
    env,        \* the environment variables that are set
    phase,      \* how far the start-up is
    aliases,    \* RuntimeConfig.aliases
    repo_alias, \* RuntimeConfig.classic_alias_by_repo
    gcp,        \* there is a provider of GCP tokens
    req,        \* the request being served
    stage,      \* how far it is
    answer      \* what came of it: for "handler", the route and the target

startup == <<cfg, env, phase, aliases, repo_alias, gcp>>
vars == <<startup, req, stage, answer>>

NoAliases == [a \in {} |-> None]
Answer(kind) == [kind |-> kind, route |-> None, target |-> None]

Kinds == {"none", "public", "unauthorized", "not_found", "unsupported", "name_invalid",
          "name_unknown", "api", "handler"}

TypeOK ==
    /\ phase \in {"loading", "storage", "provider", "serving", "refused"}
    /\ DOMAIN aliases \subseteq DOMAIN cfg.aliases
    /\ \A k \in DOMAIN repo_alias : repo_alias[k] \in DOMAIN aliases
    /\ gcp \in BOOLEAN
    /\ stage \in {"idle", "auth", "dispatch", "answered"}
    /\ answer.kind \in Kinds
    /\ answer.kind # "handler" => answer = Answer(answer.kind)
    /\ answer.kind = "handler" => /\ answer.route \in {"manifest", "blob", "tags"}
                                  /\ answer.target # None

Init ==
    /\ cfg \in Configs
    /\ env \in SUBSET Vars
    /\ phase = "loading"
    /\ aliases = NoAliases /\ repo_alias = NoAliases
    /\ gcp = FALSE
    /\ req = None /\ stage = "idle" /\ answer = Answer("none")

-----------------------------------------------------------------------------
(* parse_config: every text of the file is expanded.  A reference is braced, *)
(* bare (and then ends at the first character that no variable name has) or  *)
(* braced with a default.  An escaped dollar sign leaves what looks like a   *)
(* bare reference.  The value of a variable that is set is a word.           *)

Piece(form, what) == [form |-> form, what |-> what]

\* The pieces that are references.
References == {"braced", "bare", "default"}

Expanded(piece) ==
    CASE piece.form = "escaped"                              -> Piece("bare", piece.what)
      [] piece.form \in References /\ piece.what \in env      -> Piece("word", piece.what)
      [] piece.form = "default" /\ piece.what \notin env      -> Piece("word", "default")
      [] OTHER                                               -> piece

Expand(text) == [i \in DOMAIN text |-> Expanded(text[i])]

\* The secrets of the file, and every text of it that is expanded, comments
\* and all.
Secrets(c) == ToSet(c.auth.tokens) \cup ToSet(c.storage.secrets)
Texts(c) == Secrets(c) \cup {c.comment}

Pieces ==
    [form : References \cup {"escaped"}, what : Vars] \cup
    [form : {"word", "sign"}, what : Words]

AliasSettings ==
    [upstream : URLs, store : BOOLEAN, auth : {"none", "gcp"}, plain_http : BOOLEAN]

\* What the types of the settings say.
ASSUME ConfigAssumption ==
    \A c \in Configs :
        /\ \A t \in Texts(c) : t \in Seq(Pieces)
        /\ \A a \in DOMAIN c.aliases : a \in Segments /\ c.aliases[a] \in AliasSettings

missing_vars(c) ==
    {v \in Vars \ env : \E t \in Texts(c) : \E i \in DOMAIN t :
        t[i].form \in References /\ t[i].what = v}

\* Only the braced form is looked for.
references_missing_var_braced(value, var) == \E i \in DOMAIN value : value[i] = Piece("braced", var)

\* references_missing_var.
references_missing_var(value, var) ==
    \E i \in DOMAIN value :
        \/ value[i] = Piece("braced", var)
        \/ value[i] = Piece("bare", var) /\ (i < Len(value) => value[i + 1].form # "word")

\* reject_unexpanded_secret passes.
SecretOK(value, missing) == \A v \in missing : ~references_missing_var(value, v)

-----------------------------------------------------------------------------
(* validate.                                                                 *)

LimitsOK(c) ==
    /\ c.index_cache_ttl_secs <= MaxCacheTtl
    /\ c.ephemeral_cache.ttl_secs <= MaxCacheTtl
    /\ c.max_expanded_chart_bytes # 0
    /\ c.max_expanded_chart_bytes >= c.max_chart_bytes
    /\ c.max_index_bytes # 0
    /\ c.ephemeral_cache.max_bytes >= c.max_chart_bytes

AuthOK(c) == c.auth.enabled => \E i \in DOMAIN c.auth.tokens : Expand(c.auth.tokens[i]) # <<>>

StorageOK(c) == c.storage.type = "s3" => c.storage.endpoint \/ c.storage.region

SecretsOK(c) == \A t \in Secrets(c) : SecretOK(Expand(t), missing_vars(c))

AliasOK(name, alias) ==
    /\ is_valid_alias_name(name)
    /\ parse_alias_upstream(alias.upstream) # None
    /\ ~(alias.auth = "gcp" /\ alias.upstream.scheme # "oci")

\* Only aliases whose content is stored count as private.
CredentialedOK_stored(c) ==
    (~c.auth.enabled /\ ~c.allow_public_private_upstreams)
        => \A a \in DOMAIN c.aliases : c.aliases[a].store => c.aliases[a].auth = "none"

CredentialedOK(c) ==
    (~c.auth.enabled /\ ~c.allow_public_private_upstreams)
        => \A a \in DOMAIN c.aliases : c.aliases[a].auth = "none"

validate(c) ==
    /\ LimitsOK(c) /\ AuthOK(c) /\ StorageOK(c) /\ SecretsOK(c)
    /\ \A a \in DOMAIN c.aliases : AliasOK(a, c.aliases[a])
    /\ CredentialedOK(c)

Aliases(c) ==
    [a \in DOMAIN c.aliases |->
        [c.aliases[a] EXCEPT !.upstream = parse_alias_upstream(c.aliases[a].upstream)]]

-----------------------------------------------------------------------------
Refuse ==
    /\ phase' = "refused"
    /\ UNCHANGED <<cfg, env, aliases, repo_alias, gcp, req, stage, answer>>

\* load_config: unreadable files and files that do not parse are refused too.
Load ==
    /\ phase = "loading"
    /\ IF cfg.parses /\ validate(cfg)
       THEN /\ phase' = "storage"
            /\ aliases' = Aliases(cfg)
            /\ repo_alias' \in classic_alias_rewrite_map(Aliases(cfg))
            /\ UNCHANGED <<cfg, env, gcp, req, stage, answer>>
       ELSE Refuse

\* main: init_logging and build_storage.
BuildStorage ==
    /\ phase = "storage"
    /\ phase' = "provider"
    /\ UNCHANGED <<cfg, env, aliases, repo_alias, gcp, req, stage, answer>>

needs_gcp == \E a \in DOMAIN aliases : aliases[a].auth = "gcp"

\* main: the GCP provider if an alias needs one, the state and the listener.
Listen ==
    /\ phase = "provider"
    /\ gcp' = needs_gcp
    /\ phase' = "serving"
    /\ UNCHANGED <<cfg, env, aliases, repo_alias, req, stage, answer>>

\* The logging filter, the storage client, the credentials, the HTTP clients
\* or the address cannot be had.
StartFails == phase \in {"loading", "storage", "provider"} /\ Refuse

-----------------------------------------------------------------------------
Arrive(r) ==
    /\ phase = "serving" /\ stage = "idle"
    /\ req' = r
    /\ stage' = "auth"
    /\ UNCHANGED <<startup, answer>>

Reply(a) == stage' = "answered" /\ answer' = a /\ UNCHANGED <<startup, req>>

\* PUBLIC_PATHS.
PublicPaths == {"/", "/healthz", "/metrics"}

\* extract_token: a Bearer token, or the password of Basic credentials.
extract_token(header) ==
    IF header.scheme \in {"bearer", "basic"} /\ header.wellformed /\ header.token # <<>>
    THEN header.token ELSE None

\* The tokens that may be presented.
Tokens == {Expand(t) : t \in ToSet(cfg.auth.tokens)} \ {<<>>}

\* The first of several headers counts.
Authorized_first(headers) ==
    /\ headers # <<>>
    /\ extract_token(headers[1]) # None /\ extract_token(headers[1]) \in Tokens

\* Exactly one header, and a configured token in it.
Authorized(headers) ==
    /\ Len(headers) = 1
    /\ extract_token(headers[1]) # None /\ extract_token(headers[1]) \in Tokens

require_pull_auth ==
    /\ stage = "auth"
    /\ IF ~cfg.auth.enabled \/ req.place \in PublicPaths \/ Authorized(req.authorization)
       THEN stage' = "dispatch" /\ UNCHANGED <<startup, req, answer>>
       ELSE Reply(Answer("unauthorized"))

\* is_dns_name, which the dotted form of an IPv4 address passes as well.
is_dns_name(host) == \A i \in DOMAIN host : Class[host[i]] \in {"word", "numeric"}

normalize_proxy_host(host) ==
    IF /\ IF host.bracketed THEN host.ipv6 ELSE is_dns_name(host.name)
       /\ host.port = None \/ host.port \in 1 .. 65535
    THEN host ELSE None

\* proxy_host_from: the Host header, or the authority of the URI.
proxy_host_from(r) ==
    LET candidate == IF r.host # None THEN r.host ELSE r.authority
    IN  IF candidate = None THEN None ELSE normalize_proxy_host(candidate)

\* What manifest_entry, blob_entry and tags_entry hand to their handler.
Entry(route) ==
    LET target == resolve_name(route.name, aliases)
    IN  IF target = None THEN Answer("name_unknown")
        ELSE [kind |-> "handler", route |-> route.route, target |-> target]

\* The route of a path below /v2.
RouteAnswer(path) ==
    LET route == parse_oci_path(path)
    IN  CASE route.route = "api"       -> Answer("api")
          [] route.route = "not_found" -> Answer("name_unknown")
          [] OTHER                     -> Entry(route)

\* build_router and oci_dispatch.  A request is for one of the public places,
\* for somewhere outside of /v2, or for a path below it, which may not decode.
Dispatch ==
    /\ stage = "dispatch"
    /\ \/ /\ req.place \in PublicPaths
          /\ Reply(Answer(IF req.method \in {"GET", "HEAD"} THEN "public" ELSE "unsupported"))
       \/ /\ req.place = "outside"
          /\ Reply(Answer("not_found"))
       \/ /\ req.place \in {"v2", "undecodable"}
          /\ Reply(IF req.method \notin {"GET", "HEAD"} THEN Answer("unsupported")
                   ELSE IF proxy_host_from(req) = None THEN Answer("name_invalid")
                   ELSE IF req.place = "undecodable" THEN Answer("name_unknown")
                   ELSE RouteAnswer(req.path))

\* The response is sent; the server waits for the next request.
Respond ==
    /\ stage = "answered"
    /\ req' = None /\ stage' = "idle" /\ answer' = Answer("none")
    /\ UNCHANGED startup

Refused == phase = "refused" /\ UNCHANGED vars

Next ==
    \/ Load \/ BuildStorage \/ Listen \/ StartFails
    \/ \E r \in Requests : Arrive(r)
    \/ require_pull_auth \/ Dispatch \/ Respond
    \/ Refused

Spec == Init /\ [][Next]_vars

-----------------------------------------------------------------------------
\* require_pull_auth: with auth.enabled nothing but the public places is
\* answered without exactly one header that carries a configured token, and an
\* empty token is none.
PullsAreAuthorized ==
    (stage = "answered" /\ cfg.auth.enabled /\ answer.kind # "unauthorized"
                        /\ req.place \notin PublicPaths)
        => \E i \in DOMAIN cfg.auth.tokens :
              /\ Expand(cfg.auth.tokens[i]) # <<>>
              /\ Len(req.authorization) = 1
              /\ req.authorization[1].token = Expand(cfg.auth.tokens[i])

\* validate, "it would republish private upstream content to anonymous
\* clients": whatever file the server was started with, a request without a
\* token gets to an alias that authenticates upstream only if the file says so.
PrivateNotRepublished ==
    (answer.kind = "handler" /\ answer.target.auth # "none" /\ req.authorization = <<>>)
        => cfg.allow_public_private_upstreams

\* reject_unexpanded_secret, "Secrets must never fall back to their literal
\* ${VAR} text": no secret of a running server contains a reference to a
\* variable that was not set, except for a bare reference that runs into the
\* value of the next one, which references_missing_var takes for a longer name.
NoLiteralSecrets ==
    phase = "serving" =>
        \A t \in Secrets(cfg) : \A i \in DOMAIN t :
            \/ t[i].form \notin {"braced", "bare"} \/ t[i].what \in env
            \/ t[i].form = "bare" /\ i < Len(t) /\ Expanded(t[i + 1]).form = "word"

\* is_valid_alias_name, "Alias names must not look like hostnames": whatever
\* aliases are configured, a name that begins with a public host is answered
\* from that host over HTTPS, and any other name only from a configured alias.
HostPathsArePublic ==
    answer.kind = "handler" =>
        LET first == NonEmpty(answer.target.full_name)[1]
            url == answer.target.upstream
        IN  IF is_public_hostname(first)
            THEN answer.target.source = "HostPath" /\ url.scheme = "https"
                 /\ url.host = first /\ url.port = None
            ELSE answer.target.source = "ConfiguredAlias" /\ first \in DOMAIN cfg.aliases
                 /\ url.host = cfg.aliases[first].upstream.host

\* Every route of a name leads to the same target, by the name the answer
\* gives back to the client (the Link of a tag list, the blobs of a manifest),
\* unless the name contains the word of another route; only the route of the
\* tags takes the slashes off its end.
OneNameOneTarget ==
    answer.kind = "handler" =>
        LET name == answer.target.full_name
            words == ToSet(Tail(name))
            Target(path) == RouteAnswer(path).target
        IN  /\ Target(name \o <<<<"manifests">>, SomeDigest>>) = answer.target
            /\ <<"manifests">> \notin words =>
                  Target(name \o <<<<"blobs">>, SomeDigest>>) = answer.target
            /\ {<<"manifests">>, <<"blobs">>} \cap words = {} =>
                  Target(name \o <<<<"tags">>, <<"list">>>>) =
                      [answer.target EXCEPT !.full_name = TrimEnd(name)]

\* rewrite_dependency_url: a dependency that is pointed at the proxy leads to
\* the repository it came from or nowhere, never to another server or path;
\* and it leads somewhere if its path consists of names.
DependencyComesBack ==
    (phase = "serving" /\ stage = "idle") =>
        \A url \in Dependencies :
            LET name == rewrite_dependency_url(url, repo_alias)
                back == RouteAnswer(name \o <<SomeChart, <<"manifests">>, SomeDigest>>).target
            IN  name # None =>
                  /\ back # None =>
                        /\ back.kind = "classic" /\ back.chart = SomeChart
                        /\ back.upstream.host = url.host /\ back.upstream.port = url.port
                        /\ NonEmpty(back.upstream.path) = NonEmpty(url.path)
                  /\ (\A i \in DOMAIN url.path : is_valid_chart_name(url.path[i])) => back # None

\* main: a request for an alias with auth: gcp finds the provider it needs; a
\* server that could not get one never listens.
ProviderIsThere ==
    (answer.kind = "handler" /\ answer.target.auth = "gcp") => gcp
=============================================================================
