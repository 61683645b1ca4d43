--------------------------- MODULE Gateway_proofs ----------------------------
(* Proofs about Gateway, for every configuration file, environment and        *)
(* request: what a running server was checked for still holds of it when a    *)
(* request reaches a handler.                                                 *)
EXTENDS Gateway, SequenceTheorems, WellFoundedInduction, TLAPS

\* The request may be answered other than by a refusal.
Admitted ==
    ~cfg.auth.enabled \/ req.place \in PublicPaths \/ Authorized(req.authorization)

\* Beyond loading, the configuration is valid and its aliases are in use.
Started ==
    phase \in {"storage", "provider", "serving"} => validate(cfg) /\ aliases = Aliases(cfg)

\* The server answers only once it listens.
Serving ==
    /\ stage \in {"idle", "auth", "dispatch", "answered"}
    /\ stage # "idle" => phase = "serving"
    /\ phase = "serving" => (needs_gcp => gcp)

\* What is known of the request at each stage.
Progress ==
    /\ stage = "dispatch" => Admitted
    /\ stage = "answered" => answer.kind = "unauthorized" \/ Admitted
    /\ stage # "answered" => answer.kind = "none"

\* A handler gets the target of some name, below /v2.
Handled ==
    answer.kind = "handler" =>
        /\ req.place = "v2"
        /\ answer.target # None
        /\ \E name : answer.target = resolve_name(name, aliases)

IInv ==
    /\ cfg \in Configs
    /\ Started
    /\ Serving
    /\ Progress
    /\ Handled

-----------------------------------------------------------------------------
(* The start.                                                                *)

LEMMA InitInv == Init => IInv
<1> SUFFICES ASSUME Init PROVE IInv OBVIOUS
<1>1. answer.kind = "none"
  BY DEF Init, Answer
<1> QED BY <1>1 DEF Init, IInv, Started, Serving, Progress, Handled

\* A step of the start-up: no request is served before it is over.
LEMMA StartStep ==
    ASSUME IInv, phase \in {"loading", "storage", "provider"},
           UNCHANGED <<cfg, env, req, stage, answer>>, Started',
           phase' = "serving" => (needs_gcp => gcp)'
    PROVE  IInv'
<1>1. stage = "idle" /\ answer.kind = "none"
  BY DEF IInv, Serving, Progress
<1>2. Serving' /\ Progress' /\ Handled'
  BY <1>1 DEF IInv, Serving, Progress, Handled
<1> QED BY <1>2 DEF IInv

LEMMA LoadInv == ASSUME IInv, Load PROVE IInv'
<1>1. CASE cfg.parses /\ validate(cfg)
  <2>1. /\ phase = "loading" /\ phase' = "storage" /\ aliases' = Aliases(cfg)
        /\ UNCHANGED <<cfg, env, gcp, req, stage, answer>>
    BY <1>1 DEF Load
  <2>2. Started'
    BY <1>1, <2>1 DEF Started, validate, LimitsOK, AuthOK, StorageOK, SecretsOK, Aliases,
       CredentialedOK, Expand, Expanded, missing_vars
  <2> QED BY <2>1, <2>2, StartStep
<1>2. CASE ~(cfg.parses /\ validate(cfg))
  BY <1>2, StartStep DEF Load, Refuse, Started
<1> QED BY <1>1, <1>2

LEMMA BuildStorageInv == ASSUME IInv, BuildStorage PROVE IInv'
<1>1. Started'
  BY DEF BuildStorage, IInv, Started, validate, SecretsOK, AuthOK, Expand, Expanded,
     missing_vars
<1> QED BY <1>1, StartStep DEF BuildStorage

\* The provider is there if an alias needs it.
LEMMA ListenInv == ASSUME IInv, Listen PROVE IInv'
<1>1. Started'
  BY DEF Listen, IInv, Started, validate, SecretsOK, AuthOK, Expand, Expanded, missing_vars
<1>2. (needs_gcp => gcp)'
  <2>1. gcp' = needs_gcp /\ aliases' = aliases
    BY DEF Listen
  <2>2. needs_gcp' = needs_gcp
    BY <2>1 DEF needs_gcp
  <2> QED BY <2>1, <2>2, Zenon
<1> QED BY <1>1, <1>2, StartStep DEF Listen

-----------------------------------------------------------------------------
(* A request.                                                                *)

\* The running server does not change.
LEMMA StartedStays ==
    ASSUME IInv, UNCHANGED startup
    PROVE  cfg' \in Configs /\ Started' /\ ((needs_gcp => gcp) => (needs_gcp => gcp)')
  BY DEF startup, IInv, Started, validate, SecretsOK, AuthOK, Expand, Expanded, missing_vars,
     needs_gcp

LEMMA ArriveInv == ASSUME IInv, NEW r \in Requests, Arrive(r) PROVE IInv'
<1>1. UNCHANGED startup /\ answer' = answer /\ stage = "idle" /\ stage' = "auth"
      /\ phase = "serving" /\ phase' = "serving"
  BY DEF Arrive, startup
<1>2. answer.kind = "none"
  BY <1>1 DEF IInv, Progress
<1> QED BY <1>1, <1>2, StartedStays DEF IInv, Serving, Progress, Handled

\* Whether a request is admitted depends on the configuration and the request.
LEMMA AdmittedStays ==
    ASSUME UNCHANGED <<cfg, env, req>>, Admitted PROVE Admitted'
  BY DEF Admitted, Authorized, Tokens, Expand, Expanded

\* The answer to a request.
LEMMA ReplyInv ==
    ASSUME IInv, NEW a, stage # "idle", Reply(a),
           a.kind = "unauthorized" \/ Admitted,
           a.kind = "handler" => /\ req.place = "v2" /\ a.target # None
                                 /\ \E name : a.target = resolve_name(name, aliases)
    PROVE  IInv'
<1>1. UNCHANGED startup /\ answer' = a /\ stage' = "answered" /\ req' = req
      /\ phase = "serving" /\ phase' = "serving" /\ UNCHANGED <<cfg, env, aliases>>
  BY DEF Reply, startup, IInv, Serving
<1>2. Progress'
  BY <1>1, AdmittedStays DEF Progress
<1>3. Handled'
  <2>1. ASSUME NEW name PROVE resolve_name(name, aliases)' = resolve_name(name, aliases)
    BY <1>1
  <2> QED BY <1>1, <2>1 DEF Handled
<1>4. Serving'
  BY <1>1, StartedStays DEF IInv, Serving
<1> QED BY <1>1, <1>2, <1>3, <1>4, StartedStays DEF IInv

LEMMA AuthInv == ASSUME IInv, require_pull_auth PROVE IInv'
<1>1. CASE Admitted
  <2>1. /\ stage = "auth" /\ stage' = "dispatch" /\ UNCHANGED <<startup, req, answer>>
    BY <1>1 DEF require_pull_auth, Admitted
  <2>2. phase = "serving" /\ phase' = "serving" /\ UNCHANGED <<cfg, env>>
    BY <2>1 DEF IInv, Serving, startup
  <2>3. Admitted'
    BY <1>1, <2>1, <2>2, AdmittedStays
  <2>4. answer.kind = "none"
    BY <2>1 DEF IInv, Progress
  <2> QED BY <2>1, <2>2, <2>3, <2>4, StartedStays DEF IInv, Serving, Progress, Handled
<1>2. CASE ~Admitted
  <2>1. stage = "auth" /\ Reply(Answer("unauthorized"))
    BY <1>2 DEF require_pull_auth, Admitted
  <2>2. Answer("unauthorized").kind = "unauthorized"
    BY DEF Answer
  <2> QED BY <2>1, <2>2, ReplyInv
<1> QED BY <1>1, <1>2

\* Only a name that resolves leads to a handler.
LEMMA RouteAnswers ==
    ASSUME NEW path
    PROVE  LET a == RouteAnswer(path) IN
           a.kind = "handler" => /\ a.target # None
                                 /\ \E name : a.target = resolve_name(name, aliases)
<1> DEFINE route == parse_oci_path(path)
           a == RouteAnswer(path)
<1>1. a = Answer("api") \/ a = Answer("name_unknown") \/ a = Entry(route)
  BY DEF RouteAnswer
<1>2. Answer("api").kind = "api" /\ Answer("name_unknown").kind = "name_unknown"
  BY DEF Answer
<1>3. CASE a = Entry(route)
  <2> DEFINE target == resolve_name(route.name, aliases)
  <2>1. CASE target = None
    BY <1>2, <1>3, <2>1 DEF Entry
  <2>2. CASE target # None
    <3>1. a = [kind |-> "handler", route |-> route.route, target |-> target]
      BY <1>3, <2>2 DEF Entry
    <3>2. a.target = target
      BY <3>1
    <3> QED BY <2>2, <3>2
  <2> QED BY <2>1, <2>2
<1> QED BY <1>1, <1>2, <1>3

LEMMA DispatchInv == ASSUME IInv, Dispatch PROVE IInv'
<1>1. stage = "dispatch" /\ Admitted
  BY DEF Dispatch, IInv, Progress
<1>2. \A k \in Kinds : Answer(k).kind = k
  BY DEF Answer
<1>3. ASSUME NEW k \in Kinds \ {"handler"}, Reply(Answer(k)) PROVE IInv'
  BY <1>1, <1>2, <1>3, ReplyInv
<1>4. CASE req.place \in PublicPaths
           /\ Reply(Answer(IF req.method \in {"GET", "HEAD"} THEN "public" ELSE "unsupported"))
  BY <1>3, <1>4 DEF Kinds
<1>5. CASE req.place = "outside" /\ Reply(Answer("not_found"))
  BY <1>3, <1>5 DEF Kinds
<1>6. CASE /\ req.place \in {"v2", "undecodable"}
           /\ Reply(IF req.method \notin {"GET", "HEAD"} THEN Answer("unsupported")
                    ELSE IF proxy_host_from(req) = None THEN Answer("name_invalid")
                    ELSE IF req.place = "undecodable" THEN Answer("name_unknown")
                    ELSE RouteAnswer(req.path))
  <2>1. CASE \E k \in {"unsupported", "name_invalid", "name_unknown"} : Reply(Answer(k))
    BY <1>3, <2>1 DEF Kinds
  <2>2. CASE req.place = "v2" /\ Reply(RouteAnswer(req.path))
    BY <1>1, <2>2, RouteAnswers, ReplyInv
  <2> QED BY <1>6, <2>1, <2>2
<1> QED BY <1>4, <1>5, <1>6 DEF Dispatch

LEMMA RespondInv == ASSUME IInv, Respond PROVE IInv'
<1>1. UNCHANGED startup /\ stage' = "idle" /\ answer' = Answer("none")
  BY DEF Respond
<1>2. answer'.kind = "none" /\ phase' = phase
  BY <1>1 DEF Answer, startup
<1> QED BY <1>1, <1>2, StartedStays DEF IInv, Serving, Progress, Handled

LEMMA NextInv == IInv /\ [Next]_vars => IInv'
<1> SUFFICES ASSUME IInv, [Next]_vars PROVE IInv'
  OBVIOUS
<1>1. ASSUME UNCHANGED vars PROVE IInv'
  <2>1. UNCHANGED startup /\ UNCHANGED <<req, stage, answer, cfg, env, phase, aliases>>
    BY <1>1 DEF vars, startup
  <2>2. Admitted => Admitted'
    BY <2>1, AdmittedStays
  <2>3. ASSUME NEW name PROVE resolve_name(name, aliases)' = resolve_name(name, aliases)
    BY <2>1
  <2>4. Handled'
    BY <2>1, <2>3 DEF IInv, Handled
  <2> QED BY <2>1, <2>2, <2>4, StartedStays DEF IInv, Serving, Progress
<1>2. ASSUME StartFails PROVE IInv'
  BY <1>2, StartStep DEF StartFails, Refuse, Started
<1> QED
  BY <1>1, <1>2, LoadInv, BuildStorageInv, ListenInv, ArriveInv, AuthInv, DispatchInv,
     RespondInv DEF Next, Refused

LEMMA Invariance == Spec => []IInv
  BY InitInv, NextInv, PTL DEF Spec

-----------------------------------------------------------------------------
(* Targets.                                                                  *)

\* An alias has one label, a public host more.
LEMMA AliasIsNoHost ==
    ASSUME NEW s, is_public_hostname(s) PROVE ~is_valid_alias_name(s)
<1>1. Len(s) >= 2
  BY DEF is_public_hostname
<1>2. Len(s) # 1
  BY <1>1
<1> QED BY <1>2 DEF is_valid_alias_name

\* A target is a public host's, or an alias's with the alias's settings.
LEMMA TargetOfName ==
    ASSUME cfg \in Configs, validate(cfg), aliases = Aliases(cfg), NEW name,
           resolve_name(name, aliases) # None
    PROVE  LET t == resolve_name(name, aliases)
               first == NonEmpty(name)[1]
           IN  /\ t.full_name = name
               /\ \/ /\ first \notin DOMAIN cfg.aliases /\ is_public_hostname(first)
                     /\ t.source = "HostPath" /\ t.auth = "none"
                     /\ t.upstream.scheme = "https" /\ t.upstream.host = first
                     /\ t.upstream.port = None
                  \/ /\ first \in DOMAIN cfg.aliases /\ is_valid_alias_name(first)
                     /\ t.source = "ConfiguredAlias"
                     /\ t.upstream.host = cfg.aliases[first].upstream.host
                     /\ t.auth \in {"none", cfg.aliases[first].auth}
<1> DEFINE t == resolve_name(name, aliases)
           segments == NonEmpty(name)
           first == segments[1]
           rest == Tail(segments)
<1>1. DOMAIN aliases = DOMAIN cfg.aliases
  BY DEF Aliases
<1>2. CASE first \notin DOMAIN aliases
  <2>1. t = resolve_host_path(segments, name)
    BY <1>2 DEF resolve_name
  <2> DEFINE url == [scheme |-> "https", host |-> segments[1], port |-> None,
                     path |-> SubSeq(segments, 2, Len(segments) - 1)]
  <2>2. /\ is_public_hostname(first)
        /\ t = ClassicChart(url, Last(segments), name, FALSE, "HostPath")
    BY <2>1 DEF resolve_host_path
  <2>3. /\ t.full_name = name /\ t.source = "HostPath" /\ t.auth = "none" /\ t.upstream = url
    BY <2>2 DEF ClassicChart
  <2>4. url.scheme = "https" /\ url.host = first /\ url.port = None
    OBVIOUS
  <2> QED BY <1>1, <1>2, <2>2, <2>3, <2>4
<1>3. CASE first \in DOMAIN aliases
  <2> DEFINE alias == aliases[first]
             set == cfg.aliases[first]
             up == parse_alias_upstream(set.upstream)
  <2>1. set \in AliasSettings /\ is_valid_alias_name(first) /\ up # None
    BY <1>1, <1>3, ConfigAssumption DEF validate, AliasOK
  <2>2. set.upstream \in URLs
    BY <2>1 DEF AliasSettings
  <2>3. alias = [set EXCEPT !.upstream = up]
    BY <1>3 DEF Aliases
  <2>4. alias.upstream = up /\ alias.auth = set.auth
    BY <2>1, <2>3 DEF AliasSettings
  <2>5. up \in [scheme : Schemes, host : {set.upstream.host}, port : Nat \cup {None},
                path : {up.path}]
    <3>1. \/ up = [set.upstream EXCEPT !.path = Trim(set.upstream.path)]
          \/ up = [set.upstream EXCEPT !.path = TrimEnd(set.upstream.path)]
      BY <2>1 DEF parse_alias_upstream
    <3> QED BY <2>2, <3>1 DEF URLs
  <2>6. \/ t = OciTarget(alias, rest, name)
        \/ t = ClassicChart(alias.upstream, rest[1], name, ~alias.store, "ConfiguredAlias")
    BY <1>3 DEF resolve_name
  <2>7. CASE t = OciTarget(alias, rest, name)
    <3> HIDE DEF t, alias, rest, up
    <3>1. /\ t.full_name = name /\ t.source = "ConfiguredAlias" /\ t.auth = alias.auth
          /\ t.upstream = [up EXCEPT !.path = up.path \o rest]
      <4> DEFINE whole == [alias.upstream EXCEPT !.path = alias.upstream.path \o rest]
      <4>1. t = [kind |-> "oci", upstream |-> whole, chart |-> None, full_name |-> name,
                 store |-> alias.store, auth |-> alias.auth, plain_http |-> alias.plain_http,
                 source |-> "ConfiguredAlias"]
        BY <2>7 DEF OciTarget
      <4>2. whole = [up EXCEPT !.path = up.path \o rest]
        BY <2>4
      <4> HIDE DEF whole
      <4> QED BY <4>1, <4>2
    <3>2. t.upstream.host = set.upstream.host
      BY <2>5, <3>1
    <3> QED BY <1>1, <1>3, <2>1, <2>4, <3>1, <3>2 DEF t
  <2>8. CASE t = ClassicChart(alias.upstream, rest[1], name, ~alias.store, "ConfiguredAlias")
    <3>1. /\ t.full_name = name /\ t.source = "ConfiguredAlias" /\ t.auth = "none"
          /\ t.upstream = up
      BY <2>4, <2>8 DEF ClassicChart
    <3> QED BY <1>1, <1>3, <2>1, <2>5, <3>1
  <2> QED BY <2>6, <2>7, <2>8
<1> QED BY <1>2, <1>3

\* The server of a request that has got to a handler.
LEMMA HandlerRuns ==
    ASSUME IInv, answer.kind = "handler"
    PROVE  /\ stage = "answered" /\ phase = "serving"
           /\ validate(cfg) /\ aliases = Aliases(cfg) /\ cfg \in Configs
           /\ Admitted /\ req.place = "v2" /\ (needs_gcp => gcp)
           /\ \E name : /\ answer.target = resolve_name(name, aliases)
                        /\ resolve_name(name, aliases) # None
<1>1. stage = "answered"
  BY DEF IInv, Progress
<1>2. phase = "serving" /\ (needs_gcp => gcp)
  BY <1>1 DEF IInv, Serving
<1> QED BY <1>1, <1>2 DEF IInv, Started, Progress, Handled

-----------------------------------------------------------------------------
(* Types.                                                                    *)

\* The types of what the start-up sets, and of the request.
StartType ==
    /\ phase \in {"loading", "storage", "provider", "serving", "refused"}
    /\ DOMAIN aliases \subseteq DOMAIN cfg.aliases
    /\ \A k \in DOMAIN repo_alias : repo_alias[k] \in DOMAIN aliases
    /\ gcp \in BOOLEAN

AnswerType(a) ==
    /\ a.kind \in Kinds
    /\ a.kind # "handler" => a = Answer(a.kind)
    /\ a.kind = "handler" => a.route \in {"manifest", "blob", "tags"} /\ a.target # None

LEMMA TypeSplit ==
    TypeOK <=> /\ StartType /\ AnswerType(answer)
               /\ stage \in {"idle", "auth", "dispatch", "answered"}
  BY DEF TypeOK, StartType, AnswerType

LEMMA PlainAnswer == ASSUME NEW k \in Kinds \ {"handler"} PROVE AnswerType(Answer(k))
<1>1. Answer(k).kind = k
  BY DEF Answer
<1> QED BY <1>1 DEF AnswerType

\* A path has one of the routes.
LEMMA RouteOfPath ==
    ASSUME NEW path
    PROVE  parse_oci_path(path).route \in {"api", "not_found", "manifest", "blob", "tags"}
<1>1. NotFound.route = "not_found" /\ Api.route = "api"
  BY DEF NotFound, Api
<1>2. \A p, i, ok : /\ Named("manifest", p, i, ok).route \in {"manifest", "not_found"}
                    /\ Named("blob", p, i, ok).route \in {"blob", "not_found"}
  BY <1>1 DEF Named
<1> QED BY <1>1, <1>2 DEF parse_oci_path

LEMMA RouteAnswerType == ASSUME NEW path PROVE AnswerType(RouteAnswer(path))
<1> DEFINE route == parse_oci_path(path)
           target == resolve_name(route.name, aliases)
<1>1. CASE route.route = "api"
  BY <1>1, PlainAnswer DEF RouteAnswer, Kinds
<1>2. CASE route.route = "not_found"
  BY <1>2, PlainAnswer DEF RouteAnswer, Kinds
<1>3. CASE route.route \in {"manifest", "blob", "tags"}
  <2>1. RouteAnswer(path) = Entry(route)
    BY <1>3 DEF RouteAnswer
  <2>2. CASE target = None
    BY <2>1, <2>2, PlainAnswer DEF Entry, Kinds
  <2>3. CASE target # None
    <3>1. Entry(route) = [kind |-> "handler", route |-> route.route, target |-> target]
      BY <2>3 DEF Entry
    <3> HIDE DEF route, target
    <3>2. Entry(route).kind = "handler" /\ Entry(route).route = route.route
          /\ Entry(route).target = target
      BY <3>1
    <3> QED BY <1>3, <2>1, <2>3, <3>2 DEF AnswerType, Kinds
  <2> QED BY <2>2, <2>3
<1> QED BY <1>1, <1>2, <1>3, RouteOfPath

LEMMA StartTypeStays == StartType /\ UNCHANGED startup => StartType'
  BY DEF StartType, startup

LEMMA InitType == Init => TypeOK
<1> SUFFICES ASSUME Init PROVE TypeOK
  OBVIOUS
<1>1. StartType
  BY DEF Init, StartType, NoAliases
<1>2. AnswerType(answer)
  BY PlainAnswer DEF Init, Kinds
<1> QED BY <1>1, <1>2, TypeSplit DEF Init

LEMMA NextType == TypeOK /\ [Next]_vars => TypeOK'
<1> SUFFICES ASSUME TypeOK, [Next]_vars PROVE TypeOK'
  OBVIOUS
<1> USE TypeSplit
<1>1. ASSUME StartType', UNCHANGED <<stage, answer>> PROVE TypeOK'
  BY <1>1 DEF AnswerType, TypeOK, StartType
<1>2. ASSUME UNCHANGED startup, stage' \in {"idle", "auth", "dispatch", "answered"},
             AnswerType(answer')
      PROVE  TypeOK'
  BY <1>2, StartTypeStays DEF AnswerType, TypeOK, StartType
<1>3. CASE Load
  <2>1. CASE Refuse
    BY <1>1, <2>1 DEF Refuse, StartType
  <2>2. CASE /\ phase' = "storage" /\ aliases' = Aliases(cfg)
             /\ repo_alias' \in classic_alias_rewrite_map(Aliases(cfg))
             /\ UNCHANGED <<cfg, env, gcp, req, stage, answer>>
    <3>1. DOMAIN aliases' = DOMAIN cfg.aliases
      BY <2>2 DEF Aliases
    <3>2. \A k \in DOMAIN repo_alias' : repo_alias'[k] \in DOMAIN aliases'
      BY <2>2 DEF classic_alias_rewrite_map
    <3>3. StartType'
      BY <2>2, <3>1, <3>2 DEF StartType
    <3> QED BY <1>1, <2>2, <3>3
  <2> QED BY <1>3, <2>1, <2>2 DEF Load
<1>4. CASE BuildStorage
  BY <1>1, <1>4 DEF BuildStorage, StartType
<1>5. CASE Listen
  BY <1>1, <1>5 DEF Listen, StartType, needs_gcp
<1>6. CASE StartFails
  BY <1>1, <1>6 DEF StartFails, Refuse, StartType
<1>7. ASSUME NEW r \in Requests, Arrive(r) PROVE TypeOK'
  BY <1>2, <1>7 DEF Arrive
<1>8. ASSUME NEW a, AnswerType(a), Reply(a) PROVE TypeOK'
  BY <1>2, <1>8 DEF Reply
<1>9. ASSUME NEW k \in Kinds \ {"handler"}, Reply(Answer(k)) PROVE TypeOK'
  BY <1>8, <1>9, PlainAnswer
<1>10. CASE require_pull_auth
  <2>1. CASE Reply(Answer("unauthorized"))
    BY <1>9, <2>1 DEF Kinds
  <2>2. CASE stage' = "dispatch" /\ UNCHANGED <<startup, req, answer>>
    BY <1>2, <2>2
  <2> QED BY <1>10, <2>1, <2>2 DEF require_pull_auth
<1>11. CASE Dispatch
  <2>1. CASE \E k \in Kinds \ {"handler"} : Reply(Answer(k))
    BY <1>9, <2>1
  <2>2. CASE Reply(RouteAnswer(req.path))
    BY <1>8, <2>2, RouteAnswerType
  <2> QED BY <1>11, <2>1, <2>2 DEF Dispatch, Kinds
<1>12. CASE Respond
  BY <1>2, <1>12, PlainAnswer DEF Respond, Kinds
<1>13. CASE UNCHANGED vars
  BY <1>2, <1>13 DEF vars
<1> QED
  BY <1>3, <1>4, <1>5, <1>6, <1>7, <1>10, <1>11, <1>12, <1>13 DEF Next, Refused

-----------------------------------------------------------------------------
(* Theorems.                                                                 *)

\* From the start to the answer every variable has its type: the map of
\* dependencies names only configured aliases, and an answer is a plain one or
\* a handler with a route and a target.
THEOREM TypeCorrect == Spec => []TypeOK
  BY InitType, NextType, PTL DEF Spec

\* require_pull_auth lets nothing through without one configured token, for any
\* tokens and requests.
THEOREM PullsAuthorized == Spec => []PullsAreAuthorized
<1>1. IInv => PullsAreAuthorized
  <2> SUFFICES ASSUME IInv, stage = "answered", cfg.auth.enabled,
                      answer.kind # "unauthorized", req.place \notin PublicPaths
               PROVE  \E i \in DOMAIN cfg.auth.tokens :
                        /\ Expand(cfg.auth.tokens[i]) # <<>>
                        /\ Len(req.authorization) = 1
                        /\ req.authorization[1].token = Expand(cfg.auth.tokens[i])
    BY DEF PullsAreAuthorized
  <2>1. Authorized(req.authorization)
    BY DEF IInv, Progress, Admitted
  <2>2. /\ Len(req.authorization) = 1
        /\ extract_token(req.authorization[1]) = req.authorization[1].token
        /\ extract_token(req.authorization[1]) \in Tokens
    BY <2>1 DEF Authorized, extract_token
  <2>3. PICK text \in ToSet(cfg.auth.tokens) :
          req.authorization[1].token = Expand(text) /\ Expand(text) # <<>>
    BY <2>2 DEF Tokens
  <2>4. PICK i \in DOMAIN cfg.auth.tokens : text = cfg.auth.tokens[i]
    BY DEF ToSet
  <2> QED BY <2>2, <2>3, <2>4
<1> QED BY <1>1, Invariance, PTL

\* validate and resolve_name: no anonymous request gets to an alias with
\* upstream credentials unless the configuration allows it.
THEOREM PrivateIsNotRepublished == Spec => []PrivateNotRepublished
<1>1. IInv => PrivateNotRepublished
  <2> SUFFICES ASSUME IInv, answer.kind = "handler", answer.target.auth # "none",
                      req.authorization = <<>>
               PROVE  cfg.allow_public_private_upstreams
    BY DEF PrivateNotRepublished
  <2>1. ~cfg.auth.enabled
    <3>1. ~Authorized(req.authorization) /\ "v2" \notin PublicPaths
      BY DEF Authorized, PublicPaths
    <3> QED BY <3>1, HandlerRuns DEF Admitted
  <2>2. \E a \in DOMAIN cfg.aliases : cfg.aliases[a].auth # "none"
    BY HandlerRuns, TargetOfName
  <2> QED BY <2>1, <2>2, HandlerRuns DEF validate, CredentialedOK
<1> QED BY <1>1, Invariance, PTL

\* reject_unexpanded_secret: whatever the secrets are made of, a server that
\* runs has none with an unset variable, but for the glued bare reference.
THEOREM SecretsAreNotLiteral == Spec => []NoLiteralSecrets
<1>1. IInv => NoLiteralSecrets
  <2> SUFFICES ASSUME IInv, phase = "serving", NEW t \in Secrets(cfg), NEW i \in DOMAIN t,
                      t[i].form \in {"braced", "bare"}, t[i].what \notin env
               PROVE  t[i].form = "bare" /\ i < Len(t) /\ Expanded(t[i + 1]).form = "word"
    BY DEF NoLiteralSecrets
  <2>1. t \in Seq(Pieces) /\ t \in Texts(cfg) /\ SecretsOK(cfg)
    BY ConfigAssumption DEF IInv, Started, validate, Texts
  <2>2. t[i] \in Pieces /\ i \in 1 .. Len(t) /\ Len(t) \in Nat
    BY <2>1
  <2> DEFINE v == t[i].what
             value == Expand(t)
  <2>3. v \in Vars /\ t[i] = Piece(t[i].form, v)
    BY <2>2 DEF Pieces, Piece, References
  <2>4. v \in missing_vars(cfg)
    BY <2>1, <2>3 DEF missing_vars, References
  <2>5. ~references_missing_var(value, v)
    BY <2>1, <2>4 DEF SecretsOK, SecretOK
  <2>6. value[i] = t[i]
    BY <2>3 DEF Expand, Expanded, References
  <2>7. DOMAIN value = 1 .. Len(t) /\ Len(value) = Len(t)
    BY <2>1 DEF Expand
  <2>8. t[i].form # "braced" /\ t[i].form = "bare"
    BY <2>2, <2>3, <2>5, <2>6, <2>7 DEF references_missing_var
  <2>9. i < Len(value) /\ value[i + 1].form = "word"
    BY <2>2, <2>3, <2>5, <2>6, <2>7, <2>8 DEF references_missing_var
  <2> QED BY <2>2, <2>7, <2>8, <2>9 DEF Expand
<1> QED BY <1>1, Invariance, PTL

\* is_valid_alias_name and resolve_name: no configuration makes a public host
\* name lead anywhere but to that host over HTTPS.
THEOREM HostPathsStayPublic == Spec => []HostPathsArePublic
<1>1. IInv => HostPathsArePublic
  <2> SUFFICES ASSUME IInv, answer.kind = "handler" PROVE HostPathsArePublic
    BY DEF HostPathsArePublic
  <2>1. PICK name : /\ answer.target = resolve_name(name, aliases)
                    /\ resolve_name(name, aliases) # None
    BY HandlerRuns
  <2> DEFINE first == NonEmpty(name)[1]
  <2>2. is_public_hostname(first) => ~is_valid_alias_name(first)
    BY AliasIsNoHost
  <2> HIDE DEF first
  <2> QED BY <2>1, <2>2, HandlerRuns, TargetOfName DEF HostPathsArePublic, first
<1> QED BY <1>1, Invariance, PTL

\* main: a request that needs a GCP token finds the provider.
THEOREM ProvidersAreThere == Spec => []ProviderIsThere
<1>1. IInv => ProviderIsThere
  <2> SUFFICES ASSUME IInv, answer.kind = "handler", answer.target.auth = "gcp" PROVE gcp
    BY DEF ProviderIsThere
  <2>1. PICK a \in DOMAIN cfg.aliases : cfg.aliases[a].auth = "gcp"
    BY HandlerRuns, TargetOfName
  <2>2. a \in DOMAIN aliases /\ aliases[a].auth = "gcp"
    BY <2>1, HandlerRuns, ConfigAssumption DEF Aliases, AliasSettings
  <2> QED BY <2>2, HandlerRuns DEF needs_gcp
<1> QED BY <1>1, Invariance, PTL

-----------------------------------------------------------------------------
(* Induction over an interval, for sets instead of predicates.               *)

\* A set with 0 and with the successor of each of its members holds Nat.
LEMMA NatInduct ==
    ASSUME NEW S, 0 \in S, \A n \in Nat : n \in S => n + 1 \in S
    PROVE  Nat \subseteq S
<1> DEFINE T == Nat \ S
           R == {ss \in Nat \X Nat : ss[1] < ss[2]}
<1> SUFFICES ASSUME T # {} PROVE FALSE
  OBVIOUS
<1>1. IsWellFoundedOn(R, Nat)
  BY NatLessThanWellFounded DEF OpToRel
<1>2. PICK x \in T : \A y \in T : ~(<<y, x>> \in R)
  <2>1. T \subseteq Nat
    OBVIOUS
  <2> HIDE DEF T, R
  <2> QED BY <1>1, <2>1, WFMin
<1>3. x \in Nat /\ x # 0
  OBVIOUS
<1>4. x - 1 \in Nat
  BY <1>3
<1>5. <<x - 1, x>> \in R
  BY <1>3, <1>4
<1>6. x - 1 \in S
  BY <1>2, <1>4, <1>5
<1>7. x \in S
  BY <1>4, <1>6
<1> QED BY <1>7

LEMMA UpTo ==
    ASSUME NEW N \in Nat, NEW S, 0 \in S, \A n \in 0 .. N - 1 : n \in S => n + 1 \in S
    PROVE  0 .. N \subseteq S
<1> DEFINE T == {n \in Nat : n <= N => n \in S}
<1>1. 0 \in T
  OBVIOUS
<1>2. ASSUME NEW n \in Nat, n \in T PROVE n + 1 \in T
  BY <1>2
<1>3. Nat \subseteq T
  <2> HIDE DEF T
  <2> QED BY <1>1, <1>2, NatInduct
<1> QED BY <1>3

\* A function whose values stay in a set.
LEMMA Stays ==
    ASSUME NEW N \in Nat, NEW X, NEW g, g[0] \in X,
           \A i \in 1 .. N : g[i - 1] \in X => g[i] \in X
    PROVE  \A n \in 0 .. N : g[n] \in X
<1> DEFINE S == {n \in 0 .. N : g[n] \in X}
<1>1. 0 \in S
  OBVIOUS
<1>2. ASSUME NEW n \in 0 .. N - 1, n \in S PROVE n + 1 \in S
  <2>1. n + 1 \in 1 .. N /\ (n + 1) - 1 = n
    OBVIOUS
  <2> QED BY <1>2, <2>1
<1>3. 0 .. N \subseteq S
  <2> HIDE DEF S
  <2> QED BY <1>1, <1>2, UpTo
<1> QED BY <1>3

\* A function on 0 .. N with values in X that begins with base and goes on by
\* a step.
IsStep(step, X, N) == N \in Nat /\ step \in [X \X (1 .. N) -> X]

IsFold(f, X, base, N, step) ==
    /\ f \in [0 .. N -> X]
    /\ f[0] = base
    /\ \A i \in 1 .. N : f[i] = step[<<f[i - 1], i>>]

LEMMA FoldExists ==
    ASSUME NEW X, NEW base \in X, NEW N, NEW step, IsStep(step, X, N)
    PROVE  \E f : IsFold(f, X, base, N, step)
<1> USE DEF IsStep
<1> DEFINE Good(f, n) == f[0] = base /\ \A i \in 1 .. n : f[i] = step[<<f[i - 1], i>>]
           S == {n \in 0 .. N : \E f \in [0 .. n -> X] : Good(f, n)}
<1>1. 0 \in S
  <2> DEFINE f == [i \in 0 .. 0 |-> base]
  <2>1. f \in [0 .. 0 -> X] /\ Good(f, 0)
    OBVIOUS
  <2>2. \E h \in [0 .. 0 -> X] : Good(h, 0)
    <3> HIDE DEF f
    <3> QED BY <2>1
  <2> QED BY <2>2
<1>2. ASSUME NEW n \in 0 .. N - 1, n \in S PROVE n + 1 \in S
  <2>1. PICK f \in [0 .. n -> X] : Good(f, n)
    BY <1>2
  <2> DEFINE next == step[<<f[n], n + 1>>]
             g == [i \in 0 .. n + 1 |-> IF i = n + 1 THEN next ELSE f[i]]
  <2>2. next \in X
    <3>1. f[n] \in X /\ n + 1 \in 1 .. N
      OBVIOUS
    <3> QED BY <3>1
  <2>3. g \in [0 .. n + 1 -> X]
    <3>1. ASSUME NEW i \in 0 .. n + 1 PROVE (IF i = n + 1 THEN next ELSE f[i]) \in X
      <4> HIDE DEF next
      <4>1. i # n + 1 => i \in 0 .. n
        OBVIOUS
      <4> QED BY <2>2, <4>1
    <3> HIDE DEF next
    <3> QED BY <3>1
  <2>4. Good(g, n + 1)
    <3>1. g[0] = base
      BY <2>1
    <3>2. ASSUME NEW i \in 1 .. n + 1 PROVE g[i] = step[<<g[i - 1], i>>]
      <4>1. CASE i = n + 1
        <5>1. i - 1 = n /\ g[i - 1] = f[n] /\ g[i] = next
          BY <4>1
        <5> HIDE DEF g
        <5>2. step[<<g[i - 1], i>>] = next
          BY <4>1, <5>1
        <5> QED BY <5>1, <5>2
      <4>2. CASE i # n + 1
        <5>1. i \in 1 .. n /\ i \in 0 .. n /\ i - 1 \in 0 .. n
          BY <4>2
        <5>2. g[i] = f[i] /\ g[i - 1] = f[i - 1]
          BY <4>2, <5>1
        <5>3. f[i] = step[<<f[i - 1], i>>]
          BY <2>1, <5>1
        <5> QED BY <5>2, <5>3
      <4> QED BY <4>1, <4>2
    <3> QED BY <3>1, <3>2
  <2>5. \E h \in [0 .. n + 1 -> X] : Good(h, n + 1)
    <3> HIDE DEF g
    <3> QED BY <2>3, <2>4
  <2> QED BY <2>5
<1>3. 0 .. N \subseteq S
  <2> HIDE DEF S
  <2> QED BY <1>1, <1>2, UpTo
<1>4. N \in S
  BY <1>3
<1>5. \E f \in [0 .. N -> X] : Good(f, N)
  BY <1>4
<1> QED BY <1>5 DEF IsFold

LEMMA NatLeast ==
    ASSUME NEW S \in SUBSET Nat, S # {}
    PROVE  \E x \in S : \A y \in S : x <= y
<1> DEFINE R == {ss \in Nat \X Nat : ss[1] < ss[2]}
<1>1. IsWellFoundedOn(R, Nat)
  BY NatLessThanWellFounded DEF OpToRel
<1>2. PICK x \in S : \A y \in S : ~(<<y, x>> \in R)
  <2> HIDE DEF R
  <2> QED BY <1>1, WFMin
<1>3. ASSUME NEW y \in S PROVE x <= y
  <2>1. x \in Nat /\ y \in Nat
    OBVIOUS
  <2>2. ~(y < x)
    BY <1>2, <2>1
  <2> QED BY <2>1, <2>2
<1> QED BY <1>3

-----------------------------------------------------------------------------
(* The segments of a path that are not empty.                                *)

LEMMA NonEmptyUnfold ==
    ASSUME NEW path, Len(path) \in Nat, NEW F,
           \A i \in 1 .. Len(path) : ~IsEmpty(path[i]) => path[i] \in F
    PROVE  /\ NonEmptyTo(path) \in [0 .. Len(path) -> Seq(F)]
           /\ NonEmptyTo(path)[0] = <<>>
           /\ \A i \in 1 .. Len(path) :
                  NonEmptyTo(path)[i] = WithSegment(NonEmptyTo(path)[i - 1], path[i])
<1> DEFINE N == Len(path)
           X == Seq(F)
           step == [p \in X \X (1 .. N) |-> WithSegment(p[1], path[p[2]])]
           Rec(f) == [n \in 0 .. N |-> IF n = 0 THEN <<>> ELSE WithSegment(f[n - 1], path[n])]
<1>1. N \in Nat /\ <<>> \in X
  BY DEF N, X
<1>2. ASSUME NEW x \in X, NEW i \in 1 .. N PROVE WithSegment(x, path[i]) \in X
  BY DEF N, X, WithSegment
<1> HIDE DEF X, N
<1>3. IsStep(step, X, N)
  BY <1>1, <1>2 DEF IsStep
<1>4. ASSUME NEW x \in X, NEW i \in 1 .. N PROVE step[<<x, i>>] = WithSegment(x, path[i])
  OBVIOUS
<1>5. PICK f : IsFold(f, X, <<>>, N, step)
  <2> HIDE DEF step
  <2> QED BY <1>1, <1>3, FoldExists
<1> HIDE DEF step
<1>6. /\ f \in [0 .. N -> X] /\ f[0] = <<>>
      /\ \A i \in 1 .. N : f[i] = WithSegment(f[i - 1], path[i])
  <2> SUFFICES ASSUME NEW i \in 1 .. N PROVE f[i] = WithSegment(f[i - 1], path[i])
    BY <1>5 DEF IsFold
  <2>1. i - 1 \in 0 .. N
    BY <1>1
  <2>2. f[i - 1] \in X
    BY <1>5, <2>1 DEF IsFold
  <2> QED BY <1>4, <1>5, <2>2 DEF IsFold
<1>7. f = Rec(f)
  BY <1>1, <1>6
<1>8. NonEmptyTo(path) = Rec(NonEmptyTo(path))
  BY <1>7 DEF NonEmptyTo, N
<1>9. NonEmptyTo(path)[0] = <<>>
  BY <1>1, <1>8
<1>10. \A i \in 1 .. N : NonEmptyTo(path)[i] = WithSegment(NonEmptyTo(path)[i - 1], path[i])
  BY <1>1, <1>8
<1>11. \A n \in 0 .. N : NonEmptyTo(path)[n] \in X
  <2>1. NonEmptyTo(path)[0] \in X
    BY <1>1, <1>9
  <2>2. \A i \in 1 .. N : NonEmptyTo(path)[i - 1] \in X => NonEmptyTo(path)[i] \in X
    BY <1>2, <1>10
  <2> QED BY <1>1, <2>1, <2>2, Stays, Zenon
<1>12. NonEmptyTo(path) \in [0 .. N -> X]
  BY <1>8, <1>11
<1> QED BY <1>9, <1>10, <1>12 DEF N, X

NonEmptySegments == {s \in Segments : ~IsEmpty(s)}

LEMMA NonEmptyRule ==
    ASSUME NEW path \in Seq(Segments)
    PROVE  /\ Len(path) \in Nat
           /\ \A n \in 0 .. Len(path) : NonEmptyTo(path)[n] \in Seq(NonEmptySegments)
           /\ NonEmptyTo(path)[0] = <<>>
           /\ \A i \in 1 .. Len(path) :
                  NonEmptyTo(path)[i] = WithSegment(NonEmptyTo(path)[i - 1], path[i])
<1>1. Len(path) \in Nat
  OBVIOUS
<1>2. \A i \in 1 .. Len(path) : ~IsEmpty(path[i]) => path[i] \in NonEmptySegments
  BY DEF NonEmptySegments
<1>3. NonEmptyTo(path) \in [0 .. Len(path) -> Seq(NonEmptySegments)]
  BY <1>1, <1>2, NonEmptyUnfold
<1> QED BY <1>1, <1>2, <1>3, NonEmptyUnfold

LEMMA NonEmptyType ==
    ASSUME NEW path \in Seq(Segments)
    PROVE  NonEmpty(path) \in Seq(NonEmptySegments) /\ NonEmpty(path) \in Seq(Segments)
<1>1. NonEmpty(path) \in Seq(NonEmptySegments)
  BY NonEmptyRule DEF NonEmpty
<1>2. NonEmptySegments \subseteq Segments
  BY DEF NonEmptySegments
<1> QED BY <1>1, <1>2, SeqMonotonic

\* A segment that is added behind a prefix.
LEMMA WithSegmentBehind ==
    ASSUME NEW x \in Seq(NonEmptySegments), NEW y \in Seq(NonEmptySegments), NEW s \in Segments
    PROVE  WithSegment(x \o y, s) = x \o WithSegment(y, s)
<1>1. CASE IsEmpty(s)
  BY <1>1 DEF WithSegment
<1>2. CASE ~IsEmpty(s)
  <2>1. s \in NonEmptySegments
    BY <1>2 DEF NonEmptySegments
  <2>2. Append(x \o y, s) = x \o Append(y, s)
    <3>1. x \o y \in Seq(NonEmptySegments) /\ <<s>> \in Seq(NonEmptySegments)
      BY <2>1, ConcatProperties
    <3>2. Append(x \o y, s) = (x \o y) \o <<s>> /\ Append(y, s) = y \o <<s>>
      BY <2>1, <3>1, AppendIsConcat
    <3> QED BY <3>1, <3>2, ConcatAssociative
  <2> QED BY <1>2, <2>2 DEF WithSegment
<1> QED BY <1>1, <1>2

\* The segments of two paths in a row.
LEMMA NonEmptyConcat ==
    ASSUME NEW a \in Seq(Segments), NEW b \in Seq(Segments)
    PROVE  NonEmpty(a \o b) = NonEmpty(a) \o NonEmpty(b)
<1> DEFINE N == Len(a)
           M == Len(b)
           c == a \o b
<1>1. c \in Seq(Segments) /\ Len(c) = N + M /\ N \in Nat /\ M \in Nat
      /\ (\A i \in 1 .. N : c[i] = a[i]) /\ (\A i \in 1 .. M : c[N + i] = b[i])
  BY ConcatProperties
<1> HIDE DEF c, N, M
<1>2. \A n \in 0 .. N : NonEmptyTo(c)[n] = NonEmptyTo(a)[n]
  <2> DEFINE S == {n \in 0 .. N : NonEmptyTo(c)[n] = NonEmptyTo(a)[n]}
  <2>1. 0 \in S
    BY <1>1, NonEmptyRule
  <2>2. ASSUME NEW n \in 0 .. N - 1, n \in S PROVE n + 1 \in S
    <3>1. n + 1 \in 1 .. N /\ n + 1 \in 1 .. Len(c) /\ (n + 1) - 1 = n /\ n + 1 \in 0 .. N
      BY <1>1
    <3>2. NonEmptyTo(c)[n + 1] = WithSegment(NonEmptyTo(c)[n], c[n + 1])
      BY <1>1, <3>1, NonEmptyRule
    <3>3. NonEmptyTo(a)[n + 1] = WithSegment(NonEmptyTo(a)[n], a[n + 1])
      BY <3>1, NonEmptyRule DEF N
    <3>4. c[n + 1] = a[n + 1]
      BY <1>1, <3>1
    <3> QED BY <2>2, <3>1, <3>2, <3>3, <3>4
  <2>3. 0 .. N \subseteq S
    <3> HIDE DEF S
    <3> QED BY <1>1, <2>1, <2>2, UpTo
  <2> QED BY <2>3
<1>3. NonEmpty(a) \in Seq(NonEmptySegments)
  BY NonEmptyType
<1>4. \A n \in 0 .. M : NonEmptyTo(c)[N + n] = NonEmpty(a) \o NonEmptyTo(b)[n]
  <2> DEFINE S == {n \in 0 .. M : NonEmptyTo(c)[N + n] = NonEmpty(a) \o NonEmptyTo(b)[n]}
  <2>1. 0 \in S
    <3>1. NonEmptyTo(b)[0] = <<>> /\ N + 0 = N /\ N \in 0 .. N
      BY <1>1, NonEmptyRule
    <3>2. NonEmptyTo(c)[N] = NonEmpty(a)
      BY <1>2, <3>1 DEF NonEmpty, N
    <3>3. NonEmpty(a) \o <<>> = NonEmpty(a)
      BY <1>3, ConcatEmptySeq
    <3>4. NonEmptyTo(c)[N + 0] = NonEmpty(a) \o NonEmptyTo(b)[0]
      BY <3>1, <3>2, <3>3
    <3>5. 0 \in 0 .. M
      BY <1>1
    <3> QED BY <3>4, <3>5
  <2>2. ASSUME NEW n \in 0 .. M - 1, n \in S PROVE n + 1 \in S
    <3>1. /\ n + 1 \in 1 .. M /\ (n + 1) - 1 = n /\ n + 1 \in 0 .. M /\ n \in 0 .. M
          /\ N + (n + 1) \in 1 .. Len(c) /\ (N + (n + 1)) - 1 = N + n
      BY <1>1
    <3>2. NonEmptyTo(c)[N + (n + 1)] = WithSegment(NonEmptyTo(c)[N + n], c[N + (n + 1)])
      BY <1>1, <3>1, NonEmptyRule
    <3>3. NonEmptyTo(b)[n + 1] = WithSegment(NonEmptyTo(b)[n], b[n + 1])
      BY <3>1, NonEmptyRule DEF M
    <3>4. c[N + (n + 1)] = b[n + 1]
      BY <1>1, <3>1
    <3>5. NonEmptyTo(b)[n] \in Seq(NonEmptySegments) /\ b[n + 1] \in Segments
      BY <3>1, NonEmptyRule DEF M
    <3>6. NonEmptyTo(c)[N + n] = NonEmpty(a) \o NonEmptyTo(b)[n]
      BY <2>2
    <3> QED BY <1>3, <3>1, <3>2, <3>3, <3>4, <3>5, <3>6, WithSegmentBehind
  <2>3. 0 .. M \subseteq S
    <3> HIDE DEF S
    <3> QED BY <1>1, <2>1, <2>2, UpTo
  <2> QED BY <2>3
<1>5. M \in 0 .. M
  BY <1>1
<1>6. NonEmpty(c) = NonEmptyTo(c)[N + M] /\ NonEmpty(b) = NonEmptyTo(b)[M]
  BY <1>1 DEF NonEmpty, M
<1> QED BY <1>4, <1>5, <1>6 DEF c

\* A path without characters has no segments.
LEMMA NonEmptyOfNone ==
    ASSUME NEW p \in Seq(Segments), \A i \in 1 .. Len(p) : IsEmpty(p[i])
    PROVE  NonEmpty(p) = <<>>
<1> DEFINE X == {<<>>}
<1>1. \A n \in 0 .. Len(p) : NonEmptyTo(p)[n] \in X
  <2>1. NonEmptyTo(p)[0] \in X /\ Len(p) \in Nat
    BY NonEmptyRule
  <2>2. \A i \in 1 .. Len(p) : NonEmptyTo(p)[i - 1] \in X => NonEmptyTo(p)[i] \in X
    BY NonEmptyRule DEF WithSegment
  <2> HIDE DEF X
  <2> QED BY <2>1, <2>2, Stays, Zenon
<1>2. Len(p) \in 0 .. Len(p)
  OBVIOUS
<1> QED BY <1>1, <1>2 DEF NonEmpty

\* A path without empty segments keeps them all.
LEMMA NonEmptyOfAll ==
    ASSUME NEW p \in Seq(Segments), \A i \in 1 .. Len(p) : ~IsEmpty(p[i])
    PROVE  NonEmpty(p) = p
<1> DEFINE S == {n \in 0 .. Len(p) : NonEmptyTo(p)[n] = SubSeq(p, 1, n)}
<1>1. Len(p) \in Nat
  OBVIOUS
<1>2. 0 \in S
  <2>1. SubSeq(p, 1, 0) = <<>>
    BY SubSeqEmpty
  <2> QED BY <1>1, <2>1, NonEmptyRule
<1>3. ASSUME NEW n \in 0 .. Len(p) - 1, n \in S PROVE n + 1 \in S
  <2>1. n + 1 \in 1 .. Len(p) /\ n + 1 \in 0 .. Len(p) /\ (n + 1) - 1 = n
    BY <1>1
  <2>2. NonEmptyTo(p)[n + 1] = Append(SubSeq(p, 1, n), p[n + 1])
    BY <1>3, <2>1, NonEmptyRule DEF WithSegment
  <2>3. Append(SubSeq(p, 1, n), p[n + 1]) = SubSeq(p, 1, n + 1)
    BY <2>1
  <2> QED BY <2>1, <2>2, <2>3
<1>4. 0 .. Len(p) \subseteq S
  <2> HIDE DEF S
  <2> QED BY <1>1, <1>2, <1>3, UpTo
<1>5. NonEmptyTo(p)[Len(p)] = SubSeq(p, 1, Len(p))
  BY <1>1, <1>4
<1> QED BY <1>5, SubSeqFull DEF NonEmpty

-----------------------------------------------------------------------------
(* Slashes at the ends of a path.                                            *)

LEMMA Greatest ==
    ASSUME NEW N \in Nat, NEW S \in SUBSET (1 .. N), S # {}
    PROVE  \E x \in S : \A y \in S : y <= x
<1> DEFINE T == {N - x : x \in S}
<1>1. T \in SUBSET Nat /\ T # {}
  <2>1. ASSUME NEW x \in S PROVE N - x \in Nat
    OBVIOUS
  <2>2. T \subseteq Nat
    BY <2>1
  <2> QED BY <2>2
<1>2. PICK t \in T : \A y \in T : t <= y
  <2> HIDE DEF T
  <2> QED BY <1>1, NatLeast
<1>3. PICK x \in S : t = N - x
  OBVIOUS
<1>4. ASSUME NEW y \in S PROVE y <= x
  <2>1. N - y \in T
    OBVIOUS
  <2>2. N - x <= N - y
    BY <1>2, <1>3, <2>1
  <2>3. x \in Int /\ y \in Int
    OBVIOUS
  <2> QED BY <2>2, <2>3
<1> QED BY <1>4

LEMMA FullType == ASSUME NEW p \in Seq(Segments) PROVE Full(p) \in SUBSET (1 .. Len(p))
  BY DEF Full

\* What is taken off the end are empty segments.
LEMMA TrimEndSplits ==
    ASSUME NEW p \in Seq(Segments), Full(p) # {}
    PROVE  \E k \in Full(p) : /\ TrimEnd(p) = SubSeq(p, 1, k)
                              /\ \A i \in 1 .. Len(p) : i > k => IsEmpty(p[i])
<1>1. \E k \in Full(p) : \A j \in Full(p) : j <= k
  <2>1. Len(p) \in Nat
    OBVIOUS
  <2> QED BY <2>1, FullType, Greatest
<1> DEFINE k == CHOOSE i \in Full(p) : \A j \in Full(p) : j <= i
<1>2. k \in Full(p) /\ \A j \in Full(p) : j <= k
  BY <1>1
<1>3. TrimEnd(p) = SubSeq(p, 1, k)
  BY DEF TrimEnd
<1> HIDE DEF k
<1>4. ASSUME NEW i \in 1 .. Len(p), i > k PROVE IsEmpty(p[i])
  <2>1. i \notin Full(p)
    BY <1>2, <1>4, FullType
  <2> QED BY <2>1 DEF Full
<1> QED BY <1>2, <1>3, <1>4

LEMMA TrimStartSplits ==
    ASSUME NEW p \in Seq(Segments), Full(p) # {}
    PROVE  \E k \in Full(p) : /\ TrimStart(p) = SubSeq(p, k, Len(p))
                              /\ \A i \in 1 .. Len(p) : i < k => IsEmpty(p[i])
<1>0. Full(p) \in SUBSET Nat
  BY FullType
<1>1. \E k \in Full(p) : \A j \in Full(p) : k <= j
  BY <1>0, NatLeast
<1> DEFINE k == CHOOSE i \in Full(p) : \A j \in Full(p) : i <= j
<1>2. k \in Full(p) /\ \A j \in Full(p) : k <= j
  BY <1>1
<1>3. TrimStart(p) = SubSeq(p, k, Len(p))
  BY DEF TrimStart
<1> HIDE DEF k
<1>4. ASSUME NEW i \in 1 .. Len(p), i < k PROVE IsEmpty(p[i])
  <2>1. i \notin Full(p)
    BY <1>2, <1>4, FullType
  <2> QED BY <2>1 DEF Full
<1> QED BY <1>2, <1>3, <1>4

\* A part of a path, and the path put together again.
LEMMA Parts ==
    ASSUME NEW p \in Seq(Segments), NEW k \in 0 .. Len(p)
    PROVE  /\ SubSeq(p, 1, k) \in Seq(Segments) /\ SubSeq(p, k + 1, Len(p)) \in Seq(Segments)
           /\ Len(SubSeq(p, 1, k)) = k /\ Len(SubSeq(p, k + 1, Len(p))) = Len(p) - k
           /\ \A i \in 1 .. k : SubSeq(p, 1, k)[i] = p[i]
           /\ \A i \in 1 .. Len(p) - k : SubSeq(p, k + 1, Len(p))[i] = p[k + i]
           /\ SubSeq(p, 1, k) \o SubSeq(p, k + 1, Len(p)) = p
<1>1. k \in Nat /\ Len(p) \in Nat /\ k <= Len(p)
  OBVIOUS
<1>2. /\ SubSeq(p, 1, k) \in Seq(Segments) /\ Len(SubSeq(p, 1, k)) = k
      /\ \A i \in 1 .. k : SubSeq(p, 1, k)[i] = p[i]
  BY <1>1
<1>3. /\ SubSeq(p, k + 1, Len(p)) \in Seq(Segments)
      /\ Len(SubSeq(p, k + 1, Len(p))) = Len(p) - k
      /\ \A i \in 1 .. Len(p) - k : SubSeq(p, k + 1, Len(p))[i] = p[k + i]
  BY <1>1
<1>4. SubSeq(p, 1, k) \o SubSeq(p, k + 1, Len(p)) = SubSeq(p, 1, Len(p))
  <2>1. 1 \in 1 .. Len(p) + 1 /\ k \in 1 - 1 .. Len(p) /\ Len(p) \in k .. Len(p)
    BY <1>1
  <2> QED BY <2>1, ConcatAdjacentSubSeq
<1> QED BY <1>2, <1>3, <1>4, SubSeqFull

LEMMA TrimEndKeeps ==
    ASSUME NEW p \in Seq(Segments)
    PROVE  TrimEnd(p) \in Seq(Segments) /\ NonEmpty(TrimEnd(p)) = NonEmpty(p)
<1>1. CASE Full(p) = {}
  <2>1. TrimEnd(p) = <<>> /\ \A i \in 1 .. Len(p) : IsEmpty(p[i])
    BY <1>1 DEF TrimEnd, Full
  <2>2. <<>> \in Seq(Segments) /\ \A i \in 1 .. Len(<<>>) : IsEmpty(<<>>[i])
    OBVIOUS
  <2>3. NonEmpty(<<>>) = <<>> /\ NonEmpty(p) = <<>>
    BY <2>1, <2>2, NonEmptyOfNone
  <2> QED BY <2>1, <2>2, <2>3
<1>2. CASE Full(p) # {}
  <2>1. PICK k \in Full(p) : /\ TrimEnd(p) = SubSeq(p, 1, k)
                             /\ \A i \in 1 .. Len(p) : i > k => IsEmpty(p[i])
    BY <1>2, TrimEndSplits
  <2>2. k \in 0 .. Len(p) /\ Len(p) \in Nat
    BY FullType
  <2> DEFINE a == SubSeq(p, 1, k)
             b == SubSeq(p, k + 1, Len(p))
  <2>3. a \in Seq(Segments) /\ b \in Seq(Segments) /\ Len(b) = Len(p) - k /\ a \o b = p
        /\ \A i \in 1 .. Len(p) - k : b[i] = p[k + i]
    BY <2>2, Parts
  <2> HIDE DEF a, b
  <2>4. ASSUME NEW i \in 1 .. Len(b) PROVE IsEmpty(b[i])
    <3>1. k + i \in 1 .. Len(p) /\ k + i > k /\ i \in 1 .. Len(p) - k
      BY <2>2, <2>3
    <3> QED BY <2>1, <2>3, <3>1
  <2>5. NonEmpty(b) = <<>>
    BY <2>3, <2>4, NonEmptyOfNone
  <2>6. NonEmpty(p) = NonEmpty(a) \o <<>>
    BY <2>3, <2>5, NonEmptyConcat
  <2>7. NonEmpty(a) \o <<>> = NonEmpty(a)
    BY <2>3, NonEmptyType, ConcatEmptySeq
  <2> QED BY <2>1, <2>3, <2>6, <2>7 DEF a
<1> QED BY <1>1, <1>2

LEMMA TrimStartKeeps ==
    ASSUME NEW p \in Seq(Segments)
    PROVE  TrimStart(p) \in Seq(Segments) /\ NonEmpty(TrimStart(p)) = NonEmpty(p)
<1>1. CASE Full(p) = {}
  <2>1. TrimStart(p) = <<>> /\ \A i \in 1 .. Len(p) : IsEmpty(p[i])
    BY <1>1 DEF TrimStart, Full
  <2>2. <<>> \in Seq(Segments) /\ \A i \in 1 .. Len(<<>>) : IsEmpty(<<>>[i])
    OBVIOUS
  <2>3. NonEmpty(<<>>) = <<>> /\ NonEmpty(p) = <<>>
    BY <2>1, <2>2, NonEmptyOfNone
  <2> QED BY <2>1, <2>2, <2>3
<1>2. CASE Full(p) # {}
  <2>1. PICK k \in Full(p) : /\ TrimStart(p) = SubSeq(p, k, Len(p))
                             /\ \A i \in 1 .. Len(p) : i < k => IsEmpty(p[i])
    BY <1>2, TrimStartSplits
  <2>2. k - 1 \in 0 .. Len(p) /\ Len(p) \in Nat /\ (k - 1) + 1 = k
    BY FullType
  <2> DEFINE a == SubSeq(p, 1, k - 1)
             b == SubSeq(p, k, Len(p))
  <2>3. a \in Seq(Segments) /\ b \in Seq(Segments) /\ Len(a) = k - 1 /\ a \o b = p
        /\ \A i \in 1 .. k - 1 : a[i] = p[i]
    <3> HIDE DEF a
    <3> QED BY <2>2, Parts DEF a
  <2> HIDE DEF a, b
  <2>4. ASSUME NEW i \in 1 .. Len(a) PROVE IsEmpty(a[i])
    <3>1. i \in 1 .. Len(p) /\ i < k /\ i \in 1 .. k - 1
      BY <2>2, <2>3
    <3> QED BY <2>1, <2>3, <3>1
  <2>5. NonEmpty(a) = <<>>
    BY <2>3, <2>4, NonEmptyOfNone
  <2>6. NonEmpty(p) = <<>> \o NonEmpty(b)
    BY <2>3, <2>5, NonEmptyConcat
  <2>7. <<>> \o NonEmpty(b) = NonEmpty(b)
    BY <2>3, NonEmptyType, ConcatEmptySeq
  <2> QED BY <2>1, <2>3, <2>6, <2>7 DEF b
<1> QED BY <1>1, <1>2

LEMMA TrimKeeps ==
    ASSUME NEW p \in Seq(Segments)
    PROVE  Trim(p) \in Seq(Segments) /\ NonEmpty(Trim(p)) = NonEmpty(p)
  BY TrimStartKeeps, TrimEndKeeps DEF Trim

\* A path that begins with a segment has nothing to be taken off.
LEMMA TrimStartOfFull ==
    ASSUME NEW p \in Seq(Segments), p # <<>>, ~IsEmpty(p[1])
    PROVE  TrimStart(p) = p
<1>1. 1 \in Full(p)
  BY DEF Full
<1>2. PICK k \in Full(p) : /\ TrimStart(p) = SubSeq(p, k, Len(p))
                           /\ \A i \in 1 .. Len(p) : i < k => IsEmpty(p[i])
  BY <1>1, TrimStartSplits
<1>3. k = 1
  BY <1>2, FullType
<1> QED BY <1>2, <1>3, SubSeqFull

LEMMA TrimStartFirst ==
    ASSUME NEW p \in Seq(Segments), TrimStart(p) # <<>>
    PROVE  ~IsEmpty(TrimStart(p)[1])
<1>1. Full(p) # {}
  BY DEF TrimStart
<1>2. PICK k \in Full(p) : TrimStart(p) = SubSeq(p, k, Len(p))
  BY <1>1, TrimStartSplits
<1>3. k \in 1 .. Len(p) /\ ~IsEmpty(p[k])
  BY DEF Full
<1>4. SubSeq(p, k, Len(p))[1] = p[k]
  BY <1>3
<1> QED BY <1>2, <1>3, <1>4

LEMMA TrimEndFirst ==
    ASSUME NEW p \in Seq(Segments), p # <<>>, ~IsEmpty(p[1])
    PROVE  TrimEnd(p) # <<>> /\ TrimEnd(p)[1] = p[1]
<1>1. 1 \in Full(p)
  BY DEF Full
<1>2. PICK k \in Full(p) : TrimEnd(p) = SubSeq(p, 1, k)
  BY <1>1, TrimEndSplits
<1>3. k \in 1 .. Len(p)
  BY FullType
<1>4. Len(SubSeq(p, 1, k)) = k /\ SubSeq(p, 1, k)[1] = p[1]
  BY <1>3
<1> QED BY <1>2, <1>3, <1>4

-----------------------------------------------------------------------------
(* Routes.                                                                   *)

\* A name that a route may have.
RouteName(name) == name \in Seq(Segments) /\ name # <<>> /\ ~IsEmpty(name[1])

LEMMA LastOccurs ==
    ASSUME NEW p \in Seq(Segments), NEW word, Occurrences(p, word) # {}
    PROVE  /\ LastOccurrence(p, word) \in Occurrences(p, word)
           /\ \A j \in Occurrences(p, word) : j <= LastOccurrence(p, word)
<1>1. Len(p) \in Nat /\ Occurrences(p, word) \in SUBSET (1 .. Len(p))
  BY DEF Occurrences
<1>2. \E i \in Occurrences(p, word) : \A j \in Occurrences(p, word) : j <= i
  BY <1>1, Greatest
<1> QED BY <1>2 DEF LastOccurrence

LEMMA PrefixIsName ==
    ASSUME NEW p, RouteName(p), NEW k \in 1 .. Len(p)
    PROVE  RouteName(SubSeq(p, 1, k))
<1>1. p \in Seq(Segments) /\ k \in 0 .. Len(p) /\ 1 \in 1 .. k
  BY DEF RouteName
<1>2. SubSeq(p, 1, k) \in Seq(Segments) /\ Len(SubSeq(p, 1, k)) = k /\ SubSeq(p, 1, k)[1] = p[1]
  BY <1>1, Parts
<1> QED BY <1>1, <1>2 DEF RouteName

LEMMA NamedName ==
    ASSUME NEW p, RouteName(p), NEW word, Occurrences(p, word) # {}, NEW ok, NEW r,
           Named(r, p, LastOccurrence(p, word), ok).route # "not_found"
    PROVE  RouteName(Named(r, p, LastOccurrence(p, word), ok).name)
<1> DEFINE i == LastOccurrence(p, word)
<1>1. p \in Seq(Segments)
  BY DEF RouteName
<1>2. i - 1 \in 1 .. Len(p)
  BY <1>1, LastOccurs DEF Occurrences
<1> HIDE DEF i
<1>3. Named(r, p, i, ok) = [route |-> r, name |-> SubSeq(p, 1, i - 1), reference |-> Last(p)]
  BY DEF Named, NotFound, i
<1>4. Named(r, p, i, ok).name = SubSeq(p, 1, i - 1)
  <2> DEFINE x == Named(r, p, i, ok)
             y == SubSeq(p, 1, i - 1)
             z == Last(p)
  <2>1. x = [route |-> r, name |-> y, reference |-> z]
    BY <1>3
  <2> HIDE DEF x, y, z
  <2>2. x.name = y
    BY <2>1
  <2> QED BY <2>2 DEF x, y
<1> QED BY <1>2, <1>4, PrefixIsName DEF i

\* parse_oci_path: the name of a route begins with a segment.
LEMMA NameOfRoute ==
    ASSUME NEW path \in Seq(Segments),
           parse_oci_path(path).route \in {"manifest", "blob", "tags"}
    PROVE  RouteName(parse_oci_path(path).name)
<1> DEFINE rest == TrimStart(path)
           n == Len(rest)
           route == parse_oci_path(path)
<1>1. rest # <<>>
  BY DEF parse_oci_path, Api
<1>2. RouteName(rest)
  BY <1>1, TrimStartKeeps, TrimStartFirst DEF RouteName
<1>3. CASE Occurrences(rest, "manifests") # {}
  <2>1. route = Named("manifest", rest, LastOccurrence(rest, "manifests"),
                      is_valid_manifest_reference(Last(rest)))
    BY <1>1, <1>3 DEF parse_oci_path
  <2>2. route.route # "not_found"
    OBVIOUS
  <2> HIDE DEF rest, route
  <2> QED BY <1>2, <1>3, <2>1, <2>2, NamedName DEF route
<1>4. CASE Occurrences(rest, "manifests") = {} /\ Occurrences(rest, "blobs") # {}
  <2>1. route = Named("blob", rest, LastOccurrence(rest, "blobs"), ~IsEmpty(Last(rest)))
    BY <1>1, <1>4 DEF parse_oci_path
  <2>2. route.route # "not_found"
    OBVIOUS
  <2> HIDE DEF rest, route
  <2> QED BY <1>2, <1>4, <2>1, <2>2, NamedName DEF route
<1>5. CASE Occurrences(rest, "manifests") = {} /\ Occurrences(rest, "blobs") = {}
  <2>1. /\ n >= 3
        /\ route = [route |-> "tags", name |-> TrimEnd(SubSeq(rest, 1, n - 2)), reference |-> None]
    BY <1>1, <1>5 DEF parse_oci_path, NotFound
  <2>2. route.name = TrimEnd(SubSeq(rest, 1, n - 2))
    BY <2>1
  <2>3. n - 2 \in 1 .. Len(rest)
    BY <1>2, <2>1 DEF RouteName
  <2> HIDE DEF rest, route, n
  <2>4. RouteName(SubSeq(rest, 1, n - 2))
    BY <1>2, <2>3, PrefixIsName
  <2>5. RouteName(TrimEnd(SubSeq(rest, 1, n - 2)))
    <3> DEFINE q == SubSeq(rest, 1, n - 2)
    <3> HIDE DEF q
    <3>1. q \in Seq(Segments) /\ q # <<>> /\ ~IsEmpty(q[1])
      BY <2>4 DEF RouteName, q
    <3>2. RouteName(TrimEnd(q))
      BY <3>1, TrimEndKeeps, TrimEndFirst DEF RouteName
    <3> QED BY <3>2 DEF q
  <2> QED BY <2>2, <2>5 DEF route
<1> QED BY <1>3, <1>4, <1>5

\* The path of a name with two more segments.
Follow(name, s1, s2) == name \o <<s1, s2>>

LEMMA Behind ==
    ASSUME NEW name, RouteName(name), NEW s1 \in Segments, NEW s2 \in Segments
    PROVE  LET p == Follow(name, s1, s2) IN
           /\ p \in Seq(Segments) /\ p # <<>> /\ Len(p) = Len(name) + 2
           /\ Len(name) \in Nat /\ Len(name) >= 1
           /\ \A i \in 1 .. Len(name) : p[i] = name[i]
           /\ p[Len(name) + 1] = s1 /\ p[Len(name) + 2] = s2 /\ Last(p) = s2
           /\ SubSeq(p, 1, Len(name)) = name
           /\ TrimStart(p) = p
<1> DEFINE p == name \o <<s1, s2>>
           N == Len(name)
<1>1. name \in Seq(Segments) /\ <<s1, s2>> \in Seq(Segments) /\ Len(<<s1, s2>>) = 2
      /\ N \in Nat /\ N >= 1 /\ ~IsEmpty(name[1])
  BY DEF RouteName
<1>2. p \in Seq(Segments) /\ Len(p) = N + 2
      /\ \A i \in 1 .. N + 2 : p[i] = IF i <= N THEN name[i] ELSE <<s1, s2>>[i - N]
  BY <1>1, ConcatProperties
<1>3. p[N + 1] = s1 /\ p[N + 2] = s2
  <2>1. N + 1 \in 1 .. N + 2 /\ ~(N + 1 <= N) /\ N + 2 \in 1 .. N + 2 /\ ~(N + 2 <= N)
        /\ (N + 1) - N = 1 /\ (N + 2) - N = 2
    BY <1>1
  <2>2. p[N + 1] = <<s1, s2>>[1] /\ p[N + 2] = <<s1, s2>>[2]
    <3> HIDE DEF p, N
    <3> QED BY <1>2, <2>1
  <2> QED BY <2>2
<1>4. \A i \in 1 .. N : p[i] = name[i]
  <2> HIDE DEF p
  <2> QED BY <1>1, <1>2
<1>5. SubSeq(p, 1, N) = name
  <2>1. SubSeq(p, 1, N) = SubSeq(name, 1, N)
    <3>1. 1 \in 1 .. Len(name) /\ N \in 1 .. Len(name)
      BY <1>1
    <3> QED BY <1>1, <3>1, SubSeqOfConcat1
  <2> QED BY <1>1, <2>1, SubSeqFull
<1>6. p # <<>> /\ Last(p) = s2
  <2> HIDE DEF p
  <2> QED BY <1>1, <1>2, <1>3 DEF Last
<1>7. TrimStart(p) = p
  <2>1. p[1] = name[1]
    BY <1>1, <1>4
  <2> HIDE DEF p
  <2> QED BY <1>1, <1>2, <1>6, <2>1, TrimStartOfFull
<1> HIDE DEF p, N
<1> QED BY <1>1, <1>2, <1>3, <1>4, <1>5, <1>6, <1>7 DEF p, N, Follow

\* A word that is not in the name is not in the path.
LEMMA NoWord ==
    ASSUME NEW name, RouteName(name), NEW s1 \in Segments, NEW s2 \in Segments, NEW w,
           s1 # <<w>>, <<w>> \notin ToSet(Tail(name))
    PROVE  Occurrences(Follow(name, s1, s2), w) = {}
<1> DEFINE p == Follow(name, s1, s2)
<1>1. Len(p) = Len(name) + 2 /\ p[Len(name) + 1] = s1
      /\ Len(name) \in Nat /\ Len(name) >= 1 /\ \A i \in 1 .. Len(name) : p[i] = name[i]
  BY Behind
<1> HIDE DEF p
<1>2. ASSUME NEW i \in 2 .. Len(p) - 1, p[i] = <<w>> PROVE FALSE
  <2>1. i \in 2 .. Len(name)
    BY <1>1, <1>2
  <2>2. name[i] = <<w>>
    BY <1>1, <1>2, <2>1
  <2>3. i - 1 \in 1 .. Len(Tail(name)) /\ Tail(name)[i - 1] = name[i]
    BY <2>1, HeadTailProperties DEF RouteName
  <2>4. Tail(name)[i - 1] \in ToSet(Tail(name))
    <3>1. Tail(name) \in Seq(Segments)
      BY HeadTailProperties DEF RouteName
    <3>2. DOMAIN Tail(name) = 1 .. Len(Tail(name))
      BY <3>1
    <3> QED BY <2>3, <3>2, Zenon DEF ToSet
  <2> QED BY <2>2, <2>3, <2>4
<1> QED BY <1>2 DEF Occurrences, p

LEMMA WordAtEnd ==
    ASSUME NEW name, RouteName(name), NEW w, <<w>> \in Segments, NEW s2 \in Segments
    PROVE  LET p == Follow(name, <<w>>, s2) IN
           Occurrences(p, w) # {} /\ LastOccurrence(p, w) = Len(name) + 1
<1> DEFINE s1 == <<w>>
           p == Follow(name, s1, s2)
           N == Len(name)
<1>0. s1 \in Segments
  OBVIOUS
<1> HIDE DEF s1
<1>1. p \in Seq(Segments) /\ Len(p) = N + 2 /\ p[N + 1] = s1 /\ N \in Nat /\ N >= 1
  BY <1>0, Behind
<1> HIDE DEF p, N
<1>2. N + 1 \in Occurrences(p, w)
  BY <1>1 DEF Occurrences, s1
<1>3. LastOccurrence(p, w) \in Occurrences(p, w) /\ N + 1 <= LastOccurrence(p, w)
  BY <1>1, <1>2, LastOccurs
<1>4. LastOccurrence(p, w) \in 2 .. N + 1
  BY <1>1, <1>3 DEF Occurrences
<1>5. LastOccurrence(p, w) = N + 1
  BY <1>1, <1>3, <1>4
<1> QED BY <1>2, <1>5 DEF p, N, s1

\* The route of a name by each of the words.
LEMMA ManifestRoute ==
    ASSUME NEW name, RouteName(name)
    PROVE  LET route == parse_oci_path(Follow(name, <<"manifests">>, SomeDigest)) IN
           route.route = "manifest" /\ route.name = name
<1> DEFINE w == "manifests"
           s1 == <<w>>
           p == Follow(name, s1, SomeDigest)
           N == Len(name)
           ok == is_valid_manifest_reference(Last(p))
           route == parse_oci_path(p)
           D == Last(p)
<1>0. s1 \in Segments /\ SomeDigest \in Segments
  BY PathsAssumption DEF Segments
<1>1. Occurrences(p, w) # {} /\ LastOccurrence(p, w) = N + 1
  BY <1>0, WordAtEnd
<1>2. TrimStart(p) = p /\ p # <<>> /\ Len(p) = N + 2 /\ N \in Nat /\ Last(p) = SomeDigest
      /\ SubSeq(p, 1, N) = name
  <2> HIDE DEF s1
  <2> QED BY <1>0, Behind
<1>3. ok
  BY <1>2, PathsAssumption
<1> HIDE DEF p, N, s1, ok
<1>4. route = Named("manifest", p, N + 1, ok)
  BY <1>1, <1>2 DEF parse_oci_path, ok
<1>5. N + 1 = Len(p) - 1 /\ (N + 1) - 1 = N
  BY <1>2
<1>6. route = [route |-> "manifest", name |-> name, reference |-> D]
  BY <1>2, <1>3, <1>4, <1>5 DEF Named
<1> HIDE DEF D, route
<1>7. route.route = "manifest" /\ route.name = name
  BY <1>6
<1> QED BY <1>7 DEF route, p, s1

LEMMA BlobRoute ==
    ASSUME NEW name, RouteName(name), <<"manifests">> \notin ToSet(Tail(name))
    PROVE  LET route == parse_oci_path(Follow(name, <<"blobs">>, SomeDigest)) IN
           route.route = "blob" /\ route.name = name
<1> DEFINE w == "blobs"
           s1 == <<w>>
           p == Follow(name, s1, SomeDigest)
           N == Len(name)
           ok == ~IsEmpty(Last(p))
           route == parse_oci_path(p)
           D == Last(p)
<1>0. s1 \in Segments /\ SomeDigest \in Segments /\ s1 # <<"manifests">>
  BY PathsAssumption DEF Segments
<1>1. Occurrences(p, w) # {} /\ LastOccurrence(p, w) = N + 1
  BY <1>0, WordAtEnd
<1>2. TrimStart(p) = p /\ p # <<>> /\ Len(p) = N + 2 /\ N \in Nat /\ Last(p) = SomeDigest
      /\ SubSeq(p, 1, N) = name
  <2> HIDE DEF s1
  <2> QED BY <1>0, Behind
<1>3. ok
  <2>1. ~IsEmpty(SomeDigest)
    BY PathsAssumption DEF IsEmpty, is_valid_manifest_reference, BeginsWell
  <2> QED BY <1>2, <2>1
<1>4. Occurrences(p, "manifests") = {}
  <2> HIDE DEF s1
  <2> QED BY <1>0, NoWord
<1> HIDE DEF p, N, s1, ok
<1>5. route = Named("blob", p, N + 1, ok)
  BY <1>1, <1>2, <1>4 DEF parse_oci_path, ok
<1>6. N + 1 = Len(p) - 1 /\ (N + 1) - 1 = N
  BY <1>2
<1>7. route = [route |-> "blob", name |-> name, reference |-> D]
  BY <1>2, <1>3, <1>5, <1>6 DEF Named
<1> HIDE DEF D, route
<1>8. route.route = "blob" /\ route.name = name
  BY <1>7
<1> QED BY <1>8 DEF route, p, s1

LEMMA TagsRoute ==
    ASSUME NEW name, RouteName(name),
           <<"manifests">> \notin ToSet(Tail(name)), <<"blobs">> \notin ToSet(Tail(name))
    PROVE  LET route == parse_oci_path(Follow(name, <<"tags">>, <<"list">>)) IN
           route.route = "tags" /\ route.name = TrimEnd(name)
<1> DEFINE s1 == <<"tags">>
           s2 == <<"list">>
           p == Follow(name, s1, s2)
           N == Len(name)
           route == parse_oci_path(p)
           end == TrimEnd(name)
<1>0. s1 \in Segments /\ s2 \in Segments /\ s1 # <<"manifests">> /\ s1 # <<"blobs">>
  BY PathsAssumption DEF Segments
<1>1. TrimStart(p) = p /\ p # <<>> /\ Len(p) = N + 2 /\ N \in Nat /\ N >= 1
      /\ p[N + 1] = s1 /\ p[N + 2] = s2 /\ SubSeq(p, 1, N) = name
  <2> HIDE DEF s1, s2
  <2> QED BY <1>0, Behind
<1>2. Occurrences(p, "manifests") = {} /\ Occurrences(p, "blobs") = {}
  <2> HIDE DEF s1, s2
  <2> QED BY <1>0, NoWord
<1> HIDE DEF p, N
<1>3. Len(p) >= 3 /\ Len(p) - 1 = N + 1 /\ Len(p) - 2 = N
  BY <1>1
<1>4. route = [route |-> "tags", name |-> end, reference |-> None]
  BY <1>1, <1>2, <1>3 DEF parse_oci_path
<1> HIDE DEF route, end
<1>5. route.route = "tags" /\ route.name = end
  BY <1>4
<1> QED BY <1>5 DEF route, p, end

\* What a route leads to is what its name resolves to.
LEMMA RoutedTarget ==
    ASSUME NEW path, parse_oci_path(path).route \in {"manifest", "blob", "tags"}
    PROVE  RouteAnswer(path).target = resolve_name(parse_oci_path(path).name, aliases)
<1> DEFINE route == parse_oci_path(path)
           target == resolve_name(route.name, aliases)
<1>1. RouteAnswer(path) = Entry(route)
  BY DEF RouteAnswer
<1>2. CASE target = None
  <2>1. Entry(route) = Answer("name_unknown")
    BY <1>2 DEF Entry
  <2>2. Answer("name_unknown").target = None
    BY DEF Answer
  <2> QED BY <1>1, <1>2, <2>1, <2>2
<1>3. CASE target # None
  <2>1. Entry(route) = [kind |-> "handler", route |-> route.route, target |-> target]
    BY <1>3 DEF Entry
  <2> HIDE DEF route, target
  <2>2. Entry(route).target = target
    BY <2>1
  <2> QED BY <1>1, <2>2 DEF target, route
<1> QED BY <1>2, <1>3

-----------------------------------------------------------------------------
(* Names with the same segments.                                             *)

LEMMA Renamed ==
    ASSUME NEW kind, NEW upstream, NEW chart, NEW p, NEW q, NEW store, NEW auth,
           NEW plain_http, NEW source
    PROVE  [kind |-> kind, upstream |-> upstream, chart |-> chart, full_name |-> q,
            store |-> store, auth |-> auth, plain_http |-> plain_http, source |-> source]
             = [[kind |-> kind, upstream |-> upstream, chart |-> chart, full_name |-> p,
                 store |-> store, auth |-> auth, plain_http |-> plain_http,
                 source |-> source] EXCEPT !.full_name = q]
  OBVIOUS

LEMMA ChartRenamed ==
    ASSUME NEW url, NEW chart, NEW p, NEW q, NEW e, NEW source
    PROVE  ClassicChart(url, chart, q, e, source)
             = [ClassicChart(url, chart, p, e, source) EXCEPT !.full_name = q]
<1> DEFINE store == ~e
           plain == FALSE
           Chart(n) == [kind |-> "classic", upstream |-> url, chart |-> chart, full_name |-> n,
                        store |-> store, auth |-> "none", plain_http |-> plain,
                        source |-> source]
<1>1. ASSUME NEW n PROVE ClassicChart(url, chart, n, e, source) = Chart(n)
  BY DEF ClassicChart
<1>2. Chart(q) = [Chart(p) EXCEPT !.full_name = q]
  <2> HIDE DEF store, plain
  <2> QED BY Renamed
<1> HIDE DEF Chart
<1> QED BY <1>1, <1>2

LEMMA OciRenamed ==
    ASSUME NEW alias, NEW segments, NEW p, NEW q
    PROVE  OciTarget(alias, segments, q) = [OciTarget(alias, segments, p) EXCEPT !.full_name = q]
<1> DEFINE upstream == [alias.upstream EXCEPT !.path = @ \o segments]
           store == alias.store
           plain == alias.plain_http
           Target(n) == [kind |-> "oci", upstream |-> upstream, chart |-> None, full_name |-> n,
                         store |-> store, auth |-> alias.auth, plain_http |-> plain,
                         source |-> "ConfiguredAlias"]
<1>1. ASSUME NEW n PROVE OciTarget(alias, segments, n) = Target(n)
  BY DEF OciTarget
<1>2. Target(q) = [Target(p) EXCEPT !.full_name = q]
  <2> HIDE DEF store, plain, upstream
  <2> QED BY Renamed
<1> HIDE DEF Target
<1> QED BY <1>1, <1>2

\* resolve_name: they lead to the same target, but for the name it is given.
LEMMA SameSegments ==
    ASSUME NEW p, NEW q, NonEmpty(p) = NonEmpty(q), NEW as, resolve_name(p, as) # None
    PROVE  resolve_name(q, as) = [resolve_name(p, as) EXCEPT !.full_name = q]
<1> DEFINE segments == NonEmpty(p)
           rest == Tail(segments)
           alias == as[segments[1]]
<1>1. segments # <<>>
  BY DEF resolve_name
<1>2. CASE segments[1] \notin DOMAIN as
  <2>1. resolve_name(p, as) = resolve_host_path(segments, p)
        /\ resolve_name(q, as) = resolve_host_path(segments, q)
    BY <1>1, <1>2 DEF resolve_name
  <2> DEFINE url == [scheme |-> "https", host |-> segments[1], port |-> None,
                     path |-> SubSeq(segments, 2, Len(segments) - 1)]
             chart == Last(segments)
             cond == /\ Len(segments) >= 2 /\ is_public_hostname(segments[1])
                     /\ \A i \in 2 .. Len(segments) : is_valid_chart_name(segments[i])
  <2>2. cond
    BY <2>1 DEF resolve_host_path
  <2>3. resolve_host_path(segments, p) = ClassicChart(url, chart, p, FALSE, "HostPath")
        /\ resolve_host_path(segments, q) = ClassicChart(url, chart, q, FALSE, "HostPath")
    BY <2>2 DEF resolve_host_path
  <2> DEFINE e == FALSE
             source == "HostPath"
  <2> HIDE DEF url, chart, e, source
  <2>4. resolve_name(p, as) = ClassicChart(url, chart, p, e, source)
        /\ resolve_name(q, as) = ClassicChart(url, chart, q, e, source)
    BY <2>1, <2>3 DEF e, source
  <2> QED BY <2>4, ChartRenamed
<1>3. CASE segments[1] \in DOMAIN as
  <2>1. rest # <<>> /\ ~\E i \in DOMAIN rest : ~is_valid_chart_name(rest[i])
    BY <1>1, <1>3 DEF resolve_name
  <2>2. CASE ~IsClassic(alias)
    <3>1. resolve_name(p, as) = OciTarget(alias, rest, p)
          /\ resolve_name(q, as) = OciTarget(alias, rest, q)
      BY <1>1, <1>3, <2>1, <2>2 DEF resolve_name
    <3> HIDE DEF alias, rest
    <3> QED BY <3>1, OciRenamed
  <2>3. CASE IsClassic(alias)
    <3> DEFINE url == alias.upstream
               chart == rest[1]
               e == ~alias.store
    <3>1. resolve_name(p, as) = ClassicChart(url, chart, p, e, "ConfiguredAlias")
          /\ resolve_name(q, as) = ClassicChart(url, chart, q, e, "ConfiguredAlias")
      BY <1>1, <1>3, <2>1, <2>3 DEF resolve_name
    <3> HIDE DEF url, chart, e
    <3> QED BY <3>1, ChartRenamed
  <2> QED BY <2>2, <2>3
<1> QED BY <1>2, <1>3

-----------------------------------------------------------------------------
(* Names and targets of a running server.                                    *)

\* The request has a path of segments, and a handler gets what it leads to.
Routed ==
    /\ stage # "idle" => req \in Requests
    /\ answer.kind = "handler" => \E path \in Seq(Segments) : answer = RouteAnswer(path)

\* Beyond loading, the dependencies are rewritten for the aliases in use.
Mapped ==
    phase \in {"storage", "provider", "serving"}
        => repo_alias \in classic_alias_rewrite_map(aliases)

NameInv == IInv /\ Routed /\ Mapped

LEMMA InitNames == Init => NameInv
<1> SUFFICES ASSUME Init PROVE Routed /\ Mapped
  BY InitInv DEF NameInv
<1>1. answer.kind = "none"
  BY DEF Init, Answer
<1> QED BY <1>1 DEF Init, Routed, Mapped

\* Where a path leads depends on the aliases only.
LEMMA RouteStays ==
    ASSUME UNCHANGED aliases, NEW path PROVE RouteAnswer(path)' = RouteAnswer(path)
  BY DEF RouteAnswer, Entry

LEMMA MappedStays ==
    ASSUME Mapped, UNCHANGED <<phase, aliases, repo_alias>> PROVE Mapped'
  BY DEF Mapped

\* A step that keeps the request and the answer.
LEMMA RoutedStays ==
    ASSUME Routed, UNCHANGED <<req, answer, aliases>>, stage' # "idle" => stage # "idle"
    PROVE  Routed'
<1>1. answer.kind = "handler" => \E path \in Seq(Segments) : answer' = RouteAnswer(path)'
  BY RouteStays DEF Routed
<1> QED BY <1>1 DEF Routed

\* Nothing is answered while the server starts.
LEMMA StartNames ==
    ASSUME IInv, phase \in {"loading", "storage", "provider"}, UNCHANGED <<req, stage, answer>>
    PROVE  Routed'
<1>1. stage = "idle" /\ answer.kind = "none"
  BY DEF IInv, Serving, Progress
<1> QED BY <1>1 DEF Routed

LEMMA LoadNames == ASSUME IInv, Load PROVE Routed' /\ Mapped'
<1>1. Routed'
  BY StartNames DEF Load, Refuse
<1>2. CASE cfg.parses /\ validate(cfg)
  <2>1. aliases' = Aliases(cfg) /\ repo_alias' \in classic_alias_rewrite_map(Aliases(cfg))
    BY <1>2 DEF Load
  <2>2. classic_alias_rewrite_map(aliases)' = classic_alias_rewrite_map(Aliases(cfg))
    BY <2>1
  <2> QED BY <1>1, <2>1, <2>2 DEF Mapped
<1>3. CASE ~(cfg.parses /\ validate(cfg))
  BY <1>1, <1>3 DEF Load, Refuse, Mapped
<1> QED BY <1>2, <1>3

LEMMA ListenNames ==
    ASSUME NameInv, BuildStorage \/ Listen PROVE Routed' /\ Mapped'
<1>1. UNCHANGED <<aliases, repo_alias, req, stage, answer>>
      /\ phase \in {"storage", "provider"}
  BY DEF BuildStorage, Listen
<1>2. Routed'
  BY <1>1, StartNames DEF NameInv
<1>3. repo_alias \in classic_alias_rewrite_map(aliases)
  BY <1>1 DEF NameInv, Mapped
<1>4. repo_alias' \in classic_alias_rewrite_map(aliases)'
  BY <1>1, <1>3
<1> QED BY <1>2, <1>4 DEF Mapped

LEMMA FailNames == ASSUME IInv, StartFails PROVE Routed' /\ Mapped'
  BY StartNames DEF StartFails, Refuse, Mapped

LEMMA ReplyNames ==
    ASSUME NameInv, NEW a, stage # "idle", Reply(a),
           a.kind = "handler" => \E path \in Seq(Segments) : a = RouteAnswer(path)
    PROVE  Routed' /\ Mapped'
<1>1. UNCHANGED <<phase, aliases, repo_alias, req>> /\ answer' = a
  BY DEF Reply, startup
<1>2. a.kind = "handler" => \E path \in Seq(Segments) : a = RouteAnswer(path)'
  BY <1>1, RouteStays
<1>3. Routed'
  BY <1>1, <1>2 DEF Routed, NameInv
<1> QED BY <1>1, <1>3, MappedStays DEF NameInv

LEMMA AuthNames == ASSUME NameInv, require_pull_auth PROVE Routed' /\ Mapped'
<1>1. CASE Reply(Answer("unauthorized"))
  <2>1. Answer("unauthorized").kind = "unauthorized"
    BY DEF Answer
  <2> QED BY <1>1, <2>1, ReplyNames DEF require_pull_auth
<1>2. CASE stage' = "dispatch" /\ UNCHANGED <<startup, req, answer>>
  <2>1. UNCHANGED <<phase, aliases, repo_alias, req, answer>> /\ stage = "auth"
    BY <1>2 DEF startup, require_pull_auth
  <2> QED BY <2>1, RoutedStays, MappedStays DEF NameInv
<1> QED BY <1>1, <1>2 DEF require_pull_auth

LEMMA DispatchNames == ASSUME NameInv, Dispatch PROVE Routed' /\ Mapped'
<1>1. stage = "dispatch" /\ req \in Requests
  BY DEF Dispatch, NameInv, Routed
<1>2. \A k \in Kinds : Answer(k).kind = k
  BY DEF Answer
<1>3. ASSUME NEW k \in Kinds \ {"handler"}, Reply(Answer(k)) PROVE Routed' /\ Mapped'
  BY <1>1, <1>2, <1>3, ReplyNames
<1>4. CASE req.place \in PublicPaths
           /\ Reply(Answer(IF req.method \in {"GET", "HEAD"} THEN "public" ELSE "unsupported"))
  BY <1>3, <1>4 DEF Kinds
<1>5. CASE req.place = "outside" /\ Reply(Answer("not_found"))
  BY <1>3, <1>5 DEF Kinds
<1>6. CASE Reply(IF req.method \notin {"GET", "HEAD"} THEN Answer("unsupported")
                 ELSE IF proxy_host_from(req) = None THEN Answer("name_invalid")
                 ELSE IF req.place = "undecodable" THEN Answer("name_unknown")
                 ELSE RouteAnswer(req.path))
  <2>1. CASE \E k \in {"unsupported", "name_invalid", "name_unknown"} : Reply(Answer(k))
    BY <1>3, <2>1 DEF Kinds
  <2>2. CASE Reply(RouteAnswer(req.path))
    <3>1. req.path \in Seq(Segments)
      BY <1>1, PathsAssumption
    <3> QED BY <1>1, <2>2, <3>1, ReplyNames
  <2> QED BY <1>6, <2>1, <2>2
<1> QED BY <1>4, <1>5, <1>6 DEF Dispatch

LEMMA NextNames == NameInv /\ [Next]_vars => NameInv'
<1> SUFFICES ASSUME NameInv, [Next]_vars PROVE Routed' /\ Mapped'
  BY NextInv DEF NameInv
<1>1. ASSUME UNCHANGED vars PROVE Routed' /\ Mapped'
  BY <1>1, RoutedStays, MappedStays DEF vars, startup, NameInv
<1>2. ASSUME NEW r \in Requests, Arrive(r) PROVE Routed' /\ Mapped'
  <2>1. UNCHANGED <<phase, aliases, repo_alias, answer>> /\ stage = "idle" /\ req' = r
    BY <1>2 DEF Arrive, startup
  <2>2. answer.kind = "none"
    BY <2>1 DEF NameInv, IInv, Progress
  <2> QED BY <2>1, <2>2, MappedStays DEF Routed, NameInv
<1>3. ASSUME Respond PROVE Routed' /\ Mapped'
  <2>1. UNCHANGED <<phase, aliases, repo_alias>> /\ stage' = "idle" /\ answer' = Answer("none")
    BY <1>3 DEF Respond, startup
  <2>2. answer'.kind = "none"
    BY <2>1 DEF Answer
  <2> QED BY <2>1, <2>2, MappedStays DEF Routed, NameInv
<1> QED
  BY <1>1, <1>2, <1>3, LoadNames, ListenNames, FailNames, AuthNames, DispatchNames
     DEF Next, Refused, NameInv

LEMMA NamesInvariance == Spec => []NameInv
  BY InitNames, NextNames, PTL DEF Spec

\* parse_oci_path and resolve_name: whatever route a name came by, the others
\* lead to the same target.
THEOREM NamesHaveOneTarget == Spec => []OneNameOneTarget
<1>1. NameInv => OneNameOneTarget
  <2> SUFFICES ASSUME NameInv, answer.kind = "handler" PROVE OneNameOneTarget
    BY DEF OneNameOneTarget
  <2>1. PICK path \in Seq(Segments) : answer = RouteAnswer(path)
    BY DEF NameInv, Routed
  <2>2. /\ cfg \in Configs /\ validate(cfg) /\ aliases = Aliases(cfg)
    BY HandlerRuns DEF NameInv
  <2> DEFINE route == parse_oci_path(path)
             name == route.name
             target == resolve_name(name, aliases)
  <2>3. route.route \in {"manifest", "blob", "tags"}
    BY <2>1, RouteOfPath DEF RouteAnswer, Answer
  <2>4. answer.target = target /\ RouteName(name)
    BY <2>1, <2>3, RoutedTarget, NameOfRoute
  <2>5. target # None
    BY <2>1, <2>4, RouteAnswers
  <2>6. target.full_name = name
    <3> HIDE DEF name
    <3> QED BY <2>2, <2>5, TargetOfName
  <2> HIDE DEF name, target
  <2>7. RouteAnswer(Follow(name, <<"manifests">>, SomeDigest)).target = target
    BY <2>4, ManifestRoute, RoutedTarget DEF target
  <2>8. <<"manifests">> \notin ToSet(Tail(name)) =>
           RouteAnswer(Follow(name, <<"blobs">>, SomeDigest)).target = target
    BY <2>4, BlobRoute, RoutedTarget DEF target
  <2>9. ASSUME <<"manifests">> \notin ToSet(Tail(name)), <<"blobs">> \notin ToSet(Tail(name))
        PROVE  RouteAnswer(Follow(name, <<"tags">>, <<"list">>)).target
                 = [target EXCEPT !.full_name = TrimEnd(name)]
    <3>1. RouteAnswer(Follow(name, <<"tags">>, <<"list">>)).target
             = resolve_name(TrimEnd(name), aliases)
      BY <2>4, <2>9, TagsRoute, RoutedTarget
    <3>2. NonEmpty(name) = NonEmpty(TrimEnd(name))
      BY <2>4, TrimEndKeeps DEF RouteName
    <3> QED BY <2>5, <3>1, <3>2, SameSegments DEF target
  <2> DEFINE words == ToSet(Tail(name))
  <2>10. {<<"manifests">>, <<"blobs">>} \cap words = {} =>
            RouteAnswer(Follow(name, <<"tags">>, <<"list">>)).target
              = [target EXCEPT !.full_name = TrimEnd(name)]
    BY <2>9
  <2> QED BY <2>4, <2>6, <2>7, <2>8, <2>10 DEF OneNameOneTarget, Follow
<1> QED BY <1>1, NamesInvariance, PTL

-----------------------------------------------------------------------------
(* Dependencies.                                                             *)

LEMMA ChartNameFull == ASSUME NEW s, is_valid_chart_name(s) PROVE ~IsEmpty(s)
  BY DEF is_valid_chart_name, BeginsWell, IsEmpty

LEMMA HostFull == ASSUME NEW s, is_public_hostname(s) PROVE ~IsEmpty(s)
<1>1. Len(s) >= 2
  BY DEF is_public_hostname
<1>2. Len(s) # 1
  BY <1>1
<1> QED BY <1>2 DEF IsEmpty

LEMMA AliasFull == ASSUME NEW s, is_valid_alias_name(s) PROVE ~IsEmpty(s)
  BY DEF is_valid_alias_name, BeginsWell, IsEmpty

\* A chart below a host.
Framed(h, mid, c) == (<<h>> \o mid) \o <<c>>

LEMMA FramedParts ==
    ASSUME NEW h \in Segments, NEW mid \in Seq(Segments), NEW c \in Segments
    PROVE  LET s == Framed(h, mid, c) IN
           /\ s \in Seq(Segments) /\ s # <<>> /\ Len(s) = Len(mid) + 2 /\ Len(mid) \in Nat
           /\ s[1] = h /\ s[Len(s)] = c /\ Last(s) = c
           /\ \A i \in 1 .. Len(mid) : s[i + 1] = mid[i]
           /\ SubSeq(s, 2, Len(s) - 1) = mid
<1> DEFINE a == <<h>>
           b == <<c>>
           ab == a \o mid
           s == ab \o b
           N == Len(mid)
<1>1. a \in Seq(Segments) /\ b \in Seq(Segments) /\ Len(a) = 1 /\ Len(b) = 1
      /\ a[1] = h /\ b[1] = c /\ N \in Nat
  OBVIOUS
<1> HIDE DEF a, b, N
<1>2. ab \in Seq(Segments) /\ Len(ab) = 1 + N
      /\ \A i \in 1 .. 1 + N : ab[i] = IF i <= 1 THEN a[i] ELSE mid[i - 1]
  BY <1>1, ConcatProperties DEF N
<1> HIDE DEF ab
<1>3. s \in Seq(Segments) /\ Len(s) = N + 2
      /\ \A i \in 1 .. N + 2 : s[i] = IF i <= 1 + N THEN ab[i] ELSE b[i - (1 + N)]
  <2>1. s \in Seq(Segments) /\ Len(s) = Len(ab) + Len(b)
        /\ \A i \in 1 .. Len(ab) + Len(b) :
               s[i] = IF i <= Len(ab) THEN ab[i] ELSE b[i - Len(ab)]
    BY <1>1, <1>2, ConcatProperties
  <2>2. Len(ab) + Len(b) = N + 2
    BY <1>1, <1>2
  <2> HIDE DEF s
  <2> QED BY <1>2, <2>1, <2>2
<1> HIDE DEF s
<1>4. s[1] = h
  BY <1>1, <1>2, <1>3
<1>5. s[N + 2] = c
  <2>1. N + 2 \in 1 .. N + 2 /\ ~(N + 2 <= 1 + N) /\ (N + 2) - (1 + N) = 1
    BY <1>1
  <2> QED BY <1>1, <1>3, <2>1
<1>6. ASSUME NEW i \in 1 .. N PROVE s[i + 1] = mid[i]
  <2>1. i + 1 \in 1 .. N + 2 /\ i + 1 <= 1 + N /\ i + 1 \in 1 .. 1 + N /\ ~(i + 1 <= 1)
        /\ (i + 1) - 1 = i
    BY <1>1
  <2>2. s[i + 1] = ab[i + 1]
    BY <1>3, <2>1
  <2>3. ab[i + 1] = mid[i]
    BY <1>2, <2>1
  <2> QED BY <2>2, <2>3
<1>7. SubSeq(s, 2, Len(s) - 1) = mid
  <2> DEFINE t == SubSeq(s, 2, N + 1)
  <2>1. t \in Seq(Segments) /\ Len(t) = N /\ \A i \in 1 .. N : t[i] = s[i + 1]
    BY <1>1, <1>3
  <2> HIDE DEF t
  <2>2. \A i \in 1 .. N : t[i] = mid[i]
    BY <1>6, <2>1
  <2>3. t = mid
    BY <2>1, <2>2, SeqEqual DEF N
  <2>4. Len(s) - 1 = N + 1
    BY <1>1, <1>3
  <2> QED BY <2>3, <2>4 DEF t
<1>8. s # <<>> /\ Last(s) = c /\ s[Len(s)] = c
  BY <1>1, <1>3, <1>5 DEF Last
<1> QED BY <1>1, <1>3, <1>4, <1>6, <1>7, <1>8 DEF Framed, s, ab, a, b, N

\* The segments of a chart below a host.
LEMMA FramedNonEmpty ==
    ASSUME NEW h \in Segments, NEW mid \in Seq(Segments), NEW c \in Segments,
           ~IsEmpty(h), ~IsEmpty(c)
    PROVE  NonEmpty(Framed(h, mid, c)) = Framed(h, NonEmpty(mid), c)
<1> DEFINE a == <<h>>
           b == <<c>>
<1>1. a \in Seq(Segments) /\ b \in Seq(Segments)
      /\ (\A i \in 1 .. Len(a) : ~IsEmpty(a[i])) /\ (\A i \in 1 .. Len(b) : ~IsEmpty(b[i]))
  OBVIOUS
<1> HIDE DEF a, b
<1>2. NonEmpty(a) = a /\ NonEmpty(b) = b
  BY <1>1, NonEmptyOfAll
<1>3. a \o mid \in Seq(Segments)
  BY <1>1, ConcatProperties
<1>4. NonEmpty((a \o mid) \o b) = (NonEmpty(a) \o NonEmpty(mid)) \o NonEmpty(b)
  BY <1>1, <1>3, NonEmptyConcat
<1> QED BY <1>2, <1>4 DEF Framed, a, b

LEMMA HeadAdded ==
    ASSUME NEW h \in Segments, NEW t \in Seq(Segments), NEW k, k = <<h>> \o t
    PROVE  Len(k) = 1 + Len(t) /\ k[1] = h /\ \A i \in 1 .. Len(t) : k[i + 1] = t[i]
<1> DEFINE a == <<h>>
           s == a \o t
<1>1. a \in Seq(Segments) /\ Len(a) = 1 /\ a[1] = h /\ Len(t) \in Nat
  OBVIOUS
<1> HIDE DEF a
<1>2. Len(s) = 1 + Len(t)
      /\ \A i \in 1 .. 1 + Len(t) : s[i] = IF i <= 1 THEN a[i] ELSE t[i - 1]
  <2>1. Len(s) = Len(a) + Len(t)
        /\ \A i \in 1 .. Len(a) + Len(t) : s[i] = IF i <= Len(a) THEN a[i] ELSE t[i - Len(a)]
    BY <1>1, ConcatProperties
  <2> HIDE DEF s
  <2> QED BY <1>1, <2>1
<1> HIDE DEF s
<1>3. ASSUME NEW i \in 1 .. Len(t) PROVE s[i + 1] = t[i]
  <2>1. i + 1 \in 1 .. 1 + Len(t) /\ ~(i + 1 <= 1) /\ (i + 1) - 1 = i
    BY <1>1
  <2> QED BY <1>2, <2>1
<1>4. s[1] = h
  BY <1>1, <1>2
<1> QED BY <1>2, <1>3, <1>4 DEF s, a

\* normalize_repo_key: equal keys have the same host and path.
LEMMA KeyInjective ==
    ASSUME NEW h1 \in Segments, NEW h2 \in Segments,
           NEW t1 \in Seq(Segments), NEW t2 \in Seq(Segments),
           NEW k, k = <<h1>> \o t1, k = <<h2>> \o t2
    PROVE  h1 = h2 /\ t1 = t2
<1>1. Len(t1) \in Nat /\ Len(t2) \in Nat
  OBVIOUS
<1>2. Len(k) = 1 + Len(t1) /\ k[1] = h1 /\ \A i \in 1 .. Len(t1) : k[i + 1] = t1[i]
  BY HeadAdded
<1>3. Len(k) = 1 + Len(t2) /\ k[1] = h2 /\ \A i \in 1 .. Len(t2) : k[i + 1] = t2[i]
  BY HeadAdded
<1>4. h1 = h2 /\ Len(t1) = Len(t2)
  BY <1>1, <1>2, <1>3
<1>5. \A i \in 1 .. Len(t1) : t1[i] = t2[i]
  BY <1>2, <1>3, <1>4
<1> QED BY <1>4, <1>5, SeqEqual

LEMMA ChartFields ==
    ASSUME NEW url, NEW chart, NEW name, NEW e, NEW source
    PROVE  LET t == ClassicChart(url, chart, name, e, source) IN
           t.kind = "classic" /\ t.chart = chart /\ t.upstream = url
<1> DEFINE store == ~e
           plain == FALSE
           t == ClassicChart(url, chart, name, e, source)
<1>1. t = [kind |-> "classic", upstream |-> url, chart |-> chart, full_name |-> name,
           store |-> store, auth |-> "none", plain_http |-> plain, source |-> source]
  BY DEF ClassicChart
<1> HIDE DEF store, plain, t
<1>2. t.kind = "classic" /\ t.chart = chart /\ t.upstream = url
  BY <1>1
<1> QED BY <1>2 DEF t

LEMMA ChartIsThere ==
    ASSUME NEW url \in URLs, NEW chart \in Segments, NEW name \in Seq(Segments),
           NEW e \in BOOLEAN, NEW source \in {"ConfiguredAlias", "HostPath"}
    PROVE  ClassicChart(url, chart, name, e, source) # None
<1> DEFINE store == ~e
           plain == FALSE
           t == ClassicChart(url, chart, name, e, source)
<1>1. t = [kind |-> "classic", upstream |-> url, chart |-> chart, full_name |-> name,
           store |-> store, auth |-> "none", plain_http |-> plain, source |-> source]
  BY DEF ClassicChart
<1>2. store \in BOOLEAN /\ plain \in BOOLEAN
  OBVIOUS
<1> HIDE DEF store, plain, t
<1>3. t \in Targets
  BY <1>1, <1>2 DEF Targets
<1> QED BY <1>3, NoneAssumption DEF t

\* The path of a dependency's chart.
LEMMA BackPath ==
    ASSUME NEW name \in Seq(Segments), NEW c \in Segments, NEW m \in Segments, NEW d \in Segments
    PROVE  name \o <<c, m, d>> = Follow(name \o <<c>>, m, d)
<1> DEFINE b == <<c>>
           e == <<m, d>>
           be == <<c, m, d>>
<1>1. b \in Seq(Segments) /\ e \in Seq(Segments)
  OBVIOUS
<1>2. b \o e = be
  <2>1. /\ be \in Seq(Segments) /\ Len(be) = 3 /\ be[1] = c /\ be[2] = m /\ be[3] = d
        /\ Len(e) = 2 /\ e[1] = m /\ e[2] = d
    OBVIOUS
  <2> DEFINE k == b \o e
  <2>2. k \in Seq(Segments)
    BY <1>1, ConcatProperties
  <2>3. k = <<c>> \o e
    OBVIOUS
  <2> HIDE DEF k, be, e
  <2>4. Len(k) = 1 + Len(e) /\ k[1] = c /\ \A i \in 1 .. Len(e) : k[i + 1] = e[i]
    BY <1>1, <2>3, HeadAdded
  <2>5. k[2] = m /\ k[3] = d
    <3>1. 1 \in 1 .. Len(e) /\ 2 \in 1 .. Len(e)
      BY <2>1
    <3>2. k[1 + 1] = e[1] /\ k[2 + 1] = e[2]
      BY <2>4, <3>1
    <3>3. 1 + 1 = 2 /\ 2 + 1 = 3
      OBVIOUS
    <3> QED BY <2>1, <3>2, <3>3
  <2>6. \A i \in 1 .. 3 : k[i] = be[i]
    <3>1. \A i \in 1 .. 3 : i = 1 \/ i = 2 \/ i = 3
      OBVIOUS
    <3> QED BY <2>1, <2>4, <2>5, <3>1
  <2>7. Len(k) = 3
    BY <2>1, <2>4
  <2>8. k = be
    BY <2>1, <2>2, <2>6, <2>7, SeqEqual
  <2> QED BY <2>8 DEF k
<1> HIDE DEF b, e, be
<1>3. (name \o b) \o e = name \o (b \o e)
  BY <1>1, ConcatAssociative
<1> QED BY <1>2, <1>3 DEF Follow, b, e, be

\* A chart below a name is found by its manifest.
LEMMA BackTarget ==
    ASSUME NEW name \in Seq(Segments), RouteName(name \o <<SomeChart>>)
    PROVE  RouteAnswer(name \o <<SomeChart, <<"manifests">>, SomeDigest>>).target
             = resolve_name(name \o <<SomeChart>>, aliases)
<1> DEFINE m == <<"manifests">>
           full == name \o <<SomeChart>>
           path == name \o <<SomeChart, m, SomeDigest>>
<1>1. SomeChart \in Segments /\ SomeDigest \in Segments /\ m \in Segments
  BY PathsAssumption DEF Segments
<1>2. path = Follow(full, m, SomeDigest)
  <2> HIDE DEF m
  <2> QED BY <1>1, BackPath
<1> HIDE DEF full, path
<1>3. RouteName(full)
  BY DEF full
<1>4. parse_oci_path(path).route = "manifest" /\ parse_oci_path(path).name = full
  BY <1>2, <1>3, ManifestRoute
<1>5. RouteAnswer(path).target = resolve_name(full, aliases)
  BY <1>4, RoutedTarget
<1> QED BY <1>5 DEF path, full

\* The upstream of an alias is a URL.
LEMMA UpstreamType ==
    ASSUME cfg \in Configs, validate(cfg), aliases = Aliases(cfg), NEW a \in DOMAIN aliases
    PROVE  /\ a \in Segments /\ is_valid_alias_name(a)
           /\ aliases[a].upstream \in URLs /\ aliases[a].store \in BOOLEAN
<1> DEFINE set == cfg.aliases[a]
           url == set.upstream
           up == parse_alias_upstream(url)
<1>1. a \in DOMAIN cfg.aliases
  BY DEF Aliases
<1>2. a \in Segments /\ set \in AliasSettings
  BY <1>1, ConfigAssumption
<1>3. is_valid_alias_name(a) /\ up # None
  BY <1>1 DEF validate, AliasOK
<1>4. url \in URLs /\ set.store \in BOOLEAN
  BY <1>2 DEF AliasSettings
<1>5. url.path \in Seq(Segments)
  BY <1>4 DEF URLs
<1>6. Trim(url.path) \in Seq(Segments) /\ TrimEnd(url.path) \in Seq(Segments)
  BY <1>5, TrimKeeps, TrimEndKeeps
<1>7. up = [url EXCEPT !.path = Trim(url.path)] \/ up = [url EXCEPT !.path = TrimEnd(url.path)]
  BY <1>3 DEF parse_alias_upstream
<1> HIDE DEF url
<1>8. up \in URLs
  BY <1>4, <1>6, <1>7 DEF URLs
<1> HIDE DEF up
<1>9. aliases[a] = [set EXCEPT !.upstream = up]
  BY <1>1 DEF Aliases, up, url
<1>10. aliases[a].upstream = up /\ aliases[a].store = set.store
  <2> HIDE DEF set
  <2> QED BY <1>2, <1>9 DEF AliasSettings
<1> QED BY <1>2, <1>3, <1>4, <1>8, <1>10

LEMMA FramedIsName ==
    ASSUME NEW h \in Segments, NEW mid \in Seq(Segments), NEW c \in Segments, ~IsEmpty(h)
    PROVE  RouteName(Framed(h, mid, c))
<1>1. Framed(h, mid, c) \in Seq(Segments)
  BY FramedParts
<1>2. Framed(h, mid, c) # <<>>
  BY FramedParts, Zenon
<1>3. Framed(h, mid, c)[1] = h
  BY FramedParts, SMT
<1> QED BY <1>1, <1>2, <1>3 DEF RouteName

\* The target of a rewritten dependency is its repository, or there is none.
LeadsBack(url, back) ==
    /\ back # None => /\ back.kind = "classic" /\ back.chart = SomeChart
                      /\ back.upstream.host = url.host /\ back.upstream.port = url.port
                      /\ NonEmpty(back.upstream.path) = NonEmpty(url.path)
    /\ (\A i \in DOMAIN url.path : is_valid_chart_name(url.path[i])) => back # None

\* normalize_repo_key: the keys of URLs with the same host and path agree.
LEMMA SameKey ==
    ASSUME NEW u \in URLs, NEW v \in URLs, NEW k, k # None,
           normalize_repo_key(u) = k, normalize_repo_key(v) = k
    PROVE  /\ u.host = v.host /\ u.port = None /\ v.port = None
           /\ NonEmpty(u.path) = NonEmpty(v.path)
<1>1. u.host \in Segments /\ v.host \in Segments
      /\ u.path \in Seq(Segments) /\ v.path \in Seq(Segments)
  BY DEF URLs
<1>2. u.port = None /\ v.port = None
      /\ k = <<u.host>> \o Trim(u.path) /\ k = <<v.host>> \o Trim(v.path)
  BY DEF normalize_repo_key
<1> DEFINE t1 == Trim(u.path)
           t2 == Trim(v.path)
<1>3. t1 \in Seq(Segments) /\ t2 \in Seq(Segments)
      /\ NonEmpty(t1) = NonEmpty(u.path) /\ NonEmpty(t2) = NonEmpty(v.path)
  BY <1>1, TrimKeeps
<1> DEFINE h1 == u.host
           h2 == v.host
<1> HIDE DEF t1, t2, h1, h2
<1>4. k = <<h1>> \o t1 /\ k = <<h2>> \o t2 /\ h1 \in Segments /\ h2 \in Segments
  BY <1>1, <1>2 DEF t1, t2, h1, h2
<1>5. h1 = h2 /\ t1 = t2
  BY <1>3, <1>4, KeyInjective, Zenon
<1> QED BY <1>2, <1>3, <1>5 DEF h1, h2

LEMMA BackByAlias ==
    ASSUME cfg \in Configs, validate(cfg), aliases = Aliases(cfg),
           NEW url \in URLs, normalize_repo_key(url) # None,
           NEW a \in DOMAIN aliases, IsClassic(aliases[a]),
           normalize_repo_key(aliases[a].upstream) = normalize_repo_key(url)
    PROVE  LeadsBack(url, RouteAnswer(<<a>> \o <<SomeChart, <<"manifests">>, SomeDigest>>).target)
<1> DEFINE up == aliases[a].upstream
           c == SomeChart
           none == <<>>
           full == Framed(a, none, c)
           e == ~aliases[a].store
           rest == Tail(full)
           back == resolve_name(full, aliases)
<1>1. /\ a \in Segments /\ is_valid_alias_name(a) /\ up \in URLs /\ aliases[a].store \in BOOLEAN
  BY UpstreamType
<1>2. ~IsEmpty(a) /\ c \in Segments /\ is_valid_chart_name(c) /\ ~IsEmpty(c)
  BY <1>1, AliasFull, ChartNameFull, PathsAssumption
<1>3. none \in Seq(Segments) /\ Len(none) = 0 /\ NonEmpty(none) = none
  <2>1. none \in Seq(Segments) /\ Len(none) = 0 /\ \A i \in 1 .. Len(none) : IsEmpty(none[i])
    OBVIOUS
  <2> QED BY <2>1, NonEmptyOfNone
<1> HIDE DEF c, none
<1>4. /\ full \in Seq(Segments) /\ full # <<>> /\ Len(full) = 2 /\ full[1] = a /\ full[2] = c
  <2>0. a \in Segments /\ none \in Seq(Segments) /\ c \in Segments
    BY <1>1, <1>2, <1>3
  <2>1. full \in Seq(Segments) /\ full # <<>>
    BY <2>0, FramedParts
  <2>2. Len(full) = Len(none) + 2 /\ full[1] = a /\ full[Len(full)] = c
    BY <2>0, FramedParts
  <2>3. Len(full) = 2
    BY <1>3, <2>2
  <2> QED BY <2>1, <2>2, <2>3
<1>5. NonEmpty(full) = full /\ RouteName(full)
  BY <1>1, <1>2, <1>3, FramedNonEmpty, FramedIsName
<1> HIDE DEF full
<1>6. rest \in Seq(Segments) /\ Len(rest) = 1 /\ rest[1] = c /\ rest # <<>> /\ DOMAIN rest = {1}
  <2>1. /\ rest \in Seq(Segments) /\ Len(rest) = Len(full) - 1
        /\ \A i \in 1 .. Len(rest) : rest[i] = full[i + 1]
    BY <1>4, HeadTailProperties
  <2> HIDE DEF rest
  <2>2. Len(rest) = 1
    BY <1>4, <2>1
  <2>3. rest[1] = c
    BY <1>4, <2>1, <2>2
  <2>4. DOMAIN rest = 1 .. 1
    BY <2>1, <2>2
  <2>5. 1 .. 1 = {1}
    OBVIOUS
  <2>6. rest # <<>>
    BY <2>2
  <2> QED BY <2>1, <2>2, <2>3, <2>4, <2>5, <2>6
<1> HIDE DEF rest, up, e
<1>7. back = ClassicChart(up, c, full, e, "ConfiguredAlias")
  <2>1. rest # <<>> /\ ~(\E i \in DOMAIN rest : ~is_valid_chart_name(rest[i])) /\ ~(Len(rest) > 1)
    BY <1>2, <1>6
  <2>2. resolve_name(full, aliases)
           = ClassicChart(aliases[a].upstream, rest[1], full, ~aliases[a].store, "ConfiguredAlias")
    BY <1>4, <1>5, <2>1 DEF resolve_name, rest
  <2> QED BY <1>6, <2>2 DEF up, e
<1>8. back.kind = "classic" /\ back.chart = c /\ back.upstream = up
  BY <1>7, ChartFields
<1>9. back # None
  <2>1. e \in BOOLEAN
    BY <1>1 DEF e
  <2> QED BY <1>1, <1>2, <1>4, <1>7, <2>1, ChartIsThere
<1>10. up.host = url.host /\ up.port = url.port /\ NonEmpty(up.path) = NonEmpty(url.path)
  <2>1. normalize_repo_key(up) = normalize_repo_key(url)
    BY DEF up
  <2> QED BY <1>1, <2>1, SameKey DEF up
<1> HIDE DEF back
<1>11. LeadsBack(url, back)
  BY <1>8, <1>9, <1>10 DEF LeadsBack, c
<1>12. full = <<a>> \o <<c>>
  <2>1. <<a>> \in Seq(Segments)
    BY <1>1
  <2>2. <<a>> \o <<>> = <<a>>
    BY <2>1, ConcatEmptySeq
  <2> QED BY <2>2 DEF full, Framed, none
<1>13. <<a>> \in Seq(Segments) /\ RouteName(<<a>> \o <<SomeChart>>)
  BY <1>1, <1>5, <1>12 DEF c
<1>14. RouteAnswer(<<a>> \o <<SomeChart, <<"manifests">>, SomeDigest>>).target = back
  <2> DEFINE n == <<a>>
  <2>1. n \in Seq(Segments) /\ RouteName(n \o <<SomeChart>>)
    BY <1>13
  <2>2. back = resolve_name(n \o <<SomeChart>>, aliases)
    BY <1>12 DEF back, c
  <2> HIDE DEF n
  <2>3. RouteAnswer(n \o <<SomeChart, <<"manifests">>, SomeDigest>>).target = back
    BY <2>1, <2>2, BackTarget
  <2> QED BY <2>3 DEF n
<1> QED BY <1>11, <1>14

LEMMA BackByHost ==
    ASSUME cfg \in Configs, validate(cfg), aliases = Aliases(cfg),
           NEW url \in URLs, url.port = None, is_public_hostname(url.host)
    PROVE  LeadsBack(url, RouteAnswer((<<url.host>> \o Trim(url.path))
                              \o <<SomeChart, <<"manifests">>, SomeDigest>>).target)
<1> DEFINE h == url.host
           path == url.path
           c == SomeChart
           mid == NonEmpty(path)
           trimmed == Trim(path)
           full == Framed(h, trimmed, c)
           segments == Framed(h, mid, c)
           back == resolve_name(full, aliases)
           to == [scheme |-> "https", host |-> h, port |-> None, path |-> mid]
           cond == \A i \in 2 .. Len(segments) : is_valid_chart_name(segments[i])
<1>1. h \in Segments /\ path \in Seq(Segments) /\ c \in Segments /\ is_valid_chart_name(c)
  BY PathsAssumption DEF URLs
<1>2. ~IsEmpty(h) /\ ~IsEmpty(c)
  BY <1>1, HostFull, ChartNameFull
<1> HIDE DEF h, path, c
<1>3. trimmed \in Seq(Segments) /\ NonEmpty(trimmed) = mid /\ mid \in Seq(Segments)
      /\ NonEmpty(mid) = mid
  <2>1. trimmed \in Seq(Segments) /\ NonEmpty(trimmed) = mid
    BY <1>1, TrimKeeps
  <2>2. mid \in Seq(NonEmptySegments) /\ mid \in Seq(Segments)
    BY <1>1, NonEmptyType
  <2> HIDE DEF mid
  <2>3. \A i \in 1 .. Len(mid) : ~IsEmpty(mid[i])
    BY <2>2 DEF NonEmptySegments
  <2> QED BY <2>1, <2>2, <2>3, NonEmptyOfAll
<1> HIDE DEF trimmed, mid
<1>4. NonEmpty(full) = segments /\ RouteName(full)
  BY <1>1, <1>2, <1>3, FramedNonEmpty, FramedIsName
<1>5. /\ segments \in Seq(Segments) /\ segments # <<>> /\ Len(segments) = Len(mid) + 2
      /\ Len(mid) \in Nat /\ segments[1] = h /\ Last(segments) = c /\ segments[Len(segments)] = c
      /\ (\A i \in 1 .. Len(mid) : segments[i + 1] = mid[i])
      /\ SubSeq(segments, 2, Len(segments) - 1) = mid
  <2>1. h \in Segments /\ mid \in Seq(Segments) /\ c \in Segments
    BY <1>1, <1>3
  <2>2. segments \in Seq(Segments) /\ segments # <<>> /\ Len(segments) = Len(mid) + 2
    BY <2>1, FramedParts
  <2>3. segments[1] = h /\ Last(segments) = c /\ segments[Len(segments)] = c
    BY <2>1, FramedParts
  <2>4. \A i \in 1 .. Len(mid) : segments[i + 1] = mid[i]
    BY <2>1, FramedParts
  <2>5. SubSeq(segments, 2, Len(segments) - 1) = mid /\ Len(mid) \in Nat
    BY <2>1, FramedParts
  <2> HIDE DEF segments
  <2> QED BY <2>2, <2>3, <2>4, <2>5
<1> HIDE DEF full, segments
<1>6. h \notin DOMAIN aliases
  BY AliasIsNoHost, UpstreamType DEF h
<1>7. back = resolve_host_path(segments, full)
  BY <1>4, <1>5, <1>6 DEF resolve_name
<1>8. Len(segments) >= 2 /\ is_public_hostname(segments[1])
  BY <1>5 DEF h
<1>9. back = IF cond THEN ClassicChart(to, c, full, FALSE, "HostPath") ELSE None
  BY <1>5, <1>7, <1>8 DEF resolve_host_path
<1>10. to.host = h /\ to.port = None /\ to.path = mid /\ to \in URLs
  BY <1>1, <1>3 DEF URLs, Schemes
<1> HIDE DEF to, back, cond
<1>11. back # None => /\ back.kind = "classic" /\ back.chart = c /\ back.upstream = to
  <2> DEFINE e == FALSE
             source == "HostPath"
  <2> HIDE DEF e, source
  <2>1. back = IF cond THEN ClassicChart(to, c, full, e, source) ELSE None
    BY <1>9 DEF e, source
  <2> QED BY <2>1, ChartFields
<1>12. ASSUME \A i \in DOMAIN path : is_valid_chart_name(path[i]) PROVE back # None
  <2>1. \A i \in 1 .. Len(path) : ~IsEmpty(path[i])
    BY <1>1, <1>12, ChartNameFull
  <2>2. mid = path
    BY <1>1, <2>1, NonEmptyOfAll DEF mid
  <2>3. ASSUME NEW i \in 2 .. Len(segments) PROVE is_valid_chart_name(segments[i])
    <3>1. CASE i = Len(segments)
      BY <1>1, <1>5, <3>1
    <3>2. CASE i # Len(segments)
      <4>1. i - 1 \in 1 .. Len(mid) /\ (i - 1) + 1 = i
        BY <1>5, <3>2
      <4>2. segments[i] = mid[i - 1]
        BY <1>5, <4>1
      <4>3. i - 1 \in DOMAIN path
        BY <1>1, <2>2, <4>1
      <4> QED BY <1>12, <2>2, <4>2, <4>3
    <3> QED BY <3>1, <3>2
  <2>4. cond
    BY <2>3 DEF cond
  <2>5. full \in Seq(Segments)
    BY <1>4 DEF RouteName
  <2> DEFINE e == FALSE
             source == "HostPath"
  <2>6. e \in BOOLEAN /\ source \in {"ConfiguredAlias", "HostPath"}
        /\ back = ClassicChart(to, c, full, e, source)
    BY <1>9, <2>4
  <2> HIDE DEF e, source
  <2> QED BY <1>1, <1>10, <2>5, <2>6, ChartIsThere
<1>13. LeadsBack(url, back)
  <2>1. back # None => back.upstream.host = h /\ back.upstream.port = url.port
                       /\ NonEmpty(back.upstream.path) = NonEmpty(path)
    BY <1>3, <1>10, <1>11 DEF mid
  <2> QED BY <1>11, <1>12, <2>1 DEF LeadsBack, h, path, c
<1>14. RouteAnswer((<<h>> \o trimmed) \o <<SomeChart, <<"manifests">>, SomeDigest>>).target = back
  <2> DEFINE b == <<h>>
             n == b \o trimmed
  <2>1. b \in Seq(Segments)
    BY <1>1
  <2>2. n \in Seq(Segments)
    <3> HIDE DEF b
    <3> QED BY <1>3, <2>1, ConcatProperties
  <2>3. full = n \o <<SomeChart>>
    BY DEF full, Framed, c
  <2> HIDE DEF n
  <2>4. RouteAnswer(n \o <<SomeChart, <<"manifests">>, SomeDigest>>).target
           = resolve_name(n \o <<SomeChart>>, aliases)
    BY <1>4, <2>2, <2>3, BackTarget
  <2> QED BY <2>3, <2>4 DEF n, back
<1> QED BY <1>13, <1>14 DEF h, trimmed, path

\* rewrite_dependency_url and resolve_name: a rewritten dependency leads to its
\* own repository.
THEOREM DependenciesComeBack == Spec => []DependencyComesBack
<1>1. NameInv => DependencyComesBack
  <2> SUFFICES ASSUME NameInv, phase = "serving", stage = "idle", NEW url \in Dependencies,
                      rewrite_dependency_url(url, repo_alias) # None
               PROVE  LeadsBack(url, RouteAnswer(rewrite_dependency_url(url, repo_alias)
                                   \o <<SomeChart, <<"manifests">>, SomeDigest>>).target)
    BY DEF DependencyComesBack, LeadsBack
  <2> DEFINE name == rewrite_dependency_url(url, repo_alias)
             key == normalize_repo_key(url)
  <2>1. cfg \in Configs /\ validate(cfg) /\ aliases = Aliases(cfg) /\ url \in URLs
        /\ repo_alias \in classic_alias_rewrite_map(aliases)
    BY PathsAssumption DEF NameInv, IInv, Started, Mapped
  <2>2. is_public_hostname(url.host) /\ key # None
        /\ name = IF key \in DOMAIN repo_alias THEN <<repo_alias[key]>> ELSE key
    BY DEF rewrite_dependency_url
  <2>3. CASE key \in DOMAIN repo_alias
    <3> DEFINE a == repo_alias[key]
    <3>1. a \in DOMAIN aliases /\ IsClassic(aliases[a])
          /\ normalize_repo_key(aliases[a].upstream) = key
      BY <2>1, <2>3 DEF classic_alias_rewrite_map
    <3>2. name = <<a>>
      BY <2>2, <2>3
    <3> HIDE DEF a, name
    <3>3. LeadsBack(url, RouteAnswer(<<a>> \o <<SomeChart, <<"manifests">>, SomeDigest>>).target)
      BY <2>1, <2>2, <3>1, BackByAlias
    <3> QED BY <3>2, <3>3 DEF name
  <2>4. CASE key \notin DOMAIN repo_alias
    <3>1. name = key /\ url.port = None /\ key = <<url.host>> \o Trim(url.path)
      BY <2>2, <2>4 DEF normalize_repo_key
    <3> HIDE DEF name, key
    <3>2. LeadsBack(url, RouteAnswer((<<url.host>> \o Trim(url.path))
                             \o <<SomeChart, <<"manifests">>, SomeDigest>>).target)
      BY <2>1, <2>2, <3>1, BackByHost
    <3> QED BY <3>1, <3>2 DEF name
  <2> QED BY <2>3, <2>4
<1> QED BY <1>1, NamesInvariance, PTL
=============================================================================
