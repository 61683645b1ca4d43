---------------------------- MODULE UpstreamSend ----------------------------
(* One upstream request with its redirects: send of bins/helmoci/src/        *)
(* upstream.rs, started the way each of its callers starts it (the index and *)
(* chart downloads of classic.rs, the registry requests and the token        *)
(* requests of passthrough.rs).  Servers answer what they like: any status,  *)
(* any Location, any chart URL in an index, any realm in a challenge.        *)
EXTENDS Naturals

CONSTANTS
    Hosts,         \* authorities (host and port) of the world
    PublicHosts,   \* the ones is_public_hostname accepts
    MaxRedirects   \* MAX_REDIRECTS

ASSUME UpstreamAssumption ==
    /\ PublicHosts \subseteq Hosts
    /\ MaxRedirects \in Nat

VARIABLES
    target,    \* the upstream an alias or a client named: [url, by]
    pc,        \* where the call is
    url,       \* the URL requested next
    client,    \* the HTTP client it is requested with
    auth,      \* whether the request carries credentials
    followed,  \* redirects followed
    sent       \* history: the requests that went out

sendVars == <<target, pc, url, client, auth, followed, sent>>

Url == [scheme : {"http", "https", "other"}, host : Hosts, userinfo : BOOLEAN]

Clients == {"Trusted", "TokenTrusted", "Public"}

Target == [url : Url, by : {"alias", "hostPath", "registry", "gcpRegistry"}]

SendTypeOK ==
    /\ target \in Target
    /\ pc \in {"start", "send", "answer", "ok", "err"}
    /\ url \in Url
    /\ client \in Clients
    /\ auth \in BOOLEAN
    /\ followed \in 0..MaxRedirects
    /\ sent \subseteq [url : Url, client : Clients, auth : BOOLEAN]

SameOrigin(u, v) == u.scheme = v.scheme /\ u.host = v.host

IsHttp(u) == u.scheme \in {"http", "https"}

\* validate_public_https
PublicHttps(u) == u.scheme = "https" /\ ~u.userinfo /\ u.host \in PublicHosts

\* What can be named: resolve_host_path builds the URL itself from a public
\* host name, an alias upstream and a registry are http or https.
NamedTargets == {t \in Target :
    /\ IsHttp(t.url)
    /\ t.by = "hostPath" => PublicHttps(t.url)
    /\ t.by \in {"registry", "gcpRegistry"} => ~t.url.userinfo}

SendInit ==
    /\ target \in NamedTargets
    /\ pc = "start"
    /\ url = target.url
    /\ client = "Public"
    /\ auth = FALSE
    /\ followed = 0
    /\ sent = {}

-----------------------------------------------------------------------------
(* The callers.                                                              *)

\* send is entered: a Public request needs a public HTTPS URL.
Open(u, c, a) ==
    /\ pc = "start"
    /\ url' = u /\ client' = c /\ auth' = a
    /\ pc' = IF c = "Public" /\ ~PublicHttps(u) THEN "err" ELSE "send"
    /\ UNCHANGED <<target, followed, sent>>

\* The caller gives up before send.
Refuse ==
    /\ pc = "start"
    /\ pc' = "err"
    /\ UNCHANGED <<target, url, client, auth, followed, sent>>

\* send_classic
OpenIndex ==
    \/ target.by = "alias" /\ Open(target.url, "Trusted", FALSE)
    \/ target.by = "hostPath" /\ Open(target.url, "Public", FALSE)

OpenChart_trusted(u) ==
    \/ target.by = "hostPath" /\ Open(u, "Public", FALSE)
    \/ target.by = "alias" /\ Open(u, "Trusted", FALSE)

\* download_chart, with the URL the index gives.
OpenChart(u) ==
    \/ /\ target.by = "hostPath"
       /\ IsHttp(u)
       /\ Open(u, "Public", FALSE)
    \/ /\ target.by = "alias"
       /\ IsHttp(u)
       /\ Open(u, IF SameOrigin(target.url, u) THEN "Trusted" ELSE "Public", FALSE)
    \/ /\ target.by \in {"alias", "hostPath"}
       /\ ~IsHttp(u)
       /\ Refuse

\* send_upstream, with or without a bearer token; GCP refuses plain HTTP.
OpenRegistry(bearer) ==
    \/ target.by = "registry" /\ Open(target.url, "Trusted", bearer)
    \/ /\ target.by = "gcpRegistry"
       /\ target.url.scheme = "https"
       /\ Open(target.url, "Trusted", bearer)
    \/ /\ target.by = "gcpRegistry"
       /\ target.url.scheme # "https"
       /\ Refuse

GcpRealmOK_anywhere(realm) == realm.scheme = "https"

\* The realm a GCP registry's challenge may name.
GcpRealmOK(realm) ==
    /\ target.url.scheme = "https" /\ realm.scheme = "https"
    /\ SameOrigin(target.url, realm)
    /\ target.url.host \in PublicHosts

\* build_token_request and fetch_token, with the realm the challenge gives.
OpenToken(realm) ==
    LET wellFormed == IsHttp(realm) /\ ~realm.userinfo
    IN  \/ /\ target.by = "gcpRegistry"
           /\ \/ wellFormed /\ GcpRealmOK(realm) /\ Open(realm, "Public", TRUE)
              \/ Refuse   \* the realm, or no GCP access token
        \/ /\ target.by = "registry"
           /\ IF ~wellFormed THEN Refuse
              ELSE Open(realm, IF SameOrigin(target.url, realm) THEN "TokenTrusted"
                                                                ELSE "Public", FALSE)

-----------------------------------------------------------------------------
(* The loop of send.                                                         *)

\* The request goes out with the client and the headers of the moment.
Send ==
    /\ pc = "send"
    /\ sent' = sent \cup {[url |-> url, client |-> client, auth |-> auth]}
    /\ pc' \in {"answer", "err"}
    /\ UNCHANGED <<target, url, client, auth, followed>>

\* Any answer but a redirect is the caller's.
Final ==
    /\ pc = "answer"
    /\ pc' = "ok"
    /\ UNCHANGED <<target, url, client, auth, followed, sent>>

\* A Location that redirect_target accepts.
RedirectOK(t) ==
    /\ IsHttp(t)
    /\ ~t.userinfo
    /\ url.scheme = "https" => t.scheme = "https"
    /\ ~SameOrigin(url, t) => PublicHttps(t)

Redirect_home(t) ==
    /\ pc = "answer"
    /\ followed < MaxRedirects
    /\ RedirectOK(t)
    /\ url' = t
    /\ followed' = followed + 1
    /\ pc' = "send"
    /\ client' = IF SameOrigin(url, t) THEN client
                 ELSE IF SameOrigin(target.url, t) THEN "Trusted" ELSE "Public"
    /\ auth' = (auth /\ SameOrigin(url, t))
    /\ UNCHANGED <<target, sent>>

Redirect_unbounded(t) ==
    /\ pc = "answer"
    /\ RedirectOK(t)
    /\ url' = t
    /\ followed' = IF followed < MaxRedirects THEN followed + 1 ELSE 0
    /\ pc' = "send"
    /\ client' = IF SameOrigin(url, t) THEN client ELSE "Public"
    /\ auth' = (auth /\ SameOrigin(url, t))
    /\ UNCHANGED <<target, sent>>

\* redirect_target: leaving the origin drops the credentials and the trust,
\* for good.
Redirect(t) ==
    /\ pc = "answer"
    /\ followed < MaxRedirects
    /\ RedirectOK(t)
    /\ url' = t
    /\ followed' = followed + 1
    /\ pc' = "send"
    /\ client' = IF SameOrigin(url, t) THEN client ELSE "Public"
    /\ auth' = (auth /\ SameOrigin(url, t))
    /\ UNCHANGED <<target, sent>>

\* A Location that is missing, repeated, malformed or not acceptable, and a
\* redirect too many.
RedirectRefused ==
    /\ pc = "answer"
    /\ pc' = "err"
    /\ UNCHANGED <<target, url, client, auth, followed, sent>>

Loop == Send \/ Final \/ RedirectRefused \/ \E t \in Url : Redirect(t)

Done == pc \in {"ok", "err"} /\ UNCHANGED sendVars

SendNext ==
    \/ OpenIndex
    \/ \E u \in Url : OpenChart(u) \/ OpenToken(u)
    \/ \E bearer \in BOOLEAN : OpenRegistry(bearer)
    \/ Loop
    \/ Done

\* Every upstream request is answered or times out, and the loop goes on.
Fairness == WF_sendVars(Loop)

SendSpec == SendInit /\ [][SendNext]_sendVars

FairSpec == SendSpec /\ Fairness

-----------------------------------------------------------------------------
(* Properties.                                                               *)

\* A bearer token, and the GCP access token, reach only the origin of the
\* registry the alias names: not a realm or redirect target elsewhere, and
\* not the registry's own host over another scheme or port.
CredentialsStayHome ==
    \A q \in sent : q.auth => SameOrigin(q.url, target.url)

\* Whatever chart URLs, realms and Locations the upstreams answer with, a
\* request that is not public HTTPS goes only to the origin that was named.
PrivateOnlyAsNamed ==
    \A q \in sent :
        \/ q.url.scheme = "https" /\ q.url.host \in PublicHosts
        \/ SameOrigin(q.url, target.url)

\* Once a call has left its first origin it goes on with the public client and
\* without credentials, also when a redirect leads back.
TrustNeverReturns ==
    (\E q \in sent : ~SameOrigin(q.url, target.url)) => client = "Public" /\ ~auth

\* A call that has used HTTPS uses nothing else from then on.
NoDowngrade ==
    (\E q \in sent : q.url.scheme = "https") /\ pc \in {"send", "answer"}
        => url.scheme = "https"

\* However servers redirect, the call ends.
SendEnds == pc = "send" ~> pc \in {"ok", "err"}
=============================================================================
