----------------------------- MODULE TokenFlow ------------------------------
(* The token dance of bins/helmoci/src/passthrough.rs (send_upstream,        *)
(* fetch_token) over the token cache of state.rs: a request goes out with    *)
(* the cached bearer token if it is live; a 401 makes it fetch a token,      *)
(* cache it and try exactly once more with that token.  Requests run         *)
(* concurrently and share the cache; time passes between any two steps, the  *)
(* flight of a token response included.                                      *)
EXTENDS Integers

CONSTANTS
    Requests,   \* tasks in send_upstream
    Targets,    \* OCI targets: [scheme, auth, registry, repo]
    Margin,     \* TOKEN_EXPIRY_MARGIN_SECS
    MinTtl,     \* MIN_TOKEN_TTL_SECS
    MaxTtl,     \* MAX_TOKEN_TTL_SECS
    DefaultTtl, \* DEFAULT_TOKEN_TTL_SECS
    Advertised, \* the expires_in values that token endpoints send
    Silent,     \* how long a token lives whose response has no usable expires_in
    MaxFlight,  \* bound on the flight time of a token response
    MaxTime,    \* bound on the clock
    MaxTokens   \* bound on the tokens that are issued

ASSUME TokenAssumption ==
    /\ Margin \in Nat /\ MinTtl \in Nat /\ MaxTtl \in Nat /\ DefaultTtl \in Nat
    /\ MinTtl <= MaxTtl
    /\ Advertised \subseteq Nat /\ Silent \in Nat
    /\ MaxFlight \in Nat /\ MaxTime \in Nat /\ MaxTokens \in Nat

VARIABLES
    now,     \* the clock
    cache,   \* upstream_tokens: a token, or NoToken, under each key
    req,     \* the requests
    issued   \* history: how many tokens have been issued

vars == <<now, cache, req, issued>>

upstream_token_cache_key_shared(t) == <<t.scheme, t.auth, t.registry>>

upstream_token_cache_key(t) == <<t.scheme, t.auth, t.registry, t.repo>>

CacheKeys == {upstream_token_cache_key(t) : t \in Targets}

\* What a token is good for.
Scope(t) == <<t.registry, t.repo>>

Scopes == {Scope(t) : t \in Targets}

NoScope == <<>>

\* -1: expires_in absent, or not a lifetime that can be read.
Lifetimes == Advertised \cup {-1}

Token == [serial : 0..MaxTokens, scope : Scopes \cup {NoScope},
          advertised : Lifetimes,
          issuedAt : Nat,    \* when the endpoint minted it
          until : Nat,       \* when the registry stops accepting it
          deadline : Nat]    \* expires_at of the CachedToken

NoToken == [serial |-> 0, scope |-> NoScope, advertised |-> -1, issuedAt |-> 0,
            until |-> 0, deadline |-> 0]

Request == [
    pc     : {"idle", "lookup", "first", "challenge", "flight", "insert", "retry", "done"},
    target : Targets,
    tok    : Token,            \* the bearer token in the headers
    seen   : 0..MaxTokens,     \* history: tokens issued when the 401 was answered
    res    : {"none", "ok", "unauthorized", "error"}]

TypeOK ==
    /\ now \in 0..MaxTime
    /\ cache \in [CacheKeys -> Token]
    /\ req \in [Requests -> Request]
    /\ issued \in 0..MaxTokens

Init ==
    /\ now = 0
    /\ cache = [k \in CacheKeys |-> NoToken]
    /\ \E t \in Targets : req = [r \in Requests |->
           [pc |-> "idle", target |-> t, tok |-> NoToken, seen |-> 0, res |-> "none"]]
    /\ issued = 0

-----------------------------------------------------------------------------
(* Token lifetimes.                                                          *)

token_ttl_no_margin(advertised) ==
    IF advertised = -1 THEN DefaultTtl
    ELSE IF advertised < MinTtl THEN MinTtl
    ELSE IF advertised > MaxTtl THEN MaxTtl
    ELSE advertised

\* advertised.saturating_sub(margin).clamp(min, max), or the default.
token_ttl(advertised) ==
    IF advertised = -1 THEN DefaultTtl
    ELSE IF advertised < Margin + MinTtl THEN MinTtl
    ELSE IF advertised - Margin > MaxTtl THEN MaxTtl
    ELSE advertised - Margin

\* CachedToken::live
live(tok) == tok.serial # 0 /\ now < tok.deadline

\* The registry takes the token for the target.
Accepts(tok, t) == tok.serial # 0 /\ tok.scope = Scope(t) /\ now < tok.until

-----------------------------------------------------------------------------
(* send_upstream.                                                            *)

Begin(r, t) ==
    /\ req[r].pc = "idle"
    /\ req' = [req EXCEPT ![r] = [pc |-> "lookup", target |-> t, tok |-> NoToken,
                                  seen |-> 0, res |-> "none"]]
    /\ UNCHANGED <<now, cache, issued>>

\* The function returns, and its local variables are gone.
End(r, res) ==
    req' = [req EXCEPT ![r] = [@ EXCEPT !.pc = "done", !.tok = NoToken, !.seen = 0,
                                        !.res = res]]

\* state.upstream_tokens.get, then CachedToken::live.
Lookup(r) ==
    LET tok == cache[upstream_token_cache_key(req[r].target)]
    IN  /\ req[r].pc = "lookup"
        /\ req' = [req EXCEPT ![r] = [@ EXCEPT !.pc = "first",
                                               !.tok = IF live(tok) THEN tok ELSE NoToken]]
        /\ UNCHANGED <<now, cache, issued>>

\* The first try.  A registry may serve anonymously, and may withdraw a token
\* before its time.
First(r) ==
    /\ req[r].pc = "first"
    /\ \/ req[r].tok.serial = 0 /\ End(r, "ok")
       \/ Accepts(req[r].tok, req[r].target) /\ End(r, "ok")
       \/ req' = [req EXCEPT ![r] = [@ EXCEPT !.pc = "challenge", !.tok = NoToken,
                                                  !.seen = issued]]
       \/ End(r, "error")
    /\ UNCHANGED <<now, cache, issued>>

\* The 401 names a realm, whose endpoint mints a token; or it does not, or
\* the endpoint refuses.
Challenge(r) ==
    /\ req[r].pc = "challenge"
    /\ \/ /\ issued < MaxTokens
          /\ issued' = issued + 1
          /\ \E a \in Lifetimes :
                req' = [req EXCEPT ![r] = [@ EXCEPT !.pc = "flight",
                    !.tok = [serial |-> issued + 1, scope |-> Scope(req[r].target),
                             advertised |-> a, issuedAt |-> now,
                             until |-> now + (IF a = -1 THEN Silent ELSE a),
                             deadline |-> 0]]]
       \/ End(r, "error") /\ UNCHANGED issued
    /\ UNCHANGED <<now, cache>>

\* The token response arrives: CachedToken::new.
Receive(r) ==
    /\ req[r].pc = "flight"
    /\ \/ req' = [req EXCEPT ![r] = [@ EXCEPT !.pc = "insert",
              !.tok = [req[r].tok EXCEPT !.deadline = now + token_ttl(req[r].tok.advertised)]]]
       \/ End(r, "error")
    /\ UNCHANGED <<now, cache, issued>>

Insert_reread(r) ==
    LET k == upstream_token_cache_key(req[r].target)
    IN  /\ req[r].pc = "insert"
        /\ cache' = [cache EXCEPT ![k] = IF live(cache[k]) THEN cache[k] ELSE req[r].tok]
        /\ req' = [req EXCEPT ![r] = [@ EXCEPT !.pc = "retry", !.tok = cache'[k]]]
        /\ UNCHANGED <<now, issued>>

\* state.upstream_tokens.insert
Insert(r) ==
    /\ req[r].pc = "insert"
    /\ cache' = [cache EXCEPT ![upstream_token_cache_key(req[r].target)] = req[r].tok]
    /\ req' = [req EXCEPT ![r].pc = "retry"]
    /\ UNCHANGED <<now, issued>>

\* The second and last try.
Retry(r) ==
    /\ req[r].pc = "retry"
    /\ \/ Accepts(req[r].tok, req[r].target) /\ End(r, "ok")
       \/ End(r, "unauthorized")
       \/ End(r, "error")
    /\ UNCHANGED <<now, cache, issued>>

Return(r) ==
    /\ req[r].pc = "done"
    /\ req' = [req EXCEPT ![r] = [@ EXCEPT !.pc = "idle", !.res = "none"]]
    /\ UNCHANGED <<now, cache, issued>>

\* An entry makes room for another one, or the backstop TTL drops it.
Evict(k) ==
    /\ cache[k] # NoToken
    /\ cache' = [cache EXCEPT ![k] = NoToken]
    /\ UNCHANGED <<now, req, issued>>

\* Time passes; no token response is in flight for longer than MaxFlight.
Tick ==
    /\ now < MaxTime
    /\ \A r \in Requests : req[r].pc = "flight" => now < req[r].tok.issuedAt + MaxFlight
    /\ now' = now + 1
    /\ UNCHANGED <<cache, req, issued>>

Step(r) ==
    \/ Lookup(r) \/ First(r) \/ Challenge(r) \/ Receive(r) \/ Insert(r) \/ Retry(r)
    \/ Return(r)

Next ==
    \/ \E r \in Requests : Step(r) \/ \E t \in Targets : Begin(r, t)
    \/ \E k \in CacheKeys : Evict(k)
    \/ Tick

Spec == Init /\ [][Next]_vars

-----------------------------------------------------------------------------
(* Properties.                                                               *)

\* The retry carries a token minted after the 401 that asked for it, whatever
\* other requests put into the cache meanwhile: what was just refused is never
\* sent again.
RetryIsFresher ==
    \A r \in Requests :
        req[r].pc \in {"insert", "retry"} => req[r].tok.serial > req[r].seen

\* A token is sent only for the repository it was minted for, although the
\* requests of all aliases share the cache.
TokensNotShared ==
    \A r \in Requests :
        req[r].tok.serial # 0 => req[r].tok.scope = Scope(req[r].target)

\* "Refresh a registry token this long before it expires": when the flight of
\* the token response fits the margin, a token taken from the cache is one the
\* registry still takes, unless its advertised lifetime is so short that the
\* minimum was cached instead.
LiveIsUnexpired ==
    [][\A r \in Requests :
          LET tok == req'[r].tok
          IN  /\ req[r].pc = "lookup" /\ req'[r].pc = "first"
              /\ tok.serial # 0 /\ tok.advertised >= Margin + MinTtl
              /\ MaxFlight <= Margin
              => now < tok.until]_vars

=============================================================================
