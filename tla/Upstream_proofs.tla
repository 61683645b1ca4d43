--------------------------- MODULE Upstream_proofs ---------------------------
(* Proofs about the two sides of a request to a registry: TokenFlow, for any  *)
(* requests, targets, lifetimes and bounds, and UpstreamSend, for any hosts   *)
(* and any redirect limit.                                                    *)
EXTENDS TokenFlow, UpstreamSend, TLAPS

-----------------------------------------------------------------------------
(* TokenFlow.                                                                *)

\* How long an endpoint promised the token to live, from the moment it minted
\* it, and that a deadline is within that promise if the flight fits the margin.
Long(tok) == tok.advertised >= Margin + MinTtl /\ MaxFlight <= Margin

InTime(tok) == tok.serial # 0 /\ Long(tok) => tok.deadline <= tok.until

\* The cache: tokens for the repository of their key, with safe deadlines.
CacheOK ==
    \A t \in Targets :
        LET tok == cache[upstream_token_cache_key(t)]
        IN  (tok.serial # 0 => tok.scope = Scope(t)) /\ InTime(tok)

\* One request: its token is for its target; a token that was fetched is newer
\* than the 401, and the response's flight is not longer than the bound.
ReqOK(q) ==
    /\ q.seen <= issued
    /\ q.tok.serial # 0 => q.tok.scope = Scope(q.target)
    /\ q.pc \in {"flight", "insert", "retry"} => q.tok.serial > q.seen
    /\ q.pc = "flight" =>
          /\ now <= q.tok.issuedAt + MaxFlight
          /\ q.tok.advertised # -1 => q.tok.until = q.tok.issuedAt + q.tok.advertised
    /\ q.pc = "insert" => InTime(q.tok)

IInv ==
    /\ TypeOK
    /\ CacheOK
    /\ \A r \in Requests : ReqOK(req[r])

-----------------------------------------------------------------------------
(* Tokens and lifetimes.                                                     *)

\* One key, one scope.
LEMMA KeyScope ==
    ASSUME NEW t \in Targets, NEW u \in Targets,
           upstream_token_cache_key(t) = upstream_token_cache_key(u)
    PROVE  Scope(t) = Scope(u)
  BY DEF upstream_token_cache_key, Scope

LEMMA KeyInKeys == \A t \in Targets : upstream_token_cache_key(t) \in CacheKeys
  BY DEF CacheKeys

LEMMA NoTokenType ==
    NoToken \in Token /\ NoToken.serial = 0 /\ -1 \in Lifetimes
  BY TokenAssumption DEF NoToken, Token, Lifetimes

\* token_ttl is a number, and within the advertised lifetime less the margin
\* unless the minimum replaced it.
LEMMA TtlBound ==
    ASSUME NEW a \in Lifetimes
    PROVE  /\ token_ttl(a) \in Nat
           /\ a >= Margin + MinTtl => a # -1 /\ token_ttl(a) <= a - Margin
<1>1. a \in Nat \/ a = -1
  BY TokenAssumption DEF Lifetimes
<1> QED BY <1>1, TokenAssumption DEF token_ttl

LEMMA InitInv == Init => IInv
<1> SUFFICES ASSUME Init PROVE IInv OBVIOUS
<1>1. PICK t \in Targets : req = [r \in Requests |->
           [pc |-> "idle", target |-> t, tok |-> NoToken, seen |-> 0, res |-> "none"]]
  BY DEF Init
<1>2. TypeOK
  BY <1>1, NoTokenType, TokenAssumption DEF Init, TypeOK, Request
<1>3. CacheOK
  BY KeyInKeys, NoTokenType DEF Init, CacheOK, InTime
<1>4. ASSUME NEW r \in Requests PROVE ReqOK(req[r])
  <2>1. req[r].pc = "idle" /\ req[r].tok = NoToken /\ req[r].seen = 0
    BY <1>1
  <2> QED BY <2>1, NoTokenType DEF Init, ReqOK
<1> QED BY <1>2, <1>3, <1>4 DEF IInv

-----------------------------------------------------------------------------
(* Steps of one request.                                                     *)

\* A step that replaces the state of one request and nothing else.
LEMMA ReqStep ==
    ASSUME IInv, NEW r \in Requests, NEW q \in Request, ReqOK(q),
           req' = [req EXCEPT ![r] = q], UNCHANGED <<now, cache, issued>>
    PROVE  IInv'
<1>1. TypeOK'
  BY DEF IInv, TypeOK
<1>2. CacheOK'
  BY DEF IInv, CacheOK, InTime, Long
<1>3. \A s \in Requests : ReqOK(req[s])'
  BY DEF IInv, TypeOK, ReqOK, InTime, Long
<1> QED BY <1>1, <1>2, <1>3 DEF IInv

\* What a request is made of.
LEMMA ReqFields ==
    ASSUME IInv, NEW r \in Requests
    PROVE  /\ req[r] \in Request /\ req[r].target \in Targets
           /\ req[r].tok \in Token /\ req[r].seen \in 0..MaxTokens
           /\ now \in Nat /\ issued \in 0..MaxTokens /\ ReqOK(req[r])
           /\ DOMAIN req = Requests
  BY TokenAssumption DEF IInv, TypeOK, Request

\* The function returns.
LEMMA EndInv ==
    ASSUME IInv, NEW r \in Requests, NEW res \in {"ok", "unauthorized", "error"},
           End(r, res), UNCHANGED <<now, cache, issued>>
    PROVE  IInv'
<1> DEFINE q == [req[r] EXCEPT !.pc = "done", !.tok = NoToken, !.seen = 0, !.res = res]
<1>1. req' = [req EXCEPT ![r] = q]
  BY DEF End
<1>2. q \in Request /\ q.pc = "done" /\ q.tok = NoToken /\ q.seen = 0
  <2>1. req[r] \in Request /\ NoToken \in Token /\ 0 \in 0..MaxTokens
    BY ReqFields, NoTokenType, TokenAssumption
  <2> QED BY <2>1 DEF Request
<1>3. ReqOK(q)
  BY <1>2, ReqFields, NoTokenType DEF ReqOK
<1> HIDE DEF q
<1> QED BY <1>1, <1>2, <1>3, ReqStep

LEMMA BeginInv ==
    ASSUME IInv, NEW r \in Requests, NEW t \in Targets, Begin(r, t) PROVE IInv'
<1> DEFINE q == [pc |-> "lookup", target |-> t, tok |-> NoToken, seen |-> 0, res |-> "none"]
<1>1. req' = [req EXCEPT ![r] = q] /\ UNCHANGED <<now, cache, issued>>
  BY DEF Begin
<1>2. q \in Request /\ q.pc = "lookup" /\ q.tok = NoToken /\ q.seen = 0
  BY NoTokenType, TokenAssumption DEF Request
<1>3. ReqOK(q)
  BY <1>2, ReqFields, NoTokenType DEF ReqOK
<1> HIDE DEF q
<1> QED BY <1>1, <1>2, <1>3, ReqStep

LEMMA LookupInv == ASSUME IInv, NEW r \in Requests, Lookup(r) PROVE IInv'
<1> DEFINE k == upstream_token_cache_key(req[r].target)
           tok == IF live(cache[k]) THEN cache[k] ELSE NoToken
           q == [req[r] EXCEPT !.pc = "first", !.tok = tok]
<1>1. req' = [req EXCEPT ![r] = q] /\ UNCHANGED <<now, cache, issued>>
  BY DEF Lookup
<1>2. cache[k] \in Token /\ (cache[k].serial # 0 => cache[k].scope = Scope(req[r].target))
  BY ReqFields, KeyInKeys DEF IInv, TypeOK, CacheOK
<1>3. tok \in Token /\ (tok.serial # 0 => tok.scope = Scope(req[r].target))
  BY <1>2, NoTokenType
<1> HIDE DEF tok, k
<1>4. /\ q \in Request /\ q.pc = "first" /\ q.tok = tok
      /\ q.seen = req[r].seen /\ q.target = req[r].target
  BY <1>3, ReqFields DEF Request
<1>5. ReqOK(q)
  BY <1>3, <1>4, ReqFields DEF ReqOK
<1> HIDE DEF q
<1> QED BY <1>1, <1>4, <1>5, ReqStep

LEMMA FirstInv == ASSUME IInv, NEW r \in Requests, First(r) PROVE IInv'
<1> DEFINE q == [req[r] EXCEPT !.pc = "challenge", !.tok = NoToken, !.seen = issued]
<1>1. CASE req' = [req EXCEPT ![r] = q]
  <2>1. /\ q \in Request /\ q.pc = "challenge" /\ q.tok = NoToken /\ q.seen = issued
    BY ReqFields, NoTokenType DEF Request
  <2>2. ReqOK(q)
    BY <2>1, ReqFields, NoTokenType DEF ReqOK
  <2> HIDE DEF q
  <2> QED BY <1>1, <2>1, <2>2, ReqStep DEF First
<1>2. CASE \E res \in {"ok", "error"} : End(r, res)
  BY <1>2, EndInv DEF First
<1> QED BY <1>1, <1>2 DEF First

\* The endpoint mints a token.
LEMMA ChallengeInv == ASSUME IInv, NEW r \in Requests, Challenge(r) PROVE IInv'
<1>1. CASE End(r, "error") /\ UNCHANGED issued
  BY <1>1, EndInv DEF Challenge
<1>2. ASSUME issued < MaxTokens, issued' = issued + 1, NEW a \in Lifetimes,
             req' = [req EXCEPT ![r] = [@ EXCEPT !.pc = "flight",
                 !.tok = [serial |-> issued + 1, scope |-> Scope(req[r].target),
                          advertised |-> a, issuedAt |-> now,
                          until |-> now + (IF a = -1 THEN Silent ELSE a),
                          deadline |-> 0]]]
      PROVE  IInv'
  <2> DEFINE tok == [serial |-> issued + 1, scope |-> Scope(req[r].target),
                     advertised |-> a, issuedAt |-> now,
                     until |-> now + (IF a = -1 THEN Silent ELSE a),
                     deadline |-> 0]
             q == [req[r] EXCEPT !.pc = "flight", !.tok = tok]
  <2>0. a \in Nat \/ a = -1
    BY TokenAssumption DEF Lifetimes
  <2>1. now + (IF a = -1 THEN Silent ELSE a) \in Nat
    BY <2>0, ReqFields, TokenAssumption
  <2>2. Scope(req[r].target) \in Scopes
    BY ReqFields DEF Scopes
  <2>3. issued + 1 \in 0..MaxTokens
    BY <1>2, ReqFields, TokenAssumption
  <2>4. /\ tok \in Token /\ tok.serial = issued + 1 /\ tok.scope = Scope(req[r].target)
        /\ tok.advertised = a /\ tok.issuedAt = now
        /\ a # -1 => tok.until = now + a
    BY <2>1, <2>2, <2>3, ReqFields DEF Token
  <2>5. req' = [req EXCEPT ![r] = q] /\ UNCHANGED <<now, cache>>
    BY <1>2 DEF Challenge
  <2> HIDE DEF tok
  <2>6. /\ q \in Request /\ q.pc = "flight" /\ q.tok = tok
        /\ q.seen = req[r].seen /\ q.target = req[r].target
    BY <2>4, ReqFields DEF Request
  <2> HIDE DEF q
  <2>7. TypeOK'
    BY <1>2, <2>3, <2>5, <2>6 DEF IInv, TypeOK
  <2>8. CacheOK'
    BY <2>5 DEF IInv, CacheOK, InTime, Long
  <2>9. ASSUME NEW s \in Requests PROVE ReqOK(req[s])'
    <3>1. CASE s = r
      <4>1. req'[s] = q
        BY <3>1, <2>5, ReqFields
      <4>2. now <= now + MaxFlight /\ issued + 1 > req[r].seen /\ req[r].seen <= issued'
        BY <1>2, ReqFields, TokenAssumption DEF ReqOK
      <4> QED BY <4>1, <4>2, <2>4, <2>5, <2>6 DEF ReqOK
    <3>2. CASE s # r
      <4>1. req'[s] = req[s]
        BY <3>2, <2>5
      <4>2. req[s].seen <= issued'
        BY <1>2, ReqFields DEF ReqOK
      <4> QED BY <4>1, <4>2, <2>5, ReqFields DEF ReqOK, InTime, Long
    <3> QED BY <3>1, <3>2
  <2> QED BY <2>7, <2>8, <2>9 DEF IInv
<1> QED BY <1>1, <1>2 DEF Challenge

\* The deadline is at most what was promised, if the flight fits the margin.
LEMMA ReceiveInv == ASSUME IInv, NEW r \in Requests, Receive(r) PROVE IInv'
<1>1. CASE End(r, "error")
  BY <1>1, EndInv DEF Receive
<1>2. CASE req' = [req EXCEPT ![r] = [@ EXCEPT !.pc = "insert",
              !.tok = [req[r].tok EXCEPT !.deadline = now + token_ttl(req[r].tok.advertised)]]]
  <2> DEFINE old == req[r].tok
             tok == [old EXCEPT !.deadline = now + token_ttl(old.advertised)]
             q == [req[r] EXCEPT !.pc = "insert", !.tok = tok]
  <2>0. old \in Token /\ old.advertised \in Lifetimes /\ old.issuedAt \in Nat /\ old.until \in Nat
    BY ReqFields DEF Token
  <2>1. now + token_ttl(old.advertised) \in Nat
    BY <2>0, TtlBound, ReqFields
  <2>2. /\ tok \in Token /\ tok.serial = old.serial /\ tok.scope = old.scope
        /\ tok.advertised = old.advertised /\ tok.until = old.until
        /\ tok.deadline = now + token_ttl(old.advertised)
    BY <2>0, <2>1 DEF Token
  <2>3. InTime(tok)
    <3> SUFFICES ASSUME Long(tok) PROVE tok.deadline <= tok.until
      BY DEF InTime
    <3>1. old.advertised >= Margin + MinTtl /\ MaxFlight <= Margin
      BY <2>2 DEF Long
    <3>2. /\ old.advertised # -1 /\ token_ttl(old.advertised) <= old.advertised - Margin
          /\ token_ttl(old.advertised) \in Nat
      BY <2>0, <3>1, TtlBound
    <3>3. now <= old.issuedAt + MaxFlight /\ old.until = old.issuedAt + old.advertised
      BY <3>2, ReqFields DEF ReqOK, Receive
    <3>4. old.advertised \in Nat
      BY <2>0, <3>2, TokenAssumption DEF Lifetimes
    <3> QED BY <2>0, <2>2, <3>1, <3>2, <3>3, <3>4, ReqFields, TokenAssumption
  <2>4. req' = [req EXCEPT ![r] = q] /\ UNCHANGED <<now, cache, issued>>
    BY <1>2 DEF Receive
  <2> HIDE DEF tok
  <2>5. /\ q \in Request /\ q.pc = "insert" /\ q.tok = tok
        /\ q.seen = req[r].seen /\ q.target = req[r].target
    BY <2>2, ReqFields DEF Request
  <2>6. ReqOK(q)
    BY <2>2, <2>3, <2>5, ReqFields DEF ReqOK, Receive
  <2> HIDE DEF q
  <2> QED BY <2>4, <2>5, <2>6, ReqStep
<1> QED BY <1>1, <1>2 DEF Receive

\* A token enters the cache under the key of its own target.
LEMMA InsertInv == ASSUME IInv, NEW r \in Requests, Insert(r) PROVE IInv'
<1> DEFINE k == upstream_token_cache_key(req[r].target)
           q == [req[r] EXCEPT !.pc = "retry"]
<1>1. /\ cache' = [cache EXCEPT ![k] = req[r].tok] /\ req' = [req EXCEPT ![r] = q]
      /\ UNCHANGED <<now, issued>> /\ req[r].pc = "insert"
  BY DEF Insert
<1>2. /\ q \in Request /\ q.pc = "retry" /\ q.tok = req[r].tok
      /\ q.seen = req[r].seen /\ q.target = req[r].target
  BY ReqFields DEF Request
<1>3. ReqOK(q)
  BY <1>1, <1>2, ReqFields DEF ReqOK
<1> HIDE DEF q
<1>4. TypeOK'
  BY <1>1, <1>2, ReqFields, KeyInKeys DEF IInv, TypeOK
<1>5. ASSUME NEW t \in Targets
      PROVE  LET tok == cache'[upstream_token_cache_key(t)]
             IN  (tok.serial # 0 => tok.scope = Scope(t)) /\ InTime(tok)
  <2>1. CASE upstream_token_cache_key(t) = k
    <3>1. cache'[k] = req[r].tok
      BY <1>1, ReqFields, KeyInKeys DEF IInv, TypeOK
    <3>2. Scope(t) = Scope(req[r].target)
      BY <2>1, KeyScope, ReqFields
    <3> QED BY <1>1, <2>1, <3>1, <3>2, ReqFields DEF ReqOK
  <2>2. CASE upstream_token_cache_key(t) # k
    <3>1. cache'[upstream_token_cache_key(t)] = cache[upstream_token_cache_key(t)]
      BY <1>1, <2>2, KeyInKeys DEF IInv, TypeOK
    <3> QED BY <3>1 DEF IInv, CacheOK
  <2> QED BY <2>1, <2>2
<1>6. CacheOK'
  BY <1>5 DEF CacheOK, InTime, Long
<1>7. \A s \in Requests : ReqOK(req[s])'
  BY <1>1, <1>3 DEF IInv, TypeOK, ReqOK, InTime, Long
<1> QED BY <1>4, <1>6, <1>7 DEF IInv

LEMMA ReturnInv == ASSUME IInv, NEW r \in Requests, Return(r) PROVE IInv'
<1> DEFINE q == [req[r] EXCEPT !.pc = "idle", !.res = "none"]
<1>1. req' = [req EXCEPT ![r] = q] /\ UNCHANGED <<now, cache, issued>>
  BY DEF Return
<1>2. /\ q \in Request /\ q.pc = "idle" /\ q.tok = req[r].tok
      /\ q.seen = req[r].seen /\ q.target = req[r].target
  BY ReqFields DEF Request
<1>3. ReqOK(q)
  BY <1>2, ReqFields DEF ReqOK
<1> HIDE DEF q
<1> QED BY <1>1, <1>2, <1>3, ReqStep

-----------------------------------------------------------------------------
(* The cache and the clock.                                                  *)

LEMMA EvictInv == ASSUME IInv, NEW k \in CacheKeys, Evict(k) PROVE IInv'
<1>1. cache' = [cache EXCEPT ![k] = NoToken] /\ UNCHANGED <<now, req, issued>>
  BY DEF Evict
<1>2. TypeOK'
  BY <1>1, NoTokenType DEF IInv, TypeOK
<1>3. CacheOK'
  BY <1>1, KeyInKeys, NoTokenType DEF IInv, TypeOK, CacheOK, InTime, Long
<1>4. \A r \in Requests : ReqOK(req[r])'
  BY <1>1 DEF IInv, ReqOK, InTime, Long
<1> QED BY <1>2, <1>3, <1>4 DEF IInv

LEMMA TickInv == ASSUME IInv, Tick PROVE IInv'
<1>1. now' = now + 1 /\ now < MaxTime /\ UNCHANGED <<cache, req, issued>>
  BY DEF Tick
<1>2. TypeOK'
  BY <1>1, TokenAssumption DEF IInv, TypeOK
<1>3. CacheOK'
  BY <1>1 DEF IInv, CacheOK, InTime, Long
<1>4. ASSUME NEW r \in Requests PROVE ReqOK(req[r])'
  <2>1. req[r].tok.issuedAt \in Nat
    BY ReqFields DEF Token
  <2>2. req[r].pc = "flight" => now + 1 <= req[r].tok.issuedAt + MaxFlight
    BY <2>1, ReqFields, TokenAssumption DEF Tick
  <2> QED BY <1>1, <2>2, ReqFields DEF ReqOK, InTime, Long
<1> QED BY <1>2, <1>3, <1>4 DEF IInv

LEMMA NextInv == IInv /\ [Next]_vars => IInv'
<1> SUFFICES ASSUME IInv, [Next]_vars PROVE IInv'
  OBVIOUS
<1>1. CASE UNCHANGED vars
  BY <1>1 DEF vars, IInv, TypeOK, CacheOK, ReqOK, InTime, Long
<1>2. ASSUME NEW r \in Requests, Step(r) PROVE IInv'
  <2>1. ASSUME Retry(r) PROVE IInv'
    BY <2>1, EndInv DEF Retry
  <2> QED
    BY <1>2, <2>1, LookupInv, FirstInv, ChallengeInv, ReceiveInv, InsertInv, ReturnInv DEF Step
<1> QED BY <1>1, <1>2, BeginInv, EvictInv, TickInv DEF Next

LEMMA Invariance == Spec => []IInv
  BY InitInv, NextInv, PTL DEF Spec

-----------------------------------------------------------------------------
(* Theorems.                                                                 *)

\* Every variable of the token dance keeps its type, deadlines included.
THEOREM TypeCorrect == Spec => []TypeOK
<1>1. IInv => TypeOK BY DEF IInv
<1> QED BY <1>1, Invariance, PTL

\* send_upstream: for any number of requests that share the cache, a retry
\* carries a token that was minted after the 401.
THEOREM RetriesAreFresher == Spec => []RetryIsFresher
<1>1. IInv => RetryIsFresher BY DEF IInv, ReqOK, RetryIsFresher
<1> QED BY <1>1, Invariance, PTL

\* upstream_token_cache_key: a token is sent only for the repository it was
\* minted for.
THEOREM TokensAreNotShared == Spec => []TokensNotShared
<1>1. IInv => TokensNotShared BY DEF IInv, ReqOK, TokensNotShared
<1> QED BY <1>1, Invariance, PTL

\* CachedToken: for any lifetimes, margin and clamps, and any flight times
\* within the margin, a token that Lookup takes from the cache is unexpired.
THEOREM LiveTokensAreUnexpired == Spec => LiveIsUnexpired
<1> DEFINE A == \A r \in Requests :
                   LET tok == req'[r].tok
                   IN  /\ req[r].pc = "lookup" /\ req'[r].pc = "first"
                       /\ tok.serial # 0 /\ tok.advertised >= Margin + MinTtl
                       /\ MaxFlight <= Margin
                       => now < tok.until
<1>1. ASSUME IInv, [Next]_vars PROVE [A]_vars
  <2> SUFFICES ASSUME Next, NEW r \in Requests,
                      req[r].pc = "lookup", req'[r].pc = "first",
                      req'[r].tok.serial # 0,
                      req'[r].tok.advertised >= Margin + MinTtl, MaxFlight <= Margin
               PROVE  now < req'[r].tok.until
    BY <1>1
  <2>1. Lookup(r)
    <3>0. DOMAIN req = Requests
      BY <1>1, ReqFields
    <3>1. ASSUME NEW s \in Requests, NEW q, s # r, req' = [req EXCEPT ![s] = q] PROVE FALSE
      BY <3>1
    <3>2. ASSUME NEW s \in Requests, Step(s), s # r PROVE FALSE
      BY <3>1, <3>2 DEF Step, Lookup, First, Challenge, Receive, Insert, Retry, Return, End
    <3>3. ASSUME NEW s \in Requests, NEW t \in Targets, Begin(s, t) PROVE FALSE
      BY <3>0, <3>3 DEF Begin
    <3>4. Step(r)
      BY <3>2, <3>3 DEF Next, Evict, Tick
    <3> QED BY <3>4 DEF Step, First, Challenge, Receive, Insert, Retry, Return
  <2> DEFINE tok == cache[upstream_token_cache_key(req[r].target)]
  <2>2. req'[r].tok = IF live(tok) THEN tok ELSE NoToken
    BY <1>1, <2>1, ReqFields DEF Lookup, Request
  <2>3. live(tok) /\ req'[r].tok = tok
    BY <2>2, NoTokenType
  <2>4. tok \in Token /\ InTime(tok)
    BY <1>1, ReqFields, KeyInKeys DEF IInv, TypeOK, CacheOK
  <2>5. tok.deadline \in Nat /\ tok.until \in Nat /\ now \in Nat
    BY <1>1, <2>4, ReqFields DEF Token
  <2> QED BY <2>3, <2>4, <2>5 DEF InTime, Long, live
<1>2. Spec => [][A]_vars
  BY <1>1, Invariance, PTL DEF Spec
<1> QED BY <1>2 DEF LiveIsUnexpired

-----------------------------------------------------------------------------
(* UpstreamSend.                                                             *)

\* The call as it stands: what it would send next keeps to the policy.
CallOK ==
    /\ pc = "start" => sent = {} /\ ~auth /\ client = "Public"
    /\ auth => SameOrigin(url, target.url)
    /\ client # "Public" => SameOrigin(url, target.url)
    /\ pc \in {"send", "answer"} =>
           \/ url.scheme = "https" /\ url.host \in PublicHosts
           \/ SameOrigin(url, target.url)

\* The four safety properties, strengthened by what the next request will be.
SendIInv ==
    /\ SendTypeOK
    /\ CallOK
    /\ CredentialsStayHome
    /\ PrivateOnlyAsNamed
    /\ TrustNeverReturns
    /\ NoDowngrade

LEMMA SendInitInv == SendInit => SendIInv
<1> SUFFICES ASSUME SendInit PROVE SendIInv OBVIOUS
<1>1. SendTypeOK
  <2>1. target \in Target /\ target.url \in Url
    BY DEF SendInit, NamedTargets, Target
  <2>2. auth \in BOOLEAN /\ client \in Clients
    BY DEF SendInit, Clients
  <2> QED BY <2>1, <2>2, UpstreamAssumption DEF SendInit, SendTypeOK
<1>2. CallOK
  BY DEF SendInit, CallOK
<1> QED
  BY <1>1, <1>2 DEF SendInit, SendIInv, CredentialsStayHome, PrivateOnlyAsNamed,
     TrustNeverReturns, NoDowngrade

\* A caller opens send only with what its target allows.
LEMMA OpenInv ==
    ASSUME SendIInv, NEW u \in Url, NEW c \in Clients, NEW a \in BOOLEAN,
           c # "Public" => SameOrigin(u, target.url),
           a => SameOrigin(u, target.url),
           Open(u, c, a)
    PROVE  SendIInv'
<1>1. sent = {} /\ sent' = {} /\ target' = target
  BY DEF Open, SendIInv, CallOK
<1>2. SendTypeOK'
  BY DEF Open, SendIInv, SendTypeOK
<1>3. CallOK'
  BY <1>1 DEF Open, CallOK, PublicHttps, SameOrigin, Clients
<1> QED
  BY <1>1, <1>2, <1>3 DEF SendIInv, CredentialsStayHome, PrivateOnlyAsNamed,
     TrustNeverReturns, NoDowngrade

LEMMA StopInv ==
    ASSUME SendIInv, pc' \in {"ok", "err"},
           UNCHANGED <<target, url, client, auth, followed, sent>>
    PROVE  SendIInv'
  BY DEF SendIInv, SendTypeOK, CallOK, CredentialsStayHome, PrivateOnlyAsNamed,
     TrustNeverReturns, NoDowngrade, SameOrigin

\* What goes out is what the policy allows.
LEMMA SendStepInv == ASSUME SendIInv, Send PROVE SendIInv'
<1> DEFINE q == [url |-> url, client |-> client, auth |-> auth]
<1>1. /\ sent' = sent \cup {q} /\ pc = "send" /\ pc' \in {"answer", "err"}
      /\ UNCHANGED <<target, url, client, auth, followed>>
  BY DEF Send
<1>2. q.url = url /\ q.client = client /\ q.auth = auth
  OBVIOUS
<1>3. SendTypeOK'
  <2>1. q \in [url : Url, client : Clients, auth : BOOLEAN]
    BY DEF SendIInv, SendTypeOK
  <2> HIDE DEF q
  <2> QED BY <1>1, <2>1 DEF SendIInv, SendTypeOK
<1>4. CallOK'
  BY <1>1 DEF SendIInv, CallOK, SameOrigin
<1> HIDE DEF q
<1>5. CredentialsStayHome'
  BY <1>1, <1>2 DEF SendIInv, CallOK, CredentialsStayHome, SameOrigin
<1>6. PrivateOnlyAsNamed'
  BY <1>1, <1>2 DEF SendIInv, CallOK, PrivateOnlyAsNamed, SameOrigin
<1>7. TrustNeverReturns'
  BY <1>1, <1>2 DEF SendIInv, CallOK, TrustNeverReturns, SameOrigin
<1>8. NoDowngrade'
  BY <1>1, <1>2 DEF SendIInv, NoDowngrade
<1> QED BY <1>3, <1>4, <1>5, <1>6, <1>7, <1>8 DEF SendIInv

\* A redirect keeps the call within the policy.
LEMMA RedirectInv == ASSUME SendIInv, NEW t \in Url, Redirect(t) PROVE SendIInv'
<1>1. /\ pc = "answer" /\ pc' = "send" /\ url' = t
      /\ target' = target /\ sent' = sent
      /\ followed < MaxRedirects /\ followed' = followed + 1
  BY DEF Redirect
<1>2. CASE SameOrigin(url, t)
  <2>1. client' = client /\ auth' = auth
    BY <1>2 DEF Redirect, SendIInv, SendTypeOK
  <2>2. SendTypeOK'
    BY <1>1, <2>1, UpstreamAssumption DEF SendIInv, SendTypeOK
  <2>3. CallOK'
    BY <1>1, <1>2, <2>1 DEF SendIInv, CallOK, SameOrigin
  <2> QED
    BY <1>1, <1>2, <2>1, <2>2, <2>3 DEF SendIInv, CredentialsStayHome,
       PrivateOnlyAsNamed, TrustNeverReturns, NoDowngrade, SameOrigin
<1>3. CASE ~SameOrigin(url, t)
  <2>1. client' = "Public" /\ auth' = FALSE /\ PublicHttps(t)
    BY <1>3 DEF Redirect, RedirectOK
  <2>2. SendTypeOK'
    <3>1. auth' \in BOOLEAN /\ client' \in Clients
      BY <2>1 DEF Clients
    <3> QED BY <1>1, <3>1, UpstreamAssumption DEF SendIInv, SendTypeOK
  <2>3. CallOK'
    BY <1>1, <2>1 DEF CallOK, PublicHttps
  <2> QED
    BY <1>1, <2>1, <2>2, <2>3 DEF SendIInv, CredentialsStayHome,
       PrivateOnlyAsNamed, TrustNeverReturns, NoDowngrade, SameOrigin, PublicHttps
<1> QED BY <1>2, <1>3

LEMMA SendNextInv == SendIInv /\ [SendNext]_sendVars => SendIInv'
<1> SUFFICES ASSUME SendIInv, [SendNext]_sendVars PROVE SendIInv'
  OBVIOUS
<1> USE DEF SameOrigin
<1>0. target.url \in Url /\ TRUE \in BOOLEAN /\ FALSE \in BOOLEAN
      /\ \A c \in {"Trusted", "TokenTrusted", "Public"} : c \in Clients
  BY DEF SendIInv, SendTypeOK, Target, Clients
<1>1. CASE UNCHANGED sendVars
  BY <1>1 DEF sendVars, SendIInv, SendTypeOK, CallOK, CredentialsStayHome, PrivateOnlyAsNamed,
     TrustNeverReturns, NoDowngrade
<1>2. CASE OpenIndex
  BY <1>0, <1>2, OpenInv DEF OpenIndex
<1>3. ASSUME NEW u \in Url, OpenChart(u) PROVE SendIInv'
  BY <1>0, <1>3, OpenInv, StopInv DEF OpenChart, Refuse
<1>4. ASSUME NEW u \in Url, OpenToken(u) PROVE SendIInv'
  <2>1. CASE Refuse
    BY <2>1, <1>0, StopInv DEF Refuse
  <2>2. CASE /\ GcpRealmOK(u)
             /\ Open(u, "Public", TRUE)
    <3>1. SameOrigin(u, target.url)
      BY <2>2 DEF GcpRealmOK, SameOrigin
    <3> QED BY <2>2, <3>1, <1>0, OpenInv
  <2>3. CASE Open(u, IF SameOrigin(target.url, u) THEN "TokenTrusted" ELSE "Public", FALSE)
    <3>1. CASE SameOrigin(target.url, u)
      <4>1. SameOrigin(u, target.url)
        BY <3>1 DEF SameOrigin
      <4> QED BY <2>3, <3>1, <4>1, <1>0, OpenInv
    <3>2. CASE ~SameOrigin(target.url, u)
      BY <2>3, <3>2, <1>0, OpenInv
    <3> QED BY <3>1, <3>2
  <2> QED BY <1>4, <2>1, <2>2, <2>3 DEF OpenToken
<1>5. ASSUME NEW bearer \in BOOLEAN, OpenRegistry(bearer) PROVE SendIInv'
  BY <1>0, <1>5, OpenInv, StopInv DEF OpenRegistry, Refuse
<1>6. CASE Loop
  BY <1>6, SendStepInv, StopInv, RedirectInv DEF Loop, Final, RedirectRefused
<1>7. CASE Done
  BY <1>7, <1>1 DEF Done
<1> QED BY <1>1, <1>2, <1>3, <1>4, <1>5, <1>6, <1>7 DEF SendNext

LEMMA SendInvariance == SendSpec => []SendIInv
  BY SendInitInv, SendNextInv, PTL DEF SendSpec

\* send keeps every variable in its type; the redirects it counts never exceed
\* the limit.
THEOREM SendTypeCorrect == SendSpec => []SendTypeOK
<1>1. SendIInv => SendTypeOK BY DEF SendIInv
<1> QED BY <1>1, SendInvariance, PTL

\* Credentials reach only the origin of the registry the alias names, through
\* any chain of challenges and redirects.
THEOREM CredentialsAreKept == SendSpec => []CredentialsStayHome
<1>1. SendIInv => CredentialsStayHome BY DEF SendIInv
<1> QED BY <1>1, SendInvariance, PTL

\* Only the upstream that was named is reached other than by public HTTPS.
THEOREM PrivateIsAsNamed == SendSpec => []PrivateOnlyAsNamed
<1>1. SendIInv => PrivateOnlyAsNamed BY DEF SendIInv
<1> QED BY <1>1, SendInvariance, PTL

\* A call that left its origin never regains trust or credentials.
THEOREM TrustIsNotRegained == SendSpec => []TrustNeverReturns
<1>1. SendIInv => TrustNeverReturns BY DEF SendIInv
<1> QED BY <1>1, SendInvariance, PTL

\* HTTPS is never given up.
THEOREM HttpsIsKept == SendSpec => []NoDowngrade
<1>1. SendIInv => NoDowngrade BY DEF SendIInv
<1> QED BY <1>1, SendInvariance, PTL
=============================================================================
