--------------------------- MODULE TokenVerifier ---------------------------
(***************************************************************************)
(* Verification of connection and subscription tokens                      *)
(* (internal/jwtverify) with static keys or with keys fetched from a JWKS  *)
(* endpoint and cached (internal/jwks), while SIGHUP reloads the verifier  *)
(* and endpoints rotate their keys.                                        *)
(*                                                                         *)
(* A verification reads the verifier several times: the issuer and         *)
(* audience expressions and the mode without the lock, the keys under the  *)
(* read lock, the fixed issuer and audience without it again.  A fetch     *)
(* keeps the read lock for its whole duration, so a reload waits for it.   *)
(*                                                                         *)
(* A key is [domain, kid, version]; the domain of a configured key is      *)
(* "static" and NoKey stands for one that is not configured.  A token is   *)
(* [family, signer, kid, issuer, live, shape]: live says whether its time  *)
(* window contains now, shape whether claims, channels and payloads are    *)
(* those its kind of token requires.                                       *)
(***************************************************************************)
EXTENDS Naturals, FiniteSets

CONSTANTS
    Verifications,   \* concurrent calls of the verifier
    VerifierConfigs, \* what the start and Reload may be given
    Tokens,
    Domains,         \* tenants of a templated endpoint
    Kids,
    TTL,             \* of the key cache
    MaxVersion,      \* rotations of an endpoint
    MaxClock,
    MaxVerifierReloads

VARIABLES
    ver,        \* VerifierJWT: manager, algorithms (nil unless static), ...
    verify,     \* verify[p]: the call in progress
    published,  \* published[d][kid]: the version served, 0 for none
    keyCache,   \* TTLCache of the current manager: set of [at, key, expires]
    clock,
    verReloads,
    verPanic    \* a call dereferenced a nil manager or nil algorithms

tokens == <<ver, verify, published, keyCache, clock, verReloads, verPanic>>

Nil == "nil"
NoKey == [domain |-> "none", kid |-> "", version |-> 0]
Unfilled == "" \* a templated endpoint with an empty placeholder

ASSUME VerifierAssumption ==
    \A k \in VerifierConfigs : \A key \in {k.hmac, k.rsa, k.ecdsa, k.previous} :
        key = NoKey \/ key.domain = "static"

\* External: no endpoint answers where the domain of a tenant is missing.
ASSUME UnfilledAssumption == Unfilled \notin Domains

-----------------------------------------------------------------------------
(* Configuration                                                           *)

\* validateJWKSEndpointSafety: a named group that fills a placeholder of the
\* endpoint must list its values; groups maps a name to "literal", "class"
\* or "open".
validateJWKSEndpointSafety(k) ==
    k.placeholders # {} =>
        /\ \A g \in DOMAIN k.groups : k.groups[g] # "class"
        /\ \A g \in DOMAIN k.groups \cap k.placeholders : k.groups[g] = "literal"

\* VerifierConfig.Validate
ValidVerifierConfig(k) ==
    /\ ~(k.issuer # "" /\ k.issuers # {})
    /\ k.endpoint # "" => validateJWKSEndpointSafety(k) \/ k.skipSafetyCheck

\* newAlgorithms: the verification keys per algorithm family.
newAlgorithms(hmac, rsa, ecdsa) == [HS |-> hmac, RS |-> rsa, ES |-> ecdsa]

\* The verifier that NewTokenVerifierJWT and Reload make of a configuration:
\* a manager or algorithms, never both; the previous HMAC key only with the
\* latter.
Verifier(k) ==
    [manager |-> IF k.endpoint # "" THEN k.endpoint ELSE Nil,
     static |-> k.endpoint = "",
     algorithms |-> newAlgorithms(k.hmac, k.rsa, k.ecdsa),
     previous |-> IF k.endpoint # "" THEN NoKey ELSE k.previous,
     until |-> IF k.endpoint # "" THEN 0 ELSE k.until,
     issuers |-> k.issuers, issuer |-> k.issuer,
     groups |-> IF k.issuers # {} THEN DOMAIN k.groups ELSE {}, placeholders |-> k.placeholders]

Resting == [pc |-> "idle", verdict |-> "none"]

TokensInit ==
    /\ \E k \in VerifierConfigs : ValidVerifierConfig(k) /\ ver = Verifier(k)
    /\ verify = [p \in Verifications |-> Resting]
    /\ published = [d \in Domains |-> [kid \in Kids |-> 1]]
    /\ keyCache = {} /\ clock = 1 /\ verReloads = 0 /\ verPanic = FALSE

\* Reload waits for the readers; a new manager starts with an empty cache.
ReloadVerifier(k) ==
    /\ verReloads < MaxVerifierReloads /\ verReloads' = verReloads + 1
    /\ ValidVerifierConfig(k)
    /\ \A p \in Verifications : verify[p].pc \notin {"fetching", "storing"}
    /\ ver' = Verifier(k) /\ keyCache' = {}
    /\ UNCHANGED <<verify, published, clock, verPanic>>

\* External: an endpoint replaces or withdraws a key.
Rotate(d, kid, v) ==
    /\ v # published[d][kid]
    /\ published' = [published EXCEPT ![d][kid] = v]
    /\ UNCHANGED <<ver, verify, keyCache, clock, verReloads, verPanic>>

\* Time passes; cleanup, which only forgets expired items, is part of it.
Tick ==
    /\ clock < MaxClock /\ clock' = clock + 1
    /\ keyCache' = {i \in keyCache : i.expires >= clock'}
    /\ UNCHANGED <<ver, verify, published, verReloads, verPanic>>

-----------------------------------------------------------------------------
(* VerifyConnectToken and VerifySubscribeToken                             *)

Step(p, r) == verify' = [verify EXCEPT ![p] = r]
End(p, verdict) == Step(p, [pc |-> "idle", verdict |-> verdict])

\* Parsing, decoding and extractTokenVars: the groups of the expressions of
\* now, each of which captures the domain, are kept with the call.
BeginVerify(p, tok) ==
    /\ verify[p].pc = "idle"
    /\ IF ver.issuers # {} /\ tok.issuer \notin ver.issuers THEN End(p, "invalid")
       ELSE Step(p, [pc |-> "mode", tok |-> tok, vars |-> [g \in ver.groups |-> tok.issuer]])
    /\ UNCHANGED <<ver, published, keyCache, clock, verReloads, verPanic>>

\* if verifier.jwksManager != nil, without the lock.
ReadMode(p) ==
    /\ verify[p].pc = "mode"
    /\ Step(p, [pc |-> IF ver.manager # Nil THEN "jwk" ELSE "static",
                tok |-> verify[p].tok, vars |-> verify[p].vars])
    /\ UNCHANGED <<ver, published, keyCache, clock, verReloads, verPanic>>

\* algorithms.verify: the key of the token's family, if one is configured.
AlgorithmsVerify(algs, tok) ==
    tok.family \in DOMAIN algs /\ algs[tok.family] # NoKey /\ algs[tok.family] = tok.signer

PreviousKeyUsable == ver.previous # NoKey /\ ~(ver.until > 0 /\ clock > ver.until)

\* verifySignature, under the read lock: the algorithms, then the previous
\* HMAC key while it is valid.
VerifySignature(p) ==
    /\ verify[p].pc = "static"
    /\ LET tok == verify[p].tok
           previous == newAlgorithms(ver.previous, NoKey, NoKey)
       IN  IF ~ver.static THEN End(p, "panic") /\ verPanic' = TRUE
           ELSE /\ UNCHANGED verPanic
                /\ IF AlgorithmsVerify(ver.algorithms, tok) THEN
                     Step(p, [pc |-> "claims", tok |-> tok, key |-> tok.signer])
                   ELSE IF PreviousKeyUsable /\ AlgorithmsVerify(previous, tok) THEN
                     Step(p, [pc |-> "claims", tok |-> tok, key |-> ver.previous])
                   ELSE End(p, "invalid")
    /\ UNCHANGED <<ver, published, keyCache, clock, verReloads>>

\* resolveURL: the placeholders of the manager's endpoint are filled with the
\* variables extracted when the call began; after a reload they may be those
\* of other expressions, and a placeholder without a variable stays empty.
ResolvedURL(vars) ==
    IF ver.manager # "template" THEN ver.manager
    ELSE IF ver.placeholders \subseteq DOMAIN vars /\ ver.placeholders # {}
         THEN vars[CHOOSE g \in ver.placeholders : TRUE] ELSE Unfilled

cacheKeyMutant(url, kid) == [url |-> "any", kid |-> kid]

\* cacheKey: scoped to the resolved endpoint.
cacheKey(url, kid) == [url |-> url, kid |-> kid]

\* jwksManager.verify: a key verifies what it signed, in its own family.
JwkVerify(key, tok) == tok.family \in {"RS", "ES"} /\ tok.signer = key

\* The rest of verifySignatureByJWK once the key is known.
WithKey(p, key) ==
    IF JwkVerify(key, verify[p].tok)
    THEN Step(p, [pc |-> "claims", tok |-> verify[p].tok, key |-> key])
    ELSE End(p, "invalid")

\* FetchKey: from the cache, which renews the item it returns, or by a
\* request, with the read lock kept.  Requests for one cache key are joined
\* (singleflight), which only makes their answers equal.
FetchKey(p) ==
    /\ verify[p].pc = "jwk"
    /\ IF ver.manager = Nil
       THEN End(p, "panic") /\ verPanic' = TRUE /\ UNCHANGED keyCache
       ELSE LET tok == verify[p].tok
                url == ResolvedURL(verify[p].vars)
                at == cacheKey(url, tok.kid)
                hit == {i \in keyCache : i.at = at /\ i.expires >= clock}
            IN  /\ UNCHANGED verPanic
                /\ \/ /\ tok.kid = "" /\ End(p, "invalid") /\ UNCHANGED keyCache
                   \/ \E i \in hit :
                        /\ keyCache' = (keyCache \ {i}) \cup {[i EXCEPT !.expires = clock + TTL]}
                        /\ WithKey(p, i.key)
                   \/ /\ tok.kid # "" /\ hit = {} /\ UNCHANGED keyCache
                      /\ Step(p, [pc |-> "fetching", tok |-> tok, url |-> url])
    /\ UNCHANGED <<ver, published, clock, verReloads>>

\* The endpoint answers with the keys it serves now, or both tries fail.
LoadData(p, fails) ==
    /\ verify[p].pc = "fetching"
    /\ LET d == verify[p].url
           set == {[domain |-> d, kid |-> kid, version |-> published[d][kid]] :
                     kid \in {x \in Kids : d \in Domains /\ published[d][x] > 0}}
       IN  IF fails \/ set = {} THEN End(p, "invalid")
           ELSE Step(p, [pc |-> "storing", tok |-> verify[p].tok, url |-> d, set |-> set])
    /\ UNCHANGED <<ver, published, keyCache, clock, verReloads, verPanic>>

\* fetchKey saves the whole answer, over whatever was cached meanwhile.
StoreKeys(p) ==
    /\ verify[p].pc = "storing"
    /\ LET v == verify[p]
           new == {[at |-> cacheKey(v.url, key.kid), key |-> key, expires |-> clock + TTL] :
                     key \in v.set}
           mine == {key \in v.set : key.kid = v.tok.kid}
       IN  /\ keyCache' = {i \in keyCache : \A n \in new : n.at # i.at} \cup new
           /\ IF mine = {} THEN End(p, "invalid") ELSE \E key \in mine : WithKey(p, key)
    /\ UNCHANGED <<ver, published, clock, verReloads, verPanic>>

\* validateClaims, the kind's own claims, and the times.
ValidateClaims(p) ==
    /\ verify[p].pc = "claims"
    /\ LET tok == verify[p].tok
       IN  IF ver.issuer # "" /\ tok.issuer # ver.issuer THEN End(p, "invalid")
           ELSE IF ~tok.live THEN End(p, "expired")
           ELSE IF ~tok.shape THEN End(p, "invalid")
           ELSE Step(p, [pc |-> "idle", verdict |-> "ok", tok |-> tok, key |-> verify[p].key])
    /\ UNCHANGED <<ver, published, keyCache, clock, verReloads, verPanic>>

TokensNext ==
    \/ \E k \in VerifierConfigs : ReloadVerifier(k)
    \/ \E d \in Domains, kid \in Kids, v \in 0..MaxVersion : Rotate(d, kid, v)
    \/ Tick
    \/ \E p \in Verifications :
        \/ \E tok \in Tokens : BeginVerify(p, tok)
        \/ ReadMode(p) \/ VerifySignature(p) \/ FetchKey(p) \/ StoreKeys(p) \/ ValidateClaims(p)
        \/ \E fails \in BOOLEAN : LoadData(p, fails)

TokensSpec == TokensInit /\ [][TokensNext]_tokens

-----------------------------------------------------------------------------
(* Properties                                                              *)

\* The endpoints without placeholders: each is a domain of its own.
FixedEndpoints == {k.endpoint : k \in VerifierConfigs} \ {"", "template"}

\* With a templated endpoint a token is accepted with a key of its issuer's
\* own domain only, also when another domain has a key of the same kid, both
\* are cached, and rotations and reloads come in between, so that variables
\* of the old expressions fill the new endpoint (the comment of FetchKey: a
\* key cached from one trust domain must not satisfy another).
AcceptedInDomain ==
    \A p \in Verifications : verify[p].pc = "idle" =>
        (verify[p].verdict = "ok" =>
            verify[p].key.domain \in {"static", verify[p].tok.issuer} \cup FixedEndpoints)

\* A reload of the token verifiers is safe for the calls in progress.
VerifierSurvivesReload == ~verPanic
=============================================================================
