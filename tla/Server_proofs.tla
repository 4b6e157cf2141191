----------------------------- MODULE Server_proofs -----------------------------
(***************************************************************************)
(* Theorems about the parts of the server that several requests share: the *)
(* token verifier with its cache of fetched keys, the verifiers of track   *)
(* signatures, the requests of the server API and their dispatchers, the   *)
(* WebSocket connections, the unidirectional transports, the cache of      *)
(* channel options and the subscription streams, for any number of calls,  *)
(* tokens, endpoints, batches, requests, frames, readers, streams and      *)
(* configurations.                                                         *)
(***************************************************************************)
EXTENDS TokenVerifier, TrackSignatures, ApiServer, UniWebSocket, UniTransports, OptionsCache, SubscribeStream,
        FiniteSetTheorems, SequenceTheorems, WellFoundedInduction, TLAPS

(* Tokens: a key never leaves the domain it was fetched from.              *)

\* The domains whose keys may verify a token that is verified by JWKS.
Trusted(tok) == {tok.issuer} \cup FixedEndpoints

\* The variables of a call, whichever expressions they were extracted with.
Extracted(vars, tok) == \A g \in DOMAIN vars : vars[g] = tok.issuer

\* What a call in progress carries is of a domain its token may be verified
\* in: its variables, the URL of a request unless a placeholder stayed empty,
\* the keys it returned, the key that fits.
CallInv(p) ==
    LET v == verify[p]
    IN  /\ v.pc \in {"idle", "mode", "jwk", "static", "fetching", "storing", "claims"}
        /\ v.pc \in {"mode", "jwk", "static"} => Extracted(v.vars, v.tok)
        /\ v.pc = "fetching" => v.url \in Trusted(v.tok) \cup {Unfilled}
        /\ v.pc = "storing" => v.url \in Trusted(v.tok) /\ v.url # Unfilled
        /\ v.pc = "storing" => \A key \in v.set : key.domain = v.url
        /\ v.pc = "claims" => v.key.domain \in {"static"} \cup Trusted(v.tok)
        /\ (v.pc = "idle" /\ v.verdict = "ok") => v.key.domain \in {"static"} \cup Trusted(v.tok)

\* An item of the cache, under the endpoint its key came from.
Filed(i) ==
    i = [at |-> i.at, key |-> i.key, expires |-> i.expires] /\ i.key.domain = i.at.url
    /\ i.at.url # Unfilled

\* The cache is keyed by the endpoint a key came from, and the verifier is
\* that of one of the configurations.
DomainInv ==
    /\ verify = [p \in Verifications |-> verify[p]]
    /\ \E k \in VerifierConfigs : ver = Verifier(k)
    /\ \A i \in keyCache : Filed(i)
    /\ \A p \in Verifications : CallInv(p)

\* Only the call that takes a step changes.
LEMMA CallStep ==
  ASSUME DomainInv, NEW p \in Verifications, NEW r, Step(p, r), UNCHANGED ver,
         CallInv(p)', \A i \in keyCache' : Filed(i)
  PROVE  DomainInv'
<1>1. /\ verify' = [q \in Verifications |-> verify'[q]]
      /\ \A q \in Verifications \ {p} : verify'[q] = verify[q]
  BY DEF DomainInv, Step
<1>2. ASSUME NEW q \in Verifications PROVE CallInv(q)'
  BY <1>1 DEF DomainInv, CallInv
<1> QED BY <1>1, <1>2 DEF DomainInv

\* The record a step leaves.
LEMMA StepTo ==
  ASSUME DomainInv, NEW p \in Verifications, NEW r, Step(p, r)
  PROVE  verify'[p] = r
BY DEF DomainInv, Step

\* A call that ends without success has nothing left to be wrong about.
LEMMA EndStep ==
  ASSUME DomainInv, NEW p \in Verifications, NEW verdict, verdict # "ok", End(p, verdict),
         UNCHANGED ver, \A i \in keyCache' : Filed(i)
  PROVE  DomainInv'
<1>1. verify'[p] = [pc |-> "idle", verdict |-> verdict]
  BY StepTo DEF End
<1>2. CallInv(p)'
  BY <1>1 DEF CallInv
<1> QED BY <1>2, CallStep DEF End

\* A key that fits goes on to the claims with the token.
LEMMA ClaimsStep ==
  ASSUME DomainInv, NEW p \in Verifications, NEW tok, NEW key,
         Step(p, [pc |-> "claims", tok |-> tok, key |-> key]),
         key.domain \in {"static"} \cup Trusted(tok),
         UNCHANGED ver, \A i \in keyCache' : Filed(i)
  PROVE  DomainInv'
<1>1. verify'[p] = [pc |-> "claims", tok |-> tok, key |-> key]
  BY StepTo
<1>2. CallInv(p)'
  BY <1>1 DEF CallInv
<1> QED BY <1>2, CallStep

LEMMA WithKeyStep ==
  ASSUME DomainInv, NEW p \in Verifications, NEW key, WithKey(p, key),
         key.domain \in Trusted(verify[p].tok),
         UNCHANGED ver, \A i \in keyCache' : Filed(i)
  PROVE  DomainInv'
<1>1. CASE JwkVerify(key, verify[p].tok)
  <2>1. Step(p, [pc |-> "claims", tok |-> verify[p].tok, key |-> key])
    BY <1>1 DEF WithKey
  <2> QED BY <2>1, ClaimsStep
<1>2. CASE ~JwkVerify(key, verify[p].tok)
  <2>1. End(p, "invalid") BY <1>2 DEF WithKey
  <2> QED BY <2>1, EndStep
<1> QED BY <1>1, <1>2

\* A configured key is the static one of its family.
LEMMA StaticKeys ==
  ASSUME DomainInv
  PROVE  /\ DOMAIN ver.algorithms = {"HS", "RS", "ES"}
         /\ \A f \in {"HS", "RS", "ES"} :
              ver.algorithms[f] # NoKey => ver.algorithms[f].domain = "static"
         /\ ver.previous # NoKey => ver.previous.domain = "static"
         /\ ver.manager # Nil => ver.manager = "template" \/ ver.manager \in FixedEndpoints
<1>1. PICK k \in VerifierConfigs : ver = Verifier(k)
  BY DEF DomainInv
<1>2. /\ DOMAIN ver.algorithms = {"HS", "RS", "ES"}
      /\ ver.algorithms.HS = k.hmac /\ ver.algorithms.RS = k.rsa /\ ver.algorithms.ES = k.ecdsa
      /\ ver.previous \in {NoKey, k.previous}
      /\ ver.manager = IF k.endpoint # "" THEN k.endpoint ELSE Nil
  BY <1>1 DEF Verifier, newAlgorithms
<1>3. \A key \in {k.hmac, k.rsa, k.ecdsa, k.previous} : key = NoKey \/ key.domain = "static"
  BY VerifierAssumption
<1>4. ver.manager # Nil => ver.manager = "template" \/ ver.manager \in FixedEndpoints
  BY <1>2 DEF FixedEndpoints
<1> QED BY <1>2, <1>3, <1>4

\* The endpoint a call asks is its token's domain, a fixed one or none.
LEMMA Resolved ==
  ASSUME DomainInv, ver.manager # Nil, NEW vars, NEW tok, Extracted(vars, tok)
  PROVE  ResolvedURL(vars) \in Trusted(tok) \cup {Unfilled}
<1>1. ver.manager = "template" \/ ver.manager \in FixedEndpoints
  BY StaticKeys
<1>2. CASE ver.manager # "template"
  BY <1>1, <1>2 DEF ResolvedURL, Trusted
<1>3. CASE ver.manager = "template" /\ ver.placeholders \subseteq DOMAIN vars /\ ver.placeholders # {}
  <2>1. PICK g : g = CHOOSE x \in ver.placeholders : TRUE
    OBVIOUS
  <2>2. g \in ver.placeholders
    BY <2>1, <1>3
  <2>3. ResolvedURL(vars) = vars[g] /\ vars[g] = tok.issuer
    BY <2>1, <2>2, <1>3 DEF ResolvedURL, Extracted
  <2> QED BY <2>3 DEF Trusted
<1> QED BY <1>2, <1>3 DEF ResolvedURL

LEMMA DomainStep == DomainInv /\ [TokensNext]_tokens => DomainInv'
<1> SUFFICES ASSUME DomainInv, [TokensNext]_tokens PROVE DomainInv'
  OBVIOUS
<1>c. /\ \A i \in keyCache : Filed(i)
      /\ \A p \in Verifications : CallInv(p)
  BY DEF DomainInv
<1>1. ASSUME NEW k \in VerifierConfigs, ReloadVerifier(k) PROVE DomainInv'
  BY <1>1 DEF ReloadVerifier, DomainInv, CallInv
<1>2. ASSUME NEW d \in Domains, NEW kid \in Kids, NEW v, Rotate(d, kid, v) PROVE DomainInv'
  BY <1>2 DEF Rotate, DomainInv, CallInv
<1>3. CASE Tick
  <2>1. keyCache' \subseteq keyCache /\ UNCHANGED <<ver, verify>>
    BY <1>3 DEF Tick
  <2> QED BY <2>1 DEF DomainInv, CallInv
<1>4. ASSUME NEW p \in Verifications, NEW tok \in Tokens, BeginVerify(p, tok) PROVE DomainInv'
  <2>1. UNCHANGED <<ver, keyCache>> BY <1>4 DEF BeginVerify
  <2>2. CASE End(p, "invalid") BY <1>c, <2>1, <2>2, EndStep
  <2> DEFINE vars == [g \in ver.groups |-> tok.issuer]
             r == [pc |-> "mode", tok |-> tok, vars |-> vars]
  <2>3. CASE Step(p, r)
    <3>1. verify'[p] = r BY <2>3, StepTo
    <3>2. Extracted(vars, tok) BY DEF Extracted
    <3> HIDE DEF vars
    <3>3. CallInv(p)' BY <3>1, <3>2 DEF CallInv
    <3> QED BY <1>c, <2>1, <2>3, <3>3, CallStep
  <2> QED BY <1>4, <2>2, <2>3 DEF BeginVerify
<1>5. ASSUME NEW p \in Verifications, ReadMode(p) PROVE DomainInv'
  <2> DEFINE r == [pc |-> IF ver.manager # Nil THEN "jwk" ELSE "static",
                   tok |-> verify[p].tok, vars |-> verify[p].vars]
  <2>1. Step(p, r) /\ UNCHANGED <<ver, keyCache>> /\ verify[p].pc = "mode" BY <1>5 DEF ReadMode
  <2>2. verify'[p] = r BY <2>1, StepTo
  <2>3. CallInv(p)' BY <1>c, <2>1, <2>2 DEF CallInv
  <2> QED BY <1>c, <2>1, <2>3, CallStep
<1>6. ASSUME NEW p \in Verifications, VerifySignature(p) PROVE DomainInv'
  <2> DEFINE tok == verify[p].tok
             previous == newAlgorithms(ver.previous, NoKey, NoKey)
  <2>1. UNCHANGED <<ver, keyCache>> BY <1>6 DEF VerifySignature
  <2>2. CASE End(p, "panic") \/ End(p, "invalid") BY <1>c, <2>1, <2>2, EndStep
  <2>3. CASE /\ AlgorithmsVerify(ver.algorithms, tok)
             /\ Step(p, [pc |-> "claims", tok |-> tok, key |-> tok.signer])
    <3>1. tok.signer.domain = "static"
      <4>1. ver.algorithms[tok.family] # NoKey /\ ver.algorithms[tok.family] = tok.signer
        BY <2>3 DEF AlgorithmsVerify
      <4>2. tok.family \in {"HS", "RS", "ES"}
        BY <2>3, StaticKeys DEF AlgorithmsVerify
      <4> QED BY <4>1, <4>2, StaticKeys
    <3> QED BY <1>c, <2>1, <2>3, <3>1, ClaimsStep
  <2>4. CASE PreviousKeyUsable /\ Step(p, [pc |-> "claims", tok |-> tok, key |-> ver.previous])
    <3>1. ver.previous.domain = "static" BY <2>4, StaticKeys DEF PreviousKeyUsable
    <3> QED BY <1>c, <2>1, <2>4, <3>1, ClaimsStep
  <2> QED BY <1>6, <2>2, <2>3, <2>4 DEF VerifySignature
<1>7. ASSUME NEW p \in Verifications, FetchKey(p) PROVE DomainInv'
  <2> DEFINE tok == verify[p].tok
             url == ResolvedURL(verify[p].vars)
             at == cacheKey(url, tok.kid)
             hit == {i \in keyCache : i.at = at /\ i.expires >= clock}
  <2>1. UNCHANGED ver /\ verify[p].pc = "jwk" BY <1>7 DEF FetchKey
  <2>2. CASE UNCHANGED keyCache /\ (End(p, "panic") \/ End(p, "invalid"))
    BY <1>c, <2>1, <2>2, EndStep
  <2>u. ASSUME ver.manager # Nil PROVE url \in Trusted(tok) \cup {Unfilled}
    <3>1. Extracted(verify[p].vars, tok) BY <1>c, <2>1 DEF CallInv
    <3> QED BY <2>u, <3>1, Resolved
  <2>3. CASE ver.manager # Nil /\ UNCHANGED keyCache
             /\ Step(p, [pc |-> "fetching", tok |-> tok, url |-> url])
    <3>1. url \in Trusted(tok) \cup {Unfilled}
      BY <2>3, <2>u
    <3> HIDE DEF url
    <3>2. verify'[p] = [pc |-> "fetching", tok |-> tok, url |-> url]
      BY <2>3, StepTo
    <3>3. CallInv(p)' BY <3>1, <3>2 DEF CallInv
    <3> QED BY <1>c, <2>1, <2>3, <3>3, CallStep
  <2>4. ASSUME NEW i \in hit, ver.manager # Nil, WithKey(p, i.key),
               keyCache' = (keyCache \ {i}) \cup {[i EXCEPT !.expires = clock + TTL]}
        PROVE  DomainInv'
    <3>1. i.key.domain = url /\ url # Unfilled
      BY <1>c DEF cacheKey, Filed
    <3>2. i.key.domain \in Trusted(tok)
      BY <2>4, <2>u, <3>1
    <3>3. \A n \in keyCache' : Filed(n)
      <4>1. Filed([i EXCEPT !.expires = clock + TTL])
        <5>1. [i EXCEPT !.expires = clock + TTL] = [at |-> i.at, key |-> i.key, expires |-> clock + TTL]
          BY <1>c DEF Filed
        <5> QED BY <1>c, <5>1 DEF Filed
      <4> QED BY <1>c, <2>4, <4>1
    <3> QED BY <2>1, <2>4, <3>2, <3>3, WithKeyStep
  <2> QED BY <1>7, <2>2, <2>3, <2>4 DEF FetchKey
<1>8. ASSUME NEW p \in Verifications, NEW fails, LoadData(p, fails) PROVE DomainInv'
  <2> DEFINE d == verify[p].url
             set == {[domain |-> d, kid |-> kid, version |-> published[d][kid]] :
                       kid \in {x \in Kids : d \in Domains /\ published[d][x] > 0}}
             r == [pc |-> "storing", tok |-> verify[p].tok, url |-> d, set |-> set]
  <2>1. UNCHANGED <<ver, keyCache>> /\ verify[p].pc = "fetching" BY <1>8 DEF LoadData
  <2>2. CASE End(p, "invalid") BY <1>c, <2>1, <2>2, EndStep
  <2>3. CASE set # {} /\ Step(p, r)
    <3>1. /\ \A key \in set : key.domain = d
          /\ d # Unfilled
      BY <2>3, UnfilledAssumption
    <3> HIDE DEF set
    <3>2. verify'[p] = r BY <2>3, StepTo
    <3>3. d \in Trusted(verify[p].tok) BY <1>c, <2>1, <3>1 DEF CallInv
    <3>4. CallInv(p)' BY <3>1, <3>2, <3>3 DEF CallInv
    <3> QED BY <1>c, <2>1, <2>3, <3>4, CallStep
  <2> QED BY <1>8, <2>2, <2>3 DEF LoadData
<1>9. ASSUME NEW p \in Verifications, StoreKeys(p) PROVE DomainInv'
  <2> DEFINE v == verify[p]
             new == {[at |-> cacheKey(v.url, key.kid), key |-> key, expires |-> clock + TTL] :
                       key \in v.set}
  <2>1. UNCHANGED ver /\ v.pc = "storing" BY <1>9 DEF StoreKeys
  <2>2. v.url \in Trusted(v.tok) /\ v.url # Unfilled /\ \A key \in v.set : key.domain = v.url
    BY <1>c, <2>1 DEF CallInv
  <2>3. \A n \in new : Filed(n)
    BY <2>2 DEF cacheKey, Filed
  <2>4. keyCache' = {i \in keyCache : \A n \in new : n.at # i.at} \cup new
    BY <1>9 DEF StoreKeys
  <2>5. \A i \in keyCache' : Filed(i)
    <3> HIDE DEF new
    <3> QED BY <1>c, <2>3, <2>4
  <2>6. CASE End(p, "invalid") BY <2>1, <2>5, <2>6, EndStep
  <2>7. ASSUME NEW key \in v.set, WithKey(p, key) PROVE DomainInv'
    BY <2>1, <2>2, <2>5, <2>7, WithKeyStep
  <2> QED BY <1>9, <2>6, <2>7 DEF StoreKeys
<1>10. ASSUME NEW p \in Verifications, ValidateClaims(p) PROVE DomainInv'
  <2> DEFINE r == [pc |-> "idle", verdict |-> "ok", tok |-> verify[p].tok, key |-> verify[p].key]
  <2>1. UNCHANGED <<ver, keyCache>> /\ verify[p].pc = "claims" BY <1>10 DEF ValidateClaims
  <2>2. CASE End(p, "invalid") \/ End(p, "expired") BY <1>c, <2>1, <2>2, EndStep
  <2>3. CASE Step(p, r)
    <3>1. verify'[p] = r BY <2>3, StepTo
    <3>2. CallInv(p)' BY <1>c, <2>1, <3>1 DEF CallInv
    <3> QED BY <1>c, <2>1, <2>3, <3>2, CallStep
  <2> QED BY <1>10, <2>2, <2>3 DEF ValidateClaims
<1>11. CASE UNCHANGED tokens
  BY <1>11 DEF tokens, DomainInv, CallInv
<1> QED
  BY <1>1, <1>2, <1>3, <1>4, <1>5, <1>6, <1>7, <1>8, <1>9, <1>10, <1>11 DEF TokensNext

\* For any tokens, configurations, tenants and concurrent calls: a token that
\* is accepted was verified with a configured key, with one fetched from the
\* fixed endpoint of a configuration, or with one of its issuer's own domain,
\* whatever was cached, rotated or reloaded while it was being verified, the
\* variables that fill the endpoint being those of the expressions before.
THEOREM DomainsSeparated == TokensSpec => []AcceptedInDomain
<1>1. TokensInit => DomainInv
  BY DEF TokensInit, DomainInv, CallInv, Resting
<1>2. DomainInv => AcceptedInDomain
  BY DEF DomainInv, CallInv, AcceptedInDomain, Trusted
<1> QED BY <1>1, <1>2, DomainStep, PTL DEF TokensSpec

-----------------------------------------------------------------------------
(* Track commands: the verifiers a command uses are those of the secrets   *)
(* it has read.                                                            *)

\* FirstMatch of four rules is a chain of early returns.
FourRules(a, x, b, y, c, z, w) == FirstMatch(<< <<a, x>>, <<b, y>>, <<c, z>>, <<TRUE, w>> >>)

LEMMA First4 ==
  ASSUME NEW a \in BOOLEAN, NEW b \in BOOLEAN, NEW c \in BOOLEAN, NEW x, NEW y, NEW z, NEW w
  PROVE  FourRules(a, x, b, y, c, z, w) = IF a THEN x ELSE IF b THEN y ELSE IF c THEN z ELSE w
<1> DEFINE r == << <<a, x>>, <<b, y>>, <<c, z>>, <<TRUE, w>> >>
           k == IF a THEN 1 ELSE IF b THEN 2 ELSE IF c THEN 3 ELSE 4
           P(i) == r[i][1] /\ \A j \in 1..(i - 1) : ~r[j][1]
<1>1. DOMAIN r = 1..4 /\ k \in 1..4
  OBVIOUS
<1>2. /\ r[1] = <<a, x>> /\ r[2] = <<b, y>> /\ r[3] = <<c, z>> /\ r[4] = <<TRUE, w>>
  OBVIOUS
<1>3. /\ r[1][1] = a /\ r[2][1] = b /\ r[3][1] = c /\ r[4][1] = TRUE
      /\ r[1][2] = x /\ r[2][2] = y /\ r[3][2] = z /\ r[4][2] = w
  BY <1>2
<1> HIDE DEF r
<1>4. \A i \in 1..4 : P(i) <=> i = k
  BY <1>3
<1>5. (CHOOSE i \in 1..4 : P(i)) = k
  <2>1. \E i \in 1..4 : P(i) BY <1>1, <1>4
  <2> HIDE DEF P, k
  <2>2. PICK i \in 1..4 : i = (CHOOSE q \in 1..4 : P(q)) /\ P(i) BY <2>1
  <2> QED BY <1>4, <2>2
<1>6. FirstMatch(r) = r[k][2]
  <2> HIDE DEF k
  <2> QED BY <1>1, <1>5 DEF FirstMatch
<1> QED BY <1>3, <1>6 DEF r, FourRules

\* A set of naturals that is not empty has a least element.
LEMMA NatMin ==
  ASSUME NEW T, T \subseteq Nat, T # {} PROVE \E x \in T : \A y \in T : x <= y
<1> DEFINE R == OpToRel(<, Nat)
<1>1. IsWellFoundedOn(R, Nat) BY NatLessThanWellFounded
<1>2. \A x, y \in Nat : y < x => <<y, x>> \in R BY DEF OpToRel
<1> HIDE DEF R
<1>3. \E x \in T : \A y \in T : ~ (<<y, x>> \in R) BY <1>1, WFMin
<1>4. PICK x \in T : \A y \in T : ~ (<<y, x>> \in R) BY <1>3
<1>5. ASSUME NEW y \in T PROVE x <= y
  <2>1. x \in Nat /\ y \in Nat OBVIOUS
  <2>2. ~(y < x) BY <1>2, <1>4, <2>1
  <2> QED BY <2>1, <2>2
<1> QED BY <1>5

\* Signed with the current secret or, in time, with the previous one, and not
\* expired.
Vouched(cfg, b, ch, user, now) ==
    /\ b.signedFor = [user |-> user, channel |-> ch, keys |-> b.keys]
    /\ b.signedWith = cfg.hmac \/ (b.signedWith = cfg.hmacPrevious /\ cfg.hmacPrevious # "")
    /\ (b.signedWith # cfg.hmac /\ cfg.hmacValidUntil > 0) => ~(b.iat > cfg.hmacValidUntil)
    /\ ~(b.expiry > 0 /\ b.expiry + Grace < now)

\* A batch that is allowed is vouched for.
LEMMA AllowedBatch ==
  ASSUME NEW cfg, NEW b, NEW ch, NEW user, NEW now,
         TrackBatch(cfg, b, ch, user, now).kind = "allow"
  PROVE  Vouched(cfg, b, ch, user, now)
<1> DEFINE verified == Verify(cfg.hmac, b, ch, user)
           late == ~verified /\ cfg.hmacPrevious # "" /\ cfg.hmacValidUntil > 0
                     /\ b.iat > cfg.hmacValidUntil
           forged == ~verified /\ ~(cfg.hmacPrevious # "" /\ Verify(cfg.hmacPrevious, b, ch, user))
           expired == b.expiry > 0 /\ b.expiry + Grace < now
           denied == Reply("error", "permissionDenied")
           stale == Reply("error", "tokenExpired")
           allowed == Reply("allow", "track")
<1>1. late \in BOOLEAN /\ forged \in BOOLEAN /\ expired \in BOOLEAN
  OBVIOUS
<1>2. TrackBatch(cfg, b, ch, user, now) =
        FourRules(late, denied, forged, denied, expired, stale, allowed)
  BY DEF TrackBatch, FourRules
<1>r. denied.kind # "allow" /\ stale.kind # "allow"
  BY DEF Reply
<1> HIDE DEF late, forged, expired, denied, stale, allowed
<1>3. ~late /\ ~forged /\ ~expired
  <2>1. TrackBatch(cfg, b, ch, user, now) =
          IF late THEN denied ELSE IF forged THEN denied ELSE IF expired THEN stale ELSE allowed
    BY <1>1, <1>2, First4
  <2> QED BY <1>r, <2>1
<1> QED BY <1>3 DEF late, forged, expired, Verify, Vouched

\* A command that is allowed has only batches that are.
LEMMA AllowedTrack ==
  ASSUME NEW cfg, NEW ch, NEW user, NEW batches, DOMAIN batches \subseteq Nat, NEW now,
         OnTrack(cfg, Polled, TRUE, ch, user, batches, now).kind = "allow",
         NEW i \in DOMAIN batches
  PROVE  cfg.hmac # "" /\ TrackBatch(cfg, batches[i], ch, user, now).kind = "allow"
<1> DEFINE replies == [j \in DOMAIN batches |-> TrackBatch(cfg, batches[j], ch, user, now)]
           bad == {j \in DOMAIN batches : replies[j].kind # "allow"}
<1>1. cfg.hmac # "" /\ Polled.subscriptionType = "shared_poll"
  BY DEF OnTrack, Reply, Polled
<1>2. OnTrack(cfg, Polled, TRUE, ch, user, batches, now) =
        IF bad = {} THEN Reply("allow", "track")
        ELSE replies[CHOOSE j \in bad : \A l \in bad : j <= l]
  BY <1>1 DEF OnTrack
<1>3. bad = {}
  <2> SUFFICES ASSUME bad # {} PROVE FALSE
    OBVIOUS
  <2>1. bad \subseteq Nat OBVIOUS
  <2>2. \A j \in bad : replies[j].kind # "allow" OBVIOUS
  <2> HIDE DEF bad, replies
  <2>3. \E j \in bad : \A l \in bad : j <= l BY <2>1, NatMin
  <2>4. (CHOOSE j \in bad : \A l \in bad : j <= l) \in bad BY <2>3
  <2> QED BY <1>2, <2>2, <2>4
<1> QED BY <1>1, <1>3

\* What TrackedWithConfiguredSecret says of one command.
RightlyTracked(cfg, batches) ==
    \A i \in DOMAIN batches :
        LET b == batches[i]
        IN  /\ b.signedWith \in {cfg.hmac, cfg.hmacPrevious} \ {""}
            /\ b.signedFor = [user |-> TrackUser, channel |-> TrackChannel, keys |-> b.keys]
            /\ (b.signedWith # cfg.hmac /\ cfg.hmacValidUntil > 0) => b.iat <= cfg.hmacValidUntil
            /\ b.expiry > 0 => b.expiry + Grace >= Now

\* What a command in progress has read: while it verifies, the verifiers of
\* the secrets it read.
CommandInv(r) ==
    /\ r.pc \in {"idle", "remake", "verify"}
    /\ r.pc \in {"remake", "verify"} =>
        /\ r = [pc |-> r.pc, cfg |-> r.cfg, batches |-> r.batches, current |-> r.current,
                previous |-> r.previous]
        /\ r.cfg \in SecretConfigs /\ r.batches \in TrackBatches
    /\ (r.pc = "verify" /\ r.cfg.hmac # "") =>
          r.current = r.cfg.hmac /\ r.previous = r.cfg.hmacPrevious
    /\ (r.pc = "idle" /\ r.reply.kind = "allow") => RightlyTracked(r.cfg, r.batches)

\* The verifiers in the cache are those of the secrets it is marked with.
SecretInv ==
    /\ secrets \in SecretConfigs
    /\ track = [t \in Trackers |-> track[t]]
    /\ verifiers = [key |-> verifiers.key, made |-> verifiers.key,
                    previousKey |-> verifiers.previousKey, previous |-> verifiers.previousKey]
    /\ \A t \in Trackers : CommandInv(track[t])

\* A command that is allowed with the verifiers of its own configuration
\* carries only batches signed with the secrets of this configuration.
LEMMA AllowedRightly ==
  ASSUME NEW cfg \in SecretConfigs, NEW batches \in TrackBatches,
         OnTrack(cfg, Polled, TRUE, TrackChannel, TrackUser, batches, Now).kind = "allow"
  PROVE  RightlyTracked(cfg, batches)
<1>1. /\ batches \in Seq(SignedBatches) /\ Now \in Nat
      /\ cfg \in [hmac : STRING, hmacPrevious : STRING, hmacValidUntil : Nat]
  BY TrackAssumption
<1> SUFFICES ASSUME NEW i \in DOMAIN batches
             PROVE  LET b == batches[i]
                    IN  /\ b.signedWith \in {cfg.hmac, cfg.hmacPrevious} \ {""}
                        /\ b.signedFor = [user |-> TrackUser, channel |-> TrackChannel, keys |-> b.keys]
                        /\ (b.signedWith # cfg.hmac /\ cfg.hmacValidUntil > 0) =>
                               b.iat <= cfg.hmacValidUntil
                        /\ b.expiry > 0 => b.expiry + Grace >= Now
  BY DEF RightlyTracked
<1> DEFINE b == batches[i]
<1>2. b \in SignedBatches BY <1>1
<1>3. /\ b.iat \in Nat /\ b.expiry \in Nat /\ cfg.hmacValidUntil \in Nat /\ Grace \in Nat
  BY <1>1, <1>2 DEF SignedBatches, Grace
<1>4. cfg.hmac # "" /\ TrackBatch(cfg, b, TrackChannel, TrackUser, Now).kind = "allow"
  <2>1. DOMAIN batches \subseteq Nat BY <1>1
  <2> QED BY <2>1, AllowedTrack
<1> HIDE DEF b
<1>5. /\ b.signedFor = [user |-> TrackUser, channel |-> TrackChannel, keys |-> b.keys]
      /\ b.signedWith = cfg.hmac \/ (b.signedWith = cfg.hmacPrevious /\ cfg.hmacPrevious # "")
      /\ (b.signedWith # cfg.hmac /\ cfg.hmacValidUntil > 0) => ~(b.iat > cfg.hmacValidUntil)
      /\ ~(b.expiry > 0 /\ b.expiry + Grace < Now)
  <2>1. Vouched(cfg, b, TrackChannel, TrackUser, Now) BY <1>4, AllowedBatch
  <2> QED BY <2>1 DEF Vouched
<1>6. b.signedWith \in {cfg.hmac, cfg.hmacPrevious} \ {""} BY <1>4, <1>5
<1>7. /\ (b.signedWith # cfg.hmac /\ cfg.hmacValidUntil > 0) => b.iat <= cfg.hmacValidUntil
      /\ b.expiry > 0 => b.expiry + Grace >= Now
  <2>1. ASSUME NEW n \in Nat, NEW k \in Nat, ~(n > k) PROVE n <= k
    BY <2>1
  <2>2. ASSUME NEW n \in Nat, NEW k \in Nat, ~(n < k) PROVE n >= k
    BY <2>2
  <2>3. b.expiry + Grace \in Nat BY <1>3
  <2>4. Now \in Nat BY <1>1
  <2> QED BY <1>3, <1>5, <2>1, <2>2, <2>3, <2>4, Zenon
<1> QED BY <1>5, <1>6, <1>7 DEF b

LEMMA SecretStep == SecretInv /\ [TrackNext]_tracking => SecretInv'
<1> SUFFICES ASSUME SecretInv, [TrackNext]_tracking PROVE SecretInv'
  OBVIOUS
<1>c. \A t \in Trackers : CommandInv(track[t])
  BY DEF SecretInv
<1>1. ASSUME NEW s \in SecretConfigs, RotateSecrets(s) PROVE SecretInv'
  BY <1>1 DEF RotateSecrets, SecretInv
<1>2. ASSUME NEW t \in Trackers, NEW r, track' = [track EXCEPT ![t] = r], CommandInv(r),
             UNCHANGED secrets,
             verifiers' = [key |-> verifiers'.key, made |-> verifiers'.key,
                           previousKey |-> verifiers'.previousKey,
                           previous |-> verifiers'.previousKey]
      PROVE  SecretInv'
  <2>1. /\ track' = [u \in Trackers |-> track'[u]] /\ track'[t] = r
        /\ \A u \in Trackers \ {t} : track'[u] = track[u]
    BY <1>2 DEF SecretInv
  <2>2. \A u \in Trackers : CommandInv(track'[u]) BY <1>c, <1>2, <2>1
  <2> QED BY <1>2, <2>1, <2>2 DEF SecretInv
<1>v. verifiers = [key |-> verifiers.key, made |-> verifiers.key,
                   previousKey |-> verifiers.previousKey, previous |-> verifiers.previousKey]
  BY DEF SecretInv
<1>3. ASSUME NEW t \in Trackers, NEW b \in TrackBatches, BeginTrack(t, b) PROVE SecretInv'
  <2> DEFINE r == [pc |-> IF secrets.hmac = "" \/ Fits(secrets) THEN "verify" ELSE "remake",
                   cfg |-> secrets, batches |-> b, current |-> verifiers.made,
                   previous |-> verifiers.previous]
  <2>1. track' = [track EXCEPT ![t] = r] /\ UNCHANGED <<secrets, verifiers>>
    BY <1>3 DEF BeginTrack
  <2>2. verifiers.made = verifiers.key /\ verifiers.previous = verifiers.previousKey
    BY <1>v
  <2>3. CommandInv(r)
    BY <2>2 DEF CommandInv, SecretInv, Fits
  <2> HIDE DEF r
  <2> QED BY <1>2, <1>v, <2>1, <2>3
<1>4. ASSUME NEW t \in Trackers, RemakeVerifiers(t) PROVE SecretInv'
  <2> DEFINE o == track[t]
             r == [pc |-> "verify", cfg |-> o.cfg, batches |-> o.batches,
                   current |-> verifiers'.made, previous |-> verifiers'.previous]
  <2>1. o.pc = "remake" /\ verifiers' = Remade(o.cfg) /\ UNCHANGED secrets
    BY <1>4 DEF RemakeVerifiers
  <2>2. CommandInv(o) BY <1>c
  <2>3. track' = [track EXCEPT ![t] = r]
    BY <1>4 DEF RemakeVerifiers
  <2>4. /\ verifiers'.key = o.cfg.hmac /\ verifiers'.previousKey = o.cfg.hmacPrevious
        /\ verifiers' = [key |-> verifiers'.key, made |-> verifiers'.key,
                         previousKey |-> verifiers'.previousKey,
                         previous |-> verifiers'.previousKey]
    <3>1. CASE Fits(o.cfg) BY <1>v, <2>1, <3>1 DEF Remade, Fits
    <3>2. CASE ~Fits(o.cfg) BY <2>1, <3>2 DEF Remade
    <3> QED BY <3>1, <3>2
  <2>5. verifiers'.made = o.cfg.hmac /\ verifiers'.previous = o.cfg.hmacPrevious
    BY <2>4
  <2>6. CommandInv(r)
    BY <2>1, <2>2, <2>5 DEF CommandInv
  <2> HIDE DEF r
  <2> QED BY <1>2, <2>1, <2>3, <2>4, <2>6
<1>5. ASSUME NEW t \in Trackers, VerifyBatches(t) PROVE SecretInv'
  <2> DEFINE o == track[t]
             cfg == [o.cfg EXCEPT !.hmac = o.current, !.hmacPrevious = o.previous]
             reply == IF o.cfg.hmac = "" THEN Reply("error", "internal")
                      ELSE OnTrack(cfg, Polled, TRUE, TrackChannel, TrackUser, o.batches, Now)
             r == [pc |-> "idle", cfg |-> o.cfg, batches |-> o.batches, reply |-> reply]
  <2>1. o.pc = "verify" /\ track' = [track EXCEPT ![t] = r] /\ UNCHANGED <<secrets, verifiers>>
    BY <1>5 DEF VerifyBatches
  <2>2. CommandInv(o) BY <1>c
  <2>3. o.cfg \in SecretConfigs /\ o.batches \in TrackBatches
    BY <2>1, <2>2 DEF CommandInv
  <2>4. ASSUME reply.kind = "allow" PROVE RightlyTracked(o.cfg, o.batches)
    <3>1. o.cfg.hmac # "" BY <2>4 DEF Reply
    <3>2. o.current = o.cfg.hmac /\ o.previous = o.cfg.hmacPrevious
      BY <2>1, <2>2, <3>1 DEF CommandInv
    <3>3. cfg = o.cfg
      BY <2>3, <3>2, TrackAssumption
    <3>4. OnTrack(o.cfg, Polled, TRUE, TrackChannel, TrackUser, o.batches, Now).kind = "allow"
      BY <2>4, <3>1, <3>3
    <3> HIDE DEF o
    <3> QED BY <2>3, <3>4, AllowedRightly
  <2>5. CommandInv(r)
    <3>1. r.pc = "idle" /\ r.reply = reply /\ r.cfg = o.cfg /\ r.batches = o.batches OBVIOUS
    <3> HIDE DEF r, reply
    <3> QED BY <2>4, <3>1 DEF CommandInv
  <2> HIDE DEF r
  <2> QED BY <1>2, <1>v, <2>1, <2>5
<1>6. CASE UNCHANGED tracking
  BY <1>6 DEF tracking, SecretInv
<1> QED BY <1>1, <1>3, <1>4, <1>5, <1>6 DEF TrackNext

\* For any secrets, commands, batches and number of clients: a track command
\* is allowed only with signatures of the secrets that the configuration it
\* read has configured, although reloads rotate the secrets and other commands
\* replace the shared verifiers while it runs.
THEOREM TrackSafety == TrackSpec => []TrackedWithConfiguredSecret
<1>1. TrackInit => SecretInv
  <2> SUFFICES ASSUME TrackInit PROVE SecretInv
    OBVIOUS
  <2>1. /\ track = [t \in Trackers |-> Quiet] /\ secrets \in SecretConfigs
        /\ verifiers = [key |-> "", made |-> "", previousKey |-> "", previous |-> ""]
    BY DEF TrackInit
  <2>2. Quiet.pc = "idle" /\ Quiet.reply.kind = "none"
    BY DEF Quiet, Reply
  <2>3. CommandInv(Quiet)
    BY <2>2 DEF CommandInv
  <2> QED BY <2>1, <2>3 DEF SecretInv
<1>2. SecretInv => TrackedWithConfiguredSecret
  BY DEF SecretInv, CommandInv, RightlyTracked, TrackedWithConfiguredSecret
<1> QED BY <1>1, <1>2, SecretStep, PTL DEF TrackSpec


-----------------------------------------------------------------------------
(* Server API: what a command that is not refused makes of the node's      *)
(* answer, and the requests in progress.                                   *)

\* A list of rules that ends in the node's answer: if it says "none" for one
\* answer, no check refuses, and it is whatever the node says for another.
LEMMA LastRule ==
  ASSUME NEW n \in Nat, NEW r, NEW s, DOMAIN r = 1..(n + 1), DOMAIN s = 1..(n + 1),
         \A i \in 1..n : s[i] = r[i] /\ r[i][2] # "none", r[n + 1][1], s[n + 1][1],
         FirstMatch(r) = "none"
  PROVE  FirstMatch(s) = s[n + 1][2]
<1> DEFINE P(q) == r[q][1] /\ \A j \in 1..(q - 1) : ~r[j][1]
           Q(q) == s[q][1] /\ \A j \in 1..(q - 1) : ~s[j][1]
           T == {i \in 1..(n + 1) : r[i][1]}
<1>1. PICK m \in T : \A y \in T : m <= y
  <2>1. T \subseteq Nat OBVIOUS
  <2>2. n + 1 \in T OBVIOUS
  <2> QED BY <2>1, <2>2, NatMin
<1>2. m \in 1..(n + 1) /\ P(m)
  <2>1. m \in 1..(n + 1) /\ r[m][1] OBVIOUS
  <2>2. ASSUME NEW j \in 1..(m - 1), r[j][1] PROVE FALSE
    <3>1. j \in T BY <2>1, <2>2
    <3> QED BY <1>1, <2>1, <3>1
  <2> QED BY <2>1, <2>2
<1>3. PICK c \in 1..(n + 1) : c = (CHOOSE q \in 1..(n + 1) : P(q)) /\ P(c)
  <2> HIDE DEF P
  <2> QED BY <1>2
<1>4. r[c][2] = "none"
  <2> HIDE DEF P
  <2>1. FirstMatch(r) = r[CHOOSE q \in DOMAIN r : P(q)][2] BY DEF FirstMatch, P
  <2> QED BY <1>3, <2>1
<1>5. c = n + 1 BY <1>3, <1>4
<1>6. \A j \in 1..n : ~r[j][1] BY <1>3, <1>5
<1>7. Q(n + 1) BY <1>6
<1>8. \A q \in 1..(n + 1) : Q(q) => q = n + 1
  BY <1>6
<1> HIDE DEF Q
<1>9. (CHOOSE q \in DOMAIN s : Q(q)) = n + 1 BY <1>7, <1>8
<1> QED BY <1>9 DEF FirstMatch, Q

\* Two elements, a list and one element in a row.
IsRow(r, a, b, c) ==
    /\ DOMAIN r = 1..(Len(b) + 3)
    /\ r[1] = a[1] /\ r[2] = a[2] /\ r[Len(b) + 3] = c[1]
    /\ \A i \in 1..Len(b) : r[i + 2] = b[i]

LEMMA InARow ==
  ASSUME NEW V, NEW a \in Seq(V), NEW b \in Seq(V), NEW c \in Seq(V), Len(a) = 2, Len(c) = 1
  PROVE  IsRow(a \o b \o c, a, b, c)
<1>1. PICK d : d = a \o b OBVIOUS
<1>2. PICK r : r = d \o c OBVIOUS
<1>3. PICK k \in Nat : k = Len(b) BY LenProperties
<1>4. d \in Seq(V) /\ Len(d) = Len(a) + Len(b)
  BY <1>1, ConcatProperties
<1>5. \A i \in 1..(Len(a) + Len(b)) : d[i] = IF i <= Len(a) THEN a[i] ELSE b[i - Len(a)]
  BY <1>1, ConcatProperties
<1>6. /\ d \o c \in Seq(V) /\ Len(d \o c) = Len(d) + Len(c)
      /\ \A i \in 1..(Len(d) + Len(c)) : (d \o c)[i] = IF i <= Len(d) THEN d[i] ELSE c[i - Len(d)]
  <2>1. ASSUME NEW x \in Seq(V), NEW y \in Seq(V)
        PROVE  /\ x \o y \in Seq(V) /\ Len(x \o y) = Len(x) + Len(y)
               /\ \A i \in 1..(Len(x) + Len(y)) : (x \o y)[i] = IF i <= Len(x) THEN x[i] ELSE y[i - Len(x)]
    BY ConcatProperties
  <2> QED BY ONLY <1>4, <2>1, c \in Seq(V), Zenon
<1>7. /\ r \in Seq(V) /\ Len(r) = Len(d) + Len(c)
      /\ \A i \in 1..(Len(d) + Len(c)) : r[i] = IF i <= Len(d) THEN d[i] ELSE c[i - Len(d)]
  BY ONLY <1>2, <1>6, Zenon
<1>8. \A i \in 1..(k + 2) : d[i] = IF i <= 2 THEN a[i] ELSE b[i - 2]
  BY ONLY <1>3, <1>5, Len(a) = 2
<1>9. \A i \in 1..(k + 3) : r[i] = IF i <= k + 2 THEN d[i] ELSE c[i - (k + 2)]
  <2>1. Len(d) = k + 2 /\ Len(d) + Len(c) = k + 3
    BY ONLY <1>3, <1>4, Len(a) = 2, Len(c) = 1
  <2> QED BY ONLY <1>7, <2>1, Zenon
<1>10. DOMAIN r = 1..Len(r) BY <1>7, LenProperties
<1>11. DOMAIN r = 1..(k + 3) BY ONLY <1>3, <1>4, <1>7, <1>10, Len(a) = 2, Len(c) = 1
<1>12. r[1] = a[1] /\ r[2] = a[2] /\ r[k + 3] = c[1]
  <2>1. /\ 1 \in 1..(k + 2) /\ 2 \in 1..(k + 2) /\ 1 \in 1..(k + 3) /\ 2 \in 1..(k + 3)
        /\ k + 3 \in 1..(k + 3) /\ ~(k + 3 <= k + 2) /\ (k + 3) - (k + 2) = 1
        /\ 1 <= k + 2 /\ 2 <= k + 2 /\ 1 <= 2 /\ 2 <= 2
    BY ONLY <1>3
  <2>2. d[1] = a[1] /\ d[2] = a[2]
    BY ONLY <1>8, <2>1
  <2>3. r[1] = d[1] /\ r[2] = d[2]
    BY ONLY <1>9, <2>1
  <2>4. r[k + 3] = c[1]
    BY ONLY <1>9, <2>1
  <2> QED BY ONLY <2>2, <2>3, <2>4, Zenon
<1>13. ASSUME NEW i \in 1..k PROVE r[i + 2] = b[i]
  <2>1. i + 2 \in 1..(k + 2) /\ i + 2 \in 1..(k + 3) /\ ~(i + 2 <= 2) /\ (i + 2) - 2 = i /\ i + 2 <= k + 2
    BY <1>3
  <2> QED BY ONLY <1>8, <1>9, <2>1
<1>14. IsRow(r, a, b, c) BY ONLY <1>3, <1>11, <1>12, <1>13 DEF IsRow
<1> QED BY ONLY <1>1, <1>2, <1>14, Zenon

\* The rules of a method with a channel: its own ones refuse.
NodeRule(n) == <<TRUE, NodeError(n)>>
Refusals(rules) == \A i \in 1..Len(rules) : rules[i][2] # "none"

LEMMA ChannelRule ==
  ASSUME NEW ch, NEW missing, NEW S, NEW rules \in Seq(S), NEW n, NEW m,
         Refusals(rules), WithChannel(ch, missing, rules, n) = "none"
  PROVE  WithChannel(ch, missing, rules, m) = NodeError(m)
<1>1. PICK A1, A2 : A1 = <<missing, "badRequest">> /\ A2 = <<~Known(ch), "unknownChannel">> OBVIOUS
<1>2. PICK a : a = <<A1, A2>> OBVIOUS
<1>3. PICK r, s : r = a \o rules \o <<NodeRule(n)>> /\ s = a \o rules \o <<NodeRule(m)>> OBVIOUS
<1>4. FirstMatch(r) = "none" /\ WithChannel(ch, missing, rules, m) = FirstMatch(s)
  BY ONLY <1>1, <1>2, <1>3, WithChannel(ch, missing, rules, n) = "none" DEF WithChannel, NodeRule
<1>5. A1[2] # "none" /\ A2[2] # "none" BY <1>1
<1> PICK k \in Nat : k = Len(rules) BY LenProperties
<1>6. /\ DOMAIN r = 1..(k + 3) /\ r[1] = A1 /\ r[2] = A2 /\ r[k + 3] = NodeRule(n)
      /\ \A i \in 1..k : r[i + 2] = rules[i]
      /\ DOMAIN s = 1..(k + 3) /\ s[1] = A1 /\ s[2] = A2 /\ s[k + 3] = NodeRule(m)
      /\ \A i \in 1..k : s[i + 2] = rules[i]
  <2>1. PICK V : V = S \cup {A1, A2, NodeRule(n), NodeRule(m)} OBVIOUS
  <2>2. S \subseteq V /\ A1 \in V /\ A2 \in V /\ NodeRule(n) \in V /\ NodeRule(m) \in V BY <2>1
  <2>3. rules \in Seq(V) BY <2>2, SeqMonotonic
  <2>4. a \in Seq(V) /\ Len(a) = 2 /\ a[1] = A1 /\ a[2] = A2 BY ONLY <1>2, <2>2
  <2>5. PICK cn, cm : cn = <<NodeRule(n)>> /\ cm = <<NodeRule(m)>> OBVIOUS
  <2>6. cn \in Seq(V) /\ Len(cn) = 1 /\ cn[1] = NodeRule(n) BY ONLY <2>2, <2>5
  <2>7. cm \in Seq(V) /\ Len(cm) = 1 /\ cm[1] = NodeRule(m) BY ONLY <2>2, <2>5
  <2>8. r = a \o rules \o cn /\ s = a \o rules \o cm BY <1>3, <2>5
  <2>9. IsRow(a \o rules \o cn, a, rules, cn)
    BY ONLY <2>3, <2>4, <2>6, InARow
  <2>10. IsRow(a \o rules \o cm, a, rules, cm)
    BY ONLY <2>3, <2>4, <2>7, InARow
  <2>11. IsRow(r, a, rules, cn) /\ IsRow(s, a, rules, cm)
    BY ONLY <2>8, <2>9, <2>10, Zenon
  <2> QED BY ONLY <2>4, <2>6, <2>7, <2>11, k = Len(rules) DEF IsRow
<1>7. \A i \in 1..(k + 2) : s[i] = r[i] /\ r[i][2] # "none"
  <2> SUFFICES ASSUME NEW i \in 1..(k + 2) PROVE s[i] = r[i] /\ r[i][2] # "none" OBVIOUS
  <2>1. CASE i \in {1, 2} BY ONLY <1>5, <1>6, <2>1
  <2>2. CASE i \notin {1, 2}
    <3>1. PICK l \in 1..k : i = l + 2 BY ONLY <2>2, k \in Nat, i \in 1..(k + 2)
    <3>2. s[i] = rules[l] /\ r[i] = rules[l] BY ONLY <1>6, <3>1
    <3> QED BY <3>1, <3>2 DEF Refusals
  <2> QED BY <2>1, <2>2
<1>8. NodeRule(n)[1] /\ NodeRule(m)[1] /\ NodeRule(m)[2] = NodeError(m) BY DEF NodeRule
<1>9. PICK q \in Nat : q = k + 2 /\ q + 1 = k + 3 OBVIOUS
<1>10. /\ DOMAIN r = 1..(q + 1) /\ DOMAIN s = 1..(q + 1) /\ r[q + 1] = NodeRule(n) /\ s[q + 1] = NodeRule(m)
       /\ \A i \in 1..q : s[i] = r[i] /\ r[i][2] # "none"
  BY ONLY <1>6, <1>7, <1>9
<1>11. r[q + 1][1] /\ s[q + 1][1] BY ONLY <1>8, <1>10, Zenon
<1>12. FirstMatch(s) = s[q + 1][2] BY ONLY <1>4, <1>10, <1>11, <1>9, LastRule
<1> QED BY ONLY <1>4, <1>8, <1>10, <1>12, Zenon

\* A consumed command that no check refuses fails exactly as the node does.
LEMMA InternalError ==
  ASSUME NEW cmd, NEW ch, NEW n, cmd.method \in ConsumedMethods, Accepted(cmd, ch)
  PROVE  processCmd(cmd, ch, n) = NodeError(n)
<1>1. processCmd(cmd, ch, "ok") = "none" BY DEF Accepted
<1>2. CASE cmd.method = "publish"
  <2> DEFINE missing == ch = "" \/ cmd.data = "badBase64"
             rules == << <<Opts(ch).subscriptionType # "stream", "badRequest">>,
                         <<cmd.data = "badFormat", "badRequest">> >>
  <2>1. rules \in Seq({rules[1], rules[2]}) /\ Refusals(rules) BY DEF Refusals
  <2>2. Publish(cmd, ch, "ok") = "none" BY <1>1, <1>2 DEF processCmd
  <2>3. \A m : Publish(cmd, ch, m) = WithChannel(ch, missing, rules, m)
    BY DEF Publish
  <2> HIDE DEF rules, missing
  <2>4. Publish(cmd, ch, n) = NodeError(n) BY <2>1, <2>2, <2>3, ChannelRule
  <2> QED BY <1>2, <2>4 DEF processCmd
<1>3. CASE cmd.method = "broadcast"
  <2> DEFINE missing == ch = ""
             rules == << <<cmd.data = "badFormat", "badRequest">> >>
  <2>1. rules \in Seq({rules[1]}) /\ Refusals(rules) BY DEF Refusals
  <2>2. BroadcastOne(cmd, ch, "ok") = "none" BY <1>1, <1>3 DEF processCmd
  <2>3. \A m : BroadcastOne(cmd, ch, m) = WithChannel(ch, missing, rules, m)
    BY DEF BroadcastOne
  <2> HIDE DEF rules, missing
  <2>4. BroadcastOne(cmd, ch, n) = NodeError(n) BY <2>1, <2>2, <2>3, ChannelRule
  <2> QED BY <1>3, <2>4 DEF processCmd
<1>4. CASE cmd.method = "subscribe"
  <2> DEFINE missing == ch = ""
  <2>1. <<>> \in Seq({}) /\ Refusals(<<>>) BY DEF Refusals
  <2>2. Subscribe(cmd, ch, "ok") = "none" BY <1>1, <1>4 DEF processCmd
  <2>3. \A m : Subscribe(cmd, ch, m) = WithChannel(ch, missing, <<>>, m) BY DEF Subscribe
  <2> HIDE DEF missing
  <2>4. Subscribe(cmd, ch, n) = NodeError(n) BY <2>1, <2>2, <2>3, ChannelRule
  <2> QED BY <1>4, <2>4 DEF processCmd
<1>5. CASE cmd.method = "unsubscribe"
  <2>1. <<>> \in Seq({}) /\ Refusals(<<>>) BY DEF Refusals
  <2>2. Unsubscribe(cmd, ch, "ok") = "none" BY <1>1, <1>5 DEF processCmd
  <2>3. Unsubscribe(cmd, ch, n) = NodeError(n)
    <3>1. CASE ch = "" BY <3>1 DEF Unsubscribe
    <3>2. CASE ch # ""
      <4>1. \A m : Unsubscribe(cmd, ch, m) = WithChannel(ch, FALSE, <<>>, m)
        BY <3>2 DEF Unsubscribe
      <4> QED BY <2>1, <2>2, <4>1, ChannelRule
    <3> QED BY <3>1, <3>2
  <2> QED BY <1>5, <2>3 DEF processCmd
<1>6. CASE cmd.method = "history_remove"
  <2> DEFINE missing == ch = ""
             rules == << <<~Opts(ch).history, "notAvailable">> >>
  <2>1. rules \in Seq({rules[1]}) /\ Refusals(rules) BY DEF Refusals
  <2>2. HistoryRemove(cmd, ch, "ok") = "none" BY <1>1, <1>6 DEF processCmd
  <2>3. \A m : HistoryRemove(cmd, ch, m) = WithChannel(ch, missing, rules, m)
    BY DEF HistoryRemove
  <2> HIDE DEF rules, missing
  <2>4. HistoryRemove(cmd, ch, n) = NodeError(n) BY <2>1, <2>2, <2>3, ChannelRule
  <2> QED BY <1>6, <2>4 DEF processCmd
<1>7. CASE cmd.method = "disconnect"
  BY <1>7 DEF processCmd, Disconnect
<1>8. CASE cmd.method = "refresh"
  BY <1>8 DEF processCmd, Refresh
<1> QED BY <1>2, <1>3, <1>4, <1>5, <1>6, <1>7, <1>8 DEF ConsumedMethods

OpChannels ==
    UNION {UNION {{ChannelOf(Cmds(r)[i], j) : j \in Units(Cmds(r)[i])} : i \in Nat} : r \in DOMAIN ApiRequests}
Ops == [r : DOMAIN ApiRequests, i : Nat, ch : OpChannels]

IsRequest(x) ==
    /\ x = [pc |-> x.pc, started |-> x.started, done |-> x.done,
            deliveries |-> x.deliveries, reply |-> x.reply]
    /\ x.started \in Nat

ApiTypes ==
    /\ api = [r \in DOMAIN ApiRequests |-> api[r]]
    /\ \A r \in DOMAIN ApiRequests : IsRequest(api[r])
    /\ applied \in Seq(Ops)

\* The broker knows the keys of what was applied, and each is there once.
KeyOf(op) == CommandOf(op).idempotencyKey
KeysInv ==
    /\ \A k \in DOMAIN applied :
         Keyed(CommandOf(applied[k])) => <<applied[k].ch, KeyOf(applied[k])>> \in remembered
    /\ \A x \in remembered : \E k \in DOMAIN applied : x = <<applied[k].ch, KeyOf(applied[k])>>
    /\ \A k, l \in DOMAIN applied :
         (/\ applied[k].ch = applied[l].ch /\ Keyed(CommandOf(applied[k]))
          /\ KeyOf(applied[k]) = KeyOf(applied[l])) => k = l

\* What ran without an internal error is in its channel.
DoneInv(r) ==
    \A d \in api[r].done :
        LET cmd == Cmds(r)[d.i]
        IN  (/\ d.error # "internal" /\ cmd.method \in ConsumedMethods
             /\ Accepted(cmd, ChannelOf(cmd, d.j))) => InChannel(r, d.i, ChannelOf(cmd, d.j))

AckedInv(r) ==
    (/\ Via(r) = "consumer" /\ api[r].pc = "acked" /\ ApiRequests[r].malformed = 0
     /\ Cmds(r)[1].method \in ConsumedMethods) =>
       \A j \in Units(Cmds(r)[1]) :
          Accepted(Cmds(r)[1], ChannelOf(Cmds(r)[1], j)) => InChannel(r, 1, ChannelOf(Cmds(r)[1], j))

\* A consumed message has one command; of any other request that is not a
\* parallel batch all commands but the last one started are done.
InOrder(r) ==
    \A k, l \in DOMAIN applied :
        (k < l /\ applied[k].r = r /\ applied[l].r = r) => applied[k].i <= applied[l].i
OrderInv(r) ==
    /\ InOrder(r)
    /\ Via(r) = "consumer" => \A k \in DOMAIN applied : applied[k].r = r => applied[k].i = 1
    /\ Via(r) # "consumer" =>
         /\ api[r].pc = "new" => api[r].started = 0
         /\ \A k \in DOMAIN applied : applied[k].r = r => applied[k].i \in 1..api[r].started
         /\ \A i \in 1..(api[r].started - 1) : CommandDone(r, i)

ApiInv ==
    /\ ApiTypes /\ KeysInv
    /\ \A r \in DOMAIN ApiRequests : /\ DoneInv(r) /\ AckedInv(r)
                                     /\ ~ApiRequests[r].parallel => OrderInv(r)

\* Applied operations stay.
Kept == \A k \in DOMAIN applied : k \in DOMAIN applied' /\ applied'[k] = applied[k]

LEMMA StillInChannel ==
  ASSUME Kept, NEW r, NEW i, NEW ch, InChannel(r, i, ch)
  PROVE  InChannel(r, i, ch)'
BY Zenon DEF Kept, InChannel, CommandOf, Cmds

\* What running one command does to the node.
Grown(r, i, ch, n) ==
    /\ applied' \in Seq(Ops) /\ KeysInv' /\ Kept
    /\ \A k \in DOMAIN applied' : k \in DOMAIN applied \/ applied'[k] = [r |-> r, i |-> i, ch |-> ch]
    /\ \A k \in DOMAIN applied' \ DOMAIN applied : \A l \in DOMAIN applied' : l <= k
    /\ (Accepted(Cmds(r)[i], ch) /\ Cmds(r)[i].method \in Effectful /\ n # "failed") => InChannel(r, i, ch)'

LEMMA Applying ==
  ASSUME ApiTypes, KeysInv, NEW r \in DOMAIN ApiRequests, NEW i \in Nat, NEW j \in Units(Cmds(r)[i]),
         NEW n, NEW ch, ch = ChannelOf(Cmds(r)[i], j), NodeApplies(r, i, ch, n)
  PROVE  Grown(r, i, ch, n)
<1>1. PICK cmd : cmd = Cmds(r)[i] OBVIOUS
<1>2. PICK key : key = <<ch, cmd.idempotencyKey>> OBVIOUS
<1>3. PICK op : op = [r |-> r, i |-> i, ch |-> ch] OBVIOUS
<1>4. op \in Ops /\ op.r = r /\ op.i = i /\ op.ch = ch
  <2>1. ch \in OpChannels BY DEF OpChannels
  <2> QED BY ONLY <1>3, <2>1, r \in DOMAIN ApiRequests, i \in Nat DEF Ops
<1>5. CommandOf(op) = cmd /\ KeyOf(op) = cmd.idempotencyKey
  BY ONLY <1>1, <1>4, Zenon DEF CommandOf, KeyOf, Cmds
<1>a. applied \in Seq(Ops) BY DEF ApiTypes
<1>6. CASE UNCHANGED <<applied, remembered>> /\ ~(Accepted(cmd, ch) /\ cmd.method \in Effectful /\ n # "failed")
  <2>1. Kept BY ONLY <1>6, Zenon DEF Kept
  <2>2. KeysInv' BY ONLY <1>6, KeysInv, Zenon DEF KeysInv, KeyOf, CommandOf, Cmds
  <2> QED BY <1>1, <1>6, <1>a, <2>1, <2>2, Zenon DEF Grown
<1>7. CASE UNCHANGED <<applied, remembered>> /\ Keyed(cmd) /\ key \in remembered
  <2>1. Kept BY ONLY <1>7, Zenon DEF Kept
  <2>2. KeysInv' BY ONLY <1>7, KeysInv, Zenon DEF KeysInv, KeyOf, CommandOf, Cmds
  <2>3. PICK k \in DOMAIN applied : key = <<applied[k].ch, KeyOf(applied[k])>>
    BY ONLY <1>7, KeysInv, Zenon DEF KeysInv
  <2>4. applied[k].ch = ch /\ KeyOf(applied[k]) = cmd.idempotencyKey BY ONLY <1>2, <2>3
  <2>5. InChannel(r, i, ch)
    BY ONLY <1>1, <1>7, <2>4, k \in DOMAIN applied, Zenon DEF InChannel, KeyOf
  <2>6. InChannel(r, i, ch)' BY <2>1, <2>5, StillInChannel
  <2> QED BY <1>7, <1>a, <2>1, <2>2, <2>6, Zenon DEF Grown
<1>8. CASE /\ ~(Keyed(cmd) /\ key \in remembered) /\ applied' = Append(applied, op)
           /\ remembered' = IF Keyed(cmd) THEN remembered \cup {key} ELSE remembered
  <2>1. PICK N \in Nat : N = Len(applied) BY <1>a
  <2>2. /\ applied' \in Seq(Ops) /\ DOMAIN applied = 1..N /\ DOMAIN applied' = 1..(N + 1)
        /\ \A k \in 1..N : applied'[k] = applied[k]
        /\ applied'[N + 1] = op
    BY ONLY <1>4, <1>8, <1>a, <2>1
  <2>3. /\ Kept
        /\ \A k \in DOMAIN applied' : k \in DOMAIN applied \/ k = N + 1
        /\ N + 1 \in DOMAIN applied'
        /\ \A k \in DOMAIN applied' \ DOMAIN applied : \A l \in DOMAIN applied' : l <= k
    BY ONLY <2>1, <2>2 DEF Kept
  <2>4. InChannel(r, i, ch)' BY ONLY <1>4, <2>2, <2>3, Zenon DEF InChannel
  <2>5. KeysInv'
    <3>1. /\ \A k \in DOMAIN applied : k \in DOMAIN applied'
          /\ \A k \in DOMAIN applied : CommandOf(applied'[k]) = CommandOf(applied[k]) /\ KeyOf(applied'[k]) = KeyOf(applied[k])
                                       /\ applied'[k].ch = applied[k].ch
      BY ONLY <2>3, Zenon DEF Kept
    <3>2. CommandOf(applied'[N + 1]) = cmd /\ KeyOf(applied'[N + 1]) = cmd.idempotencyKey /\ applied'[N + 1].ch = ch
      BY ONLY <1>4, <1>5, <2>2, Zenon
    <3>3. remembered \subseteq remembered' /\ (Keyed(cmd) => key \in remembered')
          /\ \A x \in remembered' : x \in remembered \/ (Keyed(cmd) /\ x = key)
      BY ONLY <1>8
    <3>4. ASSUME NEW k \in DOMAIN applied', Keyed(CommandOf(applied'[k]))
          PROVE  <<applied'[k].ch, KeyOf(applied'[k])>> \in remembered'
      <4>1. CASE k \in DOMAIN applied
        BY ONLY <3>1, <3>3, <3>4, <4>1, KeysInv DEF KeysInv
      <4>2. CASE k = N + 1
        BY ONLY <1>2, <3>2, <3>3, <3>4, <4>2
      <4> QED BY <2>3, <4>1, <4>2
    <3>5. ASSUME NEW x \in remembered'
          PROVE  \E k \in DOMAIN applied' : x = <<applied'[k].ch, KeyOf(applied'[k])>>
      <4>1. CASE x \in remembered
        <5>1. PICK k \in DOMAIN applied : x = <<applied[k].ch, KeyOf(applied[k])>>
          BY ONLY <4>1, KeysInv, Zenon DEF KeysInv
        <5>2. k \in DOMAIN applied' /\ x = <<applied'[k].ch, KeyOf(applied'[k])>>
          BY ONLY <3>1, <5>1
        <5> QED BY ONLY <5>2, Zenon
      <4>2. CASE x = key
        <5>1. x = <<applied'[N + 1].ch, KeyOf(applied'[N + 1])>> BY ONLY <1>2, <3>2, <4>2
        <5> QED BY ONLY <2>3, <5>1, Zenon
      <4> QED BY <3>3, <4>1, <4>2
    <3>6. ASSUME NEW k \in DOMAIN applied', NEW l \in DOMAIN applied',
                 applied'[k].ch = applied'[l].ch, Keyed(CommandOf(applied'[k])),
                 KeyOf(applied'[k]) = KeyOf(applied'[l])
          PROVE  k = l
      <4>1. CASE k \in DOMAIN applied /\ l \in DOMAIN applied
        BY ONLY <3>1, <3>6, <4>1, KeysInv DEF KeysInv
      <4>2. CASE k = N + 1 /\ l \in DOMAIN applied
        <5>1. Keyed(cmd) BY ONLY <3>2, <3>6, <4>2, Zenon
        <5>2. Keyed(CommandOf(applied[l]))
          <6>1. KeyOf(applied'[l]) = cmd.idempotencyKey BY ONLY <3>2, <3>6, <4>2, Zenon
          <6>2. CommandOf(applied[l]).idempotencyKey = cmd.idempotencyKey BY ONLY <3>1, <4>2, <6>1, Zenon DEF KeyOf
          <6> QED BY ONLY <5>1, <6>2, Zenon DEF Keyed
        <5>3. <<applied[l].ch, KeyOf(applied[l])>> \in remembered BY ONLY <4>2, <5>2, KeysInv, Zenon DEF KeysInv
        <5>4. <<applied[l].ch, KeyOf(applied[l])>> = key BY ONLY <1>2, <3>1, <3>2, <3>6, <4>2
        <5> QED BY ONLY <1>8, <5>1, <5>3, <5>4, Zenon
      <4>3. CASE l = N + 1 /\ k \in DOMAIN applied
        <5>1. Keyed(CommandOf(applied[k])) BY ONLY <3>1, <3>6, <4>3, Zenon
        <5>2. Keyed(cmd)
          <6>1. CommandOf(applied[k]).idempotencyKey = cmd.idempotencyKey
            BY ONLY <3>1, <3>2, <3>6, <4>3, Zenon DEF KeyOf
          <6> QED BY ONLY <5>1, <6>1, Zenon DEF Keyed
        <5>3. <<applied[k].ch, KeyOf(applied[k])>> \in remembered BY ONLY <4>3, <5>1, KeysInv, Zenon DEF KeysInv
        <5>4. <<applied[k].ch, KeyOf(applied[k])>> = key BY ONLY <1>2, <3>1, <3>2, <3>6, <4>3
        <5> QED BY ONLY <1>8, <5>2, <5>3, <5>4, Zenon
      <4> QED BY <2>3, <4>1, <4>2, <4>3
    <3> QED BY ONLY <3>4, <3>5, <3>6, Zenon DEF KeysInv, KeyOf, CommandOf, Cmds, Keyed
  <2> QED BY <1>3, <2>2, <2>3, <2>4, <2>5, Zenon DEF Grown
<1> QED BY <1>1, <1>2, <1>3, <1>6, <1>7, <1>8, Zenon DEF NodeApplies

\* Only the request that takes a step, and what it applies, changes.
LEMMA RequestStep ==
  ASSUME ApiInv, NEW r \in DOMAIN ApiRequests, NEW x, api' = [api EXCEPT ![r] = x], IsRequest(x),
         applied' \in Seq(Ops), KeysInv', Kept,
         \A k \in DOMAIN applied' : k \in DOMAIN applied \/ applied'[k].r = r,
         DoneInv(r)', AckedInv(r)', ~ApiRequests[r].parallel => OrderInv(r)'
  PROVE  ApiInv'
<1>1. /\ api' = [q \in DOMAIN ApiRequests |-> api'[q]]
      /\ api'[r] = x
      /\ \A q \in DOMAIN ApiRequests : q # r => api'[q] = api[q]
  BY ONLY ApiInv, r \in DOMAIN ApiRequests, api' = [api EXCEPT ![r] = x] DEF ApiInv, ApiTypes
<1>2. ApiTypes'
  BY ONLY ApiInv, <1>1, IsRequest(x), applied' \in Seq(Ops), Zenon DEF ApiInv, ApiTypes, Ops, OpChannels, Cmds
<1>3. ASSUME NEW q \in DOMAIN ApiRequests, q # r
      PROVE  DoneInv(q)' /\ AckedInv(q)' /\ (~ApiRequests[q].parallel => OrderInv(q)')
  <2>1. api'[q] = api[q] BY <1>1, <1>3
  <2>2. DoneInv(q)'
    <3>1. DoneInv(q) BY DEF ApiInv
    <3> SUFFICES ASSUME NEW d \in api[q].done, d.error # "internal", Cmds(q)[d.i].method \in ConsumedMethods,
                        Accepted(Cmds(q)[d.i], ChannelOf(Cmds(q)[d.i], d.j))
                 PROVE  InChannel(q, d.i, ChannelOf(Cmds(q)[d.i], d.j))'
      BY <2>1, Zenon DEF DoneInv
    <3>2. InChannel(q, d.i, ChannelOf(Cmds(q)[d.i], d.j)) BY <3>1, Zenon DEF DoneInv
    <3>3. PICK i, ch : i = d.i /\ ch = ChannelOf(Cmds(q)[d.i], d.j) OBVIOUS
    <3>4. InChannel(q, i, ch) BY ONLY <3>2, <3>3, Zenon
    <3>5. InChannel(q, i, ch)' BY ONLY <3>4, Kept, StillInChannel
    <3> QED BY ONLY <3>3, <3>5, Zenon DEF InChannel
  <2>3. AckedInv(q)'
    <3>1. AckedInv(q) BY DEF ApiInv
    <3> SUFFICES ASSUME Via(q) = "consumer", api[q].pc = "acked", ApiRequests[q].malformed = 0,
                        Cmds(q)[1].method \in ConsumedMethods,
                        NEW j \in Units(Cmds(q)[1]), Accepted(Cmds(q)[1], ChannelOf(Cmds(q)[1], j))
                 PROVE  InChannel(q, 1, ChannelOf(Cmds(q)[1], j))'
      BY <2>1, Zenon DEF AckedInv
    <3>2. InChannel(q, 1, ChannelOf(Cmds(q)[1], j)) BY <3>1, Zenon DEF AckedInv
    <3>3. PICK ch : ch = ChannelOf(Cmds(q)[1], j) OBVIOUS
    <3>4. InChannel(q, 1, ch) BY ONLY <3>2, <3>3, Zenon
    <3>5. InChannel(q, 1, ch)' BY ONLY <3>4, Kept, StillInChannel
    <3> QED BY ONLY <3>3, <3>5, Zenon DEF InChannel
  <2>4. ASSUME ~ApiRequests[q].parallel PROVE OrderInv(q)'
    <3>1. OrderInv(q) BY <2>4 DEF ApiInv
    <3>2. \A k \in DOMAIN applied' : applied'[k].r = q => k \in DOMAIN applied /\ applied'[k] = applied[k]
      BY <1>3, Zenon DEF Kept
    <3>3. \A i : CommandDone(q, i)' <=> CommandDone(q, i)
      BY ONLY <2>1, Zenon DEF CommandDone
    <3>4. InOrder(q)'
      BY ONLY <3>1, <3>2, Zenon DEF OrderInv, InOrder
    <3> QED BY ONLY <2>1, <3>1, <3>2, <3>3, <3>4, Zenon DEF OrderInv
  <2> QED BY <2>2, <2>3, <2>4
<1> QED BY <1>2, <1>3, Zenon DEF ApiInv

\* A step of a request that applies nothing.
LEMMA QuietStep ==
  ASSUME ApiInv, NEW r \in DOMAIN ApiRequests, NEW x, api' = [api EXCEPT ![r] = x], IsRequest(x),
         UNCHANGED <<applied, remembered>>, x.done \subseteq api[r].done,
         AckedInv(r)', ~ApiRequests[r].parallel => OrderInv(r)'
  PROVE  ApiInv'
<1>1. Kept BY Zenon DEF Kept
<1>2. applied' \in Seq(Ops) BY DEF ApiInv, ApiTypes
<1>3. KeysInv' BY Zenon DEF ApiInv, KeysInv, KeyOf, CommandOf, Cmds
<1>4. DoneInv(r)'
  <2>1. api'[r] = x BY DEF ApiInv, ApiTypes
  <2>2. DoneInv(r) BY DEF ApiInv
  <2>3. \A i, ch : InChannel(r, i, ch)' <=> InChannel(r, i, ch)
    BY Zenon DEF InChannel, CommandOf, Cmds
  <2>4. \A d : d \in x.done => d \in api[r].done OBVIOUS
  <2> QED BY ONLY <2>1, <2>2, <2>3, <2>4, Zenon DEF DoneInv
<1>5. \A k \in DOMAIN applied' : k \in DOMAIN applied BY Zenon
<1> QED BY <1>1, <1>2, <1>3, <1>4, <1>5, RequestStep

\* The order within a request does not change when nothing is applied.
LEMMA QuietOrder ==
  ASSUME ApiInv, NEW r \in DOMAIN ApiRequests, NEW x, api' = [api EXCEPT ![r] = x],
         UNCHANGED applied, ~ApiRequests[r].parallel,
         Via(r) = "consumer" \/ x = [api[r] EXCEPT !.pc = x.pc, !.reply = x.reply], x.pc # "new" \/ Via(r) = "consumer"
  PROVE  OrderInv(r)'
<1>1. OrderInv(r) /\ IsRequest(api[r]) BY DEF ApiInv, ApiTypes
<1>2. api'[r] = x BY DEF ApiInv, ApiTypes
<1>3. InOrder(r)' BY ONLY <1>1, UNCHANGED applied, Zenon DEF OrderInv, InOrder
<1>4. CASE Via(r) = "consumer"
  BY ONLY <1>1, <1>3, <1>4, UNCHANGED applied, Zenon DEF OrderInv, Via
<1>5. CASE Via(r) # "consumer"
  <2>1. x.pc # "new" /\ x = [api[r] EXCEPT !.pc = x.pc, !.reply = x.reply] BY <1>5
  <2>2. x.started = api[r].started /\ x.done = api[r].done BY ONLY <1>1, <2>1 DEF IsRequest
  <2>3. \A i : CommandDone(r, i)' <=> CommandDone(r, i)
    BY ONLY <1>2, <2>2, Zenon DEF CommandDone
  <2> QED BY ONLY <1>1, <1>2, <1>3, <1>5, <2>1, <2>2, <2>3, UNCHANGED applied, Zenon DEF OrderInv
<1> QED BY <1>4, <1>5

LEMMA ReceiveStep ==
  ASSUME ApiInv, NEW r \in DOMAIN ApiRequests, Receive(r) PROVE ApiInv'
<1>1. PICK x : /\ api' = [api EXCEPT ![r] = x] /\ IsRequest(x) /\ x.started = 0 /\ x.done = {}
               /\ x.pc \in {"run", "acked", "done"} /\ (x.pc = "acked" => ApiRequests[r].malformed > 0)
  <2>1. PICK pc, reply, n :
           /\ pc = IF ~(ApiRequests[r].malformed > 0 /\ Via(r) # "legacy") THEN "run"
                   ELSE IF Via(r) = "consumer" THEN "acked" ELSE "done"
           /\ api' = [api EXCEPT ![r] = [Idle0 EXCEPT !.pc = pc, !.reply = reply, !.deliveries = n]]
    BY DEF Receive
  <2>2. PICK x : x = [Idle0 EXCEPT !.pc = pc, !.reply = reply, !.deliveries = n] OBVIOUS
  <2>3. x = [pc |-> pc, started |-> 0, done |-> {}, deliveries |-> n, reply |-> reply]
    BY ONLY <2>2 DEF Idle0
  <2>4. pc \in {"run", "acked", "done"} /\ (pc = "acked" => ApiRequests[r].malformed > 0)
    BY ONLY <2>1
  <2>5. IsRequest(x) /\ x.started = 0 /\ x.done = {} /\ x.pc = pc BY ONLY <2>3 DEF IsRequest
  <2>6. api' = [api EXCEPT ![r] = x] BY <2>1, <2>2
  <2> QED BY ONLY <2>4, <2>5, <2>6
<1>2. api'[r] = x BY <1>1 DEF ApiInv, ApiTypes
<1>3. UNCHANGED <<applied, remembered>> /\ api[r].pc = "new" BY DEF Receive
<1>4. AckedInv(r)' BY <1>1, <1>2 DEF AckedInv
<1>5. ASSUME ~ApiRequests[r].parallel PROVE OrderInv(r)'
  <2>1. OrderInv(r) BY <1>5 DEF ApiInv
  <2>2. InOrder(r)' BY ONLY <1>3, <2>1, Zenon DEF OrderInv, InOrder
  <2>3. CASE Via(r) = "consumer"
    BY ONLY <1>3, <2>1, <2>2, <2>3, Zenon DEF OrderInv, Via
  <2>4. CASE Via(r) # "consumer"
    <3>1. api[r].started = 0 /\ x.started = 0 BY ONLY <1>1, <1>3, <2>1, <2>4 DEF OrderInv
    <3>2. \A i \in 1..(x.started - 1) : FALSE BY ONLY <3>1
    <3> QED BY ONLY <1>2, <1>3, <2>1, <2>2, <2>4, <3>1, <3>2, Zenon DEF OrderInv, Via
  <2> QED BY <2>3, <2>4
<1>6. x.done \subseteq api[r].done BY <1>1
<1> QED BY ONLY ApiInv, <1>1, <1>3, <1>4, <1>5, <1>6, r \in DOMAIN ApiRequests, QuietStep

\* Sequentially, a command starts when all before it are done.
LEMMA StartStep ==
  ASSUME ApiInv, NEW r \in DOMAIN ApiRequests, StartCommand(r) PROVE ApiInv'
<1>1. PICK y : y = api[r] OBVIOUS
<1>2. IsRequest(y) BY <1>1 DEF ApiInv, ApiTypes
<1>3. PICK x : /\ api' = [api EXCEPT ![r] = x] /\ x = [y EXCEPT !.started = y.started + 1]
  BY <1>1 DEF StartCommand
<1>4. IsRequest(x) /\ x.started = y.started + 1 /\ x.done = y.done /\ x.pc = y.pc
  BY ONLY <1>2, <1>3 DEF IsRequest
<1>5. api'[r] = x BY <1>3 DEF ApiInv, ApiTypes
<1>6. UNCHANGED <<applied, remembered>> /\ y.pc = "run" BY <1>1 DEF StartCommand
<1>7. AckedInv(r)' BY <1>4, <1>5, <1>6 DEF AckedInv
<1>8. ASSUME ~ApiRequests[r].parallel PROVE OrderInv(r)'
  <2>1. OrderInv(r) BY <1>8 DEF ApiInv
  <2>2. InOrder(r)' BY ONLY <1>6, <2>1, Zenon DEF OrderInv, InOrder
  <2>3. CASE Via(r) = "consumer"
    BY ONLY <1>6, <2>1, <2>2, <2>3, Zenon DEF OrderInv, Via
  <2>4. CASE Via(r) # "consumer"
    <3>1. \A i \in 1..y.started : CommandDone(r, i)
      <4>1. Cardinality(RunningCommands(r)) < 1 BY <1>8 DEF StartCommand
      <4>2. IsFiniteSet(RunningCommands(r))
        <5>1. y.started \in Nat BY <1>2 DEF IsRequest
        <5>2. IsFiniteSet(1..y.started) BY <5>1, FS_Interval
        <5>3. RunningCommands(r) \subseteq 1..y.started BY <1>1 DEF RunningCommands
        <5> QED BY <5>2, <5>3, FS_Subset
      <4>3. Cardinality(RunningCommands(r)) \in Nat BY <4>2, FS_CardinalityType
      <4>4. Cardinality(RunningCommands(r)) = 0 BY ONLY <4>1, <4>3
      <4>5. RunningCommands(r) = {} BY <4>2, <4>4, FS_EmptySet
      <4> QED BY <1>1, <4>5 DEF RunningCommands
    <3>2. \A i : CommandDone(r, i)' <=> CommandDone(r, i)
      BY ONLY <1>1, <1>4, <1>5, Zenon DEF CommandDone
    <3>3. 1..(x.started - 1) = 1..y.started BY ONLY <1>2, <1>4 DEF IsRequest
    <3>4. \A i \in 1..y.started : i \in 1..x.started BY ONLY <1>2, <1>4 DEF IsRequest
    <3>5. x.pc # "new" BY <1>4, <1>6
    <3> QED BY ONLY <1>1, <1>5, <1>6, <2>1, <2>2, <2>4, <3>1, <3>2, <3>3, <3>4, <3>5, Zenon DEF OrderInv, Via
  <2> QED BY <2>3, <2>4
<1>9. x.done \subseteq api[r].done BY <1>1, <1>4
<1> QED BY ONLY ApiInv, <1>3, <1>4, <1>6, <1>7, <1>8, <1>9, r \in DOMAIN ApiRequests, QuietStep

\* A step that only changes pc and reply.
Move(r, pc, reply) == api' = [api EXCEPT ![r] = [api[r] EXCEPT !.pc = pc, !.reply = reply]]

LEMMA MovedTo ==
  ASSUME ApiInv, NEW r \in DOMAIN ApiRequests, NEW pc, NEW reply, Move(r, pc, reply)
  PROVE  api'[r].pc = pc
<1>1. PICK y : y = api[r] OBVIOUS
<1>2. IsRequest(y) BY <1>1 DEF ApiInv, ApiTypes
<1>3. PICK x : x = [y EXCEPT !.pc = pc, !.reply = reply] OBVIOUS
<1>4. x.pc = pc BY ONLY <1>2, <1>3 DEF IsRequest
<1>5. api' = [api EXCEPT ![r] = x] BY <1>1, <1>3 DEF Move
<1>6. api'[r] = x BY <1>5 DEF ApiInv, ApiTypes
<1> QED BY <1>4, <1>6

LEMMA MoveStep ==
  ASSUME ApiInv, NEW r \in DOMAIN ApiRequests, NEW pc, NEW reply, Move(r, pc, reply),
         UNCHANGED <<applied, remembered>>, AckedInv(r)', pc # "new" \/ Via(r) = "consumer"
  PROVE  ApiInv'
<1>1. PICK y : y = api[r] OBVIOUS
<1>2. IsRequest(y) BY <1>1 DEF ApiInv, ApiTypes
<1>3. PICK x : x = [y EXCEPT !.pc = pc, !.reply = reply] OBVIOUS
<1>4. IsRequest(x) /\ x.done = y.done /\ x.pc = pc /\ x.reply = reply BY ONLY <1>2, <1>3 DEF IsRequest
<1>5. api' = [api EXCEPT ![r] = x] BY <1>1, <1>3 DEF Move
<1>6. x = [api[r] EXCEPT !.pc = x.pc, !.reply = x.reply] BY ONLY <1>1, <1>3, <1>4
<1>7. ASSUME ~ApiRequests[r].parallel PROVE OrderInv(r)'
  BY <1>4, <1>5, <1>6, <1>7, QuietOrder
<1>8. x.done \subseteq api[r].done BY <1>1, <1>4
<1> QED BY <1>4, <1>5, <1>7, <1>8, QuietStep

LEMMA AnswerStep ==
  ASSUME ApiInv, NEW r \in DOMAIN ApiRequests, Answer(r) PROVE ApiInv'
<1>1. PICK reply : api' = [api EXCEPT ![r].pc = "done", ![r].reply = reply]
  BY DEF Answer
<1>2. Move(r, "done", reply) BY <1>1 DEF ApiInv, ApiTypes, Move
<1>3. api'[r].pc = "done" BY <1>2, MovedTo
<1>4. AckedInv(r)' BY <1>3 DEF AckedInv
<1>5. UNCHANGED <<applied, remembered>> BY DEF Answer
<1> QED BY <1>2, <1>4, <1>5, MoveStep

LEMMA LegacyStep ==
  ASSUME ApiInv, NEW r \in DOMAIN ApiRequests, LegacyDecodeError(r) PROVE ApiInv'
<1>1. Move(r, "done", "400") BY DEF LegacyDecodeError, ApiInv, ApiTypes, Move
<1>2. api'[r].pc = "done" BY <1>1, MovedTo
<1>3. AckedInv(r)' BY <1>2 DEF AckedInv
<1>4. UNCHANGED <<applied, remembered>> BY DEF LegacyDecodeError
<1> QED BY <1>1, <1>3, <1>4, MoveStep

\* A consumed message that is acknowledged or comes again.
LEMMA ConsumerStep ==
  ASSUME ApiInv, NEW r \in DOMAIN ApiRequests, NEW pc, Via(r) = "consumer",
         api' = [api EXCEPT ![r].pc = pc], UNCHANGED <<applied, remembered>>, AckedInv(r)'
  PROVE  ApiInv'
<1>1. IsRequest(api[r]) BY DEF ApiInv, ApiTypes
<1>2. PICK y : y = api[r] OBVIOUS
<1>3. [y EXCEPT !.pc = pc] = [y EXCEPT !.pc = pc, !.reply = y.reply] BY ONLY <1>1, <1>2 DEF IsRequest
<1>4. Move(r, pc, api[r].reply) BY <1>2, <1>3 DEF Move
<1> QED BY <1>4, MoveStep

LEMMA ConsumedStep ==
  ASSUME ApiInv, NEW r \in DOMAIN ApiRequests, SkipUnsupported(r) \/ Dispatched(r) \/ Redeliver(r)
  PROVE  ApiInv'
<1>1. IsRequest(api[r]) /\ DoneInv(r) /\ r \in DOMAIN api BY DEF ApiInv, ApiTypes
<1>2. CASE SkipUnsupported(r)
  <2>1. AckedInv(r)' BY <1>2 DEF SkipUnsupported, AckedInv, Cmds
  <2> QED BY <1>2, <2>1, ConsumerStep DEF SkipUnsupported
<1>3. CASE Redeliver(r)
  <2>1. api'[r].pc = "new" BY <1>1, <1>3 DEF Redeliver, IsRequest
  <2>2. AckedInv(r)' BY <2>1 DEF AckedInv
  <2> QED BY <1>3, <2>2, ConsumerStep DEF Redeliver
<1>4. CASE Dispatched(r)
  <2>1. PICK pc : pc = (IF DispatchError(r) THEN "new" ELSE "acked") /\ api' = [api EXCEPT ![r].pc = pc]
    BY <1>4 DEF Dispatched
  <2>2. api'[r].pc = pc BY <1>1, <2>1 DEF IsRequest
  <2>3. AckedInv(r)'
    <3> SUFFICES ASSUME pc = "acked", Cmds(r)[1].method \in ConsumedMethods,
                        NEW j \in Units(Cmds(r)[1]), Accepted(Cmds(r)[1], ChannelOf(Cmds(r)[1], j))
                 PROVE  InChannel(r, 1, ChannelOf(Cmds(r)[1], j))'
      BY <2>2, Zenon DEF AckedInv
    <3>1. ~DispatchError(r) BY <2>1
    <3>2. CommandDone(r, 1)
      <4>1. 1 \in 1..api[r].started BY <1>4 DEF Dispatched
      <4>2. RunningCommands(r) = {} BY <1>4 DEF Dispatched
      <4> QED BY <4>1, <4>2 DEF RunningCommands
    <3>3. PICK d \in api[r].done : d.i = 1 /\ d.j = j BY <3>2 DEF CommandDone
    <3>4. d.error # "internal" BY <3>1, Zenon DEF DispatchError
    <3>5. Cmds(r)[d.i].method \in ConsumedMethods /\ Accepted(Cmds(r)[d.i], ChannelOf(Cmds(r)[d.i], d.j))
      BY <3>3, Zenon
    <3>6. InChannel(r, d.i, ChannelOf(Cmds(r)[d.i], d.j))
      BY <1>1, <3>4, <3>5, Zenon DEF DoneInv
    <3>7. InChannel(r, 1, ChannelOf(Cmds(r)[1], j)) BY <3>3, <3>6, Zenon
    <3>8. UNCHANGED applied BY <1>4 DEF Dispatched
    <3> QED BY <3>7, <3>8, Zenon DEF InChannel
  <2> QED BY <1>4, <2>1, <2>3, ConsumerStep DEF Dispatched
<1> QED BY <1>2, <1>3, <1>4

LEMMA UnitStep ==
  ASSUME ApiInv, NEW r \in DOMAIN ApiRequests, NEW i \in DOMAIN Cmds(r), NEW n,
         NEW j \in Units(Cmds(r)[i]), RunUnit(r, i, j, n)
  PROVE  ApiInv'
<1>1. PICK y : y = api[r] OBVIOUS
<1>2. IsRequest(y) BY <1>1 DEF ApiInv, ApiTypes
<1>3. PICK cmd : cmd = Cmds(r)[i] OBVIOUS
<1>4. PICK ch : ch = ChannelOf(cmd, j) OBVIOUS
<1>5. PICK d0 : d0 = [i |-> i, j |-> j, error |-> processCmd(cmd, ch, n)] OBVIOUS
<1>6. PICK x : api' = [api EXCEPT ![r] = x] /\ x = [y EXCEPT !.done = y.done \cup {d0}]
  BY <1>1, <1>3, <1>4, <1>5 DEF RunUnit
<1>7. IsRequest(x) /\ x.started = y.started /\ x.done = y.done \cup {d0} /\ x.pc = y.pc
  BY ONLY <1>2, <1>6 DEF IsRequest
<1>8. api'[r] = x /\ y.pc = "run" BY <1>1, <1>6 DEF ApiInv, ApiTypes, RunUnit
<1>9. i \in 1..y.started /\ ~CommandDone(r, i) /\ y.started \in Nat /\ i \in Nat
  BY <1>1, <1>2 DEF RunUnit, RunningCommands, IsRequest
<1>10. NodeApplies(r, i, ch, n) /\ (n # "ok" => Accepted(cmd, ch))
  BY <1>3, <1>4 DEF RunUnit
<1>11. /\ applied' \in Seq(Ops) /\ KeysInv' /\ Kept
       /\ \A k \in DOMAIN applied' : k \in DOMAIN applied \/ applied'[k] = [r |-> r, i |-> i, ch |-> ch]
       /\ \A k \in DOMAIN applied' \ DOMAIN applied : \A l \in DOMAIN applied' : l <= k
       /\ (Accepted(cmd, ch) /\ cmd.method \in Effectful /\ n # "failed") => InChannel(r, i, ch)'
  <2>1. ApiTypes /\ KeysInv BY DEF ApiInv
  <2>2. ch = ChannelOf(Cmds(r)[i], j) BY <1>3, <1>4, Zenon
  <2>3. Grown(r, i, ch, n)
    BY ONLY <1>9, <1>10, <2>1, <2>2, r \in DOMAIN ApiRequests, j \in Units(Cmds(r)[i]), Applying
  <2> QED BY ONLY <1>3, <2>3, Zenon DEF Grown
<1>12. \A k \in DOMAIN applied' : (k \in DOMAIN applied /\ applied'[k] = applied[k])
                                    \/ (k \notin DOMAIN applied /\ applied'[k].r = r /\ applied'[k].i = i)
  BY <1>11 DEF Kept
<1>13. DoneInv(r)'
  <2>1. DoneInv(r) BY DEF ApiInv
  <2> SUFFICES ASSUME NEW d \in x.done, d.error # "internal", Cmds(r)[d.i].method \in ConsumedMethods,
                      Accepted(Cmds(r)[d.i], ChannelOf(Cmds(r)[d.i], d.j))
               PROVE  InChannel(r, d.i, ChannelOf(Cmds(r)[d.i], d.j))'
    BY <1>8, Zenon DEF DoneInv
  <2>2. CASE d \in y.done
    <3>1. InChannel(r, d.i, ChannelOf(Cmds(r)[d.i], d.j)) BY <1>1, <2>1, <2>2, Zenon DEF DoneInv
    <3>2. PICK i2, c2 : i2 = d.i /\ c2 = ChannelOf(Cmds(r)[d.i], d.j) OBVIOUS
    <3>3. InChannel(r, i2, c2) BY ONLY <3>1, <3>2, Zenon
    <3>4. InChannel(r, i2, c2)' BY ONLY <3>3, <1>11, StillInChannel
    <3> QED BY ONLY <3>2, <3>4, Zenon DEF InChannel
  <2>3. CASE d = d0
    <3>1. d.i = i /\ d.j = j /\ d.error = processCmd(cmd, ch, n) BY ONLY <1>5, <2>3
    <3>2. cmd.method \in ConsumedMethods /\ Accepted(cmd, ch) BY <1>3, <1>4, <3>1, Zenon
    <3>3. d.error = NodeError(n) BY ONLY <3>1, <3>2, InternalError
    <3>4. n # "failed" BY <3>3 DEF NodeError
    <3>5. cmd.method \in Effectful BY <3>2 DEF ConsumedMethods, Effectful
    <3>6. InChannel(r, i, ch)' BY <1>11, <3>2, <3>4, <3>5
    <3> QED BY <1>3, <1>4, <3>1, <3>6, Zenon DEF InChannel
  <2> QED BY <1>7, <2>2, <2>3
<1>14. AckedInv(r)' BY <1>7, <1>8 DEF AckedInv
<1>15. ASSUME ~ApiRequests[r].parallel PROVE OrderInv(r)'
  <2>1. OrderInv(r) BY <1>15 DEF ApiInv
  <2>2. CASE Via(r) = "consumer"
    <3>1. i = 1 BY <2>2, ConsumedSingly DEF Via, Cmds
    <3>2. \A k \in DOMAIN applied' : applied'[k].r = r => applied'[k].i = 1
      BY ONLY <1>12, <2>1, <2>2, <3>1, Zenon DEF OrderInv
    <3>3. InOrder(r)'
      <4>1. 1 <= 1 OBVIOUS
      <4> QED BY ONLY <3>2, <4>1, Zenon DEF InOrder
    <3> QED BY ONLY <2>2, <3>2, <3>3, Zenon DEF OrderInv
  <2>3. CASE Via(r) # "consumer"
    <3>1. i = y.started
      <4>1. i \notin 1..(y.started - 1) BY <1>1, <1>9, <2>1, <2>3 DEF OrderInv
      <4> QED BY ONLY <1>9, <4>1
    <3>2. \A k \in DOMAIN applied : applied[k].r = r => applied[k].i \in 1..y.started
      BY <1>1, <2>1, <2>3 DEF OrderInv
    <3>3. \A k \in DOMAIN applied' : applied'[k].r = r => applied'[k].i \in 1..x.started
      BY ONLY <1>7, <1>9, <1>12, <3>2, Zenon
    <3>4. InOrder(r)'
      <4> SUFFICES ASSUME NEW k \in DOMAIN applied', NEW l \in DOMAIN applied', k < l,
                          applied'[k].r = r, applied'[l].r = r
                   PROVE  applied'[k].i <= applied'[l].i
        BY DEF InOrder
      <4>1. CASE l \notin DOMAIN applied
        <5>1. applied'[l].i = y.started BY ONLY <1>12, <3>1, <4>1, l \in DOMAIN applied'
        <5>2. applied'[k].i \in 1..y.started BY <1>7, <3>3
        <5> QED BY ONLY <1>9, <5>1, <5>2
      <4>2. CASE l \in DOMAIN applied /\ k \in DOMAIN applied
        BY <1>12, <2>1, <4>2 DEF OrderInv, InOrder
      <4>3. CASE k \notin DOMAIN applied
        <5>1. l <= k BY ONLY <1>11, <4>3, k \in DOMAIN applied', l \in DOMAIN applied'
        <5>2. k \in Nat /\ l \in Nat BY <1>11
        <5> QED BY ONLY <5>1, <5>2, k < l
      <4> QED BY <4>1, <4>2, <4>3
    <3>5. \A i2 : CommandDone(r, i2) => CommandDone(r, i2)'
      <4>1. \A d \in y.done : d \in x.done BY <1>7
      <4> QED BY ONLY <1>1, <1>8, <4>1, Zenon DEF CommandDone
    <3>6. x.pc # "new" BY <1>7, <1>8
    <3> QED BY ONLY <1>1, <1>7, <1>8, <2>1, <2>3, <3>3, <3>4, <3>5, <3>6, Zenon DEF OrderInv
  <2> QED BY <2>2, <2>3
<1>16. \A k \in DOMAIN applied' : k \in DOMAIN applied \/ applied'[k].r = r BY <1>12, Zenon
<1> QED BY ONLY ApiInv, r \in DOMAIN ApiRequests, <1>6, <1>7, <1>11, <1>13, <1>14, <1>15, <1>16, RequestStep

LEMMA ApiStep == ApiInv /\ [ApiNext]_apiVars => ApiInv'
<1> SUFFICES ASSUME ApiInv, [ApiNext]_apiVars PROVE ApiInv' OBVIOUS
<1>1. CASE UNCHANGED apiVars
  <2>1. UNCHANGED <<api, applied, remembered>> BY <1>1 DEF apiVars
  <2>2. KeysInv' BY <2>1, Zenon DEF ApiInv, KeysInv, KeyOf, CommandOf, Cmds
  <2>3. ApiTypes' BY <2>1 DEF ApiInv, ApiTypes
  <2>4. \A r, i, ch : InChannel(r, i, ch)' <=> InChannel(r, i, ch)
    BY <2>1, Zenon DEF InChannel, CommandOf, Cmds
  <2>5. \A r, i : CommandDone(r, i)' <=> CommandDone(r, i) BY <2>1, Zenon DEF CommandDone
  <2>6. ASSUME NEW r \in DOMAIN ApiRequests
        PROVE  DoneInv(r)' /\ AckedInv(r)' /\ (~ApiRequests[r].parallel => OrderInv(r)')
    <3>1. DoneInv(r)' BY <2>1, <2>4, Zenon DEF ApiInv, DoneInv
    <3>2. AckedInv(r)' BY <2>1, <2>4, Zenon DEF ApiInv, AckedInv
    <3>3. ~ApiRequests[r].parallel => OrderInv(r)'
      BY <2>1, <2>5, Zenon DEF ApiInv, OrderInv, InOrder
    <3> QED BY <3>1, <3>2, <3>3
  <2> QED BY <2>2, <2>3, <2>6, Zenon DEF ApiInv
<1>2. CASE ApiNext
  <2>1. PICK r \in DOMAIN ApiRequests :
          \/ Receive(r) \/ StartCommand(r)
          \/ \E i \in DOMAIN Cmds(r), n \in {"ok", "failed", "lost"} :
                \E j \in Units(Cmds(r)[i]) : RunUnit(r, i, j, n)
          \/ Answer(r) \/ LegacyDecodeError(r)
          \/ SkipUnsupported(r) \/ Dispatched(r) \/ Redeliver(r)
    BY <1>2, Zenon DEF ApiNext
  <2> QED BY <2>1, ReceiveStep, StartStep, UnitStep, AnswerStep, LegacyStep, ConsumedStep, Zenon
<1> QED BY <1>1, <1>2

\* Commands of the server API take effect as often and in the order their
\* transport promises: a consumed message is acknowledged only once every
\* channel that accepts it has it, no channel has what came with one
\* idempotency key twice, and the commands of a request that is not a
\* parallel batch take effect in their order (dispatchMethodPayload,
\* Broadcast, the batch and the legacy handlers), for any requests, channels
\* and failures.
THEOREM DispatchedSafety == ApiSpec => []DispatchedRight
<1>1. ApiInit => ApiInv
  <2> SUFFICES ASSUME ApiInit PROVE ApiInv OBVIOUS
  <2>1. api = [r \in DOMAIN ApiRequests |-> Idle0] /\ applied = <<>> /\ remembered = {} BY DEF ApiInit
  <2>2. DOMAIN applied = {} BY <2>1
  <2>3. \A r \in DOMAIN ApiRequests : /\ api[r].pc = "new" /\ api[r].started = 0 /\ api[r].done = {} /\ IsRequest(api[r])
    BY <2>1 DEF Idle0, IsRequest
  <2>4. ApiTypes BY <2>1, <2>3 DEF ApiTypes
  <2>5. KeysInv BY <2>1, <2>2 DEF KeysInv
  <2>6. ASSUME NEW r \in DOMAIN ApiRequests PROVE DoneInv(r) /\ AckedInv(r) /\ OrderInv(r)
    <3>1. DoneInv(r) /\ AckedInv(r) BY <2>3 DEF DoneInv, AckedInv
    <3>2. InOrder(r) BY ONLY <2>2 DEF InOrder
    <3>3. \A i \in 1..(api[r].started - 1) : FALSE BY <2>3
    <3>4. OrderInv(r) BY ONLY <2>2, <2>3, <3>2, <3>3, r \in DOMAIN ApiRequests DEF OrderInv
    <3> QED BY <3>1, <3>4
  <2> QED BY <2>4, <2>5, <2>6, Zenon DEF ApiInv
<1>2. ApiInv => DispatchedRight
  <2> SUFFICES ASSUME ApiInv PROVE DispatchedRight OBVIOUS
  <2>1. ConsumedOnce
    <3>1. \A r \in DOMAIN ApiRequests : AckedInv(r) BY Zenon DEF ApiInv
    <3> QED BY <3>1, Zenon DEF ApiInv, ConsumedOnce, AckedInv, KeysInv, KeyOf
  <2>2. SequentialInOrder
    <3> SUFFICES ASSUME NEW r \in DOMAIN ApiRequests, ~ApiRequests[r].parallel
                 PROVE  /\ InOrder(r)
                        /\ \A k \in DOMAIN applied : applied[k].r = r =>
                             \A i \in 1..(applied[k].i - 1) : CommandDone(r, i)
      BY Zenon DEF SequentialInOrder, InOrder
    <3>1. OrderInv(r) /\ IsRequest(api[r]) BY DEF ApiInv, ApiTypes
    <3>2. ASSUME NEW k \in DOMAIN applied, applied[k].r = r, NEW i \in 1..(applied[k].i - 1)
          PROVE  CommandDone(r, i)
      <4>1. CASE Via(r) = "consumer"
        <5>1. applied[k].i = 1 BY <3>1, <3>2, <4>1 DEF OrderInv
        <5> QED BY <5>1
      <4>2. CASE Via(r) # "consumer"
        <5>1. applied[k].i \in 1..api[r].started /\ api[r].started \in Nat
          BY <3>1, <3>2, <4>2 DEF OrderInv, IsRequest
        <5>2. i \in 1..(api[r].started - 1) BY <5>1
        <5> QED BY <3>1, <4>2, <5>2, Zenon DEF OrderInv
      <4> QED BY <4>1, <4>2
    <3> QED BY <3>1, <3>2, Zenon DEF OrderInv
  <2> QED BY <2>1, <2>2 DEF DispatchedRight
<1> QED BY <1>1, <1>2, ApiStep, PTL DEF ApiSpec

-----------------------------------------------------------------------------
(* WebSocket: what the peer's frames say, frame by frame.                  *)

WSFrames == [op : STRING, fin : BOOLEAN, long : BOOLEAN]

IsData(f) == f.op \notin Control
CorrectAt(s, i) ==
    IF s[i].op \in Control THEN s[i].fin ELSE s[i].op = IF Inside(s, i) THEN "cont" ELSE "text"
CorrectTo(s, n) == \A i \in 1..n : CorrectAt(s, i)
WholeTo(s, n) == {i \in 1..n : s[i].op \notin Control /\ s[i].fin}
GotTo(s, n) == Cardinality(WholeTo(s, n))

\* Whether a message is open after a frame.
LEMMA InsideNext ==
  ASSUME NEW s, NEW i \in Nat, i > 0
  PROVE  Inside(s, i + 1) <=> IF IsData(s[i]) THEN ~s[i].fin ELSE Inside(s, i)
<1>1. ASSUME Inside(s, i + 1) PROVE IF IsData(s[i]) THEN ~s[i].fin ELSE Inside(s, i)
  <2>1. PICK j \in 1..i : /\ s[j].op \notin Control /\ ~s[j].fin
                          /\ \A k \in (j + 1)..i : s[k].op \in Control
    BY <1>1 DEF Inside
  <2>2. CASE j = i BY <2>1, <2>2 DEF IsData
  <2>3. CASE j # i
    <3>1. j \in 1..(i - 1) /\ i \in (j + 1)..i /\ \A k \in (j + 1)..(i - 1) : k \in (j + 1)..i
      BY <2>3
    <3>2. ~IsData(s[i]) BY <2>1, <3>1 DEF IsData
    <3>3. Inside(s, i) BY <2>1, <3>1, Zenon DEF Inside
    <3> QED BY <3>2, <3>3
  <2> QED BY <2>2, <2>3
<1>2. ASSUME IsData(s[i]), ~s[i].fin PROVE Inside(s, i + 1)
  <2>1. i \in 1..((i + 1) - 1) /\ \A k \in (i + 1)..((i + 1) - 1) : FALSE OBVIOUS
  <2> QED BY <1>2, <2>1, Zenon DEF Inside, IsData
<1>3. ASSUME ~IsData(s[i]), Inside(s, i) PROVE Inside(s, i + 1)
  <2>1. PICK j \in 1..(i - 1) : /\ s[j].op \notin Control /\ ~s[j].fin
                                /\ \A k \in (j + 1)..(i - 1) : s[k].op \in Control
    BY <1>3 DEF Inside
  <2>2. j \in 1..((i + 1) - 1) /\ \A k \in (j + 1)..((i + 1) - 1) : k \in (j + 1)..(i - 1) \/ k = i
    OBVIOUS
  <2>3. \A k \in (j + 1)..((i + 1) - 1) : s[k].op \in Control
    BY <1>3, <2>1, <2>2, Zenon DEF IsData
  <2> QED BY <2>1, <2>2, <2>3, Zenon DEF Inside
<1> QED BY <1>1, <1>2, <1>3, Zenon

LEMMA NotInsideFirst ==
  ASSUME NEW s PROVE ~Inside(s, 1)
BY DEF Inside

\* How many messages are whole after a frame.
LEMMA GotNext ==
  ASSUME NEW s, NEW n \in Nat
  PROVE  /\ GotTo(s, n) \in Nat
         /\ GotTo(s, n + 1) = IF IsData(s[n + 1]) /\ s[n + 1].fin THEN GotTo(s, n) + 1 ELSE GotTo(s, n)
<1>1. IsFiniteSet(WholeTo(s, n))
  <2>1. IsFiniteSet(1..n) BY FS_Interval
  <2>2. WholeTo(s, n) \subseteq 1..n BY DEF WholeTo
  <2> QED BY <2>1, <2>2, FS_Subset
<1>2. GotTo(s, n) \in Nat BY <1>1, FS_CardinalityType DEF GotTo
<1>3. \A i \in 1..(n + 1) : i \in 1..n \/ i = n + 1 OBVIOUS
<1>4. n + 1 \in 1..(n + 1) /\ n + 1 \notin 1..n /\ \A i \in 1..n : i \in 1..(n + 1) OBVIOUS
<1>5. CASE IsData(s[n + 1]) /\ s[n + 1].fin
  <2>1. WholeTo(s, n + 1) = WholeTo(s, n) \cup {n + 1}
    BY ONLY <1>3, <1>4, <1>5, Zenon DEF WholeTo, IsData
  <2>2. n + 1 \notin WholeTo(s, n) BY <1>4 DEF WholeTo
  <2> QED BY <1>1, <1>2, <1>5, <2>1, <2>2, FS_AddElement DEF GotTo
<1>6. CASE ~(IsData(s[n + 1]) /\ s[n + 1].fin)
  <2>1. WholeTo(s, n + 1) = WholeTo(s, n)
    BY ONLY <1>3, <1>4, <1>6, Zenon DEF WholeTo, IsData
  <2> QED BY <1>2, <1>6, <2>1, Zenon DEF GotTo
<1> QED BY <1>2, <1>5, <1>6

LEMMA GotGrows ==
  ASSUME NEW s, NEW n \in Nat, NEW m \in 0..n
  PROVE  GotTo(s, m) <= GotTo(s, n)
<1>1. IsFiniteSet(WholeTo(s, n))
  <2>1. IsFiniteSet(1..n) BY FS_Interval
  <2>2. WholeTo(s, n) \subseteq 1..n BY DEF WholeTo
  <2> QED BY <2>1, <2>2, FS_Subset
<1>2. WholeTo(s, m) \subseteq WholeTo(s, n)
  <2>1. \A i \in 1..m : i \in 1..n OBVIOUS
  <2> QED BY <2>1, Zenon DEF WholeTo
<1> QED BY <1>1, <1>2, FS_Subset DEF GotTo

\* advanceFrame against the protocol: it objects exactly where the peer's
\* frames are wrong, and knows whether a message is open.
FrameError(final, f) ==
    CASE f.op \in Control -> ~f.fin
      [] f.op = "text"    -> ~final
      [] f.op = "cont"    -> final
      [] OTHER            -> TRUE

LEMMA FrameRight ==
  ASSUME NEW s, NEW i \in Nat, i > 0, NEW f, f = s[i], NEW final, final <=> ~Inside(s, i)
  PROVE  FrameError(final, f) <=> ~CorrectAt(s, i)
<1>1. CASE f.op \in Control BY <1>1, Zenon DEF FrameError, CorrectAt, Control
<1>2. CASE f.op \notin Control
  <2>1. PICK op : op = f.op OBVIOUS
  <2>2. CorrectAt(s, i) <=> op = IF Inside(s, i) THEN "cont" ELSE "text"
    BY <1>2, <2>1, Zenon DEF CorrectAt
  <2>3. FrameError(final, f) <=> CASE op = "text" -> ~final [] op = "cont" -> final [] OTHER -> TRUE
    BY <1>2, <2>1 DEF FrameError, Control
  <2>4. CASE Inside(s, i) BY <2>2, <2>3, <2>4
  <2>5. CASE ~Inside(s, i) BY <2>2, <2>3, <2>5
  <2> QED BY <2>4, <2>5
<1> QED BY <1>1, <1>2


-----------------------------------------------------------------------------
(* WebSocket: the reader.  What is still unread is the rest of what the    *)
(* peer sends, and the reader has judged all that is read.                 *)

IsReader(x) == x = [final |-> x.final, err |-> x.err, got |-> x.got] /\ x.final \in BOOLEAN /\ x.got \in Nat
Fresh == [final |-> TRUE, err |-> "none", got |-> 0]

\* q is the rest of the frames s after the first n.
Rest(s, q, n) ==
    /\ s \in Seq(WSFrames) /\ q \in Seq(WSFrames) /\ n \in Nat
    /\ Len(q) + n = Len(s) /\ \A i \in 1..Len(q) : q[i] = s[n + i]

\* x is what a reader is after n frames of s.
Judged(s, x, n) ==
    /\ IsReader(x) /\ \E m \in 0..n : x.got = GotTo(s, m)
    /\ x.err = "none" => CorrectTo(s, n) /\ x.got = GotTo(s, n) /\ (x.final <=> ~Inside(s, n + 1))
    /\ x.err = "protocol" => ~Correct(s)

ReadInv ==
    /\ peer = [script |-> peer.script, gone |-> peer.gone]
    /\ \E n : Rest(peer.script, inq, n) /\ Judged(peer.script, rd, n)
    /\ hd = "off" => rd = Fresh

\* At the start of a connection.
LEMMA ReadStarts ==
  ASSUME NEW s \in Seq(WSFrames)
  PROVE  Rest(s, s, 0) /\ Judged(s, Fresh, 0)
<1>1. Rest(s, s, 0) BY LenProperties DEF Rest
<1>2. IsReader(Fresh) BY DEF IsReader, Fresh
<1>3. GotTo(s, 0) = 0
  <2>1. WholeTo(s, 0) = {} BY DEF WholeTo
  <2> QED BY <2>1, FS_EmptySet DEF GotTo
<1>4. Fresh.final = TRUE /\ Fresh.err = "none" /\ Fresh.got = 0 BY DEF Fresh
<1>5. CorrectTo(s, 0) BY DEF CorrectTo
<1>6. ~Inside(s, 0 + 1) BY NotInsideFirst
<1>7. \E m \in 0..0 : 0 = GotTo(s, m) BY <1>3
<1>8. Judged(s, Fresh, 0) BY ONLY <1>2, <1>3, <1>4, <1>5, <1>6, <1>7, Zenon DEF Judged
<1> QED BY <1>1, <1>8

\* An error other than that of the protocol may come at any time.
LEMMA ReadErrs ==
  ASSUME NEW s, NEW x, NEW n \in Nat, Judged(s, x, n), NEW e, e \notin {"none", "protocol"}
  PROVE  Judged(s, [x EXCEPT !.err = e], n)
<1>1. PICK y : y = [x EXCEPT !.err = e] OBVIOUS
<1>2. IsReader(y) /\ y.err = e /\ y.got = x.got BY ONLY <1>1, Judged(s, x, n) DEF Judged, IsReader
<1> QED BY ONLY <1>1, <1>2, Judged(s, x, n), e \notin {"none", "protocol"} DEF Judged

\* The next frame.
LEMMA NextFrame ==
  ASSUME NEW s, NEW q, NEW n, NEW x, Rest(s, q, n), Judged(s, x, n), q # <<>>, x.err = "none",
         NEW f, f = Head(q)
  PROVE  /\ Rest(s, Tail(q), n + 1) /\ f \in WSFrames
         /\ FrameError(x.final, f) => Judged(s, [x EXCEPT !.err = "protocol"], n + 1)
         /\ Judged(s, [x EXCEPT !.err = "bufferFull"], n + 1)
         /\ ~FrameError(x.final, f) =>
              \A e : e # "protocol" =>
                Judged(s, [final |-> IF f.op \in Control THEN x.final ELSE f.fin, err |-> e,
                           got |-> IF IsData(f) /\ f.fin THEN x.got + 1 ELSE x.got], n + 1)
<1>1. /\ s \in Seq(WSFrames) /\ q \in Seq(WSFrames) /\ n \in Nat /\ Len(q) + n = Len(s)
      /\ \A i \in 1..Len(q) : q[i] = s[n + i]
  BY DEF Rest
<1>2. Len(q) \in Nat /\ Len(q) > 0 /\ f = q[1] /\ 1 \in 1..Len(q) BY ONLY <1>1, q # <<>>, f = Head(q)
<1>3. f = s[n + 1] /\ f \in WSFrames BY ONLY <1>1, <1>2
<1>4. Rest(s, Tail(q), n + 1)
  <2>1. PICK t : t = Tail(q) OBVIOUS
  <2>2. t \in Seq(WSFrames) /\ Len(t) = Len(q) - 1 /\ \A i \in 1..Len(t) : t[i] = q[i + 1]
    BY ONLY <1>1, <1>2, <2>1, q # <<>>
  <2>3. ASSUME NEW i \in 1..Len(t) PROVE t[i] = s[(n + 1) + i]
    <3>1. i + 1 \in 1..Len(q) /\ n + (i + 1) = (n + 1) + i BY ONLY <1>1, <1>2, <2>2, i \in 1..Len(t)
    <3> QED BY ONLY <1>1, <2>2, <3>1, i \in 1..Len(t)
  <2>4. n + 1 \in Nat /\ Len(t) + (n + 1) = Len(s)
    <3>1. ASSUME NEW a \in Nat, NEW b, b = a - 1, NEW c, a + n = c PROVE n + 1 \in Nat /\ b + (n + 1) = c
      BY ONLY <1>1, <3>1
    <3> QED BY ONLY <1>1, <1>2, <2>2, <3>1, Zenon
  <2> QED BY ONLY <1>1, <2>1, <2>2, <2>3, <2>4 DEF Rest
<1>5. /\ IsReader(x) /\ CorrectTo(s, n) /\ x.got = GotTo(s, n) /\ (x.final <=> ~Inside(s, n + 1))
  BY DEF Judged
<1>6. n + 1 \in 1..Len(s) BY ONLY <1>1, <1>2
<1>7. FrameError(x.final, f) <=> ~CorrectAt(s, n + 1)
  <2>1. PICK final, k : final = x.final /\ k = n + 1 OBVIOUS
  <2>2. k \in Nat /\ k > 0 BY ONLY <1>1, <2>1
  <2>3. final <=> ~Inside(s, k) BY ONLY <1>5, <2>1, Zenon
  <2>4. f = s[k] BY ONLY <1>3, <2>1, Zenon
  <2>5. FrameError(final, f) <=> ~CorrectAt(s, k) BY ONLY <2>2, <2>3, <2>4, FrameRight
  <2> QED BY ONLY <2>1, <2>5, Zenon
<1>8. \E m \in 0..(n + 1) : x.got = GotTo(s, m)
  <2>1. n \in 0..(n + 1) BY ONLY <1>1
  <2> QED BY ONLY <1>5, <2>1, Zenon
<1>9. ASSUME FrameError(x.final, f) PROVE Judged(s, [x EXCEPT !.err = "protocol"], n + 1)
  <2>1. PICK y : y = [x EXCEPT !.err = "protocol"] OBVIOUS
  <2>2. IsReader(y) /\ y.err = "protocol" /\ y.got = x.got BY ONLY <1>5, <2>1 DEF IsReader
  <2>3. ~Correct(s)
    <3>1. ~CorrectAt(s, n + 1) BY <1>7, <1>9, Zenon
    <3>2. n + 1 \in DOMAIN s BY ONLY <1>1, <1>6
    <3> QED BY ONLY <3>1, <3>2, Zenon DEF Correct, CorrectAt
  <2>4. "protocol" # "none" OBVIOUS
  <2> QED BY ONLY <1>8, <2>1, <2>2, <2>3, <2>4, Zenon DEF Judged
<1>10. Judged(s, [x EXCEPT !.err = "bufferFull"], n + 1)
  <2>1. PICK y : y = [x EXCEPT !.err = "bufferFull"] OBVIOUS
  <2>2. IsReader(y) /\ y.err = "bufferFull" /\ y.got = x.got BY ONLY <1>5, <2>1 DEF IsReader
  <2>3. "bufferFull" # "none" /\ "bufferFull" # "protocol" OBVIOUS
  <2> QED BY ONLY <1>8, <2>1, <2>2, <2>3, Zenon DEF Judged
<1>11. ASSUME ~FrameError(x.final, f), NEW e, e # "protocol",
              NEW y, y = [final |-> IF f.op \in Control THEN x.final ELSE f.fin, err |-> e,
                          got |-> IF IsData(f) /\ f.fin THEN x.got + 1 ELSE x.got]
       PROVE  Judged(s, y, n + 1)
  <2>1. /\ y.err = e /\ y.got = IF IsData(f) /\ f.fin THEN x.got + 1 ELSE x.got
        /\ y.final = IF f.op \in Control THEN x.final ELSE f.fin
        /\ y = [final |-> y.final, err |-> y.err, got |-> y.got]
    BY ONLY <1>11
  <2>2. y.final \in BOOLEAN BY ONLY <1>3, <1>5, <2>1 DEF IsReader, WSFrames
  <2>3. y.got \in Nat BY ONLY <1>5, <2>1 DEF IsReader
  <2>4. IsReader(y) BY ONLY <2>1, <2>2, <2>3 DEF IsReader
  <2>5. CorrectTo(s, n + 1)
    <3>1. CorrectAt(s, n + 1) BY <1>7, <1>11, Zenon
    <3>2. \A i \in 1..(n + 1) : i \in 1..n \/ i = n + 1 BY ONLY <1>1
    <3> QED BY ONLY <1>5, <3>1, <3>2, Zenon DEF CorrectTo
  <2>6. y.got = GotTo(s, n + 1)
    <3>1. GotTo(s, n + 1) = IF IsData(s[n + 1]) /\ s[n + 1].fin THEN GotTo(s, n) + 1 ELSE GotTo(s, n)
      BY ONLY <1>1, GotNext
    <3>2. CASE IsData(f) /\ f.fin
      <4>1. GotTo(s, n + 1) = GotTo(s, n) + 1 BY ONLY <1>3, <3>1, <3>2, Zenon
      <4>2. y.got = x.got + 1 BY ONLY <2>1, <3>2, Zenon
      <4> QED BY ONLY <1>5, <4>1, <4>2, Zenon
    <3>3. CASE ~(IsData(f) /\ f.fin)
      <4>1. GotTo(s, n + 1) = GotTo(s, n) BY ONLY <1>3, <3>1, <3>3, Zenon
      <4>2. y.got = x.got BY ONLY <2>1, <3>3, Zenon
      <4> QED BY ONLY <1>5, <4>1, <4>2, Zenon
    <3> QED BY <3>2, <3>3
  <2>7. y.final <=> ~Inside(s, (n + 1) + 1)
    <3>1. Inside(s, (n + 1) + 1) <=> IF IsData(s[n + 1]) THEN ~s[n + 1].fin ELSE Inside(s, n + 1)
      <4>1. n + 1 \in Nat /\ n + 1 > 0 BY ONLY <1>1
      <4> QED BY ONLY <4>1, InsideNext
    <3>2. CASE f.op \in Control
      <4>1. ~IsData(f) /\ y.final = x.final BY ONLY <2>1, <3>2 DEF IsData
      <4> QED BY ONLY <1>3, <1>5, <3>1, <4>1, Zenon
    <3>3. CASE f.op \notin Control
      <4>1. IsData(f) /\ y.final = f.fin BY ONLY <2>1, <3>3 DEF IsData
      <4> QED BY ONLY <1>3, <3>1, <4>1, Zenon
    <3> QED BY ONLY <3>2, <3>3
  <2>8. \E m \in 0..(n + 1) : y.got = GotTo(s, m)
    <3>1. n + 1 \in 0..(n + 1) BY ONLY <1>1
    <3> QED BY ONLY <2>6, <3>1, Zenon
  <2> QED BY ONLY <1>11, <2>1, <2>4, <2>5, <2>6, <2>7, <2>8, Zenon DEF Judged
<1> QED BY <1>3, <1>4, <1>9, <1>10, <1>11, Zenon

LEMMA ReadRight == ReadInv => ReadsWhatWasSent
<1> SUFFICES ASSUME ReadInv PROVE ReadsWhatWasSent OBVIOUS
<1>1. PICK s : s = peer.script OBVIOUS
<1>2. PICK x : x = rd OBVIOUS
<1>3. PICK n : Rest(s, inq, n) /\ Judged(s, x, n) BY <1>1, <1>2, Zenon DEF ReadInv
<1>4. s \in Seq(WSFrames) /\ inq \in Seq(WSFrames) /\ n \in Nat /\ Len(inq) + n = Len(s)
  BY <1>3 DEF Rest
<1>5. Len(s) \in Nat /\ Len(inq) \in Nat /\ DOMAIN s = 1..Len(s) BY ONLY <1>4
<1>6. Whole(s) = GotTo(s, Len(s)) BY ONLY <1>5, Zenon DEF Whole, GotTo, WholeTo
<1>7. x.got <= Whole(s)
  <2>1. PICK m \in 0..n : x.got = GotTo(s, m) BY <1>3 DEF Judged
  <2>2. m \in 0..Len(s) BY ONLY <1>4, <1>5, m \in 0..n
  <2>3. GotTo(s, m) <= GotTo(s, Len(s)) BY ONLY <1>5, <2>2, GotGrows
  <2> QED BY <1>6, <2>1, <2>3, Zenon
<1>8. x.err = "protocol" => ~Correct(s) BY <1>3, Zenon DEF Judged
<1>9. ASSUME x.err = "none", inq = <<>> PROVE Correct(s) /\ x.got = Whole(s)
  <2>1. n = Len(s) BY ONLY <1>4, <1>5, <1>9
  <2>2. CorrectTo(s, n) /\ x.got = GotTo(s, n) BY <1>3, <1>9, Zenon DEF Judged
  <2>3. Correct(s) BY ONLY <1>5, <2>1, <2>2, Zenon DEF Correct, CorrectTo, CorrectAt
  <2> QED BY ONLY <1>6, <2>1, <2>2, <2>3, Zenon
<1> QED BY ONLY <1>1, <1>2, <1>7, <1>8, <1>9, Zenon DEF ReadsWhatWasSent

\* Steps that leave the reader and its frames alone.
LEMMA ReadSame ==
  ASSUME ReadInv, UNCHANGED <<inq, rd>>, peer'.script = peer.script,
         peer' = [script |-> peer'.script, gone |-> peer'.gone], hd' = "off" => hd = "off"
  PROVE  ReadInv'
BY Zenon DEF ReadInv, Rest, Judged, WSFrames

\* Frame by frame.
LEMMA ReadFrameStep ==
  ASSUME ReadInv, ReadFrame, hd' # "off" PROVE ReadInv'
<1>1. PICK s, x, q : s = peer.script /\ x = rd /\ q = inq OBVIOUS
<1>2. PICK n : Rest(s, q, n) /\ Judged(s, x, n) BY <1>1, Zenon DEF ReadInv
<1>3. PICK f : f = Head(q) OBVIOUS
<1>4. q # <<>> /\ x.err = "none" /\ inq' = Tail(q) /\ UNCHANGED peer
  BY <1>1 DEF ReadFrame, CanRead
<1>5. /\ Rest(s, Tail(q), n + 1) /\ f \in WSFrames
      /\ FrameError(x.final, f) => Judged(s, [x EXCEPT !.err = "protocol"], n + 1)
      /\ Judged(s, [x EXCEPT !.err = "bufferFull"], n + 1)
      /\ ~FrameError(x.final, f) =>
              \A e : e # "protocol" =>
                Judged(s, [final |-> IF f.op \in Control THEN x.final ELSE f.fin, err |-> e,
                           got |-> IF IsData(f) /\ f.fin THEN x.got + 1 ELSE x.got], n + 1)
  BY ONLY <1>2, <1>3, <1>4, NextFrame, Zenon
<1>6. ProtocolError(f) <=> FrameError(x.final, f) BY <1>1, Zenon DEF ProtocolError, FrameError
<1>7. IsReader(x) BY <1>2 DEF Judged
<1>8. \E y : rd' = y /\ Judged(s, y, n + 1)
  <2>1. CASE ProtocolError(f)
    <3>1. rd' = [x EXCEPT !.err = "protocol"] BY <1>1, <1>3, <2>1, Zenon DEF ReadFrame
    <3> QED BY <1>5, <1>6, <2>1, <3>1, Zenon
  <2>2. CASE ~ProtocolError(f) /\ TooLong(f)
    <3>1. rd' = [x EXCEPT !.err = "bufferFull"] BY <1>1, <1>3, <2>2, Zenon DEF ReadFrame
    <3> QED BY <1>5, <3>1, Zenon
  <2>3. CASE ~ProtocolError(f) /\ ~TooLong(f)
    <3>1. rd' = [x EXCEPT !.final = IF f.op \in Control THEN x.final ELSE f.fin,
                          !.err = IF f.op = "close" THEN "close" ELSE x.err,
                          !.got = IF f.op \in {"text", "cont"} /\ f.fin THEN x.got + 1 ELSE x.got]
      BY <1>1, <1>3, <2>3 DEF ReadFrame, NextFinal
    <3>2. f.op \in {"text", "cont"} \/ f.op \in Control
      BY <1>6, <2>3 DEF FrameError
    <3>3. f.op \in {"text", "cont"} <=> IsData(f) BY ONLY <3>2 DEF IsData, Control
    <3>4. PICK e : e = IF f.op = "close" THEN "close" ELSE x.err OBVIOUS
    <3>5. e # "protocol" BY <1>4, <3>4
    <3>6. PICK a, g : /\ a = IF f.op \in Control THEN x.final ELSE f.fin
                      /\ g = IF f.op \in {"text", "cont"} /\ f.fin THEN x.got + 1 ELSE x.got
      OBVIOUS
    <3>7. g = IF IsData(f) /\ f.fin THEN x.got + 1 ELSE x.got BY ONLY <3>3, <3>6, Zenon
    <3>8. rd' = [x EXCEPT !.final = a, !.err = e, !.got = g] BY ONLY <3>1, <3>4, <3>6, Zenon
    <3>9. rd' = [final |-> a, err |-> e, got |-> g] BY ONLY <1>7, <3>8 DEF IsReader
    <3>10. Judged(s, [final |-> IF f.op \in Control THEN x.final ELSE f.fin, err |-> e,
                      got |-> IF IsData(f) /\ f.fin THEN x.got + 1 ELSE x.got], n + 1)
      BY ONLY <1>5, <1>6, <2>3, <3>5, Zenon
    <3>11. Judged(s, [final |-> a, err |-> e, got |-> g], n + 1) BY ONLY <3>6, <3>7, <3>10, Zenon
    <3> QED BY ONLY <3>9, <3>11, Zenon
  <2> QED BY <2>1, <2>2, <2>3
<1>9. \E m : Rest(s, inq', m) /\ Judged(s, rd', m)
  BY ONLY <1>4, <1>5, <1>8, Zenon
<1>10. peer' = peer /\ peer'.script = s BY <1>1, <1>4
<1>11. PICK m : Rest(s, inq', m) /\ Judged(s, rd', m) BY <1>9
<1>12. Rest(peer'.script, inq', m) /\ Judged(peer'.script, rd', m) BY ONLY <1>10, <1>11, Zenon
<1> QED BY <1>10, <1>12, Zenon DEF ReadInv, Rest, Judged, WSFrames

\* The reader stops with an error that is not the peer's fault.
LEMMA ReadErrStep ==
  ASSUME ReadInv, NEW e, e \notin {"none", "protocol"}, rd' = [rd EXCEPT !.err = e],
         UNCHANGED <<inq, peer>>, hd' # "off"
  PROVE  ReadInv'
<1>1. PICK s, x : s = peer.script /\ x = rd OBVIOUS
<1>2. PICK n : Rest(s, inq, n) /\ Judged(s, x, n) BY <1>1, Zenon DEF ReadInv
<1>3. n \in Nat BY <1>2 DEF Rest
<1>4. Judged(s, [x EXCEPT !.err = e], n) BY ONLY <1>2, <1>3, e \notin {"none", "protocol"}, ReadErrs
<1>5. Rest(s, inq', n) /\ Judged(s, rd', n) BY <1>1, <1>2, <1>4, Zenon
<1>6. peer' = peer /\ peer'.script = s BY <1>1
<1>7. Rest(peer'.script, inq', n) /\ Judged(peer'.script, rd', n) BY ONLY <1>5, <1>6, Zenon
<1> QED BY <1>6, <1>7, Zenon DEF ReadInv, Rest, Judged, WSFrames

-----------------------------------------------------------------------------
(* WebSocket: the writers.  Only the client's writer writes data, frame by *)
(* frame of one message, and the others write one control frame each.      *)

IsJob(x) == x = [pc |-> x.pc, frames |-> x.frames]
First == [op |-> "text", fin |-> FALSE, long |-> TRUE]
Last == [op |-> "cont", fin |-> TRUE, long |-> TRUE]
Only == [op |-> "text", fin |-> TRUE, long |-> TRUE]

DataJob(x) == IsJob(x) /\ (x.pc = "wait" => x.frames \in {<<Only>>, <<First, Last>>, <<Last>>})
ControlJob(x) == IsJob(x) /\ (x.pc = "wait" => \E op \in Control : x.frames = <<Frame(op)>>)
Halfway(x) == x.pc = "wait" /\ x.frames = <<Last>>

GoodJobs(J) ==
    /\ J = [a \in Actors |-> J[a]]
    /\ DataJob(J["writer"]) /\ \A a \in Actors \ {"writer"} : ControlJob(J[a])
IsClosing(c) == c = [by |-> c.by, pc |-> c.pc] /\ c.by \in Actors \ {"writer"}
JobsInv == GoodJobs(jobs) /\ IsClosing(closing)

\* The wire is inside a message exactly while the writer is.
WireInv ==
    /\ wire = [open |-> wire.open, over |-> wire.over, ok |-> wire.ok] /\ wire.ok
    /\ writeErr \in {"none", "closeSent", "failed"}
    /\ writeErr = "none" => ~wire.over /\ (wire.open <=> Halfway(jobs["writer"]))

\* The job of one goroutine changes.
JobOf(a, x) == IF a = "writer" THEN DataJob(x) ELSE ControlJob(x)

LEMMA GoodSet ==
  ASSUME NEW J, GoodJobs(J), NEW a \in Actors, NEW x, JobOf(a, x)
  PROVE  /\ GoodJobs([J EXCEPT ![a] = x])
         /\ [J EXCEPT ![a] = x]["writer"] = IF a = "writer" THEN x ELSE J["writer"]
<1>1. PICK K : K = [J EXCEPT ![a] = x] OBVIOUS
<1>2. "writer" \in Actors BY DEF Actors
<1>3. /\ K = [b \in Actors |-> K[b]] /\ K[a] = x /\ \A b \in Actors : b # a => K[b] = J[b]
  BY ONLY <1>1, a \in Actors, GoodJobs(J) DEF GoodJobs
<1>4. K["writer"] = IF a = "writer" THEN x ELSE J["writer"] BY ONLY <1>2, <1>3, Zenon
<1>5. DataJob(K["writer"]) BY <1>4, Zenon DEF GoodJobs, JobOf
<1>6. ASSUME NEW b \in Actors \ {"writer"} PROVE ControlJob(K[b])
  BY <1>3, Zenon DEF GoodJobs, JobOf
<1>7. GoodJobs(K) BY ONLY <1>3, <1>5, <1>6, Zenon DEF GoodJobs
<1> QED BY ONLY <1>1, <1>4, <1>7, Zenon

LEMMA JobStep ==
  ASSUME JobsInv, NEW a \in Actors, NEW x, JobOf(a, x), jobs' = [jobs EXCEPT ![a] = x],
         IsClosing(closing')
  PROVE  JobsInv' /\ jobs'["writer"] = IF a = "writer" THEN x ELSE jobs["writer"]
<1>1. PICK J : J = jobs OBVIOUS
<1>2. GoodJobs(J) BY <1>1, Zenon DEF JobsInv
<1>3. /\ GoodJobs([J EXCEPT ![a] = x])
      /\ [J EXCEPT ![a] = x]["writer"] = IF a = "writer" THEN x ELSE J["writer"]
  BY ONLY <1>2, a \in Actors, JobOf(a, x), GoodSet
<1>4. jobs' = [J EXCEPT ![a] = x] BY <1>1
<1>5. GoodJobs(jobs') BY ONLY <1>3, <1>4, Zenon
<1>6. JobsInv' BY <1>5, Zenon DEF JobsInv, GoodJobs, DataJob, ControlJob, IsJob, IsClosing
<1> QED BY ONLY <1>1, <1>3, <1>4, <1>6, Zenon

\* A control frame of another goroutine begins or is done with.
OtherJob(a, x) == a \in Actors \ {"writer"} /\ ControlJob(x)

LEMMA OtherJobStep ==
  ASSUME JobsInv, WireInv, NEW a, NEW x, OtherJob(a, x), jobs' = [jobs EXCEPT ![a] = x],
         UNCHANGED <<writeErr, wire>>, IsClosing(closing')
  PROVE  JobsInv' /\ WireInv'
<1>1. a \in Actors /\ a # "writer" /\ JobOf(a, x) BY Zenon DEF OtherJob, JobOf
<1>2. JobsInv' /\ jobs'["writer"] = jobs["writer"] BY <1>1, JobStep
<1>3. WireInv' BY <1>2, Zenon DEF WireInv, Halfway
<1> QED BY <1>2, <1>3

LEMMA NoJobIsControl == ControlJob(NoJob) /\ DataJob(NoJob) /\ ~Halfway(NoJob)
BY DEF ControlJob, DataJob, NoJob, IsJob, Halfway

LEMMA FrameIsControl ==
  ASSUME NEW op \in Control PROVE ControlJob([pc |-> "wait", frames |-> <<Frame(op)>>])
<1>1. PICK fs : fs = <<Frame(op)>> OBVIOUS
<1>2. PICK x : x = [pc |-> "wait", frames |-> fs] OBVIOUS
<1>3. IsJob(x) /\ x.frames = fs BY ONLY <1>2 DEF IsJob
<1>4. ControlJob(x) BY ONLY <1>1, <1>3, op \in Control, Zenon DEF ControlJob
<1> QED BY ONLY <1>1, <1>2, <1>4, Zenon

\* The writer takes a message that is not yet begun, or is done.
LEMMA WriterStep ==
  ASSUME JobsInv, WireInv, NEW x, DataJob(x), ~Halfway(x), writeErr = "none" => ~Halfway(jobs["writer"]),
         jobs' = [jobs EXCEPT !["writer"] = x], UNCHANGED <<writeErr, wire>>,
         IsClosing(closing')
  PROVE  JobsInv' /\ WireInv'
<1>1. "writer" \in Actors /\ JobOf("writer", x) BY DEF Actors, JobOf
<1>2. JobsInv' /\ jobs'["writer"] = x BY <1>1, JobStep
<1>3. WireInv' BY <1>2, Zenon DEF WireInv
<1> QED BY <1>2, <1>3

\* A job that does not wait any more.
LEMMA EndedJob ==
  ASSUME NEW x, NEW p, p # "wait", DataJob(x) \/ ControlJob(x)
  PROVE  /\ DataJob([x EXCEPT !.pc = p]) /\ ControlJob([x EXCEPT !.pc = p])
         /\ ~Halfway([x EXCEPT !.pc = p])
<1>1. PICK y : y = [x EXCEPT !.pc = p] OBVIOUS
<1>2. IsJob(x) BY DEF DataJob, ControlJob
<1>3. IsJob(y) /\ y.pc = p BY ONLY <1>1, <1>2 DEF IsJob
<1> QED BY ONLY <1>1, <1>3, p # "wait", Zenon DEF DataJob, ControlJob, Halfway

LEMMA DoneIsAJob ==
  ASSUME NEW x, x = [pc |-> "ok", frames |-> <<>>]
  PROVE  DataJob(x) /\ ControlJob(x) /\ ~Halfway(x)
<1>1. IsJob(x) /\ x.pc = "ok" BY DEF IsJob
<1> QED BY <1>1 DEF DataJob, ControlJob, Halfway

\* A write that finds the error of an earlier one, or fails.
LEMMA FailedStep ==
  ASSUME JobsInv, WireInv, NEW a \in Actors, NEW p, p # "wait", jobs' = [jobs EXCEPT ![a].pc = p],
         writeErr' \in {"closeSent", "failed"}, UNCHANGED closing,
         wire' = [open |-> wire'.open, over |-> wire'.over, ok |-> wire'.ok], wire'.ok
  PROVE  JobsInv' /\ WireInv'
<1>1. PICK x : x = [jobs[a] EXCEPT !.pc = p] OBVIOUS
<1>2. DataJob(jobs[a]) \/ ControlJob(jobs[a]) BY Zenon DEF JobsInv, GoodJobs
<1>3. PICK y : y = jobs[a] OBVIOUS
<1>4. DataJob([y EXCEPT !.pc = p]) /\ ControlJob([y EXCEPT !.pc = p])
  <2>1. DataJob(y) \/ ControlJob(y) BY ONLY <1>2, <1>3, Zenon
  <2> QED BY ONLY <2>1, p # "wait", EndedJob
<1>5. JobOf(a, x) BY ONLY <1>1, <1>3, <1>4, Zenon DEF JobOf
<1>6. jobs' = [jobs EXCEPT ![a] = x] BY <1>1
<1>7. IsClosing(closing') BY Zenon DEF JobsInv
<1>8. JobsInv' BY <1>5, <1>6, <1>7, JobStep
<1>9. WireInv' BY DEF WireInv
<1> QED BY <1>8, <1>9

\* One frame of any of them.
LEMMA WriteFrameStep ==
  ASSUME JobsInv, WireInv, NEW a \in Actors, WriteFrame(a), UNCHANGED closing
  PROVE  JobsInv' /\ WireInv'
<1>1. PICK x : x = jobs[a] OBVIOUS
<1>2. x.pc = "wait" BY <1>1 DEF WriteFrame
<1>3. IsClosing(closing') BY Zenon DEF JobsInv
<1>4. (a = "writer" => DataJob(x)) /\ (a # "writer" => ControlJob(x)) BY <1>1, Zenon DEF JobsInv, GoodJobs
<1>5. CASE writeErr # "none"
  <2>1. /\ jobs' = [jobs EXCEPT ![a].pc = writeErr] /\ UNCHANGED <<writeErr, wire>>
    BY <1>5, Zenon DEF WriteFrame
  <2>2. writeErr' \in {"closeSent", "failed"} /\ writeErr # "wait" BY <1>5, <2>1 DEF WireInv
  <2>3. wire' = [open |-> wire'.open, over |-> wire'.over, ok |-> wire'.ok] /\ wire'.ok
    BY <2>1, Zenon DEF WireInv
  <2> QED BY <2>1, <2>2, <2>3, FailedStep
<1>6. CASE writeErr = "none" /\ ws.pc = "closed"
  <2>1. /\ jobs' = [jobs EXCEPT ![a].pc = "failed"] /\ writeErr' = "failed" /\ UNCHANGED wire
    BY <1>6, Zenon DEF WriteFrame
  <2>2. writeErr' \in {"closeSent", "failed"} BY <2>1
  <2>3. wire' = [open |-> wire'.open, over |-> wire'.over, ok |-> wire'.ok] /\ wire'.ok
    BY <2>1, Zenon DEF WireInv
  <2> QED BY <2>1, <2>2, <2>3, FailedStep
<1>7. CASE writeErr = "none" /\ ws.pc # "closed"
  <2>1. PICK f : f = Head(x.frames) OBVIOUS
  <2>2. PICK y : y = AfterFrame(a) OBVIOUS
  <2>3. /\ wire' = OnWire(f) /\ jobs' = [jobs EXCEPT ![a] = y]
        /\ writeErr' = IF f.op = "close" THEN "closeSent" ELSE writeErr
    BY <1>1, <1>7, <2>1, <2>2, Zenon DEF WriteFrame
  <2>4. y = IF Len(x.frames) > 1 THEN [pc |-> "wait", frames |-> Tail(x.frames)]
            ELSE [pc |-> "ok", frames |-> <<>>]
    BY ONLY <1>1, <2>2, Zenon DEF AfterFrame
  <2>5. PICK v : v = wire' OBVIOUS
  <2>6. /\ v = [open |-> v.open, over |-> v.over, ok |-> v.ok]
        /\ v.open = (IF f.op \in Control THEN wire.open ELSE ~f.fin) /\ v.over = (f.op = "close")
        /\ v.ok = (wire.ok /\ ~wire.over /\ (f.op = "text" => ~wire.open) /\ (f.op = "cont" => wire.open))
    BY ONLY <2>3, <2>5 DEF OnWire
  <2>7. wire.ok /\ ~wire.over /\ (wire.open <=> Halfway(jobs["writer"])) BY <1>7 DEF WireInv
  <2>8. CASE a # "writer"
    <3>1. PICK op \in Control : x.frames = <<Frame(op)>> BY <1>2, <1>4, <2>8 DEF ControlJob
    <3>2. f.op = op /\ y = [pc |-> "ok", frames |-> <<>>] BY ONLY <2>1, <2>4, <3>1 DEF Frame
    <3>3. JobOf(a, y) BY ONLY <3>2, DoneIsAJob, Zenon DEF JobOf
    <3>4. JobsInv' /\ jobs'["writer"] = jobs["writer"] BY <1>3, <2>3, <2>8, <3>3, JobStep
    <3>5. f.op \in Control /\ f.op # "text" /\ f.op # "cont" BY ONLY <3>1, <3>2 DEF Control
    <3>6. v.open = wire.open /\ v.ok BY ONLY <2>6, <2>7, <3>5, Zenon
    <3>7. writeErr' = "none" => ~v.over BY ONLY <2>3, <2>6
    <3>8. writeErr' \in {"none", "closeSent", "failed"} BY <1>7, <2>3
    <3>9. WireInv' BY ONLY <2>5, <2>6, <2>7, <3>4, <3>6, <3>7, <3>8, Zenon DEF WireInv, Halfway
    <3> QED BY <3>4, <3>9
  <2>9. CASE a = "writer"
    <3>1. x = jobs["writer"] /\ x.frames \in {<<Only>>, <<First, Last>>, <<Last>>}
      BY <1>1, <1>2, <1>4, <2>9 DEF DataJob
    <3>2. <<First, Last>> # <<Last>> /\ <<Only>> # <<Last>> /\ <<First, Last>> # <<Only>> BY DEF First, Last, Only
    <3>3. /\ x.frames = <<Only>> => f = Only /\ y = [pc |-> "ok", frames |-> <<>>]
          /\ x.frames = <<First, Last>> => f = First /\ y = [pc |-> "wait", frames |-> <<Last>>]
          /\ x.frames = <<Last>> => f = Last /\ y = [pc |-> "ok", frames |-> <<>>]
      <4>1. CASE x.frames = <<Only>>
        <5>1. Head(x.frames) = Only /\ ~(Len(x.frames) > 1) BY ONLY <4>1
        <5> QED BY ONLY <2>1, <2>4, <3>2, <4>1, <5>1, Zenon
      <4>2. CASE x.frames = <<First, Last>>
        <5>1. Head(x.frames) = First /\ Len(x.frames) > 1 /\ Tail(x.frames) = <<Last>> BY ONLY <4>2
        <5> QED BY ONLY <2>1, <2>4, <3>2, <4>2, <5>1, Zenon
      <4>3. CASE x.frames = <<Last>>
        <5>1. Head(x.frames) = Last /\ ~(Len(x.frames) > 1) BY ONLY <4>3
        <5> QED BY ONLY <2>1, <2>4, <3>2, <4>3, <5>1, Zenon
      <4> QED BY ONLY <3>1, <4>1, <4>2, <4>3, Zenon
    <3>4. /\ f = Only => f.op = "text" /\ f.fin = TRUE
          /\ f = First => f.op = "text" /\ f.fin = FALSE
          /\ f = Last => f.op = "cont" /\ f.fin = TRUE
      BY DEF Only, First, Last
    <3>5. f.op \notin Control /\ f.op # "close" BY ONLY <3>1, <3>3, <3>4 DEF Control
    <3>6. writeErr' = "none" /\ v.over = FALSE BY ONLY <1>7, <2>3, <2>6, <3>5
    <3>7. v.open = ~f.fin BY ONLY <2>6, <3>5, Zenon
    <3>8. Halfway(x) <=> x.frames = <<Last>> BY ONLY <1>2, Zenon DEF Halfway
    <3>9. DataJob(y) /\ (Halfway(y) <=> f = First)
      <4>1. CASE x.frames = <<First, Last>>
        <5>1. y = [pc |-> "wait", frames |-> <<Last>>] BY <3>3, <4>1
        <5>2. PICK fs : fs = <<Last>> OBVIOUS
        <5>3. y = [pc |-> "wait", frames |-> fs] BY ONLY <5>1, <5>2, Zenon
        <5>4. IsJob(y) /\ y.pc = "wait" /\ y.frames = fs BY ONLY <5>3 DEF IsJob
        <5>5. DataJob(y) BY ONLY <5>2, <5>4, Zenon DEF DataJob
        <5>6. Halfway(y) BY ONLY <5>2, <5>4, Zenon DEF Halfway
        <5> QED BY <3>3, <4>1, <5>5, <5>6
      <4>2. CASE x.frames # <<First, Last>>
        <5>1. y = [pc |-> "ok", frames |-> <<>>] /\ (f = Only \/ f = Last) BY ONLY <3>1, <3>3, <4>2, Zenon
        <5>2. DataJob(y) /\ ~Halfway(y) BY ONLY <5>1, DoneIsAJob
        <5>3. Only # First /\ Last # First BY DEF Only, First, Last
        <5> QED BY ONLY <5>1, <5>2, <5>3, Zenon
      <4> QED BY <4>1, <4>2
    <3>10. JobOf(a, y) BY <2>9, <3>9, Zenon DEF JobOf
    <3>11. JobsInv' /\ jobs'["writer"] = y BY <1>3, <2>3, <2>9, <3>10, JobStep
    <3>12. v.ok
      <4>1. f.op = "text" => ~wire.open
        BY ONLY <2>7, <3>1, <3>2, <3>3, <3>4, <3>8
      <4>2. f.op = "cont" => wire.open
        BY ONLY <2>7, <3>1, <3>2, <3>3, <3>4, <3>8
      <4> QED BY ONLY <2>6, <2>7, <4>1, <4>2, Zenon
    <3>13. v.open <=> Halfway(y) BY ONLY <3>1, <3>3, <3>4, <3>7, <3>9
    <3>14. writeErr' \in {"none", "closeSent", "failed"} BY <3>6
    <3>15. WireInv' BY ONLY <2>5, <2>6, <3>6, <3>11, <3>12, <3>13, <3>14, Zenon DEF WireInv, Halfway
    <3> QED BY <3>11, <3>15
  <2> QED BY <2>8, <2>9
<1> QED BY <1>5, <1>6, <1>7

LEMMA WriteFailsStep ==
  ASSUME JobsInv, WireInv, NEW a \in Actors, WriteFails(a), UNCHANGED closing
  PROVE  JobsInv' /\ WireInv'
<1>1. /\ jobs' = [jobs EXCEPT ![a].pc = "failed"] /\ writeErr' = "failed" /\ writeErr = "none"
      /\ wire' = [wire EXCEPT !.over = TRUE, !.ok = @ /\ ~wire.over]
  BY DEF WriteFails
<1>2. wire = [open |-> wire.open, over |-> wire.over, ok |-> wire.ok] /\ wire.ok /\ ~wire.over
  BY <1>1 DEF WireInv
<1>3. PICK w : w = wire OBVIOUS
<1>4. wire' = [w EXCEPT !.over = TRUE, !.ok = w.ok /\ ~w.over] BY <1>1, <1>3
<1>5. PICK v : v = wire' OBVIOUS
<1>6. v = [open |-> v.open, over |-> v.over, ok |-> v.ok] /\ v.ok = (w.ok /\ ~w.over)
  BY ONLY <1>2, <1>3, <1>4, <1>5
<1>7. wire' = [open |-> wire'.open, over |-> wire'.over, ok |-> wire'.ok] /\ wire'.ok
  BY ONLY <1>2, <1>3, <1>5, <1>6, Zenon
<1>8. writeErr' \in {"closeSent", "failed"} BY <1>1
<1> QED BY <1>1, <1>7, <1>8, FailedStep

LEMMA TimesOutStep ==
  ASSUME JobsInv, WireInv, NEW a \in Actors, ControlTimesOut(a), UNCHANGED closing
  PROVE  JobsInv' /\ WireInv'
<1>1. PICK x : x = jobs[a] OBVIOUS
<1>2. /\ x.pc = "wait" /\ Head(x.frames).op \in Control /\ UNCHANGED <<writeErr, wire>>
      /\ jobs' = [jobs EXCEPT ![a] = [x EXCEPT !.pc = "timeout"]]
  BY <1>1 DEF ControlTimesOut
<1>3. a # "writer"
  <2>1. ASSUME a = "writer" PROVE FALSE
    <3>1. x.frames \in {<<Only>>, <<First, Last>>, <<Last>>} BY <1>1, <1>2, <2>1 DEF JobsInv, GoodJobs, DataJob
    <3>2. Head(x.frames) \in {Only, First, Last} BY ONLY <3>1
    <3> QED BY ONLY <1>2, <3>2 DEF Only, First, Last, Control
  <2> QED BY <2>1
<1>4. ControlJob(x) BY <1>1, <1>3, Zenon DEF JobsInv, GoodJobs
<1>5. ControlJob([x EXCEPT !.pc = "timeout"]) BY ONLY <1>4, EndedJob
<1>6. IsClosing(closing') BY Zenon DEF JobsInv
<1>7. OtherJob(a, [x EXCEPT !.pc = "timeout"]) BY <1>3, <1>5, Zenon DEF OtherJob
<1> QED BY <1>2, <1>6, <1>7, OtherJobStep

-----------------------------------------------------------------------------
(* WebSocket: both directions together.                                    *)

UniWSInv == ReadInv /\ JobsInv /\ WireInv

\* The parts the invariant is about.
LEMMA WriteSame ==
  ASSUME JobsInv, WireInv, UNCHANGED <<jobs, writeErr, wire>>, IsClosing(closing')
  PROVE  JobsInv' /\ WireInv'
BY Zenon DEF JobsInv, WireInv, GoodJobs, DataJob, ControlJob, IsJob, IsClosing, Halfway

\* Close by one of the goroutines that do not write data.  J are the jobs
\* when it is called.
LEMMA CloseStep ==
  ASSUME JobsInv, WireInv, NEW by \in Actors \ {"writer"}, NEW code, NEW J, CloseBegins(by, code, J),
         UNCHANGED <<writeErr, wire>>, GoodJobs(J),
         writeErr = "none" => (Halfway(J["writer"]) <=> Halfway(jobs["writer"]))
  PROVE  JobsInv' /\ WireInv'
<1>1. PICK c : c = [pc |-> "wait", frames |-> <<Frame("close")>>] OBVIOUS
<1>2. PICK K : K = [J EXCEPT ![by] = c] OBVIOUS
<1>3. GoodJobs(K) /\ K["writer"] = J["writer"]
  <2>1. "close" \in Control BY DEF Control
  <2>2. ControlJob(c) BY ONLY <1>1, <2>1, FrameIsControl
  <2>3. JobOf(by, c) /\ by \in Actors /\ by # "writer" BY <2>2, Zenon DEF JobOf
  <2>4. /\ GoodJobs([J EXCEPT ![by] = c])
        /\ [J EXCEPT ![by] = c]["writer"] = IF by = "writer" THEN c ELSE J["writer"]
    BY ONLY <2>3, GoodJobs(J), GoodSet
  <2> QED BY ONLY <1>2, <2>3, <2>4, Zenon
<1>4. jobs' = J \/ jobs' = K BY <1>1, <1>2, Zenon DEF CloseBegins
<1>5. GoodJobs(jobs') /\ jobs'["writer"] = J["writer"] BY ONLY <1>3, <1>4, GoodJobs(J), Zenon
<1>6. IsClosing(closing')
  <2>1. CASE closed
    <3>1. UNCHANGED closing BY <2>1 DEF CloseBegins
    <3> QED BY <3>1, Zenon DEF JobsInv
  <2>2. CASE ~closed
    <3>1. PICK pc : closing' = [by |-> by, pc |-> pc] BY <2>2 DEF CloseBegins
    <3> QED BY <3>1 DEF IsClosing
  <2> QED BY <2>1, <2>2
<1>7. JobsInv' BY <1>5, <1>6, Zenon DEF JobsInv, GoodJobs, DataJob, ControlJob, IsJob, IsClosing
<1>8. WireInv' BY <1>5, Zenon DEF WireInv, Halfway
<1> QED BY <1>7, <1>8

LEMMA ReadQuiet ==
  ASSUME ReadInv, UNCHANGED <<inq, peer, rd>>, hd' = "off" => hd = "off" PROVE ReadInv'
<1>1. peer' = peer OBVIOUS
<1>2. peer'.script = peer.script BY <1>1
<1>3. peer' = [script |-> peer'.script, gone |-> peer'.gone] BY <1>1, Zenon DEF ReadInv
<1> QED BY <1>2, <1>3, ReadSame

LEMMA StaysClosing ==
  ASSUME JobsInv, NEW pc, CloseAt(pc) PROVE IsClosing(closing')
<1>1. PICK c, d : c = closing /\ d = closing' OBVIOUS
<1>2. IsClosing(c) BY <1>1, Zenon DEF JobsInv
<1>3. d = [c EXCEPT !.pc = pc] BY <1>1 DEF CloseAt
<1>4. IsClosing(d) BY ONLY <1>2, <1>3 DEF IsClosing
<1> QED BY ONLY <1>1, <1>4, Zenon

\* The handler, the end of a close, the peer and the stream's deadline.
QuietActions ==
    \/ ServeReturns \/ ReadLoopEnds \/ WaitClose \/ HandlerEnds
    \/ (PeerGone /\ UNCHANGED handler) \/ (DeadlineResets /\ UNCHANGED handler)

LEMMA QuietSteps ==
  ASSUME UniWSInv, QuietActions PROVE UniWSInv'
<1>1. UNCHANGED <<jobs, writeErr, wire, closing>>
  BY Zenon DEF QuietActions, ServeReturns, ReadLoopEnds, WaitClose, HandlerEnds, PeerGone, DeadlineResets,
     wsconn, handler
<1>2. IsClosing(closing') BY <1>1, Zenon DEF UniWSInv, JobsInv
<1>3. JobsInv' /\ WireInv' BY <1>1, <1>2, WriteSame DEF UniWSInv
<1>4. hd' = "off" => hd = "off"
  BY DEF QuietActions, ServeReturns, ReadLoopEnds, WaitClose, HandlerEnds, handler
<1>5. CASE PeerGone /\ UNCHANGED handler
  <2>1. PICK p, r : p = peer /\ r = peer' OBVIOUS
  <2>2. p = [script |-> p.script, gone |-> p.gone] BY <2>1, Zenon DEF UniWSInv, ReadInv
  <2>3. r = [p EXCEPT !.gone = TRUE] BY <1>5, <2>1 DEF PeerGone
  <2>4. r.script = p.script /\ r = [script |-> r.script, gone |-> r.gone] BY ONLY <2>2, <2>3
  <2>5. peer'.script = peer.script /\ peer' = [script |-> peer'.script, gone |-> peer'.gone]
    BY ONLY <2>1, <2>4, Zenon
  <2>6. UNCHANGED <<inq, rd>> BY <1>5 DEF PeerGone
  <2>7. ReadInv' BY <1>4, <2>5, <2>6, ReadSame DEF UniWSInv
  <2> QED BY <1>3, <2>7 DEF UniWSInv
<1>6. CASE ~(PeerGone /\ UNCHANGED handler)
  <2>1. UNCHANGED <<inq, peer, rd>>
    BY <1>6, Zenon DEF QuietActions, ServeReturns, ReadLoopEnds, WaitClose, HandlerEnds, DeadlineResets,
       wsconn
  <2>2. ReadInv' BY <1>4, <2>1, ReadQuiet DEF UniWSInv
  <2> QED BY <1>3, <2>2 DEF UniWSInv
<1> QED BY <1>5, <1>6

LEMMA ServeStep ==
  ASSUME UniWSInv, NEW r \in Handshakes, Serve(r) PROVE UniWSInv'
<1>1. UNCHANGED <<jobs, writeErr, wire, closing, rd>> BY Zenon DEF Serve, Upgrade, wsconn
<1>2. IsClosing(closing') BY <1>1, Zenon DEF UniWSInv, JobsInv
<1>3. JobsInv' /\ WireInv' BY <1>1, <1>2, WriteSame DEF UniWSInv
<1>4. hd = "off" /\ hd' # "off" BY DEF Serve
<1>5. rd = Fresh BY <1>4, Zenon DEF UniWSInv, ReadInv
<1>6. CASE opt.request = "bad"
  <2>1. UNCHANGED <<inq, peer, rd>> BY <1>6 DEF Serve, wsconn
  <2>2. ReadInv' BY <1>4, <2>1, ReadQuiet DEF UniWSInv
  <2> QED BY <1>3, <2>2 DEF UniWSInv
<1>7. CASE opt.request # "bad"
  <2>1. PICK s : s = r.script OBVIOUS
  <2>2. s \in Seq(WSFrames) BY <2>1, HandshakesAssumption DEF WSFrames
  <2>3. Rest(s, s, 0) /\ Judged(s, Fresh, 0) BY ONLY <2>2, ReadStarts
  <2>4. PICK p, q : p = peer /\ q = peer' OBVIOUS
  <2>5. p = [script |-> p.script, gone |-> p.gone] BY <2>4, Zenon DEF UniWSInv, ReadInv
  <2>6. inq' = s /\ q = [p EXCEPT !.script = s] BY <1>7, <2>1, <2>4 DEF Serve, Upgrade
  <2>7. q.script = s /\ q = [script |-> q.script, gone |-> q.gone] BY ONLY <2>5, <2>6
  <2>8. peer'.script = s /\ peer' = [script |-> peer'.script, gone |-> peer'.gone] BY ONLY <2>4, <2>7, Zenon
  <2>9. Rest(peer'.script, inq', 0) /\ Judged(peer'.script, rd', 0)
    BY ONLY <1>1, <1>5, <2>3, <2>6, <2>8, Zenon
  <2>10. ReadInv' BY <1>4, <2>8, <2>9, Zenon DEF ReadInv, Rest, Judged, WSFrames
  <2> QED BY <1>3, <2>10 DEF UniWSInv
<1> QED BY <1>6, <1>7

\* One goroutine other than the writer begins a control frame or is done.
ControlActions == BadRequestSent \/ CloseFrameSent \/ GraceEnds \/ PingFires \/ FirstRequest

LEMMA BeginStep ==
  ASSUME JobsInv, WireInv, NEW a \in Actors \ {"writer"}, NEW op \in Control, Begin(a, <<Frame(op)>>),
         UNCHANGED <<writeErr, wire>>, IsClosing(closing')
  PROVE  JobsInv' /\ WireInv'
<1>1. PICK x : x = [pc |-> "wait", frames |-> <<Frame(op)>>] OBVIOUS
<1>2. OtherJob(a, x) BY <1>1, FrameIsControl, Zenon DEF OtherJob
<1>3. jobs' = [jobs EXCEPT ![a] = x] BY <1>1 DEF Begin
<1> QED BY <1>2, <1>3, OtherJobStep

LEMMA ResetStep ==
  ASSUME JobsInv, WireInv, NEW a \in Actors \ {"writer"}, Reset(a),
         UNCHANGED <<writeErr, wire>>, IsClosing(closing')
  PROVE  JobsInv' /\ WireInv'
<1>1. OtherJob(a, NoJob) BY NoJobIsControl, Zenon DEF OtherJob
<1>2. jobs' = [jobs EXCEPT ![a] = NoJob] BY DEF Reset
<1> QED BY <1>1, <1>2, OtherJobStep

LEMMA ControlSteps ==
  ASSUME UniWSInv, ControlActions PROVE UniWSInv'
<1>1. UNCHANGED <<inq, peer, rd, writeErr, wire>>
  BY Zenon DEF ControlActions, BadRequestSent, CloseFrameSent, GraceEnds, PingFires, FirstRequest, wsconn
<1>2. hd' = "off" => hd = "off"
  BY DEF ControlActions, BadRequestSent, CloseFrameSent, GraceEnds, PingFires, FirstRequest
<1>3. ReadInv' BY <1>1, <1>2, ReadQuiet DEF UniWSInv
<1>4. IsClosing(closing) BY DEF UniWSInv, JobsInv
<1>5. /\ "reader" \in Actors \ {"writer"} /\ "pinger" \in Actors \ {"writer"}
      /\ "ping" \in Control /\ "close" \in Control
  BY DEF Actors, Control
<1>6. JobsInv /\ WireInv BY DEF UniWSInv
<1>7. CASE BadRequestSent
  <2>1. Reset("reader") /\ UNCHANGED closing BY <1>7 DEF BadRequestSent
  <2>2. IsClosing(closing') BY <1>4, <2>1, Zenon
  <2>3. JobsInv' /\ WireInv' BY ONLY <1>1, <1>5, <1>6, <2>1, <2>2, ResetStep
  <2> QED BY <1>3, <2>3 DEF UniWSInv
<1>8. CASE CloseFrameSent
  <2>1. PICK by : by = closing.by OBVIOUS
  <2>2. Reset(by) /\ by \in Actors \ {"writer"} BY <1>4, <1>8, <2>1 DEF CloseFrameSent, IsClosing
  <2>3. PICK pc : CloseAt(pc) BY <1>8 DEF CloseFrameSent, ConnClose
  <2>4. IsClosing(closing') BY ONLY <1>6, <2>3, StaysClosing
  <2>5. JobsInv' /\ WireInv' BY ONLY <1>1, <1>6, <2>2, <2>4, ResetStep
  <2> QED BY <1>3, <2>5 DEF UniWSInv
<1>9. CASE GraceEnds
  <2>1. CloseAt("done") /\ UNCHANGED jobs BY <1>9 DEF GraceEnds, ConnClose
  <2>2. IsClosing(closing') BY ONLY <1>6, <2>1, StaysClosing
  <2>3. JobsInv' /\ WireInv' BY <1>1, <1>6, <2>1, <2>2, WriteSame
  <2> QED BY <1>3, <2>3 DEF UniWSInv
<1>10. CASE PingFires
  <2>1. Begin("pinger", <<Frame("ping")>>) /\ UNCHANGED closing BY <1>10 DEF PingFires
  <2>2. IsClosing(closing') BY <1>4, <2>1, Zenon
  <2>3. JobsInv' /\ WireInv' BY ONLY <1>1, <1>5, <1>6, <2>1, <2>2, BeginStep
  <2> QED BY <1>3, <2>3 DEF UniWSInv
<1>11. CASE FirstRequest
  <2>1. UNCHANGED closing BY <1>11 DEF FirstRequest
  <2>2. IsClosing(closing') BY <1>4, <2>1, Zenon
  <2>3. CASE UNCHANGED wsconn
    <3>1. UNCHANGED jobs BY <2>3 DEF wsconn
    <3>2. JobsInv' /\ WireInv' BY <1>1, <1>6, <2>2, <3>1, WriteSame
    <3> QED BY <1>3, <3>2 DEF UniWSInv
  <2>4. CASE Begin("reader", <<Frame("close")>>)
    <3>1. JobsInv' /\ WireInv' BY ONLY <1>1, <1>5, <1>6, <2>2, <2>4, BeginStep
    <3> QED BY <1>3, <3>1 DEF UniWSInv
  <2> QED BY <1>11, <2>3, <2>4 DEF FirstRequest
<1> QED BY <1>7, <1>8, <1>9, <1>10, <1>11 DEF ControlActions

\* The client's writer, and whoever calls Close.
ClosingActions == StartTransport \/ CloseFn \/ PingDone \/ Push \/ PushDone \/ ServerDisconnects

LEMMA ClosingSteps ==
  ASSUME UniWSInv, ClosingActions PROVE UniWSInv'
<1>1. UNCHANGED <<inq, peer, rd, writeErr, wire>>
  BY Zenon DEF ClosingActions, StartTransport, CloseFn, PingDone, Push, PushDone, ServerDisconnects
<1>2. hd' = "off" => hd = "off"
  BY DEF ClosingActions, StartTransport, CloseFn, PingDone, Push, PushDone, ServerDisconnects
<1>3. ReadInv' BY <1>1, <1>2, ReadQuiet DEF UniWSInv
<1>4. IsClosing(closing) BY DEF UniWSInv, JobsInv
<1>5. /\ "reader" \in Actors \ {"writer"} /\ "pinger" \in Actors \ {"writer"}
      /\ "closer" \in Actors \ {"writer"} /\ "writer" \in Actors
  BY DEF Actors
<1>6. JobsInv /\ WireInv BY DEF UniWSInv
<1>7. PICK J : J = jobs OBVIOUS
<1>8. GoodJobs(J) BY <1>6, <1>7, Zenon DEF JobsInv
<1>9. ASSUME NEW by \in Actors \ {"writer"}, NEW code, CloseBegins(by, code, jobs) PROVE UniWSInv'
  <2>1. CloseBegins(by, code, J) BY <1>7, <1>9, Zenon
  <2>2. writeErr = "none" => (Halfway(J["writer"]) <=> Halfway(jobs["writer"])) BY <1>7, Zenon
  <2>3. JobsInv' /\ WireInv' BY ONLY <1>1, <1>6, <1>8, <1>9, <2>1, <2>2, CloseStep
  <2> QED BY <1>3, <2>3 DEF UniWSInv
<1>10. ASSUME UNCHANGED <<jobs, closing>> PROVE UniWSInv'
  <2>1. IsClosing(closing') BY <1>4, <1>10, Zenon
  <2>2. JobsInv' /\ WireInv' BY ONLY <1>1, <1>6, <1>10, <2>1, WriteSame
  <2> QED BY <1>3, <2>2 DEF UniWSInv
<1>11. CASE StartTransport
  BY <1>5, <1>9, <1>10, <1>11, Zenon DEF StartTransport
<1>12. CASE CloseFn
  BY <1>5, <1>9, <1>10, <1>12, Zenon DEF CloseFn
<1>13. CASE ServerDisconnects
  BY <1>5, <1>9, <1>13, Zenon DEF ServerDisconnects
<1>14. CASE PingDone
  <2>1. CASE Reset("pinger") /\ UNCHANGED closing
    <3>1. IsClosing(closing') BY <1>4, <2>1, Zenon
    <3>2. JobsInv' /\ WireInv' BY ONLY <1>1, <1>5, <1>6, <2>1, <3>1, ResetStep
    <3> QED BY <1>3, <3>2 DEF UniWSInv
  <2>2. CASE CloseBegins("pinger", "writeError", [jobs EXCEPT !["pinger"] = NoJob])
    <3>1. PICK a : a = "pinger" OBVIOUS
    <3>2. a \in Actors \ {"writer"} /\ a \in Actors /\ a # "writer" BY <1>5, <3>1
    <3>3. JobOf(a, NoJob) BY NoJobIsControl, <3>2, Zenon DEF JobOf
    <3>4. PICK K : K = [J EXCEPT ![a] = NoJob] OBVIOUS
    <3>5. /\ GoodJobs([J EXCEPT ![a] = NoJob])
          /\ [J EXCEPT ![a] = NoJob]["writer"] = IF a = "writer" THEN NoJob ELSE J["writer"]
      BY ONLY <1>8, <3>2, <3>3, GoodSet
    <3>6. GoodJobs(K) /\ K["writer"] = J["writer"] BY ONLY <3>2, <3>4, <3>5, Zenon
    <3>7. CloseBegins(a, "writeError", K) BY <1>7, <2>2, <3>1, <3>4, Zenon
    <3>8. writeErr = "none" => (Halfway(K["writer"]) <=> Halfway(jobs["writer"])) BY <1>7, <3>6, Zenon
    <3>9. JobsInv' /\ WireInv' BY ONLY <1>1, <1>6, <3>2, <3>6, <3>7, <3>8, CloseStep
    <3> QED BY <1>3, <3>9 DEF UniWSInv
  <2> QED BY <1>14, <2>1, <2>2, Zenon DEF PingDone
<1>15. CASE Push
  <2>1. PICK x : x = [pc |-> "wait", frames |-> MessageFrames] OBVIOUS
  <2>2. jobs' = [jobs EXCEPT !["writer"] = x] /\ jobs["writer"] = NoJob /\ UNCHANGED closing
    BY <1>15, <2>1 DEF Push, Begin, Idle
  <2>3. PICK fs : fs = MessageFrames OBVIOUS
  <2>4. fs \in {<<Only>>, <<First, Last>>} BY <2>3 DEF MessageFrames, Only, First, Last
  <2>5. x = [pc |-> "wait", frames |-> fs] BY <2>1, <2>3, Zenon
  <2>6. IsJob(x) /\ x.frames = fs BY ONLY <2>5 DEF IsJob
  <2>7. <<First, Last>> # <<Last>> /\ <<Only>> # <<Last>> BY DEF First, Last, Only
  <2>8. DataJob(x) /\ ~Halfway(x) BY ONLY <2>4, <2>6, <2>7, Zenon DEF DataJob, Halfway
  <2>9. writeErr = "none" => ~Halfway(jobs["writer"]) BY <2>2, NoJobIsControl, Zenon
  <2>10. IsClosing(closing') BY <1>4, <2>2, Zenon
  <2>11. JobsInv' /\ WireInv' BY ONLY <1>1, <1>6, <2>2, <2>8, <2>9, <2>10, WriterStep
  <2> QED BY <1>3, <2>11 DEF UniWSInv
<1>16. CASE PushDone
  <2>1. jobs["writer"].pc # "wait" BY <1>16 DEF PushDone, Result
  <2>2. ~Halfway(jobs["writer"]) BY <2>1 DEF Halfway
  <2>3. CASE Reset("writer") /\ UNCHANGED closing
    <3>1. jobs' = [jobs EXCEPT !["writer"] = NoJob] BY <2>3 DEF Reset
    <3>2. IsClosing(closing') BY <1>4, <2>3, Zenon
    <3>3. JobsInv' /\ WireInv' BY ONLY <1>1, <1>6, <2>2, <3>1, <3>2, NoJobIsControl, WriterStep
    <3> QED BY <1>3, <3>3 DEF UniWSInv
  <2>4. CASE CloseBegins("closer", "writeError", [jobs EXCEPT !["writer"] = NoJob])
    <3>1. PICK a : a = "writer" OBVIOUS
    <3>2. JobOf(a, NoJob) /\ a \in Actors BY <1>5, NoJobIsControl, <3>1, Zenon DEF JobOf
    <3>3. PICK K : K = [J EXCEPT ![a] = NoJob] OBVIOUS
    <3>4. /\ GoodJobs([J EXCEPT ![a] = NoJob])
          /\ [J EXCEPT ![a] = NoJob]["writer"] = IF a = "writer" THEN NoJob ELSE J["writer"]
      BY ONLY <1>8, <3>2, GoodSet
    <3>5. GoodJobs(K) /\ K["writer"] = NoJob BY ONLY <3>1, <3>3, <3>4, Zenon
    <3>6. CloseBegins("closer", "writeError", K) BY <1>7, <2>4, <3>1, <3>3, Zenon
    <3>7. writeErr = "none" => (Halfway(K["writer"]) <=> Halfway(jobs["writer"]))
      BY <2>2, <3>5, NoJobIsControl, Zenon
    <3>8. JobsInv' /\ WireInv' BY ONLY <1>1, <1>5, <1>6, <3>5, <3>6, <3>7, CloseStep
    <3> QED BY <1>3, <3>8 DEF UniWSInv
  <2> QED BY <1>16, <2>3, <2>4, Zenon DEF PushDone
<1> QED BY <1>11, <1>12, <1>13, <1>14, <1>15, <1>16 DEF ClosingActions

\* The reader, with the replies it writes.
LEMMA ReaderSteps ==
  ASSUME UniWSInv, ReadNext \/ ReadDeadline PROVE UniWSInv'
<1>1. hd # "off" /\ UNCHANGED <<hd, closing>> BY DEF ReadNext, ReadDeadline, Reads, handler
<1>2. hd' # "off" BY <1>1
<1>3. IsClosing(closing') BY <1>1, Zenon DEF UniWSInv, JobsInv
<1>4. JobsInv /\ WireInv /\ ReadInv BY DEF UniWSInv
<1>5. "reader" \in Actors \ {"writer"} /\ "pong" \in Control /\ "close" \in Control BY DEF Actors, Control
<1>6. CASE ReadFrame
  <2>1. ReadInv' BY <1>2, <1>4, <1>6, ReadFrameStep
  <2>2. UNCHANGED <<writeErr, wire>> BY <1>6 DEF ReadFrame
  <2>3. \/ UNCHANGED jobs \/ Begin("reader", <<Frame("pong")>>) \/ Begin("reader", <<Frame("close")>>)
    BY <1>6, Zenon DEF ReadFrame
  <2>4. CASE UNCHANGED jobs
    <3>1. JobsInv' /\ WireInv' BY ONLY <1>3, <1>4, <2>2, <2>4, WriteSame
    <3> QED BY <2>1, <3>1 DEF UniWSInv
  <2>5. CASE Begin("reader", <<Frame("pong")>>)
    <3>1. JobsInv' /\ WireInv' BY ONLY <1>3, <1>4, <1>5, <2>2, <2>5, BeginStep
    <3> QED BY <2>1, <3>1 DEF UniWSInv
  <2>6. CASE Begin("reader", <<Frame("close")>>)
    <3>1. JobsInv' /\ WireInv' BY ONLY <1>3, <1>4, <1>5, <2>2, <2>6, BeginStep
    <3> QED BY <2>1, <3>1 DEF UniWSInv
  <2> QED BY <2>3, <2>4, <2>5, <2>6
<1>7. CASE ReplyDone
  <2>1. Reset("reader") /\ UNCHANGED <<inq, peer, writeErr, wire>> BY <1>7 DEF ReplyDone, Reset
  <2>2. JobsInv' /\ WireInv' BY ONLY <1>3, <1>4, <1>5, <2>1, ResetStep
  <2>3. PICK e : rd' = [rd EXCEPT !.err = e] /\ e = (IF rd.err = "none" /\ ReaderEnded("reader", "failed") THEN "io" ELSE rd.err)
    BY <1>7 DEF ReplyDone
  <2>4. CASE e = "io"
    <3>1. ReadInv' BY <1>2, <1>4, <2>1, <2>3, <2>4, ReadErrStep
    <3> QED BY <2>2, <3>1 DEF UniWSInv
  <2>5. CASE e = rd.err
    <3>1. PICK x : x = rd OBVIOUS
    <3>2. IsReader(x) BY <1>4, <3>1, Zenon DEF ReadInv, Judged
    <3>3. [x EXCEPT !.err = x.err] = x BY ONLY <3>2 DEF IsReader
    <3>4. UNCHANGED rd BY <2>3, <2>5, <3>1, <3>3
    <3>5. ReadInv' BY <1>2, <1>4, <2>1, <3>4, ReadQuiet
    <3> QED BY <2>2, <3>5 DEF UniWSInv
  <2> QED BY <2>3, <2>4, <2>5
<1>8. CASE ReadFails \/ ReadDeadline
  <2>1. rd' = [rd EXCEPT !.err = "io"] /\ UNCHANGED <<inq, peer, jobs, writeErr, wire>>
    BY <1>8 DEF ReadFails, ReadDeadline
  <2>2. JobsInv' /\ WireInv' BY <1>3, <1>4, <2>1, WriteSame
  <2>3. PICK e : e = "io" OBVIOUS
  <2>4. e \notin {"none", "protocol"} /\ rd' = [rd EXCEPT !.err = e] BY <2>1, <2>3
  <2>5. ReadInv' BY <1>2, <1>4, <2>1, <2>4, ReadErrStep
  <2> QED BY <2>2, <2>5 DEF UniWSInv
<1> QED BY <1>6, <1>7, <1>8, Zenon DEF ReadNext, ReaderStep

LEMMA WritesStep ==
  ASSUME UniWSInv, NEW a \in Actors, Writes(a) PROVE UniWSInv'
<1>1. UNCHANGED <<hd, closing>> BY DEF Writes, handler
<1>2. UNCHANGED <<inq, peer, rd>> BY Zenon DEF Writes, WriteFrame, WriteFails, ControlTimesOut
<1>3. ReadInv' BY <1>1, <1>2, ReadQuiet DEF UniWSInv
<1>4. JobsInv' /\ WireInv'
  BY <1>1, WriteFrameStep, WriteFailsStep, TimesOutStep, Zenon DEF Writes, UniWSInv
<1> QED BY <1>3, <1>4 DEF UniWSInv

LEMMA UniWSStep == UniWSInv /\ [UniWSNext]_uniws => UniWSInv'
<1> SUFFICES ASSUME UniWSInv, [UniWSNext]_uniws PROVE UniWSInv' OBVIOUS
<1>1. CASE UNCHANGED uniws
  <2>1. UNCHANGED <<inq, peer, rd, hd, jobs, writeErr, wire, closing>> BY <1>1, Zenon DEF uniws, wsconn, handler
  <2>2. IsClosing(closing') BY <2>1, Zenon DEF UniWSInv, JobsInv
  <2>3. ReadInv' BY <2>1, ReadQuiet DEF UniWSInv
  <2>4. JobsInv' /\ WireInv' BY <2>1, <2>2, WriteSame DEF UniWSInv
  <2> QED BY <2>3, <2>4 DEF UniWSInv
<1>2. CASE UniWSNext
  <2>1. \/ \E r \in Handshakes : Serve(r)
        \/ QuietActions \/ ControlActions \/ ClosingActions \/ ReadNext \/ ReadDeadline
        \/ \E a \in Actors : Writes(a)
    BY <1>2, Zenon DEF UniWSNext, QuietActions, ControlActions, ClosingActions
  <2> QED BY <2>1, ServeStep, QuietSteps, ControlSteps, ClosingSteps, ReaderSteps, WritesStep, Zenon
<1> QED BY <1>1, <1>2

\* Both directions of a WebSocket connection keep to the protocol: whatever
\* the writer, the reader's replies, the ping timer and a close do to each
\* other, the peer finds well-formed frames, and the application gets the
\* messages the peer has finished (WriteControl, flushFrame, advanceFrame),
\* for any frames of the peer.
THEOREM FramesSafety == UniWSSpec => []FramesRight
<1>1. UniWSInit => UniWSInv
  <2> SUFFICES ASSUME UniWSInit PROVE UniWSInv OBVIOUS
  <2>1. /\ inq = <<>> /\ peer = [script |-> <<>>, gone |-> FALSE] /\ rd = Fresh
        /\ jobs = [a \in Actors |-> NoJob] /\ writeErr = "none"
        /\ wire = [open |-> FALSE, over |-> FALSE, ok |-> TRUE] /\ closing = [by |-> "closer", pc |-> "off"]
    BY DEF UniWSInit, ConnInit, Fresh
  <2>2. ReadInv
    <3>1. PICK s : s = <<>> OBVIOUS
    <3>2. s \in Seq(WSFrames) BY <3>1
    <3>3. Rest(s, s, 0) /\ Judged(s, Fresh, 0) BY ONLY <3>2, ReadStarts
    <3>4. peer.script = s /\ peer = [script |-> peer.script, gone |-> peer.gone] /\ inq = s
      BY ONLY <2>1, <3>1
    <3>5. Rest(peer.script, inq, 0) /\ Judged(peer.script, rd, 0) BY ONLY <2>1, <3>3, <3>4, Zenon
    <3> QED BY ONLY <2>1, <3>4, <3>5, Zenon DEF ReadInv
  <2>3. \A a \in Actors : jobs[a] = NoJob BY <2>1
  <2>4. jobs["writer"] = NoJob /\ "closer" \in Actors \ {"writer"} BY <2>3 DEF Actors
  <2>5. jobs = [a \in Actors |-> jobs[a]] BY <2>1
  <2>6. IsClosing(closing) BY <2>1, <2>4 DEF IsClosing
  <2>7. GoodJobs(jobs) BY ONLY <2>3, <2>4, <2>5, NoJobIsControl, Zenon DEF GoodJobs
  <2>8. wire.open = FALSE /\ wire.over = FALSE /\ wire.ok = TRUE BY <2>1
  <2>9. wire = [open |-> wire.open, over |-> wire.over, ok |-> wire.ok] BY <2>1
  <2>10. WireInv BY ONLY <2>1, <2>4, <2>8, <2>9, NoJobIsControl, Zenon DEF WireInv
  <2> QED BY <2>2, <2>6, <2>7, <2>10 DEF UniWSInv, JobsInv
<1>2. UniWSInv => FramesRight
  BY ReadRight DEF UniWSInv, WireInv, FramesRight, WireWellFormed
<1> QED BY <1>1, <1>2, UniWSStep, PTL DEF UniWSSpec

-----------------------------------------------------------------------------
(* Unidirectional transports: who may still write to the response.         *)

\* closedCh is closed by a deferred call of the handler, which is past its
\* loop then: the writer gives up its wait only when nobody writes for it.
UniInv ==
    /\ uh = [pc |-> uh.pc, defers |-> uh.defers]
    /\ closedCh => uh.pc \in {"return", "ended"}
    /\ NoWriteAfterReturn

LEMMA UniInvInit == UniInit => UniInv
BY DEF UniInit, UniInv, NoWriteAfterReturn

\* Where a step leaves the handler.
LEMMA HandlerMoves ==
  ASSUME UniInv, NEW pc, HandlerAt(pc)
  PROVE  uh' = [pc |-> pc, defers |-> uh.defers]
BY DEF UniInv, HandlerAt

LEMMA UniInvStep == UniInv /\ [UniNext]_uni => UniInv'
<1> SUFFICES ASSUME UniInv, [UniNext]_uni PROVE UniInv'
  OBVIOUS
<1>1. CASE ServeRequest
  <2>1. \E d : uh' = [pc |-> "ended", defers |-> d] \/ uh' = [pc |-> "connect", defers |-> d]
    BY <1>1 DEF ServeRequest
  <2>2. ~closedCh
    BY <1>1 DEF ServeRequest, UniInv
  <2> QED BY <2>1, <2>2, <1>1 DEF ServeRequest, UniInv, NoWriteAfterReturn
<1>2. CASE ConnectClient
  BY <1>2, HandlerMoves DEF ConnectClient, UniInv, NoWriteAfterReturn
<1>3. CASE RequestEnds
  BY <1>3 DEF RequestEnds, UniInv, NoWriteAfterReturn
<1>4. CASE LoopEnds
  BY <1>4, HandlerMoves DEF LoopEnds, UniInv, NoWriteAfterReturn
<1>5. CASE CommandRefused
  BY <1>5, HandlerMoves DEF CommandRefused, UniInv, NoWriteAfterReturn
<1>6. CASE TakeMessages
  BY <1>6, HandlerMoves DEF TakeMessages, UniInv, NoWriteAfterReturn
<1>7. CASE WriteResponse
  BY <1>7, HandlerMoves DEF WriteResponse, UniInv, NoWriteAfterReturn
<1>8. CASE SendAck
  BY <1>8, HandlerMoves DEF SendAck, AfterAck, UniInv, NoWriteAfterReturn
<1>9. CASE GiveUpAck
  BY <1>9, HandlerMoves DEF GiveUpAck, AfterAck, UniInv, NoWriteAfterReturn
<1>10. CASE BeginWrite
  BY <1>10 DEF BeginWrite, UniInv, NoWriteAfterReturn
<1>11. CASE WriteLock
  BY <1>11 DEF WriteLock, UniInv, NoWriteAfterReturn
<1>12. CASE WriteAbandoned
  BY <1>12 DEF WriteAbandoned, UniInv, NoWriteAfterReturn
<1>13. CASE DisconnectClient
  BY <1>13 DEF DisconnectClient, UniInv, NoWriteAfterReturn
<1>14. CASE CloseLock
  BY <1>14 DEF CloseLock, UniInv, NoWriteAfterReturn
<1>15. CASE CloseWaited
  BY <1>15 DEF CloseWaited, UniInv, NoWriteAfterReturn
<1>16. CASE DeferClosedCh \/ DeferCloseFn
  <2>1. uh.pc = "return" /\ Deferred /\ uw' = uw
    BY <1>16 DEF DeferClosedCh, DeferCloseFn, RunDefer
  <2>2. uh' = [pc |-> "return", defers |-> Tail(uh.defers)]
    BY <2>1 DEF Deferred, UniInv
  <2> QED BY <2>1, <2>2 DEF UniInv, NoWriteAfterReturn
<1>17. CASE HandlerReturns
  BY <1>17, HandlerMoves DEF HandlerReturns, UniInv, NoWriteAfterReturn
<1>18. CASE UNCHANGED uni
  BY <1>18 DEF uni, UniInv, NoWriteAfterReturn
<1> QED
  BY <1>1, <1>2, <1>3, <1>4, <1>5, <1>6, <1>7, <1>8, <1>9, <1>10, <1>11, <1>12, <1>13, <1>14, <1>15,
     <1>16, <1>17, <1>18 DEF UniNext

\* NoWriteAfterReturn: messages are written to the response only while the
\* WriteMany that handed them over has not returned, in every transport and
\* whoever closes it meanwhile.
THEOREM NoLateWrite == UniSpec => []NoWriteAfterReturn
<1>1. UniInv => NoWriteAfterReturn
  BY DEF UniInv
<1> QED BY <1>1, UniInvInit, UniInvStep, PTL DEF UniSpec

-----------------------------------------------------------------------------
(* Channel options: the index of the ring before it wraps.                 *)

\* Until Half stores were made the index is their number.
RingInv ==
    /\ sets \in Nat /\ sets <= Half
    /\ sets < Half => index = sets /\ ~cachePanic

\* SlotOf: a positive index falls into the ring.
LEMMA SlotInRing == ASSUME NEW n \in Nat PROVE SlotOf(n) \in Slots
<1>1. SlotOf(n) = n % Size
  BY CacheAssumption DEF SlotOf, Remainder
<1>2. n % Size \in 0 .. (Size - 1)
  BY CacheAssumption
<1> QED BY <1>1, <1>2 DEF Slots

LEMMA RingInvStep == RingInv /\ [CacheNext]_cache => RingInv'
<1> SUFFICES ASSUME RingInv, [CacheNext]_cache PROVE RingInv'
  OBVIOUS
<1>1. PICK h \in Nat \ {0} : h = Half
  BY CacheAssumption DEF Half
<1>2. Half' = Half
  BY DEF Half
<1>3. CASE \E r \in Readers : CacheSet(r)
  <2>1. /\ sets' = IF sets < h THEN sets + 1 ELSE sets
        /\ index' = IF index = h - 1 THEN -h ELSE index + 1
        /\ ~cachePanic /\ (SlotOf(index') \in Slots => cachePanic' = cachePanic)
    BY <1>1, <1>3 DEF CacheSet, Increment
  <2>2. CASE sets < h - 1
    <3>1. index = sets /\ sets \in Nat /\ index' = sets + 1
      BY <2>1, <2>2, <1>1 DEF RingInv
    <3>2. SlotOf(index') \in Slots
      BY <3>1, SlotInRing
    <3> QED BY <2>1, <2>2, <3>1, <3>2, <1>1, <1>2 DEF RingInv
  <2>3. CASE sets >= h - 1
    BY <2>1, <2>3, <1>1, <1>2 DEF RingInv
  <2> QED BY <2>2, <2>3, <1>1 DEF RingInv
<1>4. CASE UNCHANGED <<index, sets, cachePanic>>
  BY <1>2, <1>4 DEF RingInv
<1> QED BY <1>3, <1>4 DEF CacheNext, ReloadConfig, CacheTick, Lookup, cache

\* RingHoldsUntilWrap: fewer stores than half of the index's range never
\* leave the ring, for every size of the ring and width of the index.
THEOREM RingHolds == CacheSpec => []RingHoldsUntilWrap
<1>1. CacheInit => RingInv
  <2>1. CacheInit => sets = 0 /\ index = 0 /\ ~cachePanic
    BY Zenon DEF CacheInit
  <2>2. Half \in Nat \ {0}
    BY CacheAssumption DEF Half
  <2> QED BY <2>1, <2>2 DEF RingInv
<1>2. RingInv => RingHoldsUntilWrap
  BY CacheAssumption DEF RingInv, RingHoldsUntilWrap, Half
<1> QED BY <1>1, <1>2, RingInvStep, PTL DEF CacheSpec

-----------------------------------------------------------------------------
(* Subscription streams: the last stream opened is the only candidate.     *)

StreamRecord == [ctx : BOOLEAN, backend : {"none", "open", "ended"},
                 reader : {"none", "recv", "publication", "error", "done"}, ready : BOOLEAN, buffered : Nat]

\* A subscribe command and a registered subscription exclude each other and
\* are of the last stream opened; a stream that is ready is none later and
\* has had its subscription.
StreamsInv ==
    /\ opened \in Nat /\ opened <= MaxStreams
    /\ attempt \in {0, opened} /\ registered \in {0, opened} /\ (attempt = 0 \/ registered = 0)
    /\ stored \in {0} \cup Ids
    /\ stream \in [Ids -> StreamRecord]
    /\ \A i \in Ids : stream[i].ready => i <= opened /\ i \in subscribed
    /\ NothingBeforeSubscription

LEMMA StreamsInvInit == StreamInit => StreamsInv
BY StreamsAssumption DEF StreamInit, StreamsInv, StreamRecord, Unused, NothingBeforeSubscription

\* A step that opens nothing and writes nothing, and leaves every stream as
\* ready as it was, but for one that belongs to the last subscribe command.
QuietStreams ==
    /\ opened' = opened /\ writes' = writes /\ subscribed' = subscribed
    /\ attempt' \in {0, attempt} /\ registered' \in {0, registered}
    /\ stored' \in {0, stored, attempt}
    /\ stream' \in [Ids -> StreamRecord] /\ \A i \in Ids : stream'[i].ready = stream[i].ready

LEMMA StreamsQuiet == ASSUME StreamsInv, QuietStreams PROVE StreamsInv'
<1>1. opened' \in Nat /\ opened' <= MaxStreams /\ attempt' \in {0, opened'} /\ registered' \in {0, opened'}
      /\ (attempt' = 0 \/ registered' = 0)
  BY DEF StreamsInv, QuietStreams
<1>2. stored' \in {0} \cup Ids
  BY StreamsAssumption DEF StreamsInv, QuietStreams, Ids
<1>3. \A i \in Ids : stream'[i].ready => i <= opened' /\ i \in subscribed'
  BY DEF StreamsInv, QuietStreams
<1>4. NothingBeforeSubscription'
  BY DEF StreamsInv, QuietStreams, NothingBeforeSubscription
<1> QED BY <1>1, <1>2, <1>3, <1>4 DEF StreamsInv, QuietStreams

\* One stream gets another record that is as ready.
LEMMA StreamMoves ==
  ASSUME StreamsInv, NEW i \in Ids, NEW s \in StreamRecord, s.ready = stream[i].ready,
         stream' = [stream EXCEPT ![i] = s]
  PROVE  stream' \in [Ids -> StreamRecord] /\ \A j \in Ids : stream'[j].ready = stream[j].ready
BY DEF StreamsInv

LEMMA OpenStreamInv == ASSUME StreamsInv, OpenStream PROVE StreamsInv'
<1>1. PICK n : n = opened + 1
  OBVIOUS
<1>2. /\ opened \in Nat /\ n \in Ids /\ opened' = n /\ attempt' = n /\ registered = 0 /\ n = opened + 1
      /\ registered' = registered /\ stored' = stored /\ writes' = writes /\ subscribed' = subscribed
  BY <1>1, StreamsAssumption DEF OpenStream, StreamsInv, Ids
<1>3. PICK s : s = [Unused EXCEPT !.ctx = TRUE, !.backend = "open"]
  OBVIOUS
<1>4. s \in StreamRecord /\ ~s.ready
  BY <1>3 DEF StreamRecord, Unused
<1>5. stream' = [stream EXCEPT ![n] = s]
  BY <1>1, <1>3, <1>2 DEF OpenStream
<1>6. stream' \in [Ids -> StreamRecord] /\ \A j \in Ids : j # n => stream'[j] = stream[j]
  BY <1>2, <1>4, <1>5 DEF StreamsInv
<1>7. stream'[n] = s
  BY <1>2, <1>5 DEF StreamsInv
<1>8. \A i \in Ids : stream'[i].ready => i <= n /\ i \in subscribed
  BY <1>2, <1>4, <1>6, <1>7 DEF StreamsInv, Ids
<1>9. NothingBeforeSubscription'
  BY <1>2 DEF NothingBeforeSubscription, StreamsInv
<1> QED BY <1>2, <1>6, <1>8, <1>9 DEF StreamsInv, Ids

LEMMA RegisterInv == ASSUME StreamsInv, NEW i \in Ids, Register(i) PROVE StreamsInv'
<1>1. /\ attempt = i /\ attempt' = 0 /\ opened' = opened /\ stored' = stored /\ writes' = writes
      /\ i # 0 /\ i = opened /\ registered = 0 /\ opened \in Nat
  BY StreamsAssumption DEF Register, StreamsInv, Ids
<1>2. CASE UNCHANGED <<registered, stream, subscribed>>
  BY <1>1, <1>2, StreamsQuiet DEF QuietStreams, StreamsInv
<1>3. CASE /\ registered' = i /\ stream' = [stream EXCEPT ![i].ready = TRUE]
           /\ subscribed' = subscribed \cup {i}
  <2>1. PICK s : s = [stream[i] EXCEPT !.ready = TRUE]
    OBVIOUS
  <2>2. stream[i] \in StreamRecord /\ s \in StreamRecord /\ s.ready
    BY <2>1 DEF StreamsInv, StreamRecord
  <2>3. stream' = [stream EXCEPT ![i] = s]
    BY <2>1, <1>3
  <2>4. stream' \in [Ids -> StreamRecord] /\ \A j \in Ids : stream'[j].ready => j = i \/ stream[j].ready
    BY <2>2, <2>3 DEF StreamsInv
  <2>5. \A j \in Ids : stream'[j].ready => j <= opened /\ j \in subscribed'
    BY <2>4, <1>1, <1>3 DEF StreamsInv
  <2>6. NothingBeforeSubscription'
    BY <1>1 DEF NothingBeforeSubscription, StreamsInv
  <2> QED BY <2>4, <2>5, <2>6, <1>1, <1>3 DEF StreamsInv
<1> QED BY <1>2, <1>3 DEF Register

LEMMA WritePublicationInv == ASSUME StreamsInv, NEW i \in Ids, WritePublication(i) PROVE StreamsInv'
<1>1. /\ opened' = opened /\ attempt' = attempt /\ registered' = registered /\ stored' = stored
      /\ subscribed' = subscribed
      /\ writes' = (IF alive THEN writes \cup {<<i, registered, subscribed>>} ELSE writes)
      /\ alive => stream[i].ready
      /\ opened \in Nat
  BY DEF WritePublication, Waits, StreamsInv
<1>2. PICK s : s = [stream[i] EXCEPT !.reader = "recv"]
  OBVIOUS
<1>3. s \in StreamRecord /\ s.ready = stream[i].ready
  BY <1>2 DEF StreamsInv, StreamRecord
<1>4. stream' = [stream EXCEPT ![i] = s]
  BY <1>2 DEF WritePublication
<1>5. stream' \in [Ids -> StreamRecord] /\ \A j \in Ids : stream'[j].ready = stream[j].ready
  BY <1>3, <1>4, StreamMoves
<1>6. \A j \in Ids : stream'[j].ready => j <= opened /\ j \in subscribed
  BY <1>5 DEF StreamsInv
<1>7. \A w \in writes' : w[1] \in w[3] /\ (w[2] # 0 => w[1] <= w[2])
  <2> SUFFICES ASSUME NEW w \in writes' PROVE w[1] \in w[3] /\ (w[2] # 0 => w[1] <= w[2])
    OBVIOUS
  <2>1. CASE w \in writes
    BY <2>1 DEF StreamsInv, NothingBeforeSubscription
  <2>2. CASE alive /\ w = <<i, registered, subscribed>>
    <3>1. w[1] = i /\ w[2] = registered /\ w[3] = subscribed
      BY <2>2
    <3>2. i <= opened /\ i \in subscribed
      BY <2>2, <1>1 DEF StreamsInv
    <3> QED BY <3>1, <3>2 DEF StreamsInv
  <2> QED BY <2>1, <2>2, <1>1
<1> QED BY <1>1, <1>5, <1>6, <1>7 DEF StreamsInv, NothingBeforeSubscription

\* Ended: a record that loses its context.
LEMMA EndedKeeps ==
  ASSUME NEW s \in [Ids -> StreamRecord], stored \in {0} \cup Ids
  PROVE  Ended(s) \in [Ids -> StreamRecord] /\ \A j \in Ids : Ended(s)[j].ready = s[j].ready
<1>1. CASE stored = 0
  BY <1>1 DEF Ended
<1>2. CASE stored # 0
  <2>1. PICK r : r = [s[stored] EXCEPT !.ctx = FALSE]
    OBVIOUS
  <2>2. r \in StreamRecord /\ r.ready = s[stored].ready
    BY <2>1, <1>2 DEF StreamRecord
  <2>3. Ended(s) = [s EXCEPT ![stored] = r]
    BY <2>1, <1>2 DEF Ended
  <2> QED BY <2>2, <2>3
<1> QED BY <1>1, <1>2

LEMMA ReaderErrorInv == ASSUME StreamsInv, NEW i \in Ids, ReaderError(i) PROVE StreamsInv'
<1>1. PICK s : s = [stream[i] EXCEPT !.reader = "done"]
  OBVIOUS
<1>2. s \in StreamRecord /\ s.ready = stream[i].ready
  BY <1>1 DEF StreamsInv, StreamRecord
<1>3. PICK d : d = [stream EXCEPT ![i] = s]
  OBVIOUS
<1>4. d \in [Ids -> StreamRecord] /\ \A j \in Ids : d[j].ready = stream[j].ready
  BY <1>2, <1>3 DEF StreamsInv
<1>5. stream' \in {d, Ended(d)} /\ registered' \in {0, registered} /\ stored' \in {0, stored}
      /\ opened' = opened /\ attempt' = attempt /\ writes' = writes /\ subscribed' = subscribed
  BY <1>1, <1>3 DEF ReaderError
<1>6. stored \in {0} \cup Ids
  BY DEF StreamsInv
<1> QED BY <1>4, <1>5, <1>6, EndedKeeps, StreamsQuiet DEF QuietStreams

LEMMA StreamsInvStep == StreamsInv /\ [StreamNext]_streams => StreamsInv'
<1> SUFFICES ASSUME StreamsInv, [StreamNext]_streams PROVE StreamsInv'
  OBVIOUS
<1>t. stream \in [Ids -> StreamRecord] /\ stored \in {0} \cup Ids
  BY DEF StreamsInv
<1>1. CASE OnUnsubscribe
  BY <1>1, <1>t, EndedKeeps, StreamsQuiet DEF OnUnsubscribe, QuietStreams
<1>2. CASE CloseClient
  <2>1. \A i \in Ids : [stream[i] EXCEPT !.ctx = FALSE] \in StreamRecord
                       /\ [stream[i] EXCEPT !.ctx = FALSE].ready = stream[i].ready
    BY <1>t DEF StreamRecord
  <2>2. stream' \in [Ids -> StreamRecord] /\ \A i \in Ids : stream'[i].ready = stream[i].ready
    BY <2>1, <1>2 DEF CloseClient
  <2> QED BY <2>2, <1>2, StreamsQuiet DEF CloseClient, QuietStreams
<1>3. ASSUME NEW i \in Ids, NEW kind \in {"accept", "refuse"}, FirstMessage(i, kind) PROVE StreamsInv'
  <2>1. PICK s : s = [stream[i] EXCEPT !.reader = "recv"]
    OBVIOUS
  <2>2. s \in StreamRecord /\ s.ready = stream[i].ready /\ stream' = [stream EXCEPT ![i] = s]
    BY <2>1, <1>3, <1>t DEF FirstMessage, StreamRecord
  <2>3. stored' \in {stored, attempt} /\ attempt' \in {0, attempt} /\ registered' = registered
        /\ opened' = opened /\ writes' = writes /\ subscribed' = subscribed
    BY <1>3 DEF FirstMessage
  <2> QED BY <2>2, <2>3, StreamMoves, StreamsQuiet DEF QuietStreams
<1>4. ASSUME NEW i \in Ids, FirstMessageFails(i) PROVE StreamsInv'
  <2>1. PICK s : s = [stream[i] EXCEPT !.ctx = FALSE, !.reader = "done"]
    OBVIOUS
  <2>2. s \in StreamRecord /\ s.ready = stream[i].ready
    BY <2>1, <1>t DEF StreamRecord
  <2>3. stream' = [stream EXCEPT ![i] = s]
    BY <2>1, <1>4, <1>t DEF FirstMessageFails
  <2> QED BY <2>2, <2>3, <1>4, StreamMoves, StreamsQuiet DEF FirstMessageFails, QuietStreams
<1>5. ASSUME NEW i \in Ids, BackendSend(i) PROVE StreamsInv'
  <2>1. PICK s : s = [stream[i] EXCEPT !.buffered = @ + 1]
    OBVIOUS
  <2>2. s \in StreamRecord /\ s.ready = stream[i].ready /\ stream' = [stream EXCEPT ![i] = s]
    BY <2>1, <1>5, <1>t DEF BackendSend, StreamRecord
  <2> QED BY <2>2, <1>5, StreamMoves, StreamsQuiet DEF BackendSend, QuietStreams
<1>6. ASSUME NEW i \in Ids, BackendEnd(i) PROVE StreamsInv'
  <2>1. PICK s : s = [stream[i] EXCEPT !.backend = "ended"]
    OBVIOUS
  <2>2. s \in StreamRecord /\ s.ready = stream[i].ready /\ stream' = [stream EXCEPT ![i] = s]
    BY <2>1, <1>6, <1>t DEF BackendEnd, StreamRecord
  <2> QED BY <2>2, <1>6, StreamMoves, StreamsQuiet DEF BackendEnd, QuietStreams
<1>7. ASSUME NEW i \in Ids, Recv(i) PROVE StreamsInv'
  <2>1. PICK s, r : /\ s = [stream[i] EXCEPT !.buffered = @ - 1, !.reader = "publication"]
                    /\ r = [stream[i] EXCEPT !.ctx = FALSE, !.reader = "error"]
    OBVIOUS
  <2>2. r \in StreamRecord /\ r.ready = stream[i].ready /\ s.ready = stream[i].ready
    BY <2>1, <1>t DEF StreamRecord
  <2>3. ASSUME stream[i].buffered > 0 PROVE s \in StreamRecord
    <3>1. PICK n : n = stream[i].buffered - 1
      OBVIOUS
    <3>2. stream[i] \in StreamRecord /\ stream[i].buffered \in Nat
      BY <1>t DEF StreamRecord
    <3>3. n \in Nat
      BY <3>1, <3>2, <2>3
    <3>4. s = [stream[i] EXCEPT !.buffered = n, !.reader = "publication"]
      BY <2>1, <3>1, <3>2 DEF StreamRecord
    <3> QED BY <3>2, <3>3, <3>4 DEF StreamRecord
  <2>4. \/ stream[i].buffered > 0 /\ stream' = [stream EXCEPT ![i] = s]
        \/ stream' = [stream EXCEPT ![i] = r]
    BY <2>1, <1>7, <1>t DEF Recv
  <2> QED BY <2>2, <2>3, <2>4, <1>7, StreamMoves, StreamsQuiet DEF Recv, QuietStreams
<1>8. CASE UNCHANGED streams
  BY <1>8, <1>t, StreamsQuiet DEF streams, QuietStreams
<1> QED BY <1>1, <1>2, <1>3, <1>4, <1>5, <1>6, <1>7, <1>8, OpenStreamInv, RegisterInv, WritePublicationInv,
           ReaderErrorInv DEF StreamNext

\* NothingBeforeSubscription: whenever a publication of a backend's stream is
\* written to the client, that stream's own subscription has been registered
\* before, and no subscription gets those of a later stream, for any number
\* of attempts and however late a reader is.
THEOREM NothingEarly == StreamSpec => []NothingBeforeSubscription
<1>1. StreamsInv => NothingBeforeSubscription
  BY DEF StreamsInv
<1> QED BY <1>1, StreamsInvInit, StreamsInvStep, PTL DEF StreamSpec
=============================================================================
