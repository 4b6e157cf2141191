------------------------ MODULE ClientSession_proofs ------------------------
(***************************************************************************)
(* Theorems about the connections of a node, for any number of clients,    *)
(* channels, tokens, configurations and reloads: what a token may leave    *)
(* behind, whose keys a client writes under, and what the permission rules *)
(* promise each other.                                                     *)
(***************************************************************************)
EXTENDS ClientSession, WellFoundedInduction, TLAPS

Sources == {"none", "token", "other"}
ForcedKinds == {"client_id", "user_id"}

\* The configurations the node can ever run with.
Valid == {k \in Boots \cup Configs : ValidConfig(k)}

\* Some valid configuration leaves the keys of the channel to the client.
Unforced(ch) == \E k \in Valid : Found(k, ch) /\ OptionsOf(k, ch).clientKey \notin ForcedKinds

\* Channels that S maps to "token" are of the token.
FromToken(S, tok) == \A ch \in AllChannels : S[ch] = "token" => ch \in tok

IsConn(x) == x = [st |-> x.st, user |-> x.user, subs |-> x.subs, tokenSubs |-> x.tokenSubs, call |-> x.call]

\* Which handler, L, can be in progress at which stage; only an open connection
\* has subscriptions.
Stage(stage, S, L) ==
    \/ stage \in {"new", "closed"} /\ L = NoCall /\ S = NoSubs
    \/ stage = "connecting" /\ L.op \in {"connect", "connectProxy"} /\ S = NoSubs
    \/ stage = "checked" /\ L.op = "connect" /\ S = NoSubs
    \/ stage = "open" /\ L.op \in {"none", "SubscribeProxy", "StreamProxy", "publish", "remove"}

\* What a handler in progress carries: a connect command collects from a token
\* what that token lists, a proxied map command is on a channel without forced
\* keys.
Carries(tok, L) ==
    /\ L.op = "connect" => L.got \in [AllChannels -> Sources] /\ FromToken(L.got, tok)
    /\ L.op \in {"publish", "remove"} => L.ch \in Channels /\ Unforced(L.ch)

\* A connection: what it has from a token the last accepted one lists.
FieldsOk(stage, S, tok, L) ==
    Stage(stage, S, L) /\ Carries(tok, L) /\ S \in [AllChannels -> Sources] /\ FromToken(S, tok)

ConnOk(x) == IsConn(x) /\ FieldsOk(x.st, x.subs, x.tokenSubs, x.call)

\* Lookups answer from valid configurations; before the first reload there is
\* one, and the proxies are those it names.
ServerInv ==
    /\ config \in Valid /\ stale \subseteq Valid /\ reloads \in Nat
    /\ reloads = 0 => stale = {} /\ proxies = buildProxyMap(config)

ConnsInv == conn = [c \in Clients |-> conn[c]] /\ \A c \in Clients : ConnOk(conn[c])

EntriesInv == entries = [ch \in KeyedChannels |-> entries[ch]] /\ EntriesOwned

SessionInv == ServerInv /\ ConnsInv /\ EntriesInv /\ PanicNeedsNewName

-----------------------------------------------------------------------------
(* The early returns of a handler, and the rules about them.               *)

\* The first rule whose condition holds decides.
LEMMA FirstRule ==
  ASSUME NEW n \in Nat, NEW rules, DOMAIN rules = 1..n, NEW i \in 1..n,
         rules[i][1], \A j \in 1..(i - 1) : ~rules[j][1]
  PROVE  FirstMatch(rules) = rules[i][2]
<1> DEFINE P(q) == rules[q][1] /\ \A j \in 1..(q - 1) : ~rules[j][1]
<1>1. \A q \in 1..n : P(q) => q = i
  <2> SUFFICES ASSUME NEW q \in 1..n, P(q), q # i PROVE FALSE OBVIOUS
  <2>1. CASE q < i
    <3>1. q \in 1..(i - 1) BY <2>1
    <3> QED BY <3>1
  <2>2. CASE i < q
    <3>1. i \in 1..(q - 1) BY <2>2
    <3> QED BY <3>1
  <2> QED BY <2>1, <2>2
<1>2. P(i) OBVIOUS
<1> HIDE DEF P
<1>3. (CHOOSE q \in DOMAIN rules : P(q)) = i
  BY <1>1, <1>2
<1> QED BY <1>3 DEF FirstMatch, P

\* If some condition holds, one of them is the first.
LEMMA SomeRule ==
  ASSUME NEW n \in Nat, NEW rules, DOMAIN rules = 1..n, NEW k \in 1..n, rules[k][1]
  PROVE  \E i \in 1..n : /\ rules[i][1] /\ \A j \in 1..(i - 1) : ~rules[j][1]
                         /\ FirstMatch(rules) = rules[i][2]
<1> DEFINE T == {i \in 1..n : rules[i][1]}
           R == OpToRel(<, Nat)
<1>1. IsWellFoundedOn(R, Nat) BY NatLessThanWellFounded
<1>2. \A x, y \in Nat : y < x => <<y, x>> \in R BY DEF OpToRel
<1>3. T \subseteq Nat /\ k \in T OBVIOUS
<1> HIDE DEF R, T
<1>4. PICK i \in T : \A y \in T : ~ (<<y, i>> \in R) BY <1>1, <1>3, WFMin
<1>5. i \in 1..n /\ rules[i][1] BY <1>4 DEF T
<1>6. ASSUME NEW j \in 1..(i - 1), rules[j][1] PROVE FALSE
  <2>1. j \in 1..n /\ j < i /\ i \in Nat /\ j \in Nat BY <1>5
  <2>2. j \in T BY <1>6, <2>1 DEF T
  <2> QED BY <1>2, <1>4, <2>1, <2>2
<1>7. FirstMatch(rules) = rules[i][2] BY <1>5, <1>6, FirstRule
<1> QED BY <1>5, <1>6, <1>7

\* The same for lists of five and six rules, the last of which always holds.
Five(a1, x1, a2, x2, a3, x3, a4, x4, x5) ==
    FirstMatch(<< <<a1, x1>>, <<a2, x2>>, <<a3, x3>>, <<a4, x4>>, <<TRUE, x5>> >>)

LEMMA FiveRules ==
  ASSUME NEW a1 \in BOOLEAN, NEW a2 \in BOOLEAN, NEW a3 \in BOOLEAN,
         NEW a4 \in BOOLEAN,
         NEW x1, NEW x2, NEW x3, NEW x4, NEW x5
  PROVE  Five(a1, x1, a2, x2, a3, x3, a4, x4, x5)
         = IF a1 THEN x1 ELSE IF a2 THEN x2 ELSE IF a3 THEN x3 ELSE
            IF a4 THEN x4 ELSE x5
<1> DEFINE r == << <<a1, x1>>, <<a2, x2>>, <<a3, x3>>, <<a4, x4>>,
                    <<TRUE, x5>> >>
           k == IF a1 THEN 1 ELSE IF a2 THEN 2 ELSE IF a3 THEN 3 ELSE
                IF a4 THEN 4 ELSE 5
<1>1. DOMAIN r = 1..5 /\ k \in 1..5 OBVIOUS
<1>2. r[1] = <<a1, x1>> /\ r[2] = <<a2, x2>> /\ r[3] = <<a3, x3>> /\
      r[4] = <<a4, x4>> /\ r[5] = <<TRUE, x5>>
  OBVIOUS
<1>3. /\ r[1][1] = a1 /\ r[2][1] = a2 /\ r[3][1] = a3 /\ r[4][1] = a4 /\
         r[5][1] = TRUE
      /\ r[1][2] = x1 /\ r[2][2] = x2 /\ r[3][2] = x3 /\ r[4][2] = x4 /\
         r[5][2] = x5
  BY <1>2
<1> HIDE DEF r
<1>4. r[k][1] /\ \A j \in 1..(k - 1) : ~r[j][1]
  BY <1>3
<1>5. r[k][2] = IF a1 THEN x1 ELSE IF a2 THEN x2 ELSE IF a3 THEN x3 ELSE
            IF a4 THEN x4 ELSE x5
  BY <1>3
<1>6. FirstMatch(r) = r[k][2]
  <2> HIDE DEF k
  <2> QED BY <1>1, <1>4, FirstRule
<1> QED BY <1>5, <1>6 DEF r, Five

Six(a1, x1, a2, x2, a3, x3, a4, x4, a5, x5, x6) ==
    FirstMatch(<< <<a1, x1>>, <<a2, x2>>, <<a3, x3>>, <<a4, x4>>, <<a5, x5>>, <<TRUE, x6>> >>)

LEMMA SixRules ==
  ASSUME NEW a1 \in BOOLEAN, NEW a2 \in BOOLEAN, NEW a3 \in BOOLEAN,
         NEW a4 \in BOOLEAN, NEW a5 \in BOOLEAN,
         NEW x1, NEW x2, NEW x3, NEW x4, NEW x5, NEW x6
  PROVE  Six(a1, x1, a2, x2, a3, x3, a4, x4, a5, x5, x6)
         = IF a1 THEN x1 ELSE IF a2 THEN x2 ELSE IF a3 THEN x3 ELSE
            IF a4 THEN x4 ELSE IF a5 THEN x5 ELSE x6
<1> DEFINE r == << <<a1, x1>>, <<a2, x2>>, <<a3, x3>>, <<a4, x4>>,
                    <<a5, x5>>, <<TRUE, x6>> >>
           k == IF a1 THEN 1 ELSE IF a2 THEN 2 ELSE IF a3 THEN 3 ELSE
                IF a4 THEN 4 ELSE IF a5 THEN 5 ELSE 6
<1>1. DOMAIN r = 1..6 /\ k \in 1..6 OBVIOUS
<1>2. r[1] = <<a1, x1>> /\ r[2] = <<a2, x2>> /\ r[3] = <<a3, x3>> /\
      r[4] = <<a4, x4>> /\ r[5] = <<a5, x5>> /\ r[6] = <<TRUE, x6>>
  OBVIOUS
<1>3. /\ r[1][1] = a1 /\ r[2][1] = a2 /\ r[3][1] = a3 /\ r[4][1] = a4 /\
         r[5][1] = a5 /\ r[6][1] = TRUE
      /\ r[1][2] = x1 /\ r[2][2] = x2 /\ r[3][2] = x3 /\ r[4][2] = x4 /\
         r[5][2] = x5 /\ r[6][2] = x6
  BY <1>2
<1> HIDE DEF r
<1>4. r[k][1] /\ \A j \in 1..(k - 1) : ~r[j][1]
  BY <1>3
<1>5. r[k][2] = IF a1 THEN x1 ELSE IF a2 THEN x2 ELSE IF a3 THEN x3 ELSE
            IF a4 THEN x4 ELSE IF a5 THEN x5 ELSE x6
  BY <1>3
<1>6. FirstMatch(r) = r[k][2]
  <2> HIDE DEF k
  <2> QED BY <1>1, <1>4, FirstRule
<1> QED BY <1>5, <1>6 DEF r, Six

\* What a rule of three allows an anonymous client, outside of insecure mode,
\* an anonymous flag allows.
LEMMA AnonymousRule ==
  ASSUME NEW cfg, NEW rule, NEW is, Allowed(cfg, rule, Anonymous, is), ~cfg.insecure
  PROVE  rule.anonymous
BY Zenon DEF Allowed

\* OnPublish grants what its rule allows, and asks the proxy the options name.
LEMMA PublishRule ==
  ASSUME NEW cfg, NEW o, NEW found, NEW ch, NEW u, NEW is
  PROVE  /\ OnPublish(cfg, o, found, ch, u, is, FALSE, TRUE).kind = "allow" =>
              Allowed(cfg, o.publishFor, u, is)
         /\ OnPublish(cfg, o, found, ch, u, is, FALSE, TRUE).kind = "proxy" =>
              found /\ o.publishProxy # NoProxy
<1> DEFINE a1 == ~found
           a2 == ~ch.validName \/ ~TRUE
           a3 == o.publishProxy # NoProxy
           a4 == o.streamProxy # NoProxy
           a5 == Allowed(cfg, o.publishFor, u, is)
           x1 == Reply("error", "unknownChannel")
           x2 == Reply("error", "badRequest")
           x3 == Reply("proxy", "PublishProxy")
           x4 == IF o.bidirectional /\ FALSE THEN Reply("allow", "stream") ELSE Reply("error", "notAvailable")
           x5 == Reply("allow", "node")
           x6 == Reply("error", "permissionDenied")
           R == OnPublish(cfg, o, found, ch, u, is, FALSE, TRUE)
<1>1. a1 \in BOOLEAN /\ a2 \in BOOLEAN /\ a3 \in BOOLEAN /\ a4 \in BOOLEAN /\ a5 \in BOOLEAN
  BY Zenon DEF Allowed
<1>2. R = Six(a1, x1, a2, x2, a3, x3, a4, x4, a5, x5, x6)
  BY Zenon DEF OnPublish, Six
<1>3. x4 = Reply("error", "notAvailable") BY Zenon
<1>4. /\ x1.kind = "error" /\ x2.kind = "error" /\ x3.kind = "proxy" /\ x5.kind = "allow"
      /\ x6.kind = "error"
  BY DEF Reply
<1>5. x4.kind = "error" BY <1>3 DEF Reply
<1>6. SUFFICES (R.kind = "allow" => a5) /\ (R.kind = "proxy" => ~a1 /\ a3) BY Zenon
<1> HIDE DEF a1, a2, a3, a4, a5, x1, x2, x3, x4, x5, x6, R
<1>7. Six(a1, x1, a2, x2, a3, x3, a4, x4, a5, x5, x6) =
        IF a1 THEN x1 ELSE IF a2 THEN x2 ELSE IF a3 THEN x3 ELSE IF a4 THEN x4 ELSE IF a5 THEN x5 ELSE x6
  BY ONLY <1>1, SixRules
<1> QED BY Zenon, <1>2, <1>4, <1>5, <1>7

\* The same for OnMapPublish and OnMapRemove.
LEMMA MapRuleAllow ==
  ASSUME NEW cfg, NEW o, NEW found, NEW ch, NEW u, NEW is, NEW name, NEW rule
  PROVE  /\ MapRule(cfg, o, found, ch, u, is, name, rule).kind = "allow" =>
              found /\ name = NoProxy /\ Allowed(cfg, rule, u, is)
         /\ MapRule(cfg, o, found, ch, u, is, name, rule).kind = "proxy" => found /\ name # NoProxy
<1> DEFINE a1 == ~found
           a2 == ~ch.validName
           a3 == name # NoProxy
           a4 == ~Allowed(cfg, rule, u, is)
           a5 == o.clientKey = "user_id" /\ u = Anonymous
           x1 == Reply("error", "unknownChannel")
           x2 == Reply("error", "badRequest")
           x3 == Reply("proxy", "MapProxy")
           x4 == Reply("error", "permissionDenied")
           x6 == Reply("allow", "map")
           R == MapRule(cfg, o, found, ch, u, is, name, rule)
<1>1. a1 \in BOOLEAN /\ a2 \in BOOLEAN /\ a3 \in BOOLEAN /\ a4 \in BOOLEAN /\ a5 \in BOOLEAN
  BY Zenon
<1>2. R = Six(a1, x1, a2, x2, a3, x3, a4, x4, a5, x4, x6)
  BY Zenon DEF MapRule, Six
<1>3. /\ x1.kind = "error" /\ x2.kind = "error" /\ x3.kind = "proxy" /\ x4.kind = "error"
      /\ x6.kind = "allow"
  BY DEF Reply
<1>4. SUFFICES (R.kind = "allow" => ~a1 /\ ~a3 /\ ~a4) /\ (R.kind = "proxy" => ~a1 /\ a3)
  BY Zenon
<1> HIDE DEF a1, a2, a3, a4, a5, x1, x2, x3, x4, x6, R
<1>5. Six(a1, x1, a2, x2, a3, x3, a4, x4, a5, x4, x6) =
        IF a1 THEN x1 ELSE IF a2 THEN x2 ELSE IF a3 THEN x3 ELSE IF a4 THEN x4 ELSE IF a5 THEN x4 ELSE x6
  BY ONLY <1>1, SixRules
<1> QED BY Zenon, <1>2, <1>3, <1>5

\* Presence and history.
LEMMA QueryAllow ==
  ASSUME NEW found, NEW ch, NEW available, NEW allowed, Query(found, ch, available, allowed).kind = "allow"
  PROVE  allowed
<1> DEFINE a1 == ~found
           a2 == ~ch.validName
           a3 == ~available
           a4 == ~allowed
           x1 == Reply("error", "unknownChannel")
           x2 == Reply("error", "badRequest")
           x3 == Reply("error", "notAvailable")
           x4 == Reply("error", "permissionDenied")
           x5 == Reply("allow", "query")
           R == Query(found, ch, available, allowed)
<1>1. a1 \in BOOLEAN /\ a2 \in BOOLEAN /\ a3 \in BOOLEAN /\ a4 \in BOOLEAN
  BY Zenon
<1>2. R = Five(a1, x1, a2, x2, a3, x3, a4, x4, x5)
  BY Zenon DEF Query, Five
<1>3. x1.kind # "allow" /\ x2.kind # "allow" /\ x3.kind # "allow" /\ x4.kind # "allow"
  BY DEF Reply
<1>4. SUFFICES R.kind = "allow" => ~a4
  BY Zenon
<1> HIDE DEF a1, a2, a3, a4, x1, x2, x3, x4, x5, R
<1>5. Five(a1, x1, a2, x2, a3, x3, a4, x4, x5) =
        IF a1 THEN x1 ELSE IF a2 THEN x2 ELSE IF a3 THEN x3 ELSE IF a4 THEN x4 ELSE x5
  BY ONLY <1>1, FiveRules
<1> QED BY Zenon, <1>2, <1>3, <1>5

\* A token is never answered by a proxy.
LEMMA TokenReply ==
  ASSUME NEW tok, NEW ch, NEW u, NEW c
  PROVE  SubscribeWithToken(tok, ch, u, c).kind # "proxy"
<1> DEFINE a1 == tok.result = "expired"
           a2 == tok.result = "invalid"
           a3 == tok.result = "error"
           a4 == TokenMismatch(tok, ch, u, c)
           x1 == Reply("error", "tokenExpired")
           x2 == Reply("error", "permissionDenied")
           x3 == Reply("error", "internal")
           x4 == Reply("disconnect", "invalidToken")
           x5 == Reply("allow", "SubscriptionToken")
           R == SubscribeWithToken(tok, ch, u, c)
<1>1. a1 \in BOOLEAN /\ a2 \in BOOLEAN /\ a3 \in BOOLEAN /\ a4 \in BOOLEAN
  BY Zenon DEF TokenMismatch
<1>2. R = Five(a1, x1, a2, x2, a3, x3, a4, x4, x5)
  BY Zenon DEF SubscribeWithToken, Five
<1>3. /\ x1.kind # "proxy" /\ x2.kind # "proxy" /\ x3.kind # "proxy" /\ x4.kind # "proxy"
      /\ x5.kind # "proxy"
  BY DEF Reply
<1>4. SUFFICES R.kind # "proxy"
  OBVIOUS
<1> HIDE DEF a1, a2, a3, a4, x1, x2, x3, x4, x5, R
<1>5. Five(a1, x1, a2, x2, a3, x3, a4, x4, x5) =
        IF a1 THEN x1 ELSE IF a2 THEN x2 ELSE IF a3 THEN x3 ELSE IF a4 THEN x4 ELSE x5
  BY ONLY <1>1, FiveRules
<1> QED BY Zenon, <1>2, <1>3, <1>5

\* OnSubscribe asks a proxy only if the options name one, and grants what the
\* rule of the connect command grants.
LEMMA SubscribeRule ==
  ASSUME NEW cfg, NEW o, NEW found, NEW ch, NEW u, NEW c, NEW type, NEW tok,
         cfg.insecure \in BOOLEAN, NEW R, R = OnSubscribe(cfg, o, found, ch, u, c, type, tok)
  PROVE  /\ R.kind = "proxy" =>
              /\ found
              /\ \/ R.source = "SubscribeProxy" /\ o.subscribeProxy # NoProxy
                 \/ R.source = "StreamProxy" /\ o.streamProxy # NoProxy
         /\ (/\ found /\ tok = NoToken /\ isSubscriptionTypeAllowed(type, o.subscriptionType)
             /\ o.streamProxy = NoProxy /\ ConnectChannelOk(cfg, o, ch, u)) => R.kind = "allow"
<1> DEFINE limited == LimitedChannel(o, ch)
           a1 == ~ch.validName
           a2 == ~isSubscriptionTypeAllowed(type, o.subscriptionType)
           a3 == IsPrivateChannel(ch) /\ tok = NoToken
           a4 == tok # NoToken
           a5 == limited /\ UserAllowed(ch, u)
           a6 == o.subscribeProxy # NoProxy /\ ~limited
           a7 == o.streamProxy # NoProxy /\ ~limited
           a8 == o.subscribeForClient /\ ~limited /\ (u # Anonymous \/ o.subscribeForAnonymous)
           a9 == cfg.insecure
           bad == Reply("error", "badRequest")
           denied == Reply("error", "permissionDenied")
           unknown == Reply("error", "unknownChannel")
           x4 == SubscribeWithToken(tok, ch, u, c)
           x5 == Reply("allow", "UserLimited")
           x6 == Reply("proxy", "SubscribeProxy")
           x7 == Reply("proxy", "StreamProxy")
           x8 == Reply("allow", "ClientAllowed")
           x9 == Reply("allow", "ClientInsecure")
           r == << <<a1, bad>>, <<a2, denied>>, <<a3, denied>>, <<a4, x4>>, <<a5, x5>>,
                   <<a6, x6>>, <<a7, x7>>, <<a8, x8>>, <<a9, x9>>, <<TRUE, denied>> >>
<1>1. /\ a1 \in BOOLEAN /\ a2 \in BOOLEAN /\ a3 \in BOOLEAN /\ a4 \in BOOLEAN /\ a5 \in BOOLEAN
      /\ a6 \in BOOLEAN /\ a7 \in BOOLEAN /\ a8 \in BOOLEAN
  BY Zenon
<1>2. R = IF ~found THEN unknown ELSE FirstMatch(r)
  BY Zenon DEF OnSubscribe
<1>3. /\ bad.kind = "error" /\ denied.kind = "error" /\ unknown.kind = "error" /\ x5.kind = "allow"
      /\ x6.kind = "proxy" /\ x6.source = "SubscribeProxy"
      /\ x7.kind = "proxy" /\ x7.source = "StreamProxy" /\ x8.kind = "allow" /\ x9.kind = "allow"
  BY DEF Reply
<1>4. x4.kind # "proxy" BY TokenReply, Zenon
<1>5. (a6 => o.subscribeProxy # NoProxy) /\ (a7 => o.streamProxy # NoProxy)
  BY Zenon
<1>6. (/\ found /\ tok = NoToken /\ isSubscriptionTypeAllowed(type, o.subscriptionType)
       /\ o.streamProxy = NoProxy /\ ConnectChannelOk(cfg, o, ch, u))
        => found /\ ~a1 /\ ~a2 /\ ~a3 /\ ~a4 /\ ~a6 /\ ~a7 /\ (a5 \/ a8 \/ a9)
  BY Zenon DEF ConnectChannelOk
<1>7. SUFFICES /\ R.kind = "proxy" =>
                    found /\ ((R.source = "SubscribeProxy" /\ a6) \/ (R.source = "StreamProxy" /\ a7))
               /\ (found /\ ~a1 /\ ~a2 /\ ~a3 /\ ~a4 /\ ~a6 /\ ~a7 /\ (a5 \/ a8 \/ a9)) => R.kind = "allow"
  BY Zenon, <1>5, <1>6
<1>8. a9 \in BOOLEAN OBVIOUS
<1> HIDE DEF a1, a2, a3, a4, a5, a6, a7, a8, a9, bad, denied, unknown, x4, x5, x6, x7, x8, x9
<1>9. CASE ~found BY Zenon, <1>2, <1>3, <1>9
<1>10. CASE found
  <2>1. DOMAIN r = 1..10 OBVIOUS
  <2>2. /\ r[1] = <<a1, bad>> /\ r[2] = <<a2, denied>> /\ r[3] = <<a3, denied>> /\ r[4] = <<a4, x4>>
        /\ r[5] = <<a5, x5>> /\ r[6] = <<a6, x6>> /\ r[7] = <<a7, x7>> /\ r[8] = <<a8, x8>>
        /\ r[9] = <<a9, x9>> /\ r[10] = <<TRUE, denied>>
    OBVIOUS
  <2> HIDE DEF r
  <2>3. /\ r[1][1] = a1 /\ r[2][1] = a2 /\ r[3][1] = a3 /\ r[4][1] = a4 /\ r[5][1] = a5
        /\ r[6][1] = a6 /\ r[7][1] = a7 /\ r[8][1] = a8 /\ r[9][1] = a9 /\ r[10][1]
        /\ r[1][2] = bad /\ r[2][2] = denied /\ r[3][2] = denied /\ r[4][2] = x4 /\ r[5][2] = x5
        /\ r[6][2] = x6 /\ r[7][2] = x7 /\ r[8][2] = x8 /\ r[9][2] = x9 /\ r[10][2] = denied
    BY <2>2
  <2>4. PICK n \in Nat : n = 10 OBVIOUS
  <2>5. n \in 1..n /\ DOMAIN r = 1..n /\ r[n][1] BY <2>1, <2>3, <2>4
  <2>6. \E i \in 1..n : r[i][1] /\ (\A j \in 1..(i - 1) : ~r[j][1]) /\ FirstMatch(r) = r[i][2]
    BY ONLY <2>5, SomeRule, Zenon
  <2>7. PICK i \in 1..10 : r[i][1] /\ (\A j \in 1..(i - 1) : ~r[j][1]) /\ R = r[i][2]
    BY <1>2, <1>10, <2>4, <2>6
  <2>8. i \in 1..4 => R.kind # "proxy" /\ (a1 \/ a2 \/ a3 \/ a4)
    BY <1>1, <1>3, <1>4, <2>3, <2>7
  <2>9. i \in {5, 8, 9} => R.kind = "allow"
    BY <1>3, <2>3, <2>7
  <2>10. (i = 6 => a6 /\ R = x6) /\ (i = 7 => a7 /\ R = x7)
    BY <1>1, <2>3, <2>7
  <2>11. i = 10 => R.kind = "error" /\ ~(a5 \/ a8 \/ a9)
    BY <1>1, <1>3, <1>8, <2>3, <2>7
  <2>12. i \in 1..4 \/ i \in {5, 8, 9} \/ i = 6 \/ i = 7 \/ i = 10 OBVIOUS
  <2>13. CASE i \in 1..4 BY Zenon, <2>8, <2>13
  <2>14. CASE i \in {5, 8, 9} BY Zenon, <2>9, <2>14
  <2>15. CASE i = 6 BY Zenon, <1>3, <1>10, <2>10, <2>15
  <2>16. CASE i = 7 BY Zenon, <1>3, <1>10, <2>10, <2>16
  <2>17. CASE i = 10 BY Zenon, <2>11, <2>17
  <2> QED BY Zenon, <2>12, <2>13, <2>14, <2>15, <2>16, <2>17
<1> QED BY Zenon, <1>9, <1>10

\* The permission rules agree, whatever is configured.
LEMMA RulesHold == ServerInv => RulesAgree
<1> SUFFICES ASSUME ServerInv, NEW c \in Clients, NEW ch \in Channels, NEW k \in Visible
             PROVE
        LET o == ChannelOptions(k, ch)
            u == user(c)
            found == Found(k, ch)
            is == Subscribed(c, ch)
        IN  /\ (u = Anonymous /\ ~config.insecure) =>
                 /\ OnPublish(config, o, found, ch, u, is, FALSE, TRUE).kind = "allow"
                      => o.publishFor.anonymous
                 /\ OnMapPublish(config, o, found, ch, u, is).kind = "allow"
                      => o.mapPublishFor.anonymous
                 /\ OnMapRemove(config, o, found, ch, u, is).kind = "allow"
                      => o.mapRemoveFor.anonymous
                 /\ OnPresence(config, o, found, ch, u, is).kind = "allow"
                      => o.presenceFor.anonymous
                 /\ OnHistory(config, o, found, ch, u, is).kind = "allow"
                      => o.historyFor.anonymous
            /\ (/\ found /\ o.streamProxy = NoProxy /\ o.subscriptionType = "stream"
                /\ ConnectChannelOk(config, o, ch, u)) =>
                 OnSubscribe(config, o, found, ch, u, c, "stream", NoToken).kind = "allow"
  BY Zenon DEF RulesAgree
<1> DEFINE o == ChannelOptions(k, ch)
           u == user(c)
           found == Found(k, ch)
           is == Subscribed(c, ch)
<1>1. config.insecure \in BOOLEAN
  <2>1. IsClientConfig(config) BY Zenon, ConfigAssumption DEF ServerInv, Valid
  <2> QED BY Zenon, <2>1 DEF IsClientConfig
<1> HIDE DEF o, u, found, is
<1>2. o.subscriptionType = "stream" => isSubscriptionTypeAllowed("stream", o.subscriptionType)
  BY Zenon DEF isSubscriptionTypeAllowed
<1>3. ASSUME u = Anonymous, ~config.insecure
      PROVE  /\ OnPublish(config, o, found, ch, u, is, FALSE, TRUE).kind = "allow"
                  => o.publishFor.anonymous
             /\ OnMapPublish(config, o, found, ch, u, is).kind = "allow"
                  => o.mapPublishFor.anonymous
             /\ OnMapRemove(config, o, found, ch, u, is).kind = "allow"
                  => o.mapRemoveFor.anonymous
             /\ OnPresence(config, o, found, ch, u, is).kind = "allow"
                  => o.presenceFor.anonymous
             /\ OnHistory(config, o, found, ch, u, is).kind = "allow"
                  => o.historyFor.anonymous
  <2>1. ASSUME NEW rule, Allowed(config, rule, u, is) PROVE rule.anonymous
    BY Zenon, <1>3, <2>1, AnonymousRule
  <2>2. OnPublish(config, o, found, ch, u, is, FALSE, TRUE).kind = "allow" => o.publishFor.anonymous
    BY Zenon, <2>1, PublishRule
  <2>3. OnMapPublish(config, o, found, ch, u, is).kind = "allow" => o.mapPublishFor.anonymous
    BY Zenon, <2>1, MapRuleAllow DEF OnMapPublish
  <2>4. OnMapRemove(config, o, found, ch, u, is).kind = "allow" => o.mapRemoveFor.anonymous
    BY Zenon, <2>1, MapRuleAllow DEF OnMapRemove
  <2>5. OnPresence(config, o, found, ch, u, is).kind = "allow" => o.presenceFor.anonymous
    <3> DEFINE al == Allowed(config, o.presenceFor, u, is)
    <3>1. OnPresence(config, o, found, ch, u, is) = Query(found, ch, o.presence, al)
      BY Zenon DEF OnPresence, hasAccessToPresence
    <3>2. Query(found, ch, o.presence, al).kind = "allow" => al BY QueryAllow
    <3> QED BY Zenon, <2>1, <3>1, <3>2
  <2>6. OnHistory(config, o, found, ch, u, is).kind = "allow" => o.historyFor.anonymous
    <3> DEFINE al == Allowed(config, o.historyFor, u, is)
    <3>1. OnHistory(config, o, found, ch, u, is) = Query(found, ch, o.history, al)
      BY Zenon DEF OnHistory, hasAccessToHistory
    <3>2. Query(found, ch, o.history, al).kind = "allow" => al BY QueryAllow
    <3> QED BY Zenon, <2>1, <3>1, <3>2
  <2> QED BY Zenon, <2>2, <2>3, <2>4, <2>5, <2>6
<1>4. (/\ found /\ o.streamProxy = NoProxy /\ o.subscriptionType = "stream"
       /\ ConnectChannelOk(config, o, ch, u)) =>
        OnSubscribe(config, o, found, ch, u, c, "stream", NoToken).kind = "allow"
  <2> SUFFICES ASSUME found, o.streamProxy = NoProxy, o.subscriptionType = "stream",
                      ConnectChannelOk(config, o, ch, u)
               PROVE  OnSubscribe(config, o, found, ch, u, c, "stream", NoToken).kind = "allow"
    OBVIOUS
  <2>1. PICK tok : tok = NoToken OBVIOUS
  <2>2. PICK R : R = OnSubscribe(config, o, found, ch, u, c, "stream", tok) OBVIOUS
  <2>3. isSubscriptionTypeAllowed("stream", o.subscriptionType) BY Zenon, <1>2
  <2>4. (R.kind = "proxy" =>
              /\ found
              /\ \/ R.source = "SubscribeProxy" /\ o.subscribeProxy # NoProxy
                 \/ R.source = "StreamProxy" /\ o.streamProxy # NoProxy)
         /\ ((found /\ tok = NoToken /\ isSubscriptionTypeAllowed("stream", o.subscriptionType)
             /\ o.streamProxy = NoProxy /\ ConnectChannelOk(config, o, ch, u)) => R.kind = "allow")
    BY ONLY <1>1, <2>2, SubscribeRule
  <2>5. R.kind = "allow" BY <2>1, <2>3, <2>4, Zenon
  <2> QED BY Zenon, <2>1, <2>2, <2>5
<1> QED BY Zenon, <1>3, <1>4 DEF o, u, found, is

-----------------------------------------------------------------------------
(* Connections                                                             *)

\* No subscriptions, no handler in progress.
LEMMA NoSubsOk ==
  NoSubs \in [AllChannels -> Sources] /\ \A tok : FromToken(NoSubs, tok)
BY DEF NoSubs, Sources, FromToken

LEMMA NoCallOk == NoCall.op = "none" /\ \A tok : Carries(tok, NoCall)
BY DEF NoCall, Carries

\* A connection that is built from its fields.
LEMMA Built ==
  ASSUME NEW a, NEW u, NEW S, NEW tok, NEW L, FieldsOk(a, S, tok, L), NEW r,
         r = [st |-> a, user |-> u, subs |-> S, tokenSubs |-> tok, call |-> L]
  PROVE  ConnOk(r)
<1>1. r.st = a /\ r.user = u /\ r.subs = S /\ r.tokenSubs = tok /\ r.call = L OBVIOUS
<1> QED BY Zenon, <1>1 DEF ConnOk, IsConn

LEMMA FreshOk == ConnOk(Fresh) /\ ConnOk(Gone)
<1>1. FieldsOk("new", NoSubs, {}, NoCall) /\ FieldsOk("closed", NoSubs, {}, NoCall)
  BY Zenon, NoSubsOk, NoCallOk DEF FieldsOk, Stage
<1>2. ConnOk(Fresh)
  <2>1. Fresh = [st |-> "new", user |-> Anonymous, subs |-> NoSubs, tokenSubs |-> {}, call |-> NoCall]
    BY Zenon DEF Fresh
  <2> QED BY <1>1, <2>1, Built, Zenon
<1>3. ConnOk(Gone)
  <2>1. PICK u : u = Anonymous OBVIOUS
  <2>2. Gone = [st |-> "closed", user |-> u, subs |-> NoSubs, tokenSubs |-> {}, call |-> NoCall]
    BY ONLY <2>1 DEF Gone, Fresh
  <2> QED BY <1>1, <2>2, Built, Zenon
<1> QED BY <1>2, <1>3

\* Only the connection that takes the step changes.
LEMMA OneConn ==
  ASSUME ConnsInv, NEW c \in Clients, NEW r, ConnOk(r), conn' = [conn EXCEPT ![c] = r]
  PROVE  ConnsInv'
<1>1. conn' = [d \in Clients |-> IF d = c THEN r ELSE conn[d]] BY DEF ConnsInv
<1> HIDE DEF ConnOk
<1>2. \A d \in Clients : conn'[d] = IF d = c THEN r ELSE conn[d] BY <1>1
<1>3. \A d \in Clients : ConnOk(conn[d]) BY Zenon DEF ConnsInv
<1>4. \A d \in Clients : ConnOk(conn'[d]) BY Zenon, <1>2, <1>3
<1>5. conn' = [d \in Clients |-> conn'[d]] BY <1>1, <1>2, Zenon
<1> QED BY Zenon, <1>4, <1>5 DEF ConnsInv

LEMMA Closed ==
  ASSUME ConnsInv, NEW c \in Clients, Close(c)
  PROVE  ConnsInv'
BY Zenon, FreshOk, OneConn DEF Close

\* The parts of a connection before the step.
LEMMA Parts ==
  ASSUME ConnsInv, NEW c \in Clients
  PROVE  /\ IsConn(conn[c]) /\ FieldsOk(st(c), conn[c].subs, conn[c].tokenSubs, call(c))
         /\ conn[c] = [st |-> st(c), user |-> user(c), subs |-> conn[c].subs,
                       tokenSubs |-> conn[c].tokenSubs, call |-> call(c)]
         /\ c \in DOMAIN conn
<1>1. ConnOk(conn[c]) BY Zenon DEF ConnsInv
<1>2. c \in DOMAIN conn BY DEF ConnsInv
<1> QED BY Zenon, <1>1, <1>2 DEF ConnOk, IsConn, st, user, call

\* A subscription that ends, or begins other than by a connection token.
LEMMA SubsOk ==
  ASSUME NEW S, NEW tok, NEW ch, NEW v \in {"none", "other"}, NEW L, NEW L2,
         FieldsOk("open", S, tok, L),
         L2.op \in {"none", "SubscribeProxy", "StreamProxy", "publish", "remove"},
         Carries(tok, L2)
  PROVE  FieldsOk("open", [S EXCEPT ![ch] = v], tok, L2)
<1>1. S \in [AllChannels -> Sources] /\ FromToken(S, tok) BY Zenon DEF FieldsOk
<1>2. [S EXCEPT ![ch] = v] \in [AllChannels -> Sources] BY <1>1 DEF Sources
<1>3. FromToken([S EXCEPT ![ch] = v], tok) BY <1>1 DEF FromToken
<1>4. Stage("open", [S EXCEPT ![ch] = v], L2) BY Zenon DEF Stage
<1> QED BY Zenon, <1>2, <1>3, <1>4 DEF FieldsOk

\* A connection after the answer to a subscribe command.
Answered(x, ch, v, L) ==
    [st |-> x.st, user |-> x.user, subs |-> [x.subs EXCEPT ![ch] = v], tokenSubs |-> x.tokenSubs, call |-> L]

LEMMA AnsweredOk ==
  ASSUME ConnsInv, NEW c \in Clients, st(c) = "open", NEW ch, NEW v \in {"none", "other"}, NEW L2,
         L2.op \in {"none", "SubscribeProxy", "StreamProxy", "publish", "remove"},
         Carries(conn[c].tokenSubs, L2)
  PROVE  ConnOk(Answered(conn[c], ch, v, L2))
<1>1. FieldsOk("open", conn[c].subs, conn[c].tokenSubs, call(c)) BY Zenon, Parts
<1>2. PICK a, u, S, tok0, r :
        /\ a = conn[c].st /\ u = conn[c].user /\ S = [conn[c].subs EXCEPT ![ch] = v]
        /\ tok0 = conn[c].tokenSubs /\ r = Answered(conn[c], ch, v, L2)
  OBVIOUS
<1>3. FieldsOk("open", S, tok0, L2) BY Zenon, <1>1, <1>2, SubsOk
<1>4. FieldsOk(a, S, tok0, L2) BY Zenon, <1>2, <1>3 DEF st
<1>5. r = [st |-> a, user |-> u, subs |-> S, tokenSubs |-> tok0, call |-> L2] BY Zenon, <1>2 DEF Answered
<1>6. ConnOk(r) BY ONLY <1>4, <1>5, Built
<1> QED BY Zenon, <1>2, <1>6

WithSub(x, ch, v) == [x EXCEPT !.subs[ch] = v]
WithCall(x, L) == [x EXCEPT !.call = L]

LEMMA WithSubOk ==
  ASSUME ConnsInv, NEW c \in Clients, st(c) = "open", NEW ch, NEW v \in {"none", "other"}
  PROVE  ConnOk(WithSub(conn[c], ch, v))
<1>1. /\ FieldsOk("open", conn[c].subs, conn[c].tokenSubs, call(c))
      /\ conn[c] = [st |-> st(c), user |-> user(c), subs |-> conn[c].subs,
                    tokenSubs |-> conn[c].tokenSubs, call |-> call(c)]
      /\ c \in DOMAIN conn
  BY Zenon, Parts
<1>2. /\ call(c).op \in {"none", "SubscribeProxy", "StreamProxy", "publish", "remove"}
      /\ Carries(conn[c].tokenSubs, call(c))
  BY Zenon, <1>1 DEF FieldsOk, Stage
<1>3. PICK a, u, S0, tok0, L0 :
         /\ a = "open" /\ S0 = conn[c].subs /\ tok0 = conn[c].tokenSubs /\ L0 = call(c)
         /\ conn[c] = [st |-> a, user |-> u, subs |-> S0, tokenSubs |-> tok0, call |-> L0]
  BY Zenon, <1>1
<1>4. PICK S : S = [S0 EXCEPT ![ch] = v] OBVIOUS
<1>5. FieldsOk("open", S, tok0, L0) BY Zenon, <1>1, <1>2, <1>3, <1>4, SubsOk
<1>r. PICK r : r = WithSub(conn[c], ch, v) OBVIOUS
<1>6. r = [st |-> a, user |-> u, subs |-> S, tokenSubs |-> tok0, call |-> L0]
  <2>1. PICK x : x = conn[c] OBVIOUS
  <2>2. r = [x EXCEPT !.subs = [x.subs EXCEPT ![ch] = v]] BY <1>r, <2>1 DEF WithSub
  <2> QED BY ONLY <1>3, <1>4, <2>1, <2>2
<1>7. ConnOk(r) BY Zenon, <1>3, <1>5, <1>6, Built
<1> QED BY Zenon, <1>r, <1>7

\* The handler of an open connection changes.
LEMMA WithCallOk ==
  ASSUME ConnsInv, NEW c \in Clients, st(c) = "open", NEW L,
         L.op \in {"none", "SubscribeProxy", "StreamProxy", "publish", "remove"},
         Carries(conn[c].tokenSubs, L)
  PROVE  ConnOk(WithCall(conn[c], L))
<1>1. /\ FieldsOk("open", conn[c].subs, conn[c].tokenSubs, call(c))
      /\ conn[c] = [st |-> st(c), user |-> user(c), subs |-> conn[c].subs,
                    tokenSubs |-> conn[c].tokenSubs, call |-> call(c)]
      /\ c \in DOMAIN conn
  BY Zenon, Parts
<1>2. FieldsOk("open", conn[c].subs, conn[c].tokenSubs, L)
  BY Zenon, <1>1 DEF FieldsOk, Stage
<1>3. PICK a, u, S0, tok0, L0 :
        /\ a = "open" /\ S0 = conn[c].subs /\ tok0 = conn[c].tokenSubs
        /\ conn[c] = [st |-> a, user |-> u, subs |-> S0, tokenSubs |-> tok0, call |-> L0]
  BY Zenon, <1>1
<1>r. PICK r : r = WithCall(conn[c], L) OBVIOUS
<1>4. r = [st |-> a, user |-> u, subs |-> S0, tokenSubs |-> tok0, call |-> L]
  <2>1. PICK x : x = conn[c] OBVIOUS
  <2>2. r = [x EXCEPT !.call = L] BY <1>r, <2>1 DEF WithCall
  <2> QED BY ONLY <1>3, <2>1, <2>2
<1>5. ConnOk(r) BY Zenon, <1>2, <1>3, <1>4, Built
<1> QED BY Zenon, <1>r, <1>5

\* The connect command goes on with credentials.
LEMMA ConnectingStep ==
  ASSUME ConnsInv, NEW c \in Clients, st(c) \in {"new", "connecting"}, NEW k, NEW u, NEW req,
         NEW process, NEW got, NEW tok, got \in [AllChannels -> Sources], FromToken(got, tok),
         Connecting(c, k, u, req, process, got, tok)
  PROVE  ConnsInv'
<1>1. PICK L : L = [op |-> "connect", cfg |-> k, req |-> req, process |-> process, got |-> got]
  OBVIOUS
<1>2. L.op = "connect" /\ L.got = got BY <1>1
<1>3. /\ FieldsOk(st(c), conn[c].subs, conn[c].tokenSubs, call(c))
      /\ conn[c] = [st |-> st(c), user |-> user(c), subs |-> conn[c].subs,
                    tokenSubs |-> conn[c].tokenSubs, call |-> call(c)]
      /\ c \in DOMAIN conn
  BY Zenon, Parts
<1>4. conn[c].subs = NoSubs BY <1>3 DEF FieldsOk, Stage
<1>5. FieldsOk("connecting", NoSubs, tok, L)
  BY Zenon, <1>2, NoSubsOk DEF FieldsOk, Stage, Carries
<1>6. PICK r : r = [st |-> "connecting", user |-> u, subs |-> NoSubs, tokenSubs |-> tok, call |-> L]
  OBVIOUS
<1>7. conn' = [conn EXCEPT ![c] = r]
  <2>1. PICK a0, u0, S0, tok0, L0 :
          /\ S0 = NoSubs
          /\ conn[c] = [st |-> a0, user |-> u0, subs |-> S0, tokenSubs |-> tok0, call |-> L0]
    BY Zenon, <1>3, <1>4
  <2>2. PICK x : x = conn[c] OBVIOUS
  <2>3. conn' = [conn EXCEPT ![c] = [[[[x EXCEPT !.st = "connecting"] EXCEPT !.user = u]
                                         EXCEPT !.tokenSubs = tok] EXCEPT !.call = L]]
    BY <1>1, <1>3, <2>2 DEF Connecting
  <2>4. PICK x1 : x1 = [x EXCEPT !.st = "connecting"] OBVIOUS
  <2>5. PICK x2 : x2 = [x1 EXCEPT !.user = u] OBVIOUS
  <2>6. PICK x3 : x3 = [x2 EXCEPT !.tokenSubs = tok] OBVIOUS
  <2>7. x1 = [st |-> "connecting", user |-> u0, subs |-> S0, tokenSubs |-> tok0, call |-> L0]
    BY ONLY <2>1, <2>2, <2>4
  <2>8. x2 = [st |-> "connecting", user |-> u, subs |-> S0, tokenSubs |-> tok0, call |-> L0]
    BY ONLY <2>5, <2>7
  <2>9. x3 = [st |-> "connecting", user |-> u, subs |-> S0, tokenSubs |-> tok, call |-> L0]
    BY ONLY <2>6, <2>8
  <2>10. [x3 EXCEPT !.call = L] = r BY ONLY <1>6, <2>1, <2>9
  <2> QED BY Zenon, <2>3, <2>4, <2>5, <2>6, <2>10
<1>8. ConnOk(r) BY Zenon, <1>5, <1>6, Built
<1> QED BY Zenon, <1>7, <1>8, OneConn

\* A command that goes to a proxy and does not meet a missing one.
LEMMA CalledStep ==
  ASSUME ConnsInv, NEW c \in Clients, Idle(c), NEW op, NEW field, NEW k2, NEW ch, NEW key,
         op \in {"SubscribeProxy", "StreamProxy", "publish", "remove"},
         op \in {"publish", "remove"} => ch \in Channels /\ Unforced(ch),
         Call(c, op, field, k2, ch, key)
  PROVE  ConnsInv'
<1>1. CASE conn' = conn BY Zenon, <1>1 DEF ConnsInv
<1>2. CASE conn' = [conn EXCEPT ![c].call = [op |-> op, ch |-> ch, key |-> key]]
  <2>1. PICK L : L = [op |-> op, ch |-> ch, key |-> key] OBVIOUS
  <2>2. L.op = op /\ L.ch = ch BY <2>1
  <2>3. Carries(conn[c].tokenSubs, L) BY <2>2 DEF Carries
  <2>4. st(c) = "open" /\ L.op \in {"none", "SubscribeProxy", "StreamProxy", "publish", "remove"}
    BY Zenon, <2>2 DEF Idle
  <2>5. PICK r : r = WithCall(conn[c], L) OBVIOUS
  <2>6. ConnOk(r)
    <3>1. ConnOk(WithCall(conn[c], L)) BY ONLY ConnsInv, c \in Clients, <2>3, <2>4, WithCallOk
    <3> QED BY Zenon, <2>5, <3>1
  <2>7. conn' = [conn EXCEPT ![c] = r] BY <1>2, <2>1, <2>5 DEF WithCall
  <2> QED BY Zenon, <2>6, <2>7, OneConn
<1> QED BY Zenon, <1>1, <1>2 DEF Call

LEMMA ConnectConns ==
  ASSUME ConnsInv, NEW c \in Clients,
         \/ \E tok \in ConnTokens, req \in Requests : ConnectWithToken(c, tok, req)
         \/ \E req \in Requests : ConnectWithoutToken(c, req)
         \/ \E u \in Users, chs \in Requests : ConnectProxied(c, u, chs)
  PROVE  ConnsInv'
<1>0. FieldsOk(st(c), conn[c].subs, conn[c].tokenSubs, call(c)) BY Zenon, Parts
<1>a. ASSUME st(c) \in {"new", "connecting"}, NEW k, NEW req, ConnectAnonymous(c, k, req) PROVE ConnsInv'
  <2>1. CASE Close(c) BY Zenon, <2>1, Closed
  <2>2. CASE Connecting(c, k, Anonymous, req, TRUE, NoSubs, {})
    BY Zenon, <1>a, <2>2, NoSubsOk, ConnectingStep
  <2> QED BY Zenon, <1>a, <2>1, <2>2 DEF ConnectAnonymous
<1>1. ASSUME NEW tok \in ConnTokens, NEW req \in Requests, ConnectWithToken(c, tok, req) PROVE ConnsInv'
  <2>1. CASE Close(c) BY Zenon, <2>1, Closed
  <2>2. CASE Connecting(c, config, tok.user, req, TRUE, Sourced(tok.subs, "token"), tok.subs)
    <3>1. /\ Sourced(tok.subs, "token") \in [AllChannels -> Sources]
          /\ FromToken(Sourced(tok.subs, "token"), tok.subs)
      BY DEF Sourced, FromToken, Sources
    <3>2. st(c) \in {"new", "connecting"} BY Zenon, <1>1 DEF ConnectWithToken
    <3> QED BY Zenon, <2>2, <3>1, <3>2, ConnectingStep
  <2> QED BY Zenon, <1>1, <2>1, <2>2 DEF ConnectWithToken
<1>2. ASSUME NEW req \in Requests, ConnectWithoutToken(c, req) PROVE ConnsInv'
  <2>1. CASE ConnectAnonymous(c, config, req) BY Zenon, <1>a, <1>2, <2>1 DEF ConnectWithoutToken
  <2>2. CASE conn' = [conn EXCEPT ![c].st = "connecting",
                       ![c].call = [op |-> "connectProxy", cfg |-> config, req |-> req]]
    <3>1. PICK L : L = [op |-> "connectProxy", cfg |-> config, req |-> req] OBVIOUS
    <3>2. L.op = "connectProxy" BY <3>1
    <3>3. st(c) = "new" BY Zenon, <1>2 DEF ConnectWithoutToken
    <3>4. conn[c].subs = NoSubs BY <1>0, <3>3 DEF FieldsOk, Stage
    <3>5. PICK a0, u0, S0, tok0, L0 :
            /\ S0 = NoSubs /\ c \in DOMAIN conn
            /\ conn[c] = [st |-> a0, user |-> u0, subs |-> S0, tokenSubs |-> tok0, call |-> L0]
      BY Zenon, <3>4, Parts
    <3>6. FieldsOk("connecting", NoSubs, tok0, L)
      BY Zenon, <3>2, NoSubsOk DEF FieldsOk, Stage, Carries
    <3>7. PICK r : r = [st |-> "connecting", user |-> u0, subs |-> NoSubs, tokenSubs |-> tok0, call |-> L]
      OBVIOUS
    <3>8. conn' = [conn EXCEPT ![c] = r]
      <4>1. PICK x : x = conn[c] OBVIOUS
      <4>2. conn' = [conn EXCEPT ![c] = [[x EXCEPT !.st = "connecting"] EXCEPT !.call = L]]
        BY <2>2, <3>1, <3>5, <4>1
      <4>3. PICK y : y = [x EXCEPT !.st = "connecting"] OBVIOUS
      <4>4. y = [st |-> "connecting", user |-> u0, subs |-> S0, tokenSubs |-> tok0, call |-> L0]
        BY ONLY <3>5, <4>1, <4>3
      <4>5. [y EXCEPT !.call = L] = r BY ONLY <3>5, <3>7, <4>4
      <4> QED BY Zenon, <4>2, <4>3, <4>5
    <3>9. ConnOk(r) BY Zenon, <3>6, <3>7, Built
    <3> QED BY Zenon, <3>8, <3>9, OneConn
  <2> QED BY Zenon, <1>2, <2>1, <2>2 DEF ConnectWithoutToken
<1>3. ASSUME NEW u \in Users, NEW chs \in Requests, ConnectProxied(c, u, chs) PROVE ConnsInv'
  <2>1. call(c).op = "connectProxy" BY Zenon, <1>3 DEF ConnectProxied
  <2>2. st(c) = "connecting" BY <1>0, <2>1, NoCallOk DEF FieldsOk, Stage
  <2>3. PICK rep :
          CASE rep.kind # "allow" -> Close(c)
            [] rep = Reply("allow", "noCredentials") -> ConnectAnonymous(c, call(c).cfg, call(c).req)
            [] OTHER -> Connecting(c, call(c).cfg, u, call(c).req, FALSE, Sourced(chs, "other"), {})
    BY Zenon, <1>3 DEF ConnectProxied
  <2>4. \/ Close(c)
        \/ ConnectAnonymous(c, call(c).cfg, call(c).req)
        \/ Connecting(c, call(c).cfg, u, call(c).req, FALSE, Sourced(chs, "other"), {})
    BY <2>3
  <2>5. CASE Close(c) BY Zenon, <2>5, Closed
  <2>6. CASE ConnectAnonymous(c, call(c).cfg, call(c).req) BY Zenon, <1>a, <2>2, <2>6
  <2>7. CASE Connecting(c, call(c).cfg, u, call(c).req, FALSE, Sourced(chs, "other"), {})
    <3>1. Sourced(chs, "other") \in [AllChannels -> Sources] /\ FromToken(Sourced(chs, "other"), {})
      BY DEF Sourced, FromToken, Sources
    <3> QED BY Zenon, <2>2, <2>7, <3>1, ConnectingStep
  <2> QED BY Zenon, <2>4, <2>5, <2>6, <2>7
<1> QED BY Zenon, <1>1, <1>2, <1>3

\* The single connection check: closed connections, and one that goes on.
LEMMA CheckConns ==
  ASSUME ConnsInv, NEW c \in Clients, NEW fails \in BOOLEAN, SingleConnectionCheck(c, fails)
  PROVE  ConnsInv'
<1>1. /\ FieldsOk(st(c), conn[c].subs, conn[c].tokenSubs, call(c))
      /\ conn[c] = [st |-> st(c), user |-> user(c), subs |-> conn[c].subs,
                    tokenSubs |-> conn[c].tokenSubs, call |-> call(c)]
  BY Zenon, Parts
<1>2. st(c) = "connecting" /\ call(c).op = "connect" BY Zenon DEF SingleConnectionCheck
<1>3. FieldsOk("checked", conn[c].subs, conn[c].tokenSubs, call(c))
  BY <1>1, <1>2 DEF FieldsOk, Stage
<1>4. PICK a, u, S0, tok0, L0 :
        /\ S0 = conn[c].subs /\ tok0 = conn[c].tokenSubs /\ L0 = call(c)
        /\ conn[c] = [st |-> a, user |-> u, subs |-> S0, tokenSubs |-> tok0, call |-> L0]
  BY Zenon, <1>1
<1>r. PICK r : r = [conn[c] EXCEPT !.st = "checked"] OBVIOUS
<1>5. r = [st |-> "checked", user |-> u, subs |-> S0, tokenSubs |-> tok0, call |-> L0]
  BY ONLY <1>4, <1>r
<1>6. ConnOk(r)
  <2>1. FieldsOk("checked", S0, tok0, L0) BY Zenon, <1>3, <1>4
  <2> QED BY ONLY <1>5, <2>1, Built
<1>7. PICK P : conn' = [d \in Clients |-> IF d \in P THEN Gone ELSE IF d # c THEN conn[d] ELSE r]
  <2> DEFINE k == call(c).cfg
             enforced == k.personal /\ k.singleConnection /\ user(c) # Anonymous
             mine == {d \in Clients \ {c} : st(d) = "open" /\ user(d) = user(c)}
             present == {d \in mine : Subscribed(d, PersonalChannel(config, user(c)))}
             D == IF enforced /\ present # {} THEN mine ELSE {}
             P == {d \in Clients : (d \in D /\ ~fails) \/ (d = c /\ fails)}
  <2>1. conn' = [d \in Clients |->
                   IF (d \in D /\ ~fails) \/ (d = c /\ fails) THEN Gone
                   ELSE IF d # c THEN conn[d]
                   ELSE [conn[c] EXCEPT !.st = "checked"]]
    BY Zenon DEF SingleConnectionCheck
  <2> HIDE DEF D
  <2>2. conn' = [d \in Clients |-> IF d \in P THEN Gone ELSE IF d # c THEN conn[d] ELSE r]
    BY <1>r, <2>1
  <2> QED BY Zenon, <2>2
<1>8. \A d \in Clients : conn'[d] = Gone \/ conn'[d] = conn[d] \/ conn'[d] = r BY <1>7
<1>9. conn' = [d \in Clients |-> conn'[d]] BY <1>7
<1>10. \A d \in Clients : ConnOk(conn'[d]) BY Zenon, <1>6, <1>8, FreshOk DEF ConnsInv
<1> QED BY Zenon, <1>9, <1>10 DEF ConnsInv

\* The rest of the connect command.
LEMMA FinishConns ==
  ASSUME ConnsInv, NEW c \in Clients, NEW k2, FinishConnect(c, k2)
  PROVE  ConnsInv'
<1>1. CASE Close(c) BY Zenon, <1>1, Closed
<1>2. CASE ~Close(c)
  <2> DEFINE k == call(c).cfg
             personal == IF k.personal /\ user(c) # Anonymous
                         THEN {PersonalChannel(config, user(c))} ELSE {}
             req == IF call(c).process THEN call(c).req ELSE {}
             ok == {ch \in req : ConnectChannelOk(k, ChannelOptions(k2, ch), ch, user(c))}
             got == call(c).got
             all == [ch \in AllChannels |->
                       IF ch \in personal THEN "other"
                       ELSE IF got[ch] # "none" THEN got[ch]
                       ELSE IF ch \in ok THEN "other" ELSE "none"]
  <2>1. st(c) = "checked" BY Zenon DEF FinishConnect
  <2>2. conn' = [conn EXCEPT ![c].st = "open", ![c].subs = all, ![c].call = NoCall]
    BY Zenon, <1>2 DEF FinishConnect
  <2>3. /\ FieldsOk(st(c), conn[c].subs, conn[c].tokenSubs, call(c))
        /\ conn[c] = [st |-> st(c), user |-> user(c), subs |-> conn[c].subs,
                      tokenSubs |-> conn[c].tokenSubs, call |-> call(c)]
        /\ c \in DOMAIN conn
    BY Zenon, Parts
  <2>4. call(c).op = "connect" BY <2>1, <2>3 DEF FieldsOk, Stage
  <2>5. got \in [AllChannels -> Sources] /\ FromToken(got, conn[c].tokenSubs)
    BY Zenon, <2>3, <2>4 DEF FieldsOk, Carries
  <2> HIDE DEF got, ok, personal
  <2>6. all \in [AllChannels -> Sources] BY <2>5 DEF Sources
  <2>7. FromToken(all, conn[c].tokenSubs) BY <2>5 DEF FromToken
  <2> HIDE DEF all
  <2>8. FieldsOk("open", all, conn[c].tokenSubs, NoCall)
    BY Zenon, <2>6, <2>7, NoCallOk DEF FieldsOk, Stage
  <2>9. PICK a, u, S0, tok0, L0 :
          /\ tok0 = conn[c].tokenSubs
          /\ conn[c] = [st |-> a, user |-> u, subs |-> S0, tokenSubs |-> tok0, call |-> L0]
    BY Zenon, <2>3
  <2>10. PICK S, N, x : S = all /\ N = NoCall /\ x = conn[c] OBVIOUS
  <2>11. PICK r : r = [st |-> "open", user |-> u, subs |-> S, tokenSubs |-> tok0, call |-> N] OBVIOUS
  <2>12. conn' = [conn EXCEPT ![c] = r]
    <3>1. conn' = [conn EXCEPT ![c] = [[[x EXCEPT !.st = "open"] EXCEPT !.subs = S] EXCEPT !.call = N]]
      BY <2>2, <2>3, <2>10
    <3>2. PICK y : y = [x EXCEPT !.st = "open"] OBVIOUS
    <3>3. PICK z : z = [y EXCEPT !.subs = S] OBVIOUS
    <3>4. y = [st |-> "open", user |-> u, subs |-> S0, tokenSubs |-> tok0, call |-> L0]
      BY ONLY <2>9, <2>10, <3>2
    <3>5. z = [st |-> "open", user |-> u, subs |-> S, tokenSubs |-> tok0, call |-> L0] BY ONLY <3>3, <3>4
    <3>6. [z EXCEPT !.call = N] = r BY ONLY <2>11, <3>5
    <3> QED BY Zenon, <3>1, <3>2, <3>3, <3>6
  <2>13. FieldsOk("open", S, tok0, N) BY Zenon, <2>8, <2>9, <2>10
  <2>14. ConnOk(r) BY ONLY <2>11, <2>13, Built
  <2> QED BY Zenon, <2>12, <2>14, OneConn
<1> QED BY Zenon, <1>1, <1>2

\* A refresh is accepted only if the new token lists what an older one gave.
LEMMA RefreshConns ==
  ASSUME ConnsInv, NEW c \in Clients, NEW tok, OnRefresh(c, tok)
  PROVE  ConnsInv'
<1>1. CASE Close(c) BY Zenon, <1>1, Closed
<1>2. CASE ~Close(c)
  <2>1. st(c) = "open" /\ call(c) = NoCall BY Zenon DEF OnRefresh
  <2>2. conn' = [conn EXCEPT ![c].tokenSubs = tok.subs] /\ ~tokenChannelsChanged(c, tok.subs)
    BY Zenon, <1>2 DEF OnRefresh
  <2>3. /\ FieldsOk("open", conn[c].subs, conn[c].tokenSubs, call(c))
        /\ conn[c] = [st |-> st(c), user |-> user(c), subs |-> conn[c].subs,
                      tokenSubs |-> conn[c].tokenSubs, call |-> call(c)]
        /\ c \in DOMAIN conn
    BY Zenon, <2>1, Parts
  <2>4. FromToken(conn[c].subs, tok.subs) BY Zenon, <2>2 DEF tokenChannelsChanged, FromToken
  <2>5. FieldsOk("open", conn[c].subs, tok.subs, NoCall)
    BY Zenon, <2>3, <2>4, NoCallOk DEF FieldsOk, Stage
  <2>6. PICK u, S0, tok0, L0, T :
          /\ S0 = conn[c].subs /\ L0 = NoCall /\ T = tok.subs
          /\ conn[c] = [st |-> "open", user |-> u, subs |-> S0, tokenSubs |-> tok0, call |-> L0]
    BY Zenon, <2>1, <2>3
  <2>7. PICK r : r = [st |-> "open", user |-> u, subs |-> S0, tokenSubs |-> T, call |-> L0] OBVIOUS
  <2>8. conn' = [conn EXCEPT ![c] = r]
    <3>1. PICK x : x = conn[c] OBVIOUS
    <3>2. conn' = [conn EXCEPT ![c] = [x EXCEPT !.tokenSubs = T]] BY <2>2, <2>3, <2>6, <3>1
    <3>3. [x EXCEPT !.tokenSubs = T] = r BY ONLY <2>6, <2>7, <3>1
    <3> QED BY Zenon, <3>2, <3>3
  <2>9. FieldsOk("open", S0, T, L0) BY Zenon, <2>5, <2>6
  <2>10. ConnOk(r) BY ONLY <2>7, <2>9, Built
  <2> QED BY Zenon, <2>8, <2>10, OneConn
<1> QED BY Zenon, <1>1, <1>2

\* A lookup answers from a valid configuration.
LEMMA Lookup ==
  ASSUME ServerInv, NEW k2 \in Visible
  PROVE  /\ k2 \in Valid /\ ValidConfig(k2) /\ IsClientConfig(k2)
         /\ \A ch : Found(k2, ch) =>
              /\ ChannelOptions(k2, ch) = OptionsOf(k2, ch)
              /\ ValidOptions(k2, OptionsOf(k2, ch))
<1>1. k2 \in Valid BY Zenon DEF ServerInv, Visible
<1>2. ValidConfig(k2) /\ IsClientConfig(k2) BY Zenon, <1>1, ConfigAssumption DEF Valid
<1>3. \A ns \in DOMAIN k2.namespaces : ValidOptions(k2, k2.namespaces[ns]) BY Zenon, <1>2 DEF ValidConfig
<1> QED BY Zenon, <1>1, <1>2, <1>3 DEF Found, OptionsOf, ChannelOptions

\* A channel whose map operations go to a proxy has no forced keys.
LEMMA ProxiedUnforced ==
  ASSUME ServerInv, NEW k2 \in Visible, NEW ch, Found(k2, ch), NEW o, o = ChannelOptions(k2, ch),
         o.mapPublishProxy # NoProxy \/ o.mapRemoveProxy # NoProxy
  PROVE  Unforced(ch)
<1>1. k2 \in Valid /\ o = OptionsOf(k2, ch) /\ ValidOptions(k2, o) BY Zenon, Lookup
<1>2. o.clientKey = "" BY Zenon, <1>1 DEF ValidOptions
<1>3. o.clientKey \notin ForcedKinds BY Zenon, <1>2 DEF ForcedKinds
<1> QED BY Zenon, <1>1, <1>3 DEF Unforced

\* A subscription of an open connection ends, or begins other than by a token.
LEMMA SubConns ==
  ASSUME ConnsInv, NEW c \in Clients, st(c) = "open", NEW ch, NEW v \in {"none", "other"},
         NEW r, r = WithSub(conn[c], ch, v), conn' = [conn EXCEPT ![c] = r]
  PROVE  ConnsInv'
<1>1. ConnOk(WithSub(conn[c], ch, v))
  BY ONLY ConnsInv, c \in Clients, st(c) = "open", v \in {"none", "other"}, WithSubOk
<1> QED BY Zenon, <1>1, OneConn

LEMMA PlainConns ==
  ASSUME ConnsInv, NEW c \in Clients,
         \/ Disconnect(c)
         \/ \E ch \in AllChannels : Unsubscribe(c, ch)
         \/ RefreshProxied(c)
         \/ \E ch \in Channels, tok \in SubTokens \cup {NoToken} : OnSubRefresh(c, ch, tok)
         \/ \E ch \in Channels, k2 \in Visible : SubRefreshProxied(c, ch, k2)
         \/ \E ch \in Channels, k2 \in Visible : PublishProxied(c, ch, k2)
         \/ \E ns \in DOMAIN config.rpc : RPCProxied(c, ns)
  PROVE  ConnsInv'
<1>1. CASE Close(c) BY Zenon, <1>1, Closed
<1>2. CASE conn' = conn BY Zenon, <1>2 DEF ConnsInv
<1>3. ASSUME st(c) = "open", NEW ch, conn' = [conn EXCEPT ![c].subs[ch] = "none"] PROVE ConnsInv'
  <2>1. PICK r : r = WithSub(conn[c], ch, "none") OBVIOUS
  <2>2. conn' = [conn EXCEPT ![c] = r] BY <1>3, <2>1 DEF WithSub
  <2>3. "none" \in {"none", "other"} OBVIOUS
  <2> QED BY Zenon, <1>3, <2>1, <2>2, <2>3, SubConns
<1>4. \/ Close(c)
      \/ conn' = conn
      \/ st(c) = "open" /\ \E ch : conn' = [conn EXCEPT ![c].subs[ch] = "none"]
  <2>1. CASE Disconnect(c) BY Zenon, <2>1 DEF Disconnect
  <2>2. CASE \E ch \in AllChannels : Unsubscribe(c, ch) BY Zenon, <2>2 DEF Unsubscribe
  <2>3. CASE RefreshProxied(c) BY Zenon, <2>3 DEF RefreshProxied
  <2>4. CASE \E ch \in Channels, tok \in SubTokens \cup {NoToken} : OnSubRefresh(c, ch, tok)
    BY Zenon, <2>4 DEF OnSubRefresh, Idle
  <2>5. CASE \E ch \in Channels, k2 \in Visible : SubRefreshProxied(c, ch, k2)
    <3>1. PICK ch \in Channels, k2 \in Visible : SubRefreshProxied(c, ch, k2) BY <2>5
    <3>2. st(c) = "open" BY Zenon, <3>1 DEF SubRefreshProxied, Idle
    <3>3. conn' = conn \/ conn' = [conn EXCEPT ![c].subs[ch] = "none"]
      BY <3>1 DEF SubRefreshProxied
    <3> QED BY Zenon, <3>2, <3>3
  <2>6. CASE \E ch \in Channels, k2 \in Visible : PublishProxied(c, ch, k2)
    BY Zenon, <2>6 DEF PublishProxied, ProxiedAnswer
  <2>7. CASE \E ns \in DOMAIN config.rpc : RPCProxied(c, ns)
    BY Zenon, <2>7 DEF RPCProxied, ProxiedAnswer
  <2> QED BY Zenon, <2>1, <2>2, <2>3, <2>4, <2>5, <2>6, <2>7
<1> QED BY Zenon, <1>1, <1>2, <1>3, <1>4

\* A subscribe command, and the answer of its proxy.
LEMMA SubscribeConns ==
  ASSUME ServerInv, ConnsInv, NEW c \in Clients,
         \/ \E ch \in Channels, type \in {"stream", "map"}, tok \in SubTokens \cup {NoToken},
              k2 \in Visible : Subscribe(c, ch, type, tok, k2)
         \/ SubscribeProxied(c)
  PROVE  ConnsInv'
<1>0. CASE Close(c) BY Zenon, <1>0, Closed
<1>1. ASSUME NEW ch \in Channels, NEW type, NEW tok, NEW k2 \in Visible, Subscribe(c, ch, type, tok, k2)
      PROVE  ConnsInv'
  <2>1. st(c) = "open" /\ Idle(c) BY Zenon, <1>1 DEF Subscribe, Idle
  <2>2. PICK o, found, u, R :
          /\ R = OnSubscribe(config, o, found, ch, u, c, type, tok)
          /\ \/ conn' = [conn EXCEPT ![c].subs[ch] = "other"]
             \/ Close(c)
             \/ /\ R.kind = "proxy"
                /\ Call(c, R.source,
                        IF R.source = "StreamProxy" THEN "streamProxy" ELSE "subscribeProxy",
                        k2, ch, "")
    BY Zenon, <1>1 DEF Subscribe
  <2>3. CASE conn' = [conn EXCEPT ![c].subs[ch] = "other"]
    <3>1. PICK r : r = WithSub(conn[c], ch, "other") OBVIOUS
    <3>2. conn' = [conn EXCEPT ![c] = r] BY <2>3, <3>1 DEF WithSub
    <3>3. "other" \in {"none", "other"} OBVIOUS
    <3> QED BY Zenon, <2>1, <3>1, <3>2, <3>3, SubConns
  <2>4. ASSUME R.kind = "proxy", NEW field, NEW key, Call(c, R.source, field, k2, ch, key) PROVE ConnsInv'
    <3>1. config.insecure \in BOOLEAN
      <4>1. IsClientConfig(config) BY Zenon, ConfigAssumption DEF ServerInv, Valid
      <4> QED BY Zenon, <4>1 DEF IsClientConfig
    <3>2. /\ R.kind = "proxy" =>
              /\ found
              /\ \/ R.source = "SubscribeProxy" /\ o.subscribeProxy # NoProxy
                 \/ R.source = "StreamProxy" /\ o.streamProxy # NoProxy
          /\ (/\ found /\ tok = NoToken /\ isSubscriptionTypeAllowed(type, o.subscriptionType)
              /\ o.streamProxy = NoProxy /\ ConnectChannelOk(config, o, ch, u)) => R.kind = "allow"
      <4>1. R = OnSubscribe(config, o, found, ch, u, c, type, tok) BY Zenon, <2>2
      <4> QED BY ONLY <3>1, <4>1, SubscribeRule
    <3>3. /\ R.source \in {"SubscribeProxy", "StreamProxy", "publish", "remove"}
          /\ R.source \notin {"publish", "remove"}
      BY Zenon, <2>4, <3>2
    <3> QED BY ONLY ConnsInv, c \in Clients, <2>1, <2>4, <3>3, CalledStep
  <2> QED BY Zenon, <1>0, <2>2, <2>3, <2>4
<1>2. ASSUME SubscribeProxied(c), ~Close(c) PROVE ConnsInv'
  <2>1. PICK v : /\ v \in {"none", "other"}
                 /\ conn' = [conn EXCEPT ![c].call = NoCall, ![c].subs[call(c).ch] = v]
    BY Zenon, <1>2 DEF SubscribeProxied
  <2>2. st(c) = "open"
    <3>1. FieldsOk(st(c), conn[c].subs, conn[c].tokenSubs, call(c)) BY Zenon, Parts
    <3>2. call(c).op \in {"SubscribeProxy", "StreamProxy"} BY Zenon, <1>2 DEF SubscribeProxied
    <3> QED BY <3>1, <3>2, NoCallOk DEF FieldsOk, Stage
  <2>3. PICK N, ch : N = NoCall /\ ch = call(c).ch OBVIOUS
  <2>4. /\ N.op \in {"none", "SubscribeProxy", "StreamProxy", "publish", "remove"}
        /\ Carries(conn[c].tokenSubs, N)
    BY Zenon, <2>3, NoCallOk
  <2>5. PICK r : r = Answered(conn[c], ch, v, N) OBVIOUS
  <2>6. ConnOk(r)
    <3>1. v \in {"none", "other"} BY Zenon, <2>1
    <3>2. ConnOk(Answered(conn[c], ch, v, N))
      BY ONLY ConnsInv, c \in Clients, <2>2, <2>4, <3>1, AnsweredOk
    <3> QED BY Zenon, <2>5, <3>2
  <2>7. conn' = [conn EXCEPT ![c] = r]
    <3>1. PICK x, a, u, S0, tok0, L0 :
            x = conn[c] /\ x = [st |-> a, user |-> u, subs |-> S0, tokenSubs |-> tok0, call |-> L0]
      BY Zenon, Parts
    <3>2. c \in DOMAIN conn BY Zenon, Parts
    <3>3. PICK y : y = [x EXCEPT !.call = N] OBVIOUS
    <3>4. conn' = [conn EXCEPT ![c] = [y EXCEPT !.subs = [y.subs EXCEPT ![ch] = v]]]
      BY <2>1, <2>3, <3>1, <3>2, <3>3
    <3>5. y = [st |-> a, user |-> u, subs |-> S0, tokenSubs |-> tok0, call |-> N] BY ONLY <3>1, <3>3
    <3>6. x.st = a /\ x.user = u /\ x.subs = S0 /\ x.tokenSubs = tok0 /\ y.subs = S0
      BY ONLY <3>1, <3>5
    <3>7. PICK S : S = [S0 EXCEPT ![ch] = v] OBVIOUS
    <3>8. r = [st |-> a, user |-> u, subs |-> S, tokenSubs |-> tok0, call |-> N]
      BY Zenon, <2>5, <3>1, <3>6, <3>7 DEF Answered
    <3>9. [y EXCEPT !.subs = S] = r BY ONLY <3>5, <3>8
    <3> QED BY Zenon, <3>4, <3>6, <3>7, <3>9
  <2> QED BY Zenon, <2>6, <2>7, OneConn
<1> QED BY Zenon, <1>0, <1>1, <1>2

\* A map command, and the answer of its proxy.
LEMMA MapConns ==
  ASSUME ServerInv, ConnsInv, NEW c \in Clients,
         \/ \E op \in {"publish", "remove"}, ch \in Channels, key \in Keys, k2 \in Visible :
              MapCommand(op, c, ch, key, k2)
         \/ \E key \in Keys : MapProxied(c, key)
  PROVE  ConnsInv'
<1>0. CASE Close(c) BY Zenon, <1>0, Closed
<1>1. ASSUME NEW op \in {"publish", "remove"}, NEW ch \in Channels, NEW key, NEW k2 \in Visible,
             MapCommand(op, c, ch, key, k2)
      PROVE  ConnsInv'
  <2>1. Idle(c) BY Zenon, <1>1 DEF MapCommand
  <2>2. PICK o, u, is, R :
          /\ o = ChannelOptions(k2, ch)
          /\ \/ R = OnMapPublish(config, o, Found(k2, ch), ch, u, is)
             \/ R = OnMapRemove(config, o, Found(k2, ch), ch, u, is)
          /\ \/ conn' = conn
             \/ R.kind = "proxy" /\ \E field : Call(c, op, field, k2, ch, key)
    BY Zenon, <1>1 DEF MapCommand
  <2>3. CASE conn' = conn BY Zenon, <2>3 DEF ConnsInv
  <2>4. ASSUME R.kind = "proxy", NEW field, Call(c, op, field, k2, ch, key) PROVE ConnsInv'
    <3>1. Found(k2, ch) /\ (o.mapPublishProxy # NoProxy \/ o.mapRemoveProxy # NoProxy)
      BY Zenon, <2>2, <2>4, MapRuleAllow DEF OnMapPublish, OnMapRemove
    <3>2. Unforced(ch) BY Zenon, <2>2, <3>1, ProxiedUnforced
    <3>3. /\ op \in {"SubscribeProxy", "StreamProxy", "publish", "remove"}
          /\ op \in {"publish", "remove"} => ch \in Channels /\ Unforced(ch)
      BY Zenon, <3>2
    <3> QED BY ONLY ConnsInv, c \in Clients, <2>1, <2>4, <3>3, CalledStep
  <2> QED BY Zenon, <2>2, <2>3, <2>4
<1>2. ASSUME NEW key, MapProxied(c, key), ~Close(c) PROVE ConnsInv'
  <2>1. conn' = [conn EXCEPT ![c].call = NoCall] BY Zenon, <1>2 DEF MapProxied
  <2>2. st(c) = "open"
    <3>1. FieldsOk(st(c), conn[c].subs, conn[c].tokenSubs, call(c)) BY Zenon, Parts
    <3>2. call(c).op \in {"publish", "remove"} BY Zenon, <1>2 DEF MapProxied
    <3> QED BY <3>1, <3>2, NoCallOk DEF FieldsOk, Stage
  <2>3. PICK N, r : N = NoCall /\ r = WithCall(conn[c], N) OBVIOUS
  <2>4. /\ N.op \in {"none", "SubscribeProxy", "StreamProxy", "publish", "remove"}
        /\ Carries(conn[c].tokenSubs, N)
    BY Zenon, <2>3, NoCallOk
  <2>5. ConnOk(r)
    <3>1. ConnOk(WithCall(conn[c], N)) BY ONLY ConnsInv, c \in Clients, <2>2, <2>4, WithCallOk
    <3> QED BY Zenon, <2>3, <3>1
  <2>6. conn' = [conn EXCEPT ![c] = r] BY <2>1, <2>3 DEF WithCall
  <2> QED BY Zenon, <2>5, <2>6, OneConn
<1> QED BY Zenon, <1>0, <1>1, <1>2

-----------------------------------------------------------------------------
(* Entries                                                                 *)

\* The only kind of key that the valid configurations which know the channel
\* use for it.
OnlyKind(ch, kind) ==
    {k.namespaces[ch.ns].clientKey :
        k \in {x \in Boots \cup Configs : ValidConfig(x) /\ Found(x, ch)}} = {kind}

LEMMA KindOf ==
  ASSUME NEW ch, NEW kind, OnlyKind(ch, kind), NEW k \in Valid, Found(k, ch)
  PROVE  OptionsOf(k, ch).clientKey = kind
BY DEF OnlyKind, Valid, OptionsOf

LEMMA OwnedByKind ==
  EntriesOwned <=>
    \A ch \in KeyedChannels :
       /\ OnlyKind(ch, "client_id") => \A e \in entries[ch] : e.key = e.client
       /\ OnlyKind(ch, "user_id") => \A e \in entries[ch] : e.key = e.user
BY Zenon DEF EntriesOwned, OnlyKind

LEMMA OwnedByKindNext ==
  EntriesOwned' <=>
    \A ch \in KeyedChannels :
       /\ OnlyKind(ch, "client_id") => \A e \in entries'[ch] : e.key = e.client
       /\ OnlyKind(ch, "user_id") => \A e \in entries'[ch] : e.key = e.user
BY Zenon DEF EntriesOwned, OnlyKind

\* A key that is the one the channel forces keeps the entries owned.
LEMMA AppliedOwned ==
  ASSUME EntriesInv, NEW op, NEW c, NEW ch, NEW key, Applied(op, c, ch, key),
         OnlyKind(ch, "client_id") => key = c, OnlyKind(ch, "user_id") => key = user(c)
  PROVE  EntriesInv'
<1>1. CASE entries' = entries BY Zenon, <1>1, OwnedByKind, OwnedByKindNext DEF EntriesInv
<1>2. CASE entries' # entries
  <2>1. ch \in KeyedChannels BY Zenon, <1>2 DEF Applied
  <2>2. PICK e0 : e0 = [key |-> key, client |-> c, user |-> user(c)] OBVIOUS
  <2>3. e0.key = key /\ e0.client = c /\ e0.user = user(c) BY <2>2
  <2>4. PICK E : E \subseteq entries[ch] \cup {e0} /\ entries' = [entries EXCEPT ![ch] = E]
    <3>1. CASE op = "publish"
      <4>1. PICK E : E = entries[ch] \cup {e0} OBVIOUS
      <4>2. entries' = [entries EXCEPT ![ch] = E] BY <2>1, <2>2, <3>1, <4>1 DEF Applied
      <4> QED BY Zenon, <4>1, <4>2
    <3>2. CASE op # "publish"
      <4>1. PICK E : E = {e \in entries[ch] : e.key # key} OBVIOUS
      <4>2. entries' = [entries EXCEPT ![ch] = E] BY <2>1, <3>2, <4>1 DEF Applied
      <4> QED BY Zenon, <4>1, <4>2
    <3> QED BY <3>1, <3>2
  <2>5. /\ entries' = [d \in KeyedChannels |-> entries'[d]]
        /\ \A d \in KeyedChannels :
             entries'[d] = entries[d] \/ (d = ch /\ entries'[d] \subseteq entries[d] \cup {e0})
    BY <2>1, <2>4 DEF EntriesInv
  <2>6. \A d \in KeyedChannels :
          /\ OnlyKind(d, "client_id") => \A e \in entries'[d] : e.key = e.client
          /\ OnlyKind(d, "user_id") => \A e \in entries'[d] : e.key = e.user
    <3> SUFFICES ASSUME NEW d \in KeyedChannels
                 PROVE  /\ OnlyKind(d, "client_id") => \A e \in entries'[d] : e.key = e.client
                        /\ OnlyKind(d, "user_id") => \A e \in entries'[d] : e.key = e.user
      OBVIOUS
    <3>1. /\ OnlyKind(d, "client_id") => \A e \in entries[d] : e.key = e.client
          /\ OnlyKind(d, "user_id") => \A e \in entries[d] : e.key = e.user
      BY Zenon, OwnedByKind DEF EntriesInv
    <3>2. CASE entries'[d] = entries[d] BY Zenon, <3>1, <3>2
    <3>3. CASE d = ch /\ entries'[d] \subseteq entries[d] \cup {e0} BY Zenon, <2>3, <3>1, <3>3
    <3> QED BY Zenon, <2>5, <3>2, <3>3
  <2> QED BY Zenon, <2>5, <2>6, OwnedByKindNext DEF EntriesInv
<1> QED BY <1>1, <1>2

LEMMA EntriesStep ==
  ASSUME ServerInv, ConnsInv, EntriesInv, SessionNext
  PROVE  EntriesInv'
<1>1. CASE entries' = entries BY Zenon, <1>1, OwnedByKind, OwnedByKindNext DEF EntriesInv
<1>2. ASSUME NEW c \in Clients, NEW op, NEW ch \in Channels, NEW key, NEW k2 \in Visible,
             MapCommand(op, c, ch, key, k2), entries' # entries
      PROVE  EntriesInv'
  <2>1. PICK o, u, is, R, key2 :
          /\ o = ChannelOptions(k2, ch) /\ u = user(c)
          /\ \/ R = OnMapPublish(config, o, Found(k2, ch), ch, u, is)
             \/ R = OnMapRemove(config, o, Found(k2, ch), ch, u, is)
          /\ R.kind = "allow" /\ key2 = MapKey(o, u, c, key) /\ Applied(op, c, ch, key2)
    BY Zenon, <1>2 DEF MapCommand
  <2>2. Found(k2, ch)
    <3>1. PICK found, name, rule :
            found = Found(k2, ch) /\ R = MapRule(config, o, found, ch, u, is, name, rule)
      BY Zenon, <2>1 DEF OnMapPublish, OnMapRemove
    <3>2. MapRule(config, o, found, ch, u, is, name, rule).kind = "allow" => found
      BY ONLY MapRuleAllow
    <3> QED BY Zenon, <2>1, <3>1, <3>2
  <2>3. k2 \in Valid /\ o = OptionsOf(k2, ch) BY Zenon, <2>1, <2>2, Lookup
  <2>4. OnlyKind(ch, "client_id") => key2 = c
    <3>1. OnlyKind(ch, "client_id") => o.clientKey = "client_id" BY Zenon, <2>2, <2>3, KindOf
    <3>2. key2 = MapKey(o, u, c, key) /\ u = user(c) BY Zenon, <2>1
    <3> QED BY ONLY <3>1, <3>2 DEF MapKey
  <2>5. OnlyKind(ch, "user_id") => key2 = user(c)
    <3>1. OnlyKind(ch, "user_id") => o.clientKey = "user_id" BY Zenon, <2>2, <2>3, KindOf
    <3>2. key2 = MapKey(o, u, c, key) /\ u = user(c) BY Zenon, <2>1
    <3> QED BY ONLY <3>1, <3>2 DEF MapKey
  <2> QED BY Zenon, <2>1, <2>4, <2>5, AppliedOwned
<1>3. ASSUME NEW c \in Clients, NEW key, MapProxied(c, key), entries' # entries PROVE EntriesInv'
  <2>1. PICK op, ch : ch = call(c).ch /\ Applied(op, c, ch, key) BY Zenon, <1>3 DEF MapProxied
  <2>2. Unforced(ch)
    <3>1. FieldsOk(st(c), conn[c].subs, conn[c].tokenSubs, call(c)) BY Zenon, Parts
    <3>2. call(c).op \in {"publish", "remove"} BY Zenon, <1>3 DEF MapProxied
    <3> QED BY Zenon, <2>1, <3>1, <3>2 DEF FieldsOk, Carries
  <2>3. ~OnlyKind(ch, "client_id") /\ ~OnlyKind(ch, "user_id")
    BY Zenon, <2>2, KindOf DEF Unforced, ForcedKinds
  <2> QED BY Zenon, <2>1, <2>3, AppliedOwned
<1>4. \/ entries' = entries
      \/ \E c \in Clients, op \in {"publish", "remove"}, ch \in Channels, key \in Keys, k2 \in Visible :
            MapCommand(op, c, ch, key, k2)
      \/ \E c \in Clients, key \in Keys : MapProxied(c, key)
  <2>1. CASE (\E k \in Configs : Reload(k)) \/ CacheExpire BY Zenon, <2>1 DEF Reload, CacheExpire
  <2>2. ASSUME NEW c \in Clients,
          \/ Disconnect(c)
          \/ \E ch \in AllChannels : Unsubscribe(c, ch)
          \/ \E tok \in ConnTokens, req \in Requests : ConnectWithToken(c, tok, req)
          \/ \E req \in Requests : ConnectWithoutToken(c, req)
          \/ \E u \in Users, chs \in Requests : ConnectProxied(c, u, chs)
          \/ \E fails \in BOOLEAN : SingleConnectionCheck(c, fails)
          \/ \E k2 \in Visible : FinishConnect(c, k2)
          \/ \E tok \in ConnTokens : OnRefresh(c, tok)
        PROVE  entries' = entries
    BY Zenon, <2>2 DEF Disconnect, Unsubscribe, ConnectWithToken, ConnectWithoutToken, ConnectProxied,
         SingleConnectionCheck, FinishConnect, OnRefresh
  <2>3. ASSUME NEW c \in Clients,
          \/ RefreshProxied(c)
          \/ SubscribeProxied(c)
          \/ \E ch \in Channels, tok \in SubTokens \cup {NoToken} : OnSubRefresh(c, ch, tok)
          \/ \E ch \in Channels, type \in {"stream", "map"}, tok \in SubTokens \cup {NoToken},
                k2 \in Visible : Subscribe(c, ch, type, tok, k2)
          \/ \E ch \in Channels, k2 \in Visible : SubRefreshProxied(c, ch, k2)
          \/ \E ch \in Channels, k2 \in Visible : PublishProxied(c, ch, k2)
          \/ \E ns \in DOMAIN config.rpc : RPCProxied(c, ns)
        PROVE  entries' = entries
    BY Zenon, <2>3 DEF RefreshProxied, SubscribeProxied, OnSubRefresh, Subscribe, SubRefreshProxied,
         PublishProxied, RPCProxied
  <2> QED BY Zenon, <2>1, <2>2, <2>3 DEF SessionNext
<1> QED BY Zenon, <1>1, <1>2, <1>3, <1>4

-----------------------------------------------------------------------------
(* The server, and the proxies that were never built                       *)

LEMMA ServerStep ==
  ASSUME ServerInv, SessionNext
  PROVE  ServerInv'
<1>1. ASSUME NEW k \in Configs, Reload(k) PROVE ServerInv'
  <2>1. CASE ValidConfig(k)
    <3>1. config' = k /\ stale' = {config} /\ reloads' = reloads + 1 BY Zenon, <1>1, <2>1 DEF Reload
    <3>2. reloads' \in Nat /\ reloads' # 0 BY <3>1 DEF ServerInv
    <3>3. config' \in Valid /\ stale' \subseteq Valid BY Zenon, <2>1, <3>1 DEF ServerInv, Valid
    <3> QED BY Zenon, <3>2, <3>3 DEF ServerInv
  <2>2. CASE ~ValidConfig(k)
    BY Zenon, <1>1, <2>2 DEF Reload, ServerInv
  <2> QED BY <2>1, <2>2
<1>2. CASE CacheExpire BY Zenon, <1>2 DEF CacheExpire, ServerInv
<1>3. CASE UNCHANGED server BY Zenon, <1>3 DEF server, ServerInv
<1>4. (\E k \in Configs : Reload(k)) \/ CacheExpire \/ UNCHANGED server
  <2>1. ASSUME NEW c \in Clients,
          \/ Disconnect(c)
          \/ \E ch \in AllChannels : Unsubscribe(c, ch)
          \/ \E tok \in ConnTokens, req \in Requests : ConnectWithToken(c, tok, req)
          \/ \E req \in Requests : ConnectWithoutToken(c, req)
          \/ \E u \in Users, chs \in Requests : ConnectProxied(c, u, chs)
          \/ \E fails \in BOOLEAN : SingleConnectionCheck(c, fails)
          \/ \E k2 \in Visible : FinishConnect(c, k2)
          \/ \E tok \in ConnTokens : OnRefresh(c, tok)
        PROVE  UNCHANGED server
    BY Zenon, <2>1 DEF Disconnect, Unsubscribe, ConnectWithToken, ConnectWithoutToken, ConnectProxied,
         SingleConnectionCheck, FinishConnect, OnRefresh
  <2>2. ASSUME NEW c \in Clients,
          \/ RefreshProxied(c)
          \/ SubscribeProxied(c)
          \/ \E key \in Keys : MapProxied(c, key)
          \/ \E ch \in Channels, tok \in SubTokens \cup {NoToken} : OnSubRefresh(c, ch, tok)
          \/ \E ch \in Channels, type \in {"stream", "map"}, tok \in SubTokens \cup {NoToken},
                k2 \in Visible : Subscribe(c, ch, type, tok, k2)
          \/ \E ch \in Channels, k2 \in Visible : SubRefreshProxied(c, ch, k2)
          \/ \E ch \in Channels, k2 \in Visible : PublishProxied(c, ch, k2)
          \/ \E ns \in DOMAIN config.rpc : RPCProxied(c, ns)
          \/ \E op \in {"publish", "remove"}, ch \in Channels, key \in Keys, k2 \in Visible :
                MapCommand(op, c, ch, key, k2)
        PROVE  UNCHANGED server
    BY Zenon, <2>2 DEF RefreshProxied, SubscribeProxied, OnSubRefresh, Subscribe, SubRefreshProxied,
         PublishProxied, RPCProxied, MapProxied, MapCommand
  <2> QED BY Zenon, <2>1, <2>2 DEF SessionNext
<1> QED BY Zenon, <1>1, <1>2, <1>3, <1>4

\* The configuration k names a proxy that the node, reloaded, does not have.
Missing(k) ==
    /\ reloads > 0
    /\ \/ \E f \in ProxyFields : ~(NamesUsed(k, f) \subseteq proxies[f])
       \/ ~(RpcNames(k) \subseteq proxies["rpc"])

\* Before the first reload every name that a lookup answers is built.
LEMMA AllBuilt ==
  ASSUME ServerInv, NEW k2 \in Visible, reloads = 0
  PROVE  /\ \A f \in ProxyFields : NamesUsed(k2, f) = proxies[f]
         /\ RpcNames(k2) = proxies["rpc"]
<1>1. k2 = config /\ proxies = buildProxyMap(config) BY Zenon DEF ServerInv, Visible
<1>2. PICK P : P = buildProxyMap(config) OBVIOUS
<1>3. P["rpc"] = RpcNames(config) BY <1>2 DEF buildProxyMap
<1>4. \A f \in ProxyFields : f # "rpc" /\ f # "connect" /\ f # "refresh" BY DEF ProxyFields
<1>5. \A f \in ProxyFields : P[f] = NamesUsed(config, f) BY <1>2, <1>4 DEF buildProxyMap
<1> QED BY Zenon, <1>1, <1>2, <1>3, <1>5

\* A name that a lookup answers and that is not built is a new one.
LEMMA NewName ==
  ASSUME ServerInv, NEW k2 \in Visible, NEW ch, Found(k2, ch), NEW f \in ProxyFields,
         NEW name, name = ChannelOptions(k2, ch)[f], name # NoProxy, name \notin proxies[f]
  PROVE  Missing(k2)
<1>1. ChannelOptions(k2, ch) = k2.namespaces[ch.ns] /\ ch.ns \in DOMAIN k2.namespaces
  BY Zenon, Lookup DEF OptionsOf, Found
<1>2. name \in NamesUsed(k2, f) BY <1>1 DEF NamesUsed
<1>3. reloads # 0 BY Zenon, <1>2, AllBuilt
<1>4. reloads > 0 BY <1>3 DEF ServerInv
<1>5. ~(NamesUsed(k2, f) \subseteq proxies[f]) BY Zenon, <1>2
<1> QED BY Zenon, <1>4, <1>5 DEF Missing

LEMMA NewRpcName ==
  ASSUME ServerInv, NEW ns \in DOMAIN config.rpc, config.rpc[ns] # NoProxy,
         config.rpc[ns] \notin proxies["rpc"]
  PROVE  Missing(config)
<1>1. config.rpc[ns] \in RpcNames(config) BY Zenon DEF RpcNames
<1>2. config \in Visible BY Zenon DEF Visible
<1>3. reloads # 0 BY Zenon, <1>1, <1>2, AllBuilt
<1>4. reloads > 0 BY <1>3 DEF ServerInv
<1>5. ~(RpcNames(config) \subseteq proxies["rpc"]) BY Zenon, <1>1
<1> QED BY Zenon, <1>4, <1>5 DEF Missing

\* Every command meets either the proxies it names or a missing one.
LEMMA CommandMissing ==
  ASSUME ServerInv, NEW c \in Clients,
          \/ \E ch \in Channels, type \in {"stream", "map"}, tok \in SubTokens \cup {NoToken},
                k2 \in Visible : Subscribe(c, ch, type, tok, k2)
          \/ \E ch \in Channels, k2 \in Visible : SubRefreshProxied(c, ch, k2)
          \/ \E ch \in Channels, k2 \in Visible : PublishProxied(c, ch, k2)
          \/ \E ns \in DOMAIN config.rpc : RPCProxied(c, ns)
          \/ \E op \in {"publish", "remove"}, ch \in Channels, key \in Keys, k2 \in Visible :
                MapCommand(op, c, ch, key, k2)
  PROVE  panicked' = panicked \/ \E k : panicked' = panicked \cup {k} /\ Missing(k)
<1> DEFINE Goal == panicked' = panicked \/ \E k : panicked' = panicked \cup {k} /\ Missing(k)
<1> SUFFICES Goal OBVIOUS
<1>0. ASSUME NEW k2 \in Visible, NEW ch, Found(k2, ch), NEW field \in ProxyFields,
             ChannelOptions(k2, ch)[field] # NoProxy,
             NEW op, NEW key, Call(c, op, field, k2, ch, key)
      PROVE  Goal
  <2>1. CASE ChannelOptions(k2, ch)[field] \notin proxies[field]
    <3>1. panicked' = panicked \cup {k2} BY Zenon, <1>0, <2>1 DEF Call
    <3>2. Missing(k2)
      <4>1. PICK name : name = ChannelOptions(k2, ch)[field] OBVIOUS
      <4>2. name # NoProxy /\ name \notin proxies[field] BY Zenon, <1>0, <2>1, <4>1
      <4> QED BY ONLY ServerInv, k2 \in Visible, <1>0, <4>1, <4>2, NewName
    <3> QED BY Zenon, <3>1, <3>2
  <2>2. CASE ChannelOptions(k2, ch)[field] \in proxies[field] BY Zenon, <1>0, <2>2 DEF Call
  <2> QED BY Zenon, <2>1, <2>2
<1>1. ASSUME NEW ch, NEW type, NEW tok, NEW k2 \in Visible, Subscribe(c, ch, type, tok, k2) PROVE Goal
  <2>1. PICK o, found, u, R :
          /\ o = ChannelOptions(k2, ch) /\ found = Found(k2, ch)
          /\ R = OnSubscribe(config, o, found, ch, u, c, type, tok)
          /\ \/ panicked' = panicked
             \/ /\ R.kind = "proxy"
                /\ Call(c, R.source,
                        IF R.source = "StreamProxy" THEN "streamProxy" ELSE "subscribeProxy",
                        k2, ch, "")
    BY Zenon, <1>1 DEF Subscribe
  <2>2. CASE panicked' = panicked BY Zenon, <2>2
  <2>3. ASSUME R.kind = "proxy", NEW key,
               Call(c, R.source, IF R.source = "StreamProxy" THEN "streamProxy" ELSE "subscribeProxy",
                    k2, ch, key)
        PROVE  Goal
    <3>1. config.insecure \in BOOLEAN
      <4>1. IsClientConfig(config) BY Zenon, ConfigAssumption DEF ServerInv, Valid
      <4> QED BY Zenon, <4>1 DEF IsClientConfig
    <3>2. R = OnSubscribe(config, o, found, ch, u, c, type, tok) BY Zenon, <2>1
    <3>3. R.kind = "proxy" =>
              /\ found
              /\ \/ R.source = "SubscribeProxy" /\ o.subscribeProxy # NoProxy
                 \/ R.source = "StreamProxy" /\ o.streamProxy # NoProxy
      BY ONLY <3>1, <3>2, SubscribeRule
    <3>4. PICK field : field = IF R.source = "StreamProxy" THEN "streamProxy" ELSE "subscribeProxy" OBVIOUS
    <3>5. Found(k2, ch) /\ o = ChannelOptions(k2, ch) BY Zenon, <2>1, <2>3, <3>3
    <3>6. field \in ProxyFields /\ o[field] # NoProxy
      BY ONLY <2>3, <3>3, <3>4 DEF ProxyFields
    <3>7. ChannelOptions(k2, ch)[field] # NoProxy BY Zenon, <3>5, <3>6
    <3> QED BY Zenon, <1>0, <2>3, <3>4, <3>5, <3>6, <3>7
  <2> QED BY Zenon, <2>1, <2>2, <2>3
<1>2. ASSUME NEW ch, NEW k2 \in Visible, SubRefreshProxied(c, ch, k2) PROVE Goal
  <2>1. PICK name :
          /\ name = ChannelOptions(k2, ch).subRefreshProxy /\ name # NoProxy /\ Found(k2, ch)
          /\ \/ panicked' = panicked
             \/ panicked' = panicked \cup {k2} /\ name \notin proxies["subRefreshProxy"]
    BY <1>2 DEF SubRefreshProxied
  <2>2. "subRefreshProxy" \in ProxyFields BY DEF ProxyFields
  <2>3. name = ChannelOptions(k2, ch)["subRefreshProxy"] BY <2>1
  <2> QED BY Zenon, <2>1, <2>2, <2>3, NewName
<1>3. ASSUME NEW ch, NEW k2 \in Visible, PublishProxied(c, ch, k2) PROVE Goal
  <2>1. PICK o, found, u, is, name :
          /\ o = ChannelOptions(k2, ch) /\ found = Found(k2, ch) /\ name = o.publishProxy
          /\ OnPublish(config, o, found, ch, u, is, FALSE, TRUE).kind = "proxy"
          /\ \/ panicked' = panicked
             \/ panicked' = panicked \cup {k2} /\ name \notin proxies["publishProxy"]
    BY Zenon, <1>3 DEF PublishProxied, ProxiedAnswer
  <2>2. OnPublish(config, o, found, ch, u, is, FALSE, TRUE).kind = "proxy" =>
          found /\ o.publishProxy # NoProxy
    BY ONLY PublishRule
  <2>3. "publishProxy" \in ProxyFields BY DEF ProxyFields
  <2>4. name = ChannelOptions(k2, ch)["publishProxy"] BY <2>1
  <2>5. Found(k2, ch) /\ name # NoProxy BY Zenon, <2>1, <2>2
  <2> QED BY Zenon, <2>1, <2>3, <2>4, <2>5, NewName
<1>4. ASSUME NEW ns \in DOMAIN config.rpc, RPCProxied(c, ns) PROVE Goal
  <2>1. /\ config.rpc[ns] # NoProxy
        /\ \/ panicked' = panicked
           \/ panicked' = panicked \cup {config} /\ config.rpc[ns] \notin proxies["rpc"]
    BY Zenon, <1>4 DEF RPCProxied, ProxiedAnswer
  <2> QED BY Zenon, <2>1, NewRpcName
<1>5. ASSUME NEW op \in {"publish", "remove"}, NEW ch, NEW key, NEW k2 \in Visible,
             MapCommand(op, c, ch, key, k2)
      PROVE  Goal
  <2>1. PICK o, found, u, is, R, name, rule, field :
          /\ o = ChannelOptions(k2, ch) /\ found = Found(k2, ch)
          /\ R = MapRule(config, o, found, ch, u, is, name, rule)
          /\ \/ field = "mapPublishProxy" /\ name = o.mapPublishProxy
             \/ field = "mapRemoveProxy" /\ name = o.mapRemoveProxy
          /\ \/ panicked' = panicked
             \/ R.kind = "proxy" /\ Call(c, op, field, k2, ch, key)
    <3>1. CASE op = "publish" BY Zenon, <1>5, <3>1 DEF MapCommand, OnMapPublish
    <3>2. CASE op # "publish" BY Zenon, <1>5, <3>2 DEF MapCommand, OnMapRemove
    <3> QED BY Zenon, <3>1, <3>2
  <2>2. MapRule(config, o, found, ch, u, is, name, rule).kind = "proxy" => found /\ name # NoProxy
    BY ONLY MapRuleAllow
  <2>3. field \in ProxyFields /\ name = o[field] BY <2>1 DEF ProxyFields
  <2>4. CASE panicked' = panicked BY Zenon, <2>4
  <2>5. CASE R.kind = "proxy" /\ Call(c, op, field, k2, ch, key)
    <3>1. Found(k2, ch) /\ ChannelOptions(k2, ch)[field] # NoProxy BY Zenon, <2>1, <2>2, <2>3, <2>5
    <3> QED BY Zenon, <1>0, <2>3, <2>5, <3>1
  <2> QED BY Zenon, <2>1, <2>4, <2>5
<1> QED BY Zenon, <1>1, <1>2, <1>3, <1>4, <1>5

LEMMA PanicStep ==
  ASSUME ServerInv, PanicNeedsNewName, SessionNext
  PROVE  PanicNeedsNewName'
<1>1. \A k \in panicked : Missing(k) BY Zenon DEF PanicNeedsNewName, Missing
<1>2. SUFFICES \A k \in panicked' : Missing(k)' BY Zenon DEF PanicNeedsNewName, Missing
<1>3. ASSUME NEW k \in Configs, Reload(k) PROVE \A k1 \in panicked' : Missing(k1)'
  <2>1. panicked' = panicked /\ proxies' = proxies BY Zenon, <1>3 DEF Reload
  <2>2. reloads' = reloads \/ reloads' = reloads + 1 BY Zenon, <1>3 DEF Reload
  <2>3. reloads > 0 => reloads' > 0 BY <2>2 DEF ServerInv
  <2> QED BY Zenon, <1>1, <2>1, <2>3 DEF Missing
<1>4. CASE CacheExpire BY Zenon, <1>1, <1>4 DEF CacheExpire, Missing
<1>5. ASSUME UNCHANGED server, panicked' = panicked PROVE \A k \in panicked' : Missing(k)'
  BY Zenon, <1>1, <1>5 DEF server, Missing
<1>6. ASSUME UNCHANGED server, NEW k0, panicked' = panicked \cup {k0}, Missing(k0)
      PROVE  \A k \in panicked' : Missing(k)'
  <2>1. \A k \in panicked' : Missing(k) BY Zenon, <1>1, <1>6
  <2> QED BY Zenon, <1>6, <2>1 DEF server, Missing
<1>7. ASSUME NEW c \in Clients,
          \/ Disconnect(c)
          \/ \E ch \in AllChannels : Unsubscribe(c, ch)
          \/ \E tok \in ConnTokens, req \in Requests : ConnectWithToken(c, tok, req)
          \/ \E req \in Requests : ConnectWithoutToken(c, req)
          \/ \E u \in Users, chs \in Requests : ConnectProxied(c, u, chs)
          \/ \E fails \in BOOLEAN : SingleConnectionCheck(c, fails)
          \/ \E k2 \in Visible : FinishConnect(c, k2)
          \/ \E tok \in ConnTokens : OnRefresh(c, tok)
          \/ RefreshProxied(c)
          \/ SubscribeProxied(c)
          \/ \E key \in Keys : MapProxied(c, key)
          \/ \E ch \in Channels, tok \in SubTokens \cup {NoToken} : OnSubRefresh(c, ch, tok)
        PROVE  UNCHANGED server /\ panicked' = panicked
  BY Zenon, <1>7 DEF Disconnect, Unsubscribe, ConnectWithToken, ConnectWithoutToken, ConnectProxied,
       SingleConnectionCheck, FinishConnect, OnRefresh, RefreshProxied, SubscribeProxied, MapProxied,
       OnSubRefresh
<1>8. ASSUME NEW c \in Clients,
          \/ \E ch \in Channels, type \in {"stream", "map"}, tok \in SubTokens \cup {NoToken},
                k2 \in Visible : Subscribe(c, ch, type, tok, k2)
          \/ \E ch \in Channels, k2 \in Visible : SubRefreshProxied(c, ch, k2)
          \/ \E ch \in Channels, k2 \in Visible : PublishProxied(c, ch, k2)
          \/ \E ns \in DOMAIN config.rpc : RPCProxied(c, ns)
          \/ \E op \in {"publish", "remove"}, ch \in Channels, key \in Keys, k2 \in Visible :
                MapCommand(op, c, ch, key, k2)
      PROVE  \A k \in panicked' : Missing(k)'
  <2>1. UNCHANGED server
    BY Zenon, <1>8 DEF Subscribe, SubRefreshProxied, PublishProxied, RPCProxied, MapCommand
  <2>2. panicked' = panicked \/ \E k : panicked' = panicked \cup {k} /\ Missing(k)
    BY Zenon, <1>8, CommandMissing
  <2> QED BY Zenon, <1>5, <1>6, <2>1, <2>2
<1> QED BY Zenon, <1>3, <1>4, <1>5, <1>7, <1>8 DEF SessionNext

-----------------------------------------------------------------------------
LEMMA SessionInitInv == SessionInit => SessionInv
<1> SUFFICES ASSUME SessionInit PROVE SessionInv OBVIOUS
<1>1. config \in Valid /\ stale = {} /\ proxies = buildProxyMap(config) /\ reloads = 0
  BY Zenon DEF SessionInit, Valid
<1>2. reloads \in Nat BY <1>1
<1>3. ServerInv BY Zenon, <1>1, <1>2 DEF ServerInv
<1>4. conn = [c \in Clients |-> Fresh] BY Zenon DEF SessionInit
<1>5. conn = [c \in Clients |-> conn[c]] /\ \A c \in Clients : conn[c] = Fresh BY <1>4
<1>6. ConnsInv BY Zenon, <1>5, FreshOk DEF ConnsInv
<1>7. entries = [ch \in KeyedChannels |-> {}] BY Zenon DEF SessionInit
<1>8. entries = [ch \in KeyedChannels |-> entries[ch]] /\ \A ch \in KeyedChannels : entries[ch] = {} BY <1>7
<1>9. EntriesInv BY Zenon, <1>8, OwnedByKind DEF EntriesInv
<1>10. PanicNeedsNewName BY Zenon DEF SessionInit, PanicNeedsNewName
<1> QED BY Zenon, <1>3, <1>6, <1>9, <1>10 DEF SessionInv

LEMMA ConnsStep ==
  ASSUME ServerInv, ConnsInv, SessionNext
  PROVE  ConnsInv'
<1>1. CASE (\E k \in Configs : Reload(k)) \/ CacheExpire
  <2>1. conn' = conn BY Zenon, <1>1 DEF Reload, CacheExpire
  <2> QED BY Zenon, <2>1 DEF ConnsInv
<1>2. ASSUME NEW c \in Clients, NEW fails \in BOOLEAN, SingleConnectionCheck(c, fails) PROVE ConnsInv'
  BY ONLY ConnsInv, c \in Clients, fails \in BOOLEAN, <1>2, CheckConns
<1> QED BY Zenon, <1>1, <1>2, ConnectConns, FinishConns, RefreshConns, PlainConns, SubscribeConns, MapConns
      DEF SessionNext

LEMMA SessionStep == SessionInv /\ [SessionNext]_session => SessionInv'
<1> SUFFICES ASSUME SessionInv, [SessionNext]_session PROVE SessionInv' OBVIOUS
<1>1. CASE SessionNext BY Zenon, <1>1, ServerStep, ConnsStep, EntriesStep, PanicStep DEF SessionInv
<1>2. CASE UNCHANGED session
  <2>1. ServerInv' BY Zenon, <1>2 DEF SessionInv, session, ServerInv
  <2>2. ConnsInv' BY Zenon, <1>2 DEF SessionInv, session, ConnsInv
  <2>3. EntriesInv' BY Zenon, <1>2, OwnedByKind, OwnedByKindNext DEF SessionInv, session, EntriesInv
  <2>4. PanicNeedsNewName' BY Zenon, <1>2 DEF SessionInv, session, PanicNeedsNewName
  <2> QED BY Zenon, <2>1, <2>2, <2>3, <2>4 DEF SessionInv
<1> QED BY <1>1, <1>2

\* The inductive invariant: valid configurations and the proxies of the start,
\* connections whose fields fit their stage, owned entries, explained panics.
THEOREM SessionAlways == SessionSpec => []SessionInv
BY SessionInitInv, SessionStep, PTL DEF SessionSpec

\* No subscription made from a connection token outlives an accepted refresh
\* whose token does not list it (OnRefresh, tokenChannelsChanged).
THEOREM TokenSubsSafety == SessionSpec => []TokenSubsActual
<1>1. SessionInv => TokenSubsActual
  BY Zenon DEF SessionInv, ConnsInv, ConnOk, FieldsOk, FromToken, TokenSubsActual
<1> QED BY <1>1, SessionAlways, PTL

\* Where every valid configuration forces the key of an entry, no client writes
\* under the key of another, directly (OnMapPublish, OnMapRemove) or through a
\* proxy that answers after any number of reloads.
THEOREM EntriesSafety == SessionSpec => []EntriesOwned
<1>1. SessionInv => EntriesOwned BY DEF SessionInv, EntriesInv
<1> QED BY <1>1, SessionAlways, PTL

\* The permission rules of the handlers agree with each other under every
\* configuration, and a handler meets a proxy that was never built only after
\* a reload to, and by the options of, a configuration that names a new one.
THEOREM RulesSafety == SessionSpec => []SessionRules
<1>1. SessionInv => SessionRules BY RulesHold DEF SessionInv, SessionRules
<1> QED BY <1>1, SessionAlways, PTL
=============================================================================
