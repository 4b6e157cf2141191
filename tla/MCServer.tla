------------------------------ MODULE MCServer ------------------------------
(***************************************************************************)
(* The smaller concurrent parts of the server for TLC.  They share no      *)
(* state, so instead of their product one part moves in each behaviour,    *)
(* chosen in the initial state, and the others stay in an initial state.   *)
(***************************************************************************)
EXTENDS TokenVerifier, OptionsCache, SubscribeStream, TrackSignatures,
        ApiServer, UniTransports, UniWebSocket, NatsBroker

VARIABLE part

(* Tokens: static keys before and after a rotation, a templated endpoint of *)
(* two domains, and one that validation refuses.                            *)
Key(d, kid, v) == [domain |-> d, kid |-> kid, version |-> v]
OldSecret == Key("static", "old", 1)
NewSecret == Key("static", "new", 1)
Static == [endpoint |-> "", hmac |-> OldSecret, rsa |-> NoKey, ecdsa |-> NoKey,
           previous |-> NoKey, until |-> 0, issuers |-> {}, issuer |-> "",
           placeholders |-> {}, groups |-> [g \in {} |-> "literal"], skipSafetyCheck |-> FALSE]
Rotated == [Static EXCEPT !.hmac = NewSecret, !.previous = OldSecret, !.until = 1]
Jwks == [Static EXCEPT !.endpoint = "template", !.issuers = {"A", "B"}, !.placeholders = {"g"},
                       !.groups = [g \in {"g"} |-> "literal"]]
Open == [Jwks EXCEPT !.groups = [g \in {"g"} |-> "open"]]
MCVerifierConfigs == {Static, Rotated, Jwks, Open}
Tok(f, key, iss) == [family |-> f, signer |-> key, kid |-> IF f = "HS" THEN "" ELSE key.kid,
                     issuer |-> iss, live |-> TRUE, shape |-> TRUE]
MCTokens == {Tok("HS", OldSecret, "A"), Tok("RS", Key("A", "k", 1), "A"),
             Tok("RS", Key("A", "k", 1), "B"),
             [Tok("RS", Key("B", "k", 1), "B") EXCEPT !.live = FALSE]}

(* Track commands: a rotation in two steps, the second of which withdraws   *)
(* the old secret; batches signed with either and one that expired.         *)
Secrets(h, p, u) == [hmac |-> h, hmacPrevious |-> p, hmacValidUntil |-> u]
MCSecretConfigs == {Secrets("s1", "", 0), Secrets("s2", "s1", 2), Secrets("s2", "", 0)}
Batch(s, iat, exp) ==
    [signedWith |-> s, keys |-> {"k"}, iat |-> iat, expiry |-> exp,
     signedFor |-> [user |-> "u", channel |-> "ch", keys |-> {"k"}]]
MCTrackBatches == {<<Batch("s1", 1, 0)>>, <<Batch("s2", 1, 4), Batch("s1", 3, 0)>>,
                   <<Batch("s2", 1, 1)>>}

(* API requests: consumed messages with and without an idempotency key, a   *)
(* sequential and a parallel batch, a legacy body that breaks off, single   *)
(* commands of both transports, and a message no consumer supports.         *)
ApiOptions(type) == [subscriptionType |-> type, presence |-> TRUE, history |-> FALSE,
                     publishEnabled |-> TRUE]
MCApiChannels == [ch \in {"s", "t", "m"} |-> ApiOptions(IF ch = "m" THEN "map" ELSE "stream")]
Cmd(m, chs, key, idem) == [method |-> m, channels |-> chs, key |-> key, data |-> "ok",
                           idempotencyKey |-> idem]
Req(via, cmds) == [via |-> via, cmds |-> cmds, parallel |-> FALSE, transport |-> FALSE,
                   malformed |-> 0]
Three == <<Cmd("publish", <<"s">>, "", ""), Cmd("map_publish", <<"m">>, "k", ""),
           Cmd("history", <<"s">>, "", "")>>
MCApiRequests ==
    << Req("consumer", <<Cmd("broadcast", <<"s", "t", "x">>, "", "i")>>),
       Req("consumer", <<Cmd("broadcast", <<"s", "t">>, "", "")>>),
       Req("batch", Three),
       [Req("batch", Three) EXCEPT !.parallel = TRUE],
       [Req("legacy", Three) EXCEPT !.malformed = 3],
       [Req("http", <<Cmd("publish", <<"m">>, "", "")>>) EXCEPT !.transport = TRUE],
       [Req("grpc", <<Cmd("broadcast", <<"m", "">>, "", "")>>) EXCEPT !.transport = TRUE],
       Req("consumer", <<Cmd("map_publish", <<"m">>, "k", "")>>),
       [Req("http", <<Cmd("disconnect", <<"">>, "", "")>>) EXCEPT !.malformed = 1],
       Req("http", <<Cmd("publish", <<"s">>, "", "i")>>) >>
\* Requests only meet in the broker's idempotency keys: one per behaviour, or
\* the two that have the same.
Requested == {r \in DOMAIN ApiRequests : api[r].pc # "new" \/ api[r].deliveries > 0}
Meeting == Cardinality(Requested) <= 1 \/ Requested = {1, 10}

(* WebSocket peers: a message and a close over a compressed connection, a   *)
(* fragmented message with a ping inside, a stray continuation, HTTP/2, an  *)
(* origin that is refused, and data before the handshake.                   *)
Sent(op, fin) == [op |-> op, fin |-> fin, long |-> op = "ping"]
Fragmented == <<Sent("text", FALSE), Sent("ping", TRUE), Sent("cont", TRUE)>>
Handshake(major, deflate, script) ==
    [major |-> major, upgrade |-> TRUE, method |-> TRUE, version |-> TRUE, key |-> TRUE,
     origin |-> TRUE, early |-> FALSE, deflate |-> deflate, script |-> script]
MCHandshakes ==
    {Handshake(1, TRUE, <<Sent("text", TRUE), Sent("close", TRUE)>>),
     Handshake(1, FALSE, Fragmented),
     Handshake(1, FALSE, <<Sent("cont", TRUE)>>),
     Handshake(2, FALSE, <<>>),
     [Handshake(1, TRUE, <<>>) EXCEPT !.origin = FALSE],
     [Handshake(1, TRUE, <<>>) EXCEPT !.early = TRUE]}
Served(request, noHandshake) == [request |-> request, noHandshake |-> noHandshake]
MCServe == {Served("none", FALSE), Served("ok", TRUE), Served("bad", FALSE)}

(* NATS: a channel beside a wildcard, positions from Redis, and raw mode    *)
(* with a replacement in the channel.                                       *)
Nats(raw, wildcards, redis, used) ==
    [raw |-> raw, wildcards |-> wildcards, redis |-> redis, used |-> used,
     replaced |-> [ch \in NatsChannels |-> IF ch = "a:x" THEN "a.x" ELSE ch]]
MCNatsConfigs ==
    {Nats(FALSE, TRUE, FALSE, {"a.x", "*"}), Nats(FALSE, FALSE, TRUE, {"a.x"}),
     Nats(TRUE, FALSE, TRUE, {"a:x"})}

-----------------------------------------------------------------------------
Parts == {"tokens", "cache", "streams", "track", "api", "uni", "websocket", "nats"}

Init ==
    /\ part \in Parts
    /\ TokensInit /\ CacheInit /\ StreamInit /\ TrackInit /\ ApiInit /\ UniInit /\ UniWSInit
    /\ NatsInit
    /\ part # "tokens" => ver = Verifier(Static)
    /\ part # "track" => secrets = Secrets("s1", "", 0)
    /\ part # "uni" => ukind = "sse"
    /\ part # "websocket" => opt = Served("none", FALSE)
    /\ part # "nats" => nconf = Nats(FALSE, FALSE, TRUE, {"a.x"})

\* The two channels of the configuration with wildcards go without faults.
NatsPart == NatsNext /\ (nconf.wildcards => natsFaults' = 0)

Next ==
    /\ UNCHANGED part
    /\ part # "nats" => UNCHANGED natsVars
    /\ \/ part = "tokens" /\ TokensNext /\ UNCHANGED <<cache, streams, tracking, apiVars, uni, uniws>>
       \/ part = "cache" /\ CacheNext /\ UNCHANGED <<tokens, streams, tracking, apiVars, uni, uniws>>
       \/ part = "streams" /\ StreamNext /\ UNCHANGED <<tokens, cache, tracking, apiVars, uni, uniws>>
       \/ part = "track" /\ TrackNext /\ UNCHANGED <<tokens, cache, streams, apiVars, uni, uniws>>
       \/ /\ part = "api" /\ ApiNext /\ Meeting'
          /\ UNCHANGED <<tokens, cache, streams, tracking, uni, uniws>>
       \/ part = "uni" /\ UniNext /\ UNCHANGED <<tokens, cache, streams, tracking, apiVars, uniws>>
       \/ part = "nats" /\ NatsPart /\ UNCHANGED <<tokens, cache, streams, tracking, apiVars, uni, uniws>>
       \/ part = "websocket" /\ UniWSNext /\ UNCHANGED <<tokens, cache, streams, tracking, apiVars, uni>>

vars == <<part, tokens, cache, streams, tracking, apiVars, uni, uniws, natsVars>>

\* In a part that does not move no fair action is enabled.
Spec == Init /\ [][Next]_vars /\ CacheFairness /\ StreamFairness /\ UniFairness /\ UniWSFairness
=============================================================================
