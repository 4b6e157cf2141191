---------------------------- MODULE ChannelRules ----------------------------
(***************************************************************************)
(* The access rules of internal/client/handler.go and the parts of         *)
(* internal/config that feed them.  Nothing here has state: every operator *)
(* maps a configuration, a channel, a client and a request to the reply of *)
(* the handler.  ClientSession runs these rules against interleaved        *)
(* commands, proxy calls and reloads.                                      *)
(*                                                                         *)
(* A channel is a record: its namespace ("" without one), whether it has   *)
(* the private prefix, whether it contains the user boundary, the users    *)
(* named after the boundary, and whether its name passes the regex or the  *)
(* ASCII check.  A configuration has an options record per namespace; the  *)
(* option fields keep the names of configtypes.ChannelOptions.  Every      *)
(* allow_*_for_client / _for_subscriber / _for_anonymous triple is one     *)
(* record [client, subscriber, anonymous].                                 *)
(***************************************************************************)
EXTENDS Naturals, Sequences, FiniteSets

Anonymous == ""          \* the empty user ID
NoProxy == "none"        \* a proxy option that is not enabled
DefaultProxyName == "default"

\* The result of the first rule whose condition holds; the rules are the
\* early returns of a handler, in order, and the last condition is TRUE.
FirstMatch(rules) ==
    rules[CHOOSE i \in DOMAIN rules :
             rules[i][1] /\ \A j \in 1..(i - 1) : ~rules[j][1]][2]

-----------------------------------------------------------------------------
(* internal/configtypes: the options of a namespace and of the client      *)
(* section that the rules read.                                            *)

Rule == [client : BOOLEAN, subscriber : BOOLEAN, anonymous : BOOLEAN]
IsOptions(o) ==
    /\ {o.wellFormed, o.userLimitedChannels, o.subscribeForClient, o.subscribeForAnonymous,
        o.bidirectional, o.presence, o.history} \subseteq BOOLEAN
    /\ {o.publishFor, o.presenceFor, o.historyFor, o.mapPublishFor, o.mapRemoveFor} \subseteq Rule
    /\ o.subscriptionType \in {"", "stream", "map", "map_clients", "map_users", "shared_poll"}
    /\ o.clientKey \in {"", "client_id", "user_id"}
IsClientConfig(cfg) ==
    /\ {cfg.insecure, cfg.allowAnonymousConnect, cfg.disallowAnonymousTokens, cfg.personal,
        cfg.singleConnection} \subseteq BOOLEAN
    /\ "" \in DOMAIN cfg.namespaces /\ "" \in DOMAIN cfg.rpc
    /\ \A ns \in DOMAIN cfg.namespaces : IsOptions(cfg.namespaces[ns])

-----------------------------------------------------------------------------
(* internal/config/container.go                                            *)

\* channelOpts: the options of the channel's namespace; "" always exists.
Found(cfg, ch) == ch.ns \in DOMAIN cfg.namespaces
OptionsOf(cfg, ch) == cfg.namespaces[ch.ns]

IsPrivateChannel(ch) == ch.private
IsUserLimited(ch) == ch.boundary
UserAllowed(ch, user) == ~ch.boundary \/ user \in ch.users

\* The personal channel of a user, in the configured namespace.
PersonalChannel(cfg, user) ==
    [ns |-> cfg.personalNamespace, private |-> FALSE, boundary |-> TRUE,
     users |-> {user}, validName |-> TRUE]

\* rpcOpts: the proxy of an RPC method's namespace.
RpcFound(cfg, ns) == ns \in DOMAIN cfg.rpc

-----------------------------------------------------------------------------
(* internal/config/validate.go: the combinations a configuration must not  *)
(* have.  Malformed names, durations, regular expressions and unknown enum *)
(* values are one flag (wellFormed).                                       *)

ProxyNames(cfg) == cfg.proxies \cup {DefaultProxyName}

ProxyFields == {"subscribeProxy", "streamProxy", "publishProxy",
                "subRefreshProxy", "mapPublishProxy", "mapRemoveProxy"}

ValidOptionsMutant(cfg, o) ==
    /\ o.wellFormed
    /\ \A f \in ProxyFields : o[f] # NoProxy => o[f] \in ProxyNames(cfg)
    /\ o.subscriptionType = "shared_poll" => cfg.hmac # ""

\* validateChannelOptions
ValidOptions(cfg, o) ==
    /\ o.wellFormed
    /\ o.streamProxy # NoProxy =>
         {o.subscribeProxy, o.publishProxy, o.subRefreshProxy} = {NoProxy}
    /\ \A f \in ProxyFields : o[f] # NoProxy => o[f] \in ProxyNames(cfg)
    /\ o.clientKey # "" =>
         o.mapPublishProxy = NoProxy /\ o.mapRemoveProxy = NoProxy
    /\ o.subscriptionType = "shared_poll" => cfg.hmac # ""

\* validateRpcOptions, validateRpcNamespace
ValidRpc(cfg, p) == p # NoProxy => p \in ProxyNames(cfg)

\* Config.Validate: reserved proxy name, every namespace, and the personal
\* channel, which needs presence to keep a single connection.
ValidConfig(cfg) ==
    /\ DefaultProxyName \notin cfg.proxies
    /\ \A ns \in DOMAIN cfg.namespaces : ValidOptions(cfg, cfg.namespaces[ns])
    /\ \A ns \in DOMAIN cfg.rpc : ValidRpc(cfg, cfg.rpc[ns])
    /\ cfg.personal => cfg.personalNamespace \in DOMAIN cfg.namespaces
    /\ cfg.singleConnection =>
         LET ns == IF cfg.personal THEN cfg.personalNamespace ELSE ""
         IN  cfg.namespaces[ns].presence

-----------------------------------------------------------------------------
(* internal/client/handler.go: rules shared by several handlers            *)

\* The three-way rule of publish, map publish, map remove, presence and
\* history: for any client, for a subscriber, or insecure mode.
Allowed(cfg, rule, user, subscribed) ==
    \/ rule.client /\ (user # Anonymous \/ rule.anonymous)
    \/ rule.subscriber /\ subscribed /\ (user # Anonymous \/ rule.anonymous)
    \/ cfg.insecure

hasAccessToPresence(cfg, o, user, subscribed) ==
    Allowed(cfg, o.presenceFor, user, subscribed)
hasAccessToHistory(cfg, o, user, subscribed) ==
    Allowed(cfg, o.historyFor, user, subscribed)

isSubscriptionTypeAllowed(type, configured) ==
    type = (IF configured = "" THEN "stream" ELSE configured)

\* A subscription or refresh token, as the handler sees it: NoToken, a
\* verification error, or the claims it carries.
NoToken == [result |-> "none"]
TokenReplies == {"expired", "invalid", "error"}

\* The checks on the claims, in the order of OnSubscribe and OnSubRefresh.
TokenMismatch(tok, ch, user, client) ==
    /\ tok.result = "ok"
    /\ \/ tok.channel # ch
       \/ tok.user # user
       \/ tok.client # "" /\ tok.client # client

-----------------------------------------------------------------------------
(* OnSubscribe.  A reply is [kind, source]: kind "allow" with the source   *)
(* recorded in the subscription, "error", "disconnect", or "proxy" when    *)
(* the decision is left to a backend.  The handler takes cfg.insecure from *)
(* the configuration it read first and the options o from a later lookup.  *)

Reply(kind, source) == [kind |-> kind, source |-> source]

\* The token branch of OnSubscribe.
SubscribeWithToken(tok, ch, user, client) ==
    FirstMatch(<< <<tok.result = "expired", Reply("error", "tokenExpired")>>,
                  <<tok.result = "invalid", Reply("error", "permissionDenied")>>,
                  <<tok.result = "error",   Reply("error", "internal")>>,
                  <<TokenMismatch(tok, ch, user, client),
                                            Reply("disconnect", "invalidToken")>>,
                  <<TRUE,                   Reply("allow", "SubscriptionToken")>> >>)

\* Whether a user-limited rule applies to the channel at all.
LimitedChannel(o, ch) == o.userLimitedChannels /\ IsUserLimited(ch)

OnSubscribe(cfg, o, found, ch, user, client, type, tok) ==
    LET limited == LimitedChannel(o, ch)
        rules ==
          << <<~ch.validName, Reply("error", "badRequest")>>,
             <<~isSubscriptionTypeAllowed(type, o.subscriptionType),
                  Reply("error", "permissionDenied")>>,
             <<IsPrivateChannel(ch) /\ tok = NoToken, Reply("error", "permissionDenied")>>,
             <<tok # NoToken, SubscribeWithToken(tok, ch, user, client)>>,
             <<limited /\ UserAllowed(ch, user), Reply("allow", "UserLimited")>>,
             <<o.subscribeProxy # NoProxy /\ ~limited, Reply("proxy", "SubscribeProxy")>>,
             <<o.streamProxy # NoProxy /\ ~limited, Reply("proxy", "StreamProxy")>>,
             <<o.subscribeForClient /\ ~limited
                 /\ (user # Anonymous \/ o.subscribeForAnonymous),
                  Reply("allow", "ClientAllowed")>>,
             <<cfg.insecure, Reply("allow", "ClientInsecure")>>,
             <<TRUE, Reply("error", "permissionDenied")>> >>
    IN  IF ~found THEN Reply("error", "unknownChannel") ELSE FirstMatch(rules)

ConnectChannelOkMutant(cfg, o, ch, user) ==
    /\ ~IsPrivateChannel(ch) /\ o.subscribeProxy = NoProxy /\ ch.validName
    /\ o.subscribeForClient \/ LimitedChannel(o, ch) \/ cfg.insecure

\* The rule OnClientConnecting applies to a channel the client asks for in
\* its connect command.
ConnectChannelOk(cfg, o, ch, user) ==
    /\ ~IsPrivateChannel(ch) /\ o.subscribeProxy = NoProxy /\ ch.validName
    /\ LET limited == LimitedChannel(o, ch)
       IN  \/ limited /\ user # Anonymous /\ UserAllowed(ch, user)
           \/ /\ o.subscribeForClient /\ ~limited
              /\ user # Anonymous \/ o.subscribeForAnonymous
           \/ cfg.insecure

-----------------------------------------------------------------------------
(* OnPublish, OnMapPublish, OnMapRemove                                    *)

OnPublish(cfg, o, found, ch, user, subscribed, hasPublisher, dataOk) ==
    FirstMatch(
       << <<~found, Reply("error", "unknownChannel")>>,
          <<~ch.validName \/ ~dataOk, Reply("error", "badRequest")>>,
          <<o.publishProxy # NoProxy, Reply("proxy", "PublishProxy")>>,
          <<o.streamProxy # NoProxy,
              IF o.bidirectional /\ hasPublisher THEN Reply("allow", "stream")
                                                 ELSE Reply("error", "notAvailable")>>,
          <<Allowed(cfg, o.publishFor, user, subscribed), Reply("allow", "node")>>,
          <<TRUE, Reply("error", "permissionDenied")>> >>)

\* The key under which a permitted map operation is applied.
MapKey(o, user, client, key) ==
    CASE o.clientKey = "client_id" -> client
      [] o.clientKey = "user_id"   -> user
      [] OTHER                     -> key

\* What OnMapPublish and OnMapRemove have in common.
MapRule(cfg, o, found, ch, user, subscribed, proxyName, rule) ==
    FirstMatch(
       << <<~found, Reply("error", "unknownChannel")>>,
          <<~ch.validName, Reply("error", "badRequest")>>,
          <<proxyName # NoProxy, Reply("proxy", "MapProxy")>>,
          <<~Allowed(cfg, rule, user, subscribed), Reply("error", "permissionDenied")>>,
          <<o.clientKey = "user_id" /\ user = Anonymous, Reply("error", "permissionDenied")>>,
          <<TRUE, Reply("allow", "map")>> >>)

OnMapPublish(cfg, o, found, ch, user, subscribed) ==
    MapRule(cfg, o, found, ch, user, subscribed, o.mapPublishProxy, o.mapPublishFor)
OnMapRemove(cfg, o, found, ch, user, subscribed) ==
    MapRule(cfg, o, found, ch, user, subscribed, o.mapRemoveProxy, o.mapRemoveFor)

-----------------------------------------------------------------------------
(* OnPresence, OnPresenceStats, OnHistory: queries that change nothing     *)

Query(found, ch, available, allowed) ==
    FirstMatch(
       << <<~found, Reply("error", "unknownChannel")>>,
          <<~ch.validName, Reply("error", "badRequest")>>,
          <<~available, Reply("error", "notAvailable")>>,
          <<~allowed, Reply("error", "permissionDenied")>>,
          <<TRUE, Reply("allow", "query")>> >>)

OnPresence(cfg, o, found, ch, user, subscribed) ==
    Query(found, ch, o.presence, hasAccessToPresence(cfg, o, user, subscribed))
OnPresenceStats(cfg, o, found, ch, user, subscribed) ==
    Query(found, ch, o.presence, hasAccessToPresence(cfg, o, user, subscribed))
OnHistory(cfg, o, found, ch, user, subscribed) ==
    Query(found, ch, o.history, hasAccessToHistory(cfg, o, user, subscribed))

-----------------------------------------------------------------------------
(* OnTrack: every batch of a shared poll request carries a signature       *)
(* [key, user, channel, keys, iat, expiry] and all of them must verify.    *)

Grace == 1       \* gracePeriodSeconds, in units of the model's clock

\* trackSignatureVerifier.verify: the MAC covers user, channel, keys, times.
Verify(secret, b, ch, user) ==
    /\ b.signedWith = secret /\ b.signedFor = [user |-> user, channel |-> ch, keys |-> b.keys]

\* One batch: the current secret, else the previous one while it is valid.
TrackBatch(cfg, b, ch, user, now) ==
    LET current == Verify(cfg.hmac, b, ch, user)
    IN  FirstMatch(
          << <<~current /\ cfg.hmacPrevious # "" /\ cfg.hmacValidUntil > 0
                 /\ b.iat > cfg.hmacValidUntil, Reply("error", "permissionDenied")>>,
             <<~current /\ ~(cfg.hmacPrevious # "" /\ Verify(cfg.hmacPrevious, b, ch, user)),
                  Reply("error", "permissionDenied")>>,
             <<b.expiry > 0 /\ b.expiry + Grace < now, Reply("error", "tokenExpired")>>,
             <<TRUE, Reply("allow", "track")>> >>)

OnTrack(cfg, o, found, ch, user, batches, now) ==
    IF ~found THEN Reply("error", "unknownChannel")
    ELSE IF o.subscriptionType # "shared_poll" THEN Reply("error", "permissionDenied")
    ELSE IF cfg.hmac = "" THEN Reply("error", "internal")
    ELSE LET replies == [i \in DOMAIN batches |-> TrackBatch(cfg, batches[i], ch, user, now)]
             bad == {i \in DOMAIN batches : replies[i].kind # "allow"}
         IN  IF bad = {} THEN Reply("allow", "track")
             ELSE replies[CHOOSE i \in bad : \A j \in bad : i <= j]
=============================================================================
