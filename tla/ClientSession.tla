---------------------------- MODULE ClientSession ----------------------------
(***************************************************************************)
(* Client connections of one node as internal/client/handler.go drives     *)
(* them: connecting (token, connect proxy or anonymous; single connection; *)
(* personal and requested channels), subscribing, refreshing, publishing   *)
(* into maps, with proxied commands in flight while the configuration is   *)
(* reloaded, connections close and other connections of the user arrive.   *)
(*                                                                         *)
(* The centrifuge library (external) keeps one command of a client running *)
(* at a time (client.concurrency = 1), owns the set of subscriptions, and  *)
(* removes them with the connection.  The proxies are built from the       *)
(* configuration of the start and never again; the configuration is        *)
(* replaced by Reload, and for a while a channel lookup may still answer   *)
(* from the previous one (the options cache, see OptionsCache).     Of the *)
(* source of a subscription only "from a connection token" matters later.  *)
(***************************************************************************)
EXTENDS ProxyCalls

CONSTANTS
    Clients,      \* client IDs
    Boots,        \* configurations the node may start with
    Configs,      \* what Reload may be given, valid or not
    Channels,     \* the channels clients name
    Requests,     \* sets of channels in a connect command or a connect result
    ConnTokens,   \* connection tokens: [result, user, subs]
    SubTokens,    \* subscription tokens: [result, channel, user, client]
    Proxy,        \* the transport of every proxy: [http, transform]
    Keys,         \* map keys
    MaxReloads

ASSUME ConfigAssumption == \A k \in Boots \cup Configs : IsClientConfig(k)

VARIABLES
    config,       \* cfgContainer.configValue
    stale,        \* the configuration a cached lookup may still answer from
    proxies,      \* ProxyMap: the names built per proxy option
    reloads,
    conn,         \* conn[c]: the connection, see Fresh
    entries,      \* entries[ch]: what is in the map channel, if its keys are forced
    panicked      \* configurations by which a command called a proxy that was never built

session == <<config, stale, proxies, reloads, conn, entries, panicked>>
server == <<config, stale, proxies, reloads>>

NoCall == [op |-> "none"]
Users == {t.user : t \in {x \in ConnTokens : x.result = "ok"}} \cup {Anonymous}
AllChannels ==
    Channels \cup {PersonalChannel(k, u) : k \in Boots \cup Configs, u \in Users \ {Anonymous}}
\* The channels in which some configuration forces the key of an entry.
KeyedChannels ==
    {ch \in Channels : \E k \in Boots \cup Configs : Found(k, ch) /\ OptionsOf(k, ch).clientKey # ""}
NoSubs == [ch \in AllChannels |-> "none"]

\* A connection: its stage, the user of its credentials, the source of each
\* subscription ("none", "token" for one made from the connection token, or
\* "other"), the channels of the last accepted connection token, and the
\* handler in progress.
Fresh == [st |-> "new", user |-> Anonymous, subs |-> NoSubs, tokenSubs |-> {},
          call |-> NoCall]
Gone == [Fresh EXCEPT !.st = "closed"]

st(c) == conn[c].st
call(c) == conn[c].call
user(c) == conn[c].user
Subscribed(c, ch) == conn[c].subs[ch] # "none"
Close(c) == conn' = [conn EXCEPT ![c] = Gone]

\* The zero options that ChannelOptions returns for an unknown namespace.
Zero == config.namespaces[""]

\* A channel lookup answers from the current configuration or from the cache.
Visible == {config} \cup stale
ChannelOptions(k, ch) == IF Found(k, ch) THEN OptionsOf(k, ch) ELSE Zero

SessionInit ==
    /\ config \in {k \in Boots : ValidConfig(k) /\ BuildableProxies(k)}
    /\ stale = {} /\ proxies = buildProxyMap(config) /\ reloads = 0
    /\ conn = [c \in Clients |-> Fresh]
    /\ entries = [ch \in KeyedChannels |-> {}]
    /\ panicked = {}

-----------------------------------------------------------------------------
(* Configuration                                                           *)

\* SIGHUP: Container.Reload keeps the old configuration unless the new one
\* validates.  The proxies stay those of the start.
Reload(k) ==
    /\ reloads < MaxReloads /\ k # config
    /\ IF ValidConfig(k) THEN config' = k /\ stale' = {config} /\ reloads' = reloads + 1
                         ELSE UNCHANGED <<config, stale, reloads>>
    /\ UNCHANGED <<proxies, conn, entries, panicked>>

\* The last cached options of the old configuration expire.
CacheExpire ==
    /\ stale # {} /\ stale' = {}
    /\ UNCHANGED <<config, proxies, reloads, conn, entries, panicked>>

\* The client leaves, or the network does; its handler and its
\* subscriptions go with it.
Disconnect(c) ==
    /\ st(c) \in {"connecting", "checked", "open"}
    /\ Close(c)
    /\ UNCHANGED <<server, entries, panicked>>

Unsubscribe(c, ch) ==
    /\ st(c) = "open" /\ call(c) = NoCall /\ Subscribed(c, ch)
    /\ conn' = [conn EXCEPT ![c].subs[ch] = "none"]
    /\ UNCHANGED <<server, entries, panicked>>

-----------------------------------------------------------------------------
(* OnClientConnecting                                                      *)

\* The state carried to the rest of the handler: the configuration it read
\* first, the requested channels, whether they are processed at all, and the
\* subscriptions collected so far.
Connecting(c, k, u, req, process, got, tok) ==
    conn' = [conn EXCEPT ![c] =
        [@ EXCEPT !.st = "connecting", !.user = u, !.tokenSubs = tok,
                  !.call = [op |-> "connect", cfg |-> k, req |-> req,
                            process |-> process, got |-> got]]]

Sourced(chs, source) == [ch \in AllChannels |-> IF ch \in chs THEN source ELSE "none"]

\* A connect command with a connection token.
ConnectWithToken(c, tok, req) ==
    /\ st(c) = "new"
    /\ IF tok.result # "ok" \/ (tok.user = Anonymous /\ config.disallowAnonymousTokens)
       THEN Close(c)
       ELSE Connecting(c, config, tok.user, req, TRUE,
                       Sourced(tok.subs, "token"), tok.subs)
    /\ UNCHANGED <<server, entries, panicked>>

\* No credentials: an anonymous connection if the options allow one.
ConnectAnonymous(c, k, req) ==
    IF k.allowAnonymousConnect \/ k.insecure
    THEN Connecting(c, k, Anonymous, req, TRUE, NoSubs, {})
    ELSE Close(c)

\* Without a token: the connect proxy if there is one, else anonymous mode.
ConnectWithoutToken(c, req) ==
    /\ st(c) = "new"
    /\ IF proxies["connect"] # {}
       THEN conn' = [conn EXCEPT ![c].st = "connecting",
                       ![c].call = [op |-> "connectProxy", cfg |-> config, req |-> req]]
       ELSE ConnectAnonymous(c, config, req)
    /\ UNCHANGED <<server, entries, panicked>>

\* The connect proxy answers with a user and channels, with no credentials
\* (anonymous mode decides), or refuses.
ConnectProxied(c, u, chs) ==
    /\ call(c).op = "connectProxy"
    /\ \E rep \in {ConnectReply(Proxy, b, FALSE, \A ch \in chs : Found(config, ch)) :
                      b \in Behaviours} :
       LET k == call(c).cfg
       IN  CASE rep.kind # "allow" -> Close(c)
             [] rep = Reply("allow", "noCredentials") -> ConnectAnonymous(c, k, call(c).req)
             [] OTHER -> Connecting(c, k, u, call(c).req, FALSE, Sourced(chs, "other"), {})
    /\ UNCHANGED <<server, entries, panicked>>

\* Single connection: presence statistics of the personal channel, and if it
\* has a client, every open connection of the user is disconnected.  The
\* connection is refused when either call fails.
SingleConnectionCheck(c, fails) ==
    /\ st(c) = "connecting" /\ call(c).op = "connect"
    /\ LET k == call(c).cfg
           enforced == k.personal /\ k.singleConnection /\ user(c) # Anonymous
           mine == {d \in Clients \ {c} : st(d) = "open" /\ user(d) = user(c)}
           present == {d \in mine : Subscribed(d, PersonalChannel(config, user(c)))}
           D == IF enforced /\ present # {} THEN mine ELSE {}
       IN  /\ fails => enforced
           /\ conn' = [d \in Clients |->
                         IF (d \in D /\ ~fails) \/ (d = c /\ fails) THEN Gone
                         ELSE IF d # c THEN conn[d]
                         ELSE [conn[c] EXCEPT !.st = "checked"]]
    /\ UNCHANGED <<server, entries, panicked>>

\* The rest of the handler and the library's registration: the personal
\* channel, then each requested channel that the connect rule permits.  An
\* unknown channel refuses the connection.
FinishConnect(c, k2) ==
    /\ st(c) = "checked"
    /\ LET k == call(c).cfg
           personal == IF k.personal /\ user(c) # Anonymous
                       THEN {PersonalChannel(config, user(c))} ELSE {}
           req == IF call(c).process THEN call(c).req ELSE {}
           ok == {ch \in req : ConnectChannelOk(k, ChannelOptions(k2, ch), ch, user(c))}
           got == call(c).got
           all == [ch \in AllChannels |->
                     IF ch \in personal THEN "other"
                     ELSE IF got[ch] # "none" THEN got[ch]
                     ELSE IF ch \in ok THEN "other" ELSE "none"]
       IN  IF \A ch \in personal \cup req : Found(k2, ch)
           THEN conn' = [conn EXCEPT ![c].st = "open", ![c].subs = all, ![c].call = NoCall]
           ELSE Close(c)
    /\ UNCHANGED <<server, entries, panicked>>

-----------------------------------------------------------------------------
(* OnRefresh, and the check of the token's channels in its callback        *)

tokenChannelsChangedMutant(c, chs) == \E ch \in chs : ~Subscribed(c, ch)

\* tokenChannelsChanged: a channel of the new token is not subscribed, or a
\* channel of an older token is not in it any more.
tokenChannelsChanged(c, chs) ==
    \/ \E ch \in chs : ~Subscribed(c, ch)
    \/ \E ch \in AllChannels : conn[c].subs[ch] = "token" /\ ch \notin chs

\* An expired or invalid token, another user's, or one with other channels
\* ends the connection.
OnRefresh(c, tok) ==
    /\ st(c) = "open" /\ call(c) = NoCall /\ proxies["refresh"] = {}
    /\ IF tok.result # "ok" \/ tok.user # user(c) \/ tokenChannelsChanged(c, tok.subs)
       THEN Close(c)
       ELSE conn' = [conn EXCEPT ![c].tokenSubs = tok.subs]
    /\ UNCHANGED <<server, entries, panicked>>

\* The refresh proxy decides; only "expired" ends the connection.
RefreshProxied(c) ==
    /\ st(c) = "open" /\ call(c) = NoCall /\ proxies["refresh"] # {}
    /\ \E b \in Behaviours : RefreshReply(Proxy, b, FALSE).kind = "expired"
    /\ Close(c)
    /\ UNCHANGED <<server, entries, panicked>>

-----------------------------------------------------------------------------
(* Commands on channels                                                    *)

Idle(c) == st(c) = "open" /\ call(c) = NoCall

\* A command that goes to a proxy option.  Without any handler of that kind
\* it is refused; a name the start did not build is a nil proxy.
Call(c, op, field, k2, ch, key) ==
    /\ proxies[field] # {}
    /\ IF ChannelOptions(k2, ch)[field] \notin proxies[field]
       THEN panicked' = panicked \cup {k2} /\ UNCHANGED conn
       ELSE /\ conn' = [conn EXCEPT ![c].call = [op |-> op, ch |-> ch, key |-> key]]
            /\ UNCHANGED panicked

Subscribe(c, ch, type, tok, k2) ==
    /\ Idle(c) /\ ~Subscribed(c, ch)
    /\ LET o == ChannelOptions(k2, ch)
           rep == OnSubscribe(config, o, Found(k2, ch), ch, user(c), c, type, tok)
       IN  \/ /\ rep.kind = "allow" /\ conn' = [conn EXCEPT ![c].subs[ch] = "other"]
              /\ UNCHANGED panicked
           \/ rep.kind = "disconnect" /\ Close(c) /\ UNCHANGED panicked
           \/ /\ rep.kind = "proxy"
              /\ Call(c, rep.source,
                      IF rep.source = "StreamProxy" THEN "streamProxy" ELSE "subscribeProxy",
                      k2, ch, "")
    /\ UNCHANGED <<server, entries>>

\* The backend's answer to a proxied subscribe (the stream itself is
\* SubscribeStream's subject).
SubscribeProxied(c) ==
    /\ call(c).op \in {"SubscribeProxy", "StreamProxy"}
    /\ \E rep \in {SubscribeReply(Proxy, b, FALSE) : b \in Behaviours} :
       LET source == IF rep.kind = "allow" THEN "other" ELSE "none"
       IN  IF rep.kind = "disconnect" THEN Close(c)
           ELSE conn' = [conn EXCEPT ![c].call = NoCall, ![c].subs[call(c).ch] = source]
    /\ UNCHANGED <<server, entries, panicked>>

\* OnSubRefresh by the proxy, when the client sends no token and there is a
\* handler: a reply that says expired ends the subscription.
SubRefreshProxied(c, ch, k2) ==
    /\ Idle(c) /\ Subscribed(c, ch) /\ proxies["subRefreshProxy"] # {} /\ Found(k2, ch)
    /\ LET name == ChannelOptions(k2, ch).subRefreshProxy
       IN  /\ name # NoProxy
           /\ \/ /\ name \notin proxies["subRefreshProxy"]
                 /\ panicked' = panicked \cup {k2} /\ UNCHANGED conn
              \/ /\ name \in proxies["subRefreshProxy"]
                 /\ \E b \in Behaviours : SubRefreshReply(Proxy, b, FALSE).kind = "expired"
                 /\ conn' = [conn EXCEPT ![c].subs[ch] = "none"] /\ UNCHANGED panicked
    /\ UNCHANGED <<server, entries>>

\* OnSubRefresh by token: an expired one ends the subscription, an invalid,
\* missing or mismatched one the connection.
OnSubRefresh(c, ch, tok) ==
    /\ Idle(c) /\ Subscribed(c, ch)
    /\ tok = NoToken => proxies["subRefreshProxy"] = {}
    /\ \/ tok.result = "expired" /\ conn' = [conn EXCEPT ![c].subs[ch] = "none"]
       \/ tok.result \in {"none", "invalid"} /\ Close(c)
       \/ TokenMismatch(tok, ch, user(c), c) /\ Close(c)
    /\ UNCHANGED <<server, entries, panicked>>

\* OnMapPublish and OnMapRemove, and their proxied forms, in which the
\* backend may choose the key.  The library applies the operation to map
\* channels only.
Applied(op, c, ch, key) ==
    IF ch \notin KeyedChannels THEN UNCHANGED entries ELSE
    entries' = [entries EXCEPT ![ch] =
                  IF op = "publish" THEN @ \cup {[key |-> key, client |-> c, user |-> user(c)]}
                                    ELSE {e \in @ : e.key # key}]

MapCommand(op, c, ch, key, k2) ==
    /\ Idle(c)
    /\ LET o == ChannelOptions(k2, ch)
           rep == IF op = "publish"
                  THEN OnMapPublish(config, o, Found(k2, ch), ch, user(c), Subscribed(c, ch))
                  ELSE OnMapRemove(config, o, Found(k2, ch), ch, user(c), Subscribed(c, ch))
       IN  \/ /\ rep.kind = "allow" /\ o.subscriptionType = "map"
              /\ Applied(op, c, ch, MapKey(o, user(c), c, key))
              /\ UNCHANGED <<conn, panicked>>
           \/ /\ rep.kind = "proxy"
              /\ Call(c, op, IF op = "publish" THEN "mapPublishProxy" ELSE "mapRemoveProxy",
                      k2, ch, key)
              /\ UNCHANGED entries
    /\ UNCHANGED server

MapProxied(c, key) ==
    /\ call(c).op \in {"publish", "remove"}
    /\ \E rep \in {IF call(c).op = "publish" THEN MapPublishReply(Proxy, b, FALSE)
                    ELSE MapRemoveReply(Proxy, b, FALSE) : b \in Behaviours} :
       LET op == call(c).op
       IN  /\ IF rep.kind = "disconnect" THEN Close(c)
                                         ELSE conn' = [conn EXCEPT ![c].call = NoCall]
           /\ IF rep.kind = "allow" THEN Applied(op, c, call(c).ch, key)
                                    ELSE UNCHANGED entries
    /\ UNCHANGED <<server, panicked>>

\* OnPublish and OnRPC by a proxy: of the answers only a disconnect matters
\* here (the publication is the broker's).
ProxiedAnswer(c, k, name, field, kinds) ==
    /\ proxies[field] # {}
    /\ IF name \notin proxies[field] THEN panicked' = panicked \cup {k} /\ UNCHANGED conn
       ELSE "disconnect" \in kinds /\ Close(c) /\ UNCHANGED panicked

PublishProxied(c, ch, k2) ==
    /\ Idle(c)
    /\ LET o == ChannelOptions(k2, ch)
       IN  /\ OnPublish(config, o, Found(k2, ch), ch, user(c), Subscribed(c, ch), FALSE, TRUE).kind
                = "proxy"
           /\ ProxiedAnswer(c, k2, o.publishProxy, "publishProxy",
                            {PublishReply(Proxy, b, FALSE).kind : b \in Behaviours})
    /\ UNCHANGED <<server, entries>>

\* RPC options are not cached: unknown namespaces and namespaces without a
\* proxy are refused.
RPCProxied(c, ns) ==
    /\ Idle(c) /\ RpcFound(config, ns) /\ config.rpc[ns] # NoProxy
    /\ ProxiedAnswer(c, config, config.rpc[ns], "rpc",
                     {RPCReply(Proxy, b, FALSE).kind : b \in Behaviours})
    /\ UNCHANGED <<server, entries>>

-----------------------------------------------------------------------------
SessionNext ==
    \/ \E k \in Configs : Reload(k)
    \/ CacheExpire
    \/ \E c \in Clients :
        \/ Disconnect(c)
        \/ \E ch \in AllChannels : Unsubscribe(c, ch)
        \/ \E tok \in ConnTokens, req \in Requests : ConnectWithToken(c, tok, req)
        \/ \E req \in Requests : ConnectWithoutToken(c, req)
        \/ \E u \in Users, chs \in Requests : ConnectProxied(c, u, chs)
        \/ \E fails \in BOOLEAN : SingleConnectionCheck(c, fails)
        \/ \E k2 \in Visible : FinishConnect(c, k2)
        \/ \E tok \in ConnTokens : OnRefresh(c, tok)
        \/ RefreshProxied(c)
        \/ SubscribeProxied(c)
        \/ \E key \in Keys : MapProxied(c, key)
        \/ \E ch \in Channels, tok \in SubTokens \cup {NoToken} : OnSubRefresh(c, ch, tok)
        \/ \E ch \in Channels, type \in {"stream", "map"}, tok \in SubTokens \cup {NoToken},
              k2 \in Visible : Subscribe(c, ch, type, tok, k2)
        \/ \E ch \in Channels, k2 \in Visible : SubRefreshProxied(c, ch, k2)
        \/ \E ch \in Channels, k2 \in Visible : PublishProxied(c, ch, k2)
        \/ \E ns \in DOMAIN config.rpc : RPCProxied(c, ns)
        \/ \E op \in {"publish", "remove"}, ch \in Channels, key \in Keys, k2 \in Visible :
              MapCommand(op, c, ch, key, k2)

SessionSpec == SessionInit /\ [][SessionNext]_session

-----------------------------------------------------------------------------
(* Properties                                                              *)

\* The doc of single_connection: one open connection per user.
OneConnectionPerUser ==
    \A c, d \in Clients :
        (/\ c # d /\ st(c) = "open" /\ st(d) = "open"
         /\ user(c) = user(d) /\ user(c) # Anonymous) => FALSE

\* After every accepted refresh, no subscription made from an older token
\* survives that the last accepted token does not list.
TokenSubsActual ==
    \A c \in Clients : st(c) = "open" =>
        \A ch \in AllChannels : conn[c].subs[ch] = "token" => ch \in conn[c].tokenSubs

\* Under client_key = user_id or client_id no client ever writes an entry
\* under the key of another, whatever is reloaded, cached or proxied.
EntriesOwned ==
    \A ch \in KeyedChannels :
        LET kind == {k.namespaces[ch.ns].clientKey :
                        k \in {x \in Boots \cup Configs : ValidConfig(x) /\ Found(x, ch)}}
        IN  /\ kind = {"client_id"} => \A e \in entries[ch] : e.key = e.client
            /\ kind = {"user_id"} => \A e \in entries[ch] : e.key = e.user

\* With the configuration of the start every lookup in the proxy map succeeds:
\* a command meets a proxy that was never built (and the handler dereferences
\* nil) only after a reload, and by options, current or still cached, of a
\* configuration that names a new one.
PanicNeedsNewName ==
    \A k \in panicked :
        /\ reloads > 0
        /\ \/ \E f \in ProxyFields : ~(NamesUsed(k, f) \subseteq proxies[f])
           \/ ~(RpcNames(k) \subseteq proxies["rpc"])

\* No anonymous client is granted anything no anonymous flag allows, and the
\* connect command grants no channel that OnSubscribe would refuse, for
\* stream namespaces without a stream proxy.
RulesAgree ==
    \A c \in Clients : st(c) = "open" => \A ch \in Channels : \A k \in Visible :
        LET o == ChannelOptions(k, ch)
            u == user(c)
            found == Found(k, ch)
            is == Subscribed(c, ch)
        IN  /\ (u = Anonymous /\ ~config.insecure) =>
                 /\ OnPublish(config, o, found, ch, u, is, FALSE, TRUE).kind = "allow"
                      => o.publishFor.anonymous
                 /\ OnMapPublish(config, o, found, ch, u, is).kind = "allow"
                      => o.mapPublishFor.anonymous
                 /\ OnMapRemove(config, o, found, ch, u, is).kind = "allow"
                      => o.mapRemoveFor.anonymous
                 /\ OnPresence(config, o, found, ch, u, is).kind = "allow"
                      => o.presenceFor.anonymous
                 /\ OnHistory(config, o, found, ch, u, is).kind = "allow"
                      => o.historyFor.anonymous
            /\ (/\ found /\ o.streamProxy = NoProxy /\ o.subscriptionType = "stream"
                /\ ConnectChannelOk(config, o, ch, u)) =>
                 OnSubscribe(config, o, found, ch, u, c, "stream", NoToken).kind = "allow"

\* The permission rules agree with each other, and only a reload that names an
\* unknown proxy makes a handler fail.
SessionRules == RulesAgree /\ PanicNeedsNewName
=============================================================================
