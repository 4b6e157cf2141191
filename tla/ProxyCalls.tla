----------------------------- MODULE ProxyCalls -----------------------------
(***************************************************************************)
(* Calls to the application backend (internal/proxy): what an HTTP or GRPC *)
(* proxy client makes of the backend's behaviour, and what the handler of  *)
(* each command makes of that.  Pure operators; ClientSession chooses the  *)
(* behaviour nondeterministically and applies the reply.                   *)
(*                                                                         *)
(* The backend's behaviour is one of                                       *)
(*   "result"      a result;           "empty"     a response without one; *)
(*   "error", "disconnect"             the protocol reply of that kind;    *)
(*   "expired"     a refresh result that says expired;                     *)
(*   "badBase64"   a result whose b64 payload does not decode;             *)
(*   "status"      an HTTP status other than 200 (GRPC: a status error);   *)
(*   "failure"     no usable answer: refused, timed out, undecodable.      *)
(* A proxy is [http, transform]: transform is what the proxy's             *)
(* status_to_code_transforms make of that status.                          *)
(***************************************************************************)
EXTENDS ChannelRules

Behaviours == {"result", "empty", "error", "disconnect", "expired",
               "badBase64", "status", "failure"}
Transforms == {"none", "error", "disconnect"}
ProxyConfigs == [http : BOOLEAN, transform : Transforms]

\* GetConnectProxy and the other constructors choose by the endpoint.
isHttpEndpoint(p) == p.http

\* CallHTTP: only status 200 is an answer.
CallHTTP(b) == b

\* transformHTTPStatusError: the first transform of the status, if any.
transformHTTPStatusError(p, b) ==
    IF b = "status" /\ p.transform # "none" THEN p.transform ELSE "failure"

\* The shape of every HTTP proxy call: encode, call, transform or decode.
HTTPProxy(p, b) ==
    IF CallHTTP(b) \in {"status", "failure"} THEN transformHTTPStatusError(p, b) ELSE b

\* The shape of every GRPC proxy call: a deadline, then the call.
GRPCProxy(b) == IF b = "status" THEN "failure" ELSE b

\* One per command and transport, as the files are.
HTTPConnect(p, b) == HTTPProxy(p, b)
GRPCConnect(b) == GRPCProxy(b)
ProxyConnect(p, b) == IF isHttpEndpoint(p) THEN HTTPConnect(p, b) ELSE GRPCConnect(b)
HTTPRefresh(p, b) == HTTPProxy(p, b)
GRPCRefresh(b) == GRPCProxy(b)
ProxyRefresh(p, b) == IF isHttpEndpoint(p) THEN HTTPRefresh(p, b) ELSE GRPCRefresh(b)
HTTPSubscribe(p, b) == HTTPProxy(p, b)
GRPCSubscribe(b) == GRPCProxy(b)
ProxySubscribe(p, b) == IF isHttpEndpoint(p) THEN HTTPSubscribe(p, b) ELSE GRPCSubscribe(b)
HTTPSubRefresh(p, b) == HTTPProxy(p, b)
GRPCSubRefresh(b) == GRPCProxy(b)
ProxySubRefresh(p, b) == IF isHttpEndpoint(p) THEN HTTPSubRefresh(p, b) ELSE GRPCSubRefresh(b)
HTTPPublish(p, b) == HTTPProxy(p, b)
GRPCPublish(b) == GRPCProxy(b)
ProxyPublish(p, b) == IF isHttpEndpoint(p) THEN HTTPPublish(p, b) ELSE GRPCPublish(b)
HTTPMapPublish(p, b) == HTTPProxy(p, b)
GRPCMapPublish(b) == GRPCProxy(b)
ProxyMapPublish(p, b) == IF isHttpEndpoint(p) THEN HTTPMapPublish(p, b) ELSE GRPCMapPublish(b)
HTTPMapRemove(p, b) == HTTPProxy(p, b)
GRPCMapRemove(b) == GRPCProxy(b)
ProxyMapRemove(p, b) == IF isHttpEndpoint(p) THEN HTTPMapRemove(p, b) ELSE GRPCMapRemove(b)
HTTPRPC(p, b) == HTTPProxy(p, b)
GRPCRPC(b) == GRPCProxy(b)
ProxyRPC(p, b) == IF isHttpEndpoint(p) THEN HTTPRPC(p, b) ELSE GRPCRPC(b)
\* Shared poll refresh has no status transforms.
HTTPSharedPoll(b) == IF CallHTTP(b) = "status" THEN "failure" ELSE b
GRPCSharedPoll(b) == GRPCProxy(b)
ProxySharedPoll(p, b) == IF isHttpEndpoint(p) THEN HTTPSharedPoll(b) ELSE GRPCSharedPoll(b)

-----------------------------------------------------------------------------
(* What the handlers make of the call.  closed: the client's context is    *)
(* done.  A reply is [kind, source] as in ChannelRules.                    *)

\* The part all handlers but the two refresh handlers share.
CommonReply(r, closed, ok) ==
    FirstMatch(
       << <<r = "failure" /\ closed, Reply("disconnect", "connectionClosed")>>,
          <<r = "failure", Reply("error", "internal")>>,
          <<r = "disconnect", Reply("disconnect", "fromBackend")>>,
          <<r = "error", Reply("error", "fromBackend")>>,
          <<r = "badBase64", Reply("error", "internal")>>,
          <<TRUE, ok>> >>)

\* ConnectHandler.Handle: a missing result means no credentials, a result
\* credentials and subscriptions to channels that must exist.
ConnectReply(p, b, closed, channelsKnown) ==
    LET r == ProxyConnect(p, b)
    IN  IF r = "result" /\ ~channelsKnown THEN Reply("error", "unknownChannel")
        ELSE CommonReply(r, closed,
               Reply("allow", IF r = "empty" THEN "noCredentials" ELSE "ConnectProxy"))

SubscribeReply(p, b, closed) ==
    CommonReply(ProxySubscribe(p, b), closed, Reply("allow", "SubscribeProxy"))

PublishReply(p, b, closed) ==
    CommonReply(ProxyPublish(p, b), closed, Reply("allow", "node"))
MapPublishReply(p, b, closed) ==
    CommonReply(ProxyMapPublish(p, b), closed, Reply("allow", "map"))
\* A map remove reply carries no data to decode.
MapRemoveReply(p, b, closed) ==
    LET r == ProxyMapRemove(p, b)
    IN  CommonReply(IF r = "badBase64" THEN "result" ELSE r, closed, Reply("allow", "map"))
RPCReply(p, b, closed) ==
    CommonReply(ProxyRPC(p, b), closed, Reply("allow", "rpc"))

\* The two refresh handlers look only at the transport error and at the
\* result: an error keeps the client for a minute more, a response without
\* a result expires it, whatever protocol error or disconnect it carries.
RefreshCommon(r, closed) ==
    FirstMatch(
       << <<r = "failure" /\ closed, Reply("disconnect", "connectionClosed")>>,
          <<r = "failure", Reply("allow", "minuteMore")>>,
          <<r \in {"empty", "error", "disconnect", "expired"}, Reply("expired", "backend")>>,
          <<r = "badBase64", Reply("error", "internal")>>,
          <<TRUE, Reply("allow", "refreshed")>> >>)
RefreshReply(p, b, closed) == RefreshCommon(ProxyRefresh(p, b), closed)
SubRefreshReply(p, b, closed) == RefreshCommon(ProxySubRefresh(p, b), closed)

\* SharedPollRefreshHandler.Handle: an error fails the poll, a response
\* without a result is a poll that found nothing.
SharedPollReply(p, b) ==
    LET r == ProxySharedPoll(p, b)
    IN  IF r \in {"failure", "error"} THEN Reply("error", "backend")
        ELSE Reply("allow", IF r = "result" THEN "items" ELSE "nothing")

-----------------------------------------------------------------------------
(* internal/app/proxy.go: the proxies built once, when the node starts.    *)

\* The names some namespace uses for the given proxy option.
NamesUsed(cfg, field) ==
    {cfg.namespaces[ns][field] : ns \in DOMAIN cfg.namespaces} \ {NoProxy}

RpcNames(cfg) == {cfg.rpc[ns] : ns \in DOMAIN cfg.rpc} \ {NoProxy}

\* buildProxyMap fails, and with it the start, when a name is not defined.
BuildableProxies(cfg) ==
    /\ \A f \in ProxyFields : NamesUsed(cfg, f) \subseteq ProxyNames(cfg)
    /\ RpcNames(cfg) \subseteq ProxyNames(cfg)

buildProxyMap(cfg) ==
    [f \in ProxyFields \cup {"rpc", "connect", "refresh"} |->
        CASE f = "rpc" -> RpcNames(cfg)
          [] f \in {"connect", "refresh"} -> {cfg[f]} \ {NoProxy}
          [] OTHER -> NamesUsed(cfg, f)]
=============================================================================
