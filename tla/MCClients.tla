----------------------------- MODULE MCClients -----------------------------
(***************************************************************************)
(* What clients do, for TLC, safety only: their sessions, and a client that *)
(* synchronizes a map channel.  The parts share no state; one moves in each *)
(* behaviour, chosen in the initial state.                                  *)
(***************************************************************************)
EXTENDS ClientSession, MapState, TLC

VARIABLE part

(* Sessions: two connections of one user or anonymous, a user-limited, a     *)
(* proxied and a map channel, and a reload to a configuration with a new    *)
(* proxy name or to an invalid one.                                         *)

None3 == [client |-> FALSE, subscriber |-> FALSE, anonymous |-> FALSE]
Plain ==
    [wellFormed |-> TRUE, subscriptionType |-> "stream", userLimitedChannels |-> TRUE,
     subscribeForClient |-> TRUE, subscribeForAnonymous |-> FALSE,
     subscribeProxy |-> NoProxy, streamProxy |-> NoProxy, bidirectional |-> FALSE,
     publishProxy |-> NoProxy, subRefreshProxy |-> NoProxy, mapPublishProxy |-> NoProxy,
     mapRemoveProxy |-> NoProxy, clientKey |-> "", presence |-> TRUE, history |-> TRUE,
     publishFor |-> [client |-> FALSE, subscriber |-> TRUE, anonymous |-> FALSE],
     presenceFor |-> [client |-> TRUE, subscriber |-> FALSE, anonymous |-> FALSE],
     historyFor |-> [client |-> FALSE, subscriber |-> TRUE, anonymous |-> TRUE],
     mapPublishFor |-> None3, mapRemoveFor |-> None3]
Proxied == [Plain EXCEPT !.subscriptionType = "map",
              !.subscribeProxy = DefaultProxyName, !.subRefreshProxy = DefaultProxyName,
              !.mapPublishProxy = DefaultProxyName, !.mapRemoveProxy = DefaultProxyName,
              !.publishProxy = DefaultProxyName]
Streamed == [Plain EXCEPT !.streamProxy = DefaultProxyName]
MapNs == [Plain EXCEPT !.subscriptionType = "map", !.clientKey = "user_id",
                       !.mapPublishFor.client = TRUE, !.mapPublishFor.anonymous = TRUE,
                       !.mapRemoveFor.subscriber = TRUE]

\* A node with every proxy, and one that has only a stream proxy.
MCProxies ==
    [insecure |-> FALSE, allowAnonymousConnect |-> TRUE, disallowAnonymousTokens |-> FALSE,
     personal |-> TRUE, personalNamespace |-> "", singleConnection |-> TRUE,
     connect |-> DefaultProxyName, refresh |-> DefaultProxyName, proxies |-> {"p1"}, hmac |-> "",
     rpc |-> [ns \in {""} |-> DefaultProxyName],
     namespaces |-> [ns \in {"", "px", "mp"} |->
         IF ns = "px" THEN Proxied ELSE IF ns = "mp" THEN MapNs
         ELSE [Plain EXCEPT !.subRefreshProxy = "p1"]]]
MCTokens == [MCProxies EXCEPT !.connect = NoProxy, !.refresh = NoProxy,
                              !.namespaces["px"] = Streamed]
MCBoots == {MCProxies, MCTokens}
\* A reload that renames the proxies of a namespace and closes anonymous mode.
MCNew == [MCProxies EXCEPT !.proxies = {"p1", "p2"}, !.allowAnonymousConnect = FALSE,
                           !.namespaces["px"].subscribeProxy = "p2",
                           !.namespaces["px"].subRefreshProxy = "p2",
                           !.namespaces["px"].mapRemoveProxy = "p2", !.rpc[""] = "p2"]
\* The combination validation refuses: a forced key and a proxy that keys.
MCBad == [MCProxies EXCEPT !.namespaces["mp"].mapPublishProxy = DefaultProxyName]
MCConfigs == {MCNew, MCBad}

Chan(ns, boundary, users) ==
    [ns |-> ns, private |-> FALSE, boundary |-> boundary, users |-> users, validName |-> TRUE]
Mine == Chan("", TRUE, {"u"})
Px == Chan("px", FALSE, {})
Maps == Chan("mp", FALSE, {})
MCChannels == {Mine, Px, Maps}
MCRequests == {{}, {Mine, Maps}}

MCConnTokens == {[result |-> "ok", user |-> "u", subs |-> {}],
                 [result |-> "ok", user |-> "u", subs |-> {Maps}],
                 [result |-> "expired", user |-> "u", subs |-> {}]}
MCSubTokens == {[result |-> "ok", channel |-> Px, user |-> "u", client |-> ""],
                [result |-> "expired"]}
MCProxy == [http |-> TRUE, transform |-> "disconnect"]
MCKeys == {"v"}

(* Changes of a map: publishes and removals of two keys, a keepalive, and   *)
(* compare-and-set, idempotent and versioned publishes.                     *)
Pub(k) == [key |-> k, mode |-> "replace", cas |-> FALSE, ver |-> 0, ve |-> "",
           idk |-> MapNoKey, refresh |-> FALSE, strict |-> FALSE]
Rem(k) == [key |-> k, cas |-> FALSE, idk |-> MapNoKey]
MapIdem == CHOOSE i \in IdemKeys : TRUE
MapPublishes ==
    {Pub(1), Pub(2),
     [Pub(1) EXCEPT !.mode = "if_new", !.refresh = TRUE],
     [Pub(1) EXCEPT !.cas = TRUE, !.strict = TRUE],
     [Pub(2) EXCEPT !.mode = "if_exists", !.idk = MapIdem, !.ver = 1, !.ve = "A"]}
MapRemoves == {[Rem(1) EXCEPT !.cas = TRUE], [Rem(2) EXCEPT !.idk = MapIdem]}

-----------------------------------------------------------------------------
Parts == {"session", "map"}

Init ==
    /\ part \in Parts
    /\ SessionInit /\ MapInit
    /\ part # "session" => config = MCProxies

Next ==
    /\ UNCHANGED part
    /\ \/ part = "session" /\ SessionNext /\ UNCHANGED mapVars
       \/ part = "map" /\ MapNext /\ UNCHANGED session

vars == <<part, session, mapVars>>

Spec == Init /\ [][Next]_vars

\* The connections run the same program.
Symmetry == Permutations(Clients)
=============================================================================
