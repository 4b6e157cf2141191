----------------------------- MODULE ApiMethods -----------------------------
(***************************************************************************)
(* The methods of the server API (Executor of internal/api/api.go) as      *)
(* rules: which error a command gets, in the order of the checks, given    *)
(* the options of its channel and what the node's operation says (n: "ok", *)
(* "failed", or "lost" for one that was applied though an error came       *)
(* back).  A method has an effect exactly when it reaches the node and n   *)
(* is not "failed".                                                        *)
(*                                                                         *)
(* A command is [id, method, channels, key, data, idempotencyKey]; all     *)
(* methods but broadcast have one channel, "" if it is missing; data is    *)
(* "ok", "badBase64" or "badFormat" (not in the format of the namespace).  *)
(***************************************************************************)
EXTENDS ChannelRules

CONSTANT ApiChannels   \* the options of the known channels

NoOptions == [subscriptionType |-> "stream", presence |-> FALSE, history |-> FALSE,
              publishEnabled |-> FALSE]
Known(ch) == ch \in DOMAIN ApiChannels
Opts(ch) == IF Known(ch) THEN ApiChannels[ch] ELSE NoOptions
isMapType(o) == o.subscriptionType \in {"map", "map_clients", "map_users"}

\* Errors, and what a call of the node makes of its outcome.
Errors == {"none", "internal", "unknownChannel", "notFound", "badRequest",
           "notAvailable", "unrecoverable", "conflict"}
NodeError(n) == IF n = "ok" THEN "none" ELSE "internal"

\* The checks every method with a channel starts with, then its own rules.
WithChannel(ch, missing, rules, n) ==
    FirstMatch(<< <<missing, "badRequest">>, <<~Known(ch), "unknownChannel">> >>
               \o rules \o << <<TRUE, NodeError(n)>> >>)

\* Publish decodes the payload before it looks at the channel.
Publish(cmd, ch, n) ==
    WithChannel(ch, ch = "" \/ cmd.data = "badBase64",
        << <<Opts(ch).subscriptionType # "stream", "badRequest">>,
           <<cmd.data = "badFormat", "badRequest">> >>, n)

\* What Broadcast refuses as a whole, and what it does for one channel: the
\* type of the channel is not looked at.
BroadcastRefused(cmd) == cmd.channels = <<>> \/ cmd.data = "badBase64"
BroadcastOne(cmd, ch, n) ==
    WithChannel(ch, ch = "", << <<cmd.data = "badFormat", "badRequest">> >>, n)

Subscribe(cmd, ch, n) == WithChannel(ch, ch = "", <<>>, n)

\* An empty channel means all of the user's.
Unsubscribe(cmd, ch, n) == IF ch = "" THEN NodeError(n) ELSE WithChannel(ch, FALSE, <<>>, n)
Disconnect(cmd, ch, n) == NodeError(n)
Refresh(cmd, ch, n) == NodeError(n)

Presence(cmd, ch, n) ==
    WithChannel(ch, ch = "", << <<~Opts(ch).presence, "notAvailable">> >>, n)
PresenceStats(cmd, ch, n) ==
    WithChannel(ch, ch = "", << <<~Opts(ch).presence, "notAvailable">> >>, n)

\* A position outside of the history (n = "lost" has no other meaning for a
\* query) has an error of its own.
History(cmd, ch, n) ==
    WithChannel(ch, ch = "", << <<~Opts(ch).history, "notAvailable">>,
                                <<n = "lost", "unrecoverable">> >>, n)
HistoryRemove(cmd, ch, n) ==
    WithChannel(ch, ch = "", << <<~Opts(ch).history, "notAvailable">> >>, n)

Info(cmd, ch, n) == NodeError(n)

\* toAPIErr: an API error of the handler or of a surveyed node is kept (here
\* the answer "lost" stands for one), any other error is internal.
toAPIErr(n) == IF n = "lost" THEN "conflict" ELSE NodeError(n)
RPC(cmd, ch, n) ==
    FirstMatch(<< <<cmd.key = "", "badRequest">>, <<cmd.key = "unregistered", "notFound">>,
                  <<TRUE, toAPIErr(n)>> >>)
Channels(cmd, ch, n) == toAPIErr(n)

\* The map methods; the payload and the key mode are looked at last.
OnMap(ch) == << <<~isMapType(Opts(ch)), "badRequest">> >>
MapPublish(cmd, ch, n) ==
    WithChannel(ch, ch = "" \/ cmd.key = "",
        OnMap(ch) \o << <<cmd.data = "badBase64" \/ cmd.key = "badMode", "badRequest">> >>, n)
MapRemove(cmd, ch, n) == WithChannel(ch, ch = "" \/ cmd.key = "", OnMap(ch), n)
MapReadState(cmd, ch, n) == WithChannel(ch, ch = "", OnMap(ch), n)
MapReadStream(cmd, ch, n) == WithChannel(ch, ch = "", OnMap(ch), n)
MapStats(cmd, ch, n) == WithChannel(ch, ch = "", OnMap(ch), n)
MapClear(cmd, ch, n) == WithChannel(ch, ch = "", OnMap(ch), n)

\* A key and a version are required (key stands for both).
SharedPollPublish(cmd, ch, n) ==
    WithChannel(ch, ch = "" \/ cmd.key = "",
        << <<Opts(ch).subscriptionType # "shared_poll", "badRequest">>,
           <<~Opts(ch).publishEnabled, "notAvailable">>,
           <<cmd.data = "badBase64", "badRequest">> >>, n)

\* processCmd: the method's own rule; a command without a method is unknown.
processCmd(cmd, ch, n) ==
    CASE cmd.method = "publish"             -> Publish(cmd, ch, n)
      [] cmd.method = "broadcast"           -> BroadcastOne(cmd, ch, n)
      [] cmd.method = "subscribe"           -> Subscribe(cmd, ch, n)
      [] cmd.method = "unsubscribe"         -> Unsubscribe(cmd, ch, n)
      [] cmd.method = "disconnect"          -> Disconnect(cmd, ch, n)
      [] cmd.method = "refresh"             -> Refresh(cmd, ch, n)
      [] cmd.method = "presence"            -> Presence(cmd, ch, n)
      [] cmd.method = "presence_stats"      -> PresenceStats(cmd, ch, n)
      [] cmd.method = "history"             -> History(cmd, ch, n)
      [] cmd.method = "history_remove"      -> HistoryRemove(cmd, ch, n)
      [] cmd.method = "info"                -> Info(cmd, ch, n)
      [] cmd.method = "rpc"                 -> RPC(cmd, ch, n)
      [] cmd.method = "channels"            -> Channels(cmd, ch, n)
      [] cmd.method = "map_publish"         -> MapPublish(cmd, ch, n)
      [] cmd.method = "map_remove"          -> MapRemove(cmd, ch, n)
      [] cmd.method = "map_read_state"      -> MapReadState(cmd, ch, n)
      [] cmd.method = "map_read_stream"     -> MapReadStream(cmd, ch, n)
      [] cmd.method = "map_stats"           -> MapStats(cmd, ch, n)
      [] cmd.method = "map_clear"           -> MapClear(cmd, ch, n)
      [] cmd.method = "shared_poll_publish" -> SharedPollPublish(cmd, ch, n)
      [] OTHER                              -> "notFound"

\* The methods that change something.
Effectful == {"publish", "broadcast", "subscribe", "unsubscribe", "disconnect", "refresh",
              "history_remove", "rpc", "map_publish", "map_remove", "map_clear",
              "shared_poll_publish"}

\* Whether the node is reached at all: no check before the call refuses.
Accepted(cmd, ch) == processCmd(cmd, ch, "ok") = "none"

-----------------------------------------------------------------------------
(* Status codes of the transport error mode (internal/apiproto/errors.go). *)

MapErrorToHTTPCode(e) ==
    CASE e \in {"unknownChannel", "notFound"} -> "404"
      [] e \in {"badRequest", "notAvailable"} -> "400"
      [] e = "unrecoverable"                  -> "416"
      [] e = "conflict"                       -> "409"
      [] OTHER                                -> "500"

MapErrorToGRPCCode(e) ==
    CASE e \in {"unknownChannel", "notFound"} -> "NotFound"
      [] e \in {"badRequest", "notAvailable"} -> "InvalidArgument"
      [] e = "unrecoverable"                  -> "OutOfRange"
      [] e = "conflict"                       -> "AlreadyExists"
      [] OTHER                                -> "Internal"
=============================================================================
