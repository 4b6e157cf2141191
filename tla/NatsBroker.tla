----------------------------- MODULE NatsBroker -----------------------------
(***************************************************************************)
(* The NATS broker of a node (internal/natsbroker), and the Redis+NATS     *)
(* broker that publishes through it (internal/redisnatsbroker): the map    *)
(* from subjects to subscriptions, which is read and written under a lock  *)
(* that is not held across the calls of the NATS client, and the callbacks *)
(* of the subscriptions.  In raw mode replacements turn a channel into its *)
(* subject, and different channels may get the same one.                   *)
(*                                                                         *)
(* External: centrifuge runs Subscribe and Unsubscribe of one channel      *)
(* under a lock, Subscribe for its first subscriber, Unsubscribe later if  *)
(* it still has none, and again after an error.  The NATS client queues    *)
(* messages per subscription and calls back one after the other, on a      *)
(* goroutine of the subscription that no Unsubscribe waits for; messages   *)
(* get lost.  Redis gives out offsets.                                     *)
(***************************************************************************)
EXTENDS Naturals, Sequences, FiniteSets

CONSTANTS
    NatsConfigs,    \* records [raw, wildcards, redis, replaced, used]: used are the
                    \* channels clients use under this configuration
    NatsChannels,
    Wild,           \* the channels with a wildcard, which matches every subject
    MaxNatsSubs, MaxNatsMessages, MaxNatsFaults   \* bounds of the model

\* A replacement makes no wildcard of a channel that has none.
ASSUME NatsAssumption ==
    /\ Wild \subseteq NatsChannels
    /\ \A k \in NatsConfigs :
        /\ k.used \subseteq NatsChannels /\ k.replaced \in [NatsChannels -> NatsChannels]
        /\ \A ch \in NatsChannels : k.replaced[ch] \in Wild => ch \in Wild
    /\ MaxNatsSubs \in Nat /\ MaxNatsMessages \in Nat /\ MaxNatsFaults \in Nat

VARIABLES
    nconf,
    natsConn,   \* "off", "open", "closed" or "failed"
    local,      \* external: channels with a subscriber on the node
    leaving,    \* external: channels whose Unsubscribe is due
    natsCall,   \* natsCall[ch]: [pc, sub] of the call in progress
    subs,       \* b.subs: [sub, orig] per subject
    active,     \* external: subscriptions in NATS: [id, subject]
    pending,    \* external: pending[id]: messages to call back with
    callbacks,  \* external: callbacks in progress: [sub, subject, m]
    made,       \* subscriptions made so far
    publishing, \* what Redis has stored and NATS has not got yet, as a set
    redisTop,   \* external: redisTop[ch]: offset of the newest entry in Redis
    messages,   \* messages published to NATS so far
    handed,     \* ghost: what the event handler got: [to, cb], cb the callback
    natsFaults

natsCalls == <<local, leaving, natsCall, subs, active, made>>
natsFlow == <<pending, callbacks, publishing, redisTop, messages, handed>>
natsVars == <<nconf, natsConn, natsCalls, natsFlow, natsFaults>>

NoSub == [sub |-> 0, orig |-> ""]
NatsIdle == [pc |-> "idle", sub |-> 0]
NatsFault == natsFaults < MaxNatsFaults /\ natsFaults' = natsFaults + 1

\* The subject of a channel; the fixed prefixes are left out.
clientChannel(ch) == IF nconf.raw THEN nconf.replaced[ch] ELSE ch

IsSupportedSubscribeChannel(ch) == nconf.wildcards \/ ch \notin Wild
IsSupportedPublishChannel(ch) == ch \notin Wild

NatsInit ==
    /\ nconf \in NatsConfigs /\ natsConn = "off"
    /\ local = {} /\ leaving = {} /\ active = {} /\ made = 0 /\ publishing = {}
    /\ natsCall = [ch \in NatsChannels |-> NatsIdle] /\ subs = [s \in NatsChannels |-> NoSub]
    /\ pending = [i \in 1..MaxNatsSubs |-> <<>>] /\ callbacks = {}
    /\ redisTop = [ch \in NatsChannels |-> 0] /\ messages = 0 /\ handed = <<>> /\ natsFaults = 0

\* RegisterControlEventHandler and RegisterBrokerEventHandler connect, once;
\* an error ends the start of the node.
RegisterNats ==
    /\ natsConn = "off"
    /\ \/ natsConn' = "open" /\ UNCHANGED natsFaults
       \/ natsConn' = "failed" /\ NatsFault
    /\ UNCHANGED <<nconf, natsCalls, natsFlow>>

CloseNats ==
    /\ natsConn = "open" /\ natsConn' = "closed"
    /\ active' = {} /\ pending' = [i \in 1..MaxNatsSubs |-> <<>>]
    /\ UNCHANGED <<nconf, local, leaving, natsCall, subs, made, callbacks, publishing, redisTop,
                   messages, handed, natsFaults>>

-----------------------------------------------------------------------------
(* Subscriptions                                                           *)

NatsStays == UNCHANGED <<nconf, natsConn, callbacks, publishing, redisTop, messages, handed>>

NatsSubscribeMutant(ch) ==
    /\ natsConn = "open" /\ natsCall[ch].pc = "idle" /\ ch \notin local /\ IsSupportedSubscribeChannel(ch)
    /\ local' = local \cup {ch}
    /\ natsCall' = [natsCall EXCEPT ![ch].pc = "subscribe"]
    /\ UNCHANGED <<leaving, subs, active, made, pending, natsFaults>> /\ NatsStays

\* Subscribe: a subject that is in the map is left alone.
NatsSubscribe(ch) ==
    /\ natsConn = "open" /\ natsCall[ch].pc = "idle" /\ ch \notin local /\ IsSupportedSubscribeChannel(ch)
    /\ local' = local \cup {ch}
    /\ natsCall' = [natsCall EXCEPT ![ch].pc = IF subs[clientChannel(ch)] = NoSub THEN "subscribe" ELSE "idle"]
    /\ UNCHANGED <<leaving, subs, active, made, pending, natsFaults>> /\ NatsStays

\* nc.Subscribe; after an error the library forgets the subscriber.
SubscribeSubject(ch) ==
    /\ natsCall[ch].pc = "subscribe"
    /\ \/ /\ natsConn = "open" /\ made < MaxNatsSubs /\ made' = made + 1
          /\ active' = active \cup {[id |-> made + 1, subject |-> clientChannel(ch)]}
          /\ natsCall' = [natsCall EXCEPT ![ch] = [pc |-> "store", sub |-> made + 1]]
          /\ UNCHANGED <<local, natsFaults>>
       \/ /\ IF natsConn = "open" THEN NatsFault ELSE UNCHANGED natsFaults
          /\ local' = local \ {ch} /\ natsCall' = [natsCall EXCEPT ![ch] = NatsIdle] /\ UNCHANGED <<active, made>>
    /\ UNCHANGED <<leaving, subs, pending>> /\ NatsStays

\* The map is written after the subscription is live.
StoreSub(ch) ==
    /\ natsCall[ch].pc = "store"
    /\ subs' = [subs EXCEPT ![clientChannel(ch)] = [sub |-> natsCall[ch].sub, orig |-> ch]]
    /\ natsCall' = [natsCall EXCEPT ![ch] = NatsIdle]
    /\ UNCHANGED <<local, leaving, active, made, pending, natsFaults>> /\ NatsStays

\* External: the last subscriber of the channel leaves.
LastLeaves(ch) ==
    /\ ch \in local /\ natsCall[ch].pc = "idle"
    /\ local' = local \ {ch} /\ leaving' = leaving \cup {ch}
    /\ UNCHANGED <<natsCall, subs, active, made, pending, natsFaults>> /\ NatsStays

\* Unsubscribe, unless somebody has subscribed meanwhile; a subject that is
\* not in the map is done with.
NatsUnsubscribe(ch) ==
    /\ ch \in leaving /\ natsCall[ch].pc = "idle"
    /\ IF ch \in local \/ subs[clientChannel(ch)] = NoSub
       THEN leaving' = leaving \ {ch} /\ UNCHANGED natsCall
       ELSE /\ natsCall' = [natsCall EXCEPT ![ch] = [pc |-> "unsubscribe",
                                                     sub |-> subs[clientChannel(ch)].sub]]
            /\ UNCHANGED leaving
    /\ UNCHANGED <<local, subs, active, made, pending, natsFaults>> /\ NatsStays

\* sub.Unsubscribe fails for a subscription that has ended already; Unsubscribe
\* is then due again.
UnsubscribeSubject(ch) ==
    /\ natsCall[ch].pc = "unsubscribe"
    /\ LET mine == {s \in active : s.id = natsCall[ch].sub}
       IN  \/ /\ mine # {} /\ active' = active \ mine
              /\ pending' = [pending EXCEPT ![natsCall[ch].sub] = <<>>]
              /\ natsCall' = [natsCall EXCEPT ![ch].pc = "delete"] /\ UNCHANGED natsFaults
           \/ /\ IF mine # {} THEN NatsFault ELSE UNCHANGED natsFaults
              /\ natsCall' = [natsCall EXCEPT ![ch] = NatsIdle] /\ UNCHANGED <<active, pending>>
    /\ UNCHANGED <<local, leaving, subs, made>> /\ NatsStays

DeleteSub(ch) ==
    /\ natsCall[ch].pc = "delete"
    /\ subs' = [subs EXCEPT ![clientChannel(ch)] = NoSub]
    /\ leaving' = leaving \ {ch} /\ natsCall' = [natsCall EXCEPT ![ch] = NatsIdle]
    /\ UNCHANGED <<local, active, made, pending, natsFaults>> /\ NatsStays

-----------------------------------------------------------------------------
(* Publications                                                            *)

\* nc.Publish: every live subscription of the subject gets the message.
Published(m) ==
    pending' = [i \in DOMAIN pending |->
        IF \E s \in active : s.id = i /\ (s.subject = clientChannel(m.ch) \/ s.subject \in Wild)
        THEN Append(pending[i], m) ELSE pending[i]]

PublishTo(ch, kind, off) ==
    /\ messages < MaxNatsMessages /\ messages' = messages + 1
    /\ Published([n |-> messages + 1, ch |-> ch, kind |-> kind, off |-> off])

\* Publish without history, PublishJoin and PublishLeave, of this node or
\* another; in raw mode there are no join and leave messages, and only Publish
\* refuses a channel with a wildcard.
PublishPlain(ch, kind) ==
    /\ natsConn = "open"
    /\ IF kind = "pub" THEN IsSupportedPublishChannel(ch) ELSE ~nconf.raw
    /\ PublishTo(ch, kind, 0)
    /\ UNCHANGED <<nconf, natsConn, natsCalls, callbacks, publishing, redisTop, handed, natsFaults>>

\* Publish of the Redis+NATS broker with history or an idempotency key: Redis
\* first, which may store it and fail to answer; a suppressed publication
\* changes nothing.
\* "publications to this Broker must be sequential for the same channel".
PublishRedis(ch) ==
    /\ natsConn = "open" /\ nconf.redis /\ IsSupportedPublishChannel(ch)
    /\ \A p \in publishing : p.ch # ch
    /\ redisTop[ch] < MaxNatsMessages
    /\ \/ /\ redisTop' = [redisTop EXCEPT ![ch] = @ + 1] /\ UNCHANGED natsFaults
          /\ publishing' = publishing \cup {[ch |-> ch, off |-> redisTop[ch] + 1]}
       \/ redisTop' = [redisTop EXCEPT ![ch] = @ + 1] /\ NatsFault /\ UNCHANGED publishing
    /\ UNCHANGED <<nconf, natsConn, natsCalls, pending, callbacks, messages, handed>>

\* Then PublishWithStreamPosition, whose error (in raw mode always) is ignored.
PublishWithStreamPosition(p) ==
    /\ publishing' = publishing \ {p}
    /\ IF nconf.raw \/ natsConn # "open" THEN UNCHANGED <<pending, messages>>
       ELSE PublishTo(p.ch, "pub", p.off)
    /\ UNCHANGED <<nconf, natsConn, natsCalls, callbacks, redisTop, handed, natsFaults>>

\* External: the goroutine of a live subscription takes its next message.
StartCallback(s) ==
    /\ pending[s.id] # <<>> /\ \A c \in callbacks : c.sub # s.id
    /\ callbacks' = callbacks \cup {[sub |-> s.id, subject |-> s.subject, m |-> Head(pending[s.id])]}
    /\ pending' = [pending EXCEPT ![s.id] = Tail(@)]
    /\ UNCHANGED <<nconf, natsConn, natsCalls, publishing, redisTop, messages, handed, natsFaults>>

\* handleClientMessage, whatever became of the subscription meanwhile: in raw
\* mode the map says which channel it is for, and a subject that is not in it
\* is ignored; with wildcards it is the channel of the subscription, else that
\* of the message.  Joins and leaves are always for the channel of the message.
HandleClientMessage(c) ==
    /\ callbacks' = callbacks \ {c}
    /\ LET to == IF nconf.raw THEN subs[c.subject].orig
                 ELSE IF c.m.kind = "pub" /\ nconf.wildcards THEN c.subject
                 ELSE c.m.ch
       IN  handed' = IF nconf.raw /\ subs[c.subject] = NoSub THEN handed
                     ELSE Append(handed, [to |-> to, cb |-> c])
    /\ UNCHANGED <<nconf, natsConn, natsCalls, pending, publishing, redisTop, messages, natsFaults>>

\* External: a message is lost, in a reconnect or with a slow consumer.
LoseMessage(s) ==
    /\ pending[s.id] # <<>> /\ NatsFault /\ pending' = [pending EXCEPT ![s.id] = Tail(@)]
    /\ UNCHANGED <<nconf, natsConn, natsCalls, callbacks, publishing, redisTop, messages, handed>>

NatsNext ==
    \/ RegisterNats \/ CloseNats
    \/ \E ch \in nconf.used :
        \/ NatsSubscribe(ch) \/ SubscribeSubject(ch) \/ StoreSub(ch) \/ LastLeaves(ch)
        \/ NatsUnsubscribe(ch) \/ UnsubscribeSubject(ch) \/ DeleteSub(ch)
        \/ \E kind \in {"pub", "join"} : PublishPlain(ch, kind)
        \/ PublishRedis(ch)
    \/ \E p \in publishing : PublishWithStreamPosition(p)
    \/ \E s \in active : StartCallback(s) \/ LoseMessage(s)
    \/ \E c \in callbacks : HandleClientMessage(c)

NatsSpec == NatsInit /\ [][NatsNext]_natsVars

-----------------------------------------------------------------------------
(* Properties                                                              *)

\* No other channel has the channel's subject.
Alone(ch) == \A d \in nconf.used \ {ch} : clientChannel(d) # clientChannel(ch)

\* Between calls a channel has exactly one subscription in NATS if the map
\* has its subject, and none if not, and one if it has subscribers: whatever
\* failed, and although Unsubscribe comes late or meets a new Subscribe.
SubscribedOnce ==
    natsConn = "open" => \A ch \in NatsChannels : Alone(ch) /\ natsCall[ch].pc = "idle" =>
        LET own == {s \in active : s.subject = clientChannel(ch)}
        IN  /\ {s.id : s \in own} = {subs[clientChannel(ch)].sub} \ {0}
            /\ ch \in local => own # {}

\* Message a was published before b.
Before(a, b) == a.n < b.n /\ (b.ch = a.ch /\ b.off > 0 => a.off < b.off)

\* The event handler gets the publications of a channel for this channel (or
\* for a wildcard), each at most once although the channel may be subscribed
\* anew, and those of one subscription in the order in which they were
\* published and with offsets that increase.  A later subscription only has
\* later messages: what is out of order is a callback that outlived its
\* subscription.  So it is with joins and leaves, unless wildcards are
\* allowed, which "can't be combined" with them.
HandedInOrder ==
    \A i \in DOMAIN handed :
        LET h == handed[i]
        IN  Alone(h.to) =>
            /\ h.to = h.cb.m.ch \/ h.to \in Wild
            /\ \A j \in 1..(i - 1) :
                 LET g == handed[j]
                 IN  (g.to = h.to /\ (nconf.wildcards => h.cb.m.kind = "pub" /\ g.cb.m.kind = "pub")) =>
                     IF g.cb.sub <= h.cb.sub THEN Before(g.cb.m, h.cb.m) ELSE Before(h.cb.m, g.cb.m)

\* Channels that share no subject are served as the Broker interface says.
NatsServes == SubscribedOnce /\ HandedInOrder
=============================================================================
