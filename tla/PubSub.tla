------------------------------- MODULE PubSub -------------------------------
(***************************************************************************)
(* Pub/Sub of the vendored Redis (pubsub.c), which carries the broadcasts  *)
(* of Action Cable: who is subscribed to what is kept twice, in the client *)
(* and in the server's tables, and for shard channels a third time, in the *)
(* cluster's index by slot.  Commands run one at a time; what makes them   *)
(* hard is the number of ways to leave: three commands, RESET, a freed     *)
(* client, a slot that moves away.                                         *)
(*                                                                         *)
(* A command takes its names one after the other.  Each name has its own   *)
(* lists, a name given twice finds nothing left to do the second time, and *)
(* the last reply has the number after all of them, so a command is a step *)
(* over the set of its names.  Clients that may not block, for which the   *)
(* commands are refused, and an importing node that is ASKed for a channel *)
(* of a slot it does not serve yet are left out.                           *)
(***************************************************************************)
EXTENDS Integers, FiniteSets

CONSTANTS
    Subscribers,  \* connections
    Channels,     \* channel names, global and shard ones alike
    Patterns,     \* patterns
    Matches,      \* the pairs <<pattern, channel>> for which stringmatchlen holds
    Slots,        \* hash slots
    SlotOf        \* keyHashSlot of each channel

\* A subscription: a channel, a shard channel or a pattern.
Topics == ({"global", "shard"} \X Channels) \cup ({"pattern"} \X Patterns)

ASSUME PubSubAssumption == SlotOf \in [Channels -> Slots]

VARIABLES
    mine,     \* pubsub_channels, pubsubshard_channels and pubsub_patterns of each client
    entry,    \* topics with an entry in the server's three tables
    nodes,    \* how many nodes of a topic's list hold a client
    slots,    \* slots_to_channels: the shard channels in the index by slot
    mode,     \* clients flagged CLIENT_PUBSUB
    conn,     \* each client: "none", "open" or "closing" (CLIENT_CLOSE_ASAP)
    served,   \* slots served by this node or its master
    told,     \* history: the subscriptions a client knows of from the replies it was sent
    count     \* history: the numbers in the last replies of either kind

pubsubVars == <<mine, entry, nodes, slots, mode, conn, served, told, count>>

-----------------------------------------------------------------------------
\* clientSubscriptionsCount: channels and patterns together.
SubscriptionsCount(topics) == Cardinality({t \in topics : t[1] # "shard"})

ShardSubscriptionsCount(topics) == Cardinality({t \in topics : t[1] = "shard"})

\* clientTotalPubSubSubscriptionCount
TotalCount(topics) == SubscriptionsCount(topics) + ShardSubscriptionsCount(topics)

\* type.subscriptionCount of the replies; those about patterns count channels too.
CountedAs(kind) == IF kind = "shard" THEN "shard" ELSE "global"

CountFor(kind, topics) ==
    IF kind = "shard" THEN ShardSubscriptionsCount(topics) ELSE SubscriptionsCount(topics)

Notify(c, kind, topics) ==
    /\ told' = [told EXCEPT ![c] = topics]
    /\ count' = [count EXCEPT ![<<c, CountedAs(kind)>>] = CountFor(kind, mine'[c])]

AddReplySubscribed(c, kind, topics) == Notify(c, kind, told[c] \cup topics)

\* Also sent, with the number alone, when there was nothing to leave.
AddReplyUnsubscribed(c, kind, topics) == Notify(c, kind, told[c] \ topics)

-----------------------------------------------------------------------------
\* A topic the client did not have yet gets a node in its list, and the list
\* an entry if it has none.
pubsubSubscribeChannel(c, topics) ==
    LET new == topics \ mine[c] IN
    /\ mine' = [mine EXCEPT ![c] = @ \cup topics]
    /\ entry' = entry \cup new
    /\ nodes' = [t \in Topics |-> IF t \in new THEN [nodes[t] EXCEPT ![c] = @ + 1]
                                               ELSE nodes[t]]

\* The emptied list stays in the table.
EmptiedKept(c, topics) == {}

\* The topics whose list is empty once the client's node is gone.
Emptied(c, topics) ==
    {t \in topics \cap mine[c] : \A x \in Subscribers : nodes[t][x] = IF x = c THEN 1 ELSE 0}

\* A topic the client had loses a node; the last one takes the entry along,
\* and a shard channel out of the index.
pubsubUnsubscribeChannel(c, topics) ==
    /\ mine' = [mine EXCEPT ![c] = @ \ topics]
    /\ nodes' = [t \in Topics |-> IF t \in topics \cap mine[c]
                                  THEN [nodes[t] EXCEPT ![c] = @ - 1] ELSE nodes[t]]
    /\ entry' = entry \ Emptied(c, topics)
    /\ slots' = {x \in slots : <<"shard", x>> \notin Emptied(c, topics)}

\* A client's patterns are a list instead of a table; the rest is the same.
pubsubSubscribePattern(c, topics) == pubsubSubscribeChannel(c, topics)

pubsubUnsubscribePattern(c, topics) == pubsubUnsubscribeChannel(c, topics)

\* Without names, all of the kind.
Named(c, kind, names) ==
    IF names = {} THEN {t \in mine[c] : t[1] = kind} ELSE {kind} \X names

-----------------------------------------------------------------------------
Subscribe(c, kind, names) ==
    /\ conn[c] = "open" /\ names # {}
    /\ IF kind = "pattern" THEN pubsubSubscribePattern(c, {kind} \X names)
                           ELSE pubsubSubscribeChannel(c, {kind} \X names)
    /\ AddReplySubscribed(c, kind, {kind} \X names)
    /\ mode' = mode \cup {c}
    /\ UNCHANGED <<conn, served>>

\* A client that has left everything leaves the Pub/Sub mode.
Unsubscribe(c, kind, names) ==
    LET topics == Named(c, kind, names) IN
    /\ conn[c] = "open"
    /\ IF kind = "pattern" THEN pubsubUnsubscribePattern(c, topics)
                           ELSE pubsubUnsubscribeChannel(c, topics)
    /\ AddReplyUnsubscribed(c, kind, topics)
    /\ mode' = IF TotalCount(mine'[c]) = 0 THEN mode \ {c} ELSE mode
    /\ UNCHANGED <<conn, served>>

subscribeCommand(c, names) == Subscribe(c, "global", names) /\ UNCHANGED slots

unsubscribeCommand(c, names) == Unsubscribe(c, "global", names)

psubscribeCommand(c, names) == Subscribe(c, "pattern", names) /\ UNCHANGED slots

punsubscribeCommand(c, names) == Unsubscribe(c, "pattern", names)

\* getNodeByQuery: the channels are of one slot, which is served here; other
\* requests are answered with an error or a redirection.
ServedHere(names) == \E s \in served : \A x \in names : SlotOf[x] = s

\* A channel enters the index with its first subscriber.
ssubscribeCommand(c, names) ==
    /\ ServedHere(names)
    /\ Subscribe(c, "shard", names)
    /\ slots' = slots \cup {x \in names : <<"shard", x>> \notin entry}

sunsubscribeCommand(c, names) ==
    /\ names = {} \/ ServedHere(names)
    /\ Unsubscribe(c, "shard", names)

-----------------------------------------------------------------------------
\* Everything at once, without a word: the three UnsubscribeAll functions.
Quit(c) ==
    /\ pubsubUnsubscribeChannel(c, Topics)
    /\ mode' = mode \ {c}
    /\ told' = [told EXCEPT ![c] = {}]
    /\ count' = [p \in DOMAIN count |-> IF p[1] = c THEN 0 ELSE count[p]]
    /\ UNCHANGED served

\* RESET is acknowledged, which tells the client that it left everything.
ResetSubscriber(c) ==
    /\ conn[c] = "open"
    /\ Quit(c)
    /\ UNCHANGED conn

Accept(c) ==
    /\ conn[c] = "none"
    /\ conn' = [conn EXCEPT ![c] = "open"]
    /\ UNCHANGED <<mine, entry, nodes, slots, mode, served, told, count>>

\* An output buffer over its limit, CLIENT KILL, a lost permission.
ScheduleFree(c) ==
    /\ conn[c] = "open"
    /\ conn' = [conn EXCEPT ![c] = "closing"]
    /\ UNCHANGED <<mine, entry, nodes, slots, mode, served, told, count>>

FreeSubscriber(c) ==
    /\ conn[c] # "none"
    /\ Quit(c)
    /\ conn' = [conn EXCEPT ![c] = "none"]

-----------------------------------------------------------------------------
\* removeChannelsInSlot: the channels the index has for a slot.
ChannelsInSlot(s) == {x \in slots : SlotOf[x] = s}

\* The topics of these channels whose list holds the client.
ListedIn(c, channels) == {t \in {"shard"} \X channels : nodes[t][c] > 0}

\* Every client in their lists is told, unless it is to be closed, and leaves the
\* Pub/Sub mode if that was all; the lists go, whoever they hold.
pubsubShardUnsubscribeAllClients(channels) ==
    LET lost == {"shard"} \X channels IN
    /\ mine' = [c \in Subscribers |-> mine[c] \ ListedIn(c, channels)]
    /\ told' = [c \in Subscribers |-> IF conn[c] = "open" THEN told[c] \ ListedIn(c, channels)
                                                          ELSE told[c]]
    /\ count' = [p \in DOMAIN count |->
                    IF p[2] = "shard" /\ conn[p[1]] = "open" /\ ListedIn(p[1], channels) # {}
                    THEN ShardSubscriptionsCount(mine'[p[1]]) ELSE count[p]]
    /\ mode' = {c \in mode : ListedIn(c, channels) = {} \/ TotalCount(mine'[c]) # 0}
    /\ nodes' = [t \in Topics |-> IF t \in lost THEN [c \in Subscribers |-> 0] ELSE nodes[t]]
    /\ entry' = entry \ lost
    /\ slots' = slots \ channels

LoseSlot(s) ==
    /\ s \in served
    /\ pubsubShardUnsubscribeAllClients(ChannelsInSlot(s))
    /\ served' = served \ {s}
    /\ UNCHANGED conn

ServeSlot(s) ==
    /\ s \notin served
    /\ served' = served \cup {s}
    /\ UNCHANGED <<mine, entry, nodes, slots, mode, conn, told, count>>

-----------------------------------------------------------------------------
\* Patterns are tried for shard channels as well.
MatchingTopicsShardToo(t) ==
    {x \in entry : x = t \/ (x[1] = "pattern" /\ <<x[2], t[2]>> \in Matches)}

\* The channel's list first, then, for a global channel, the list of every
\* pattern that matches.
MatchingTopics(t) ==
    {x \in entry : \/ x = t
                   \/ t[1] = "global" /\ x[1] = "pattern" /\ <<x[2], t[2]>> \in Matches}

(***************************************************************************)
(* pubsubPublishMessage: how often a message to channel t is written to    *)
(* each client for each topic.  prepareClientToWrite writes nothing to a   *)
(* client that is to be closed.                                            *)
(***************************************************************************)
pubsubPublishMessage(t) ==
    [c \in Subscribers |-> [x \in Topics |->
        IF conn[c] = "open" /\ x \in MatchingTopics(t) THEN nodes[x][c] ELSE 0]]

-----------------------------------------------------------------------------
PubSubInit ==
    /\ mine = [c \in Subscribers |-> {}]
    /\ entry = {}
    /\ nodes = [t \in Topics |-> [c \in Subscribers |-> 0]]
    /\ slots = {}
    /\ mode = {}
    /\ conn = [c \in Subscribers |-> "none"]
    /\ served = Slots
    /\ told = [c \in Subscribers |-> {}]
    /\ count = [p \in Subscribers \X {"global", "shard"} |-> 0]

\* The names a command can come with.
Names(S) == {names \in SUBSET S : IsFiniteSet(names)}

PubSubNext ==
    \/ \E c \in Subscribers :
          \/ Accept(c) \/ ScheduleFree(c) \/ FreeSubscriber(c) \/ ResetSubscriber(c)
          \/ \E names \in Names(Channels) :
                \/ subscribeCommand(c, names) \/ unsubscribeCommand(c, names)
                \/ ssubscribeCommand(c, names) \/ sunsubscribeCommand(c, names)
          \/ \E names \in Names(Patterns) :
                psubscribeCommand(c, names) \/ punsubscribeCommand(c, names)
    \/ \E s \in Slots : LoseSlot(s) \/ ServeSlot(s)

PubSubSpec == PubSubInit /\ [][PubSubNext]_pubsubVars

-----------------------------------------------------------------------------
(***************************************************************************)
(* The client's and the server's tables say the same, each subscriber is   *)
(* listed once, no empty list is kept, and the slot index holds the shard  *)
(* channels with subscribers, all of them of slots the node serves: what   *)
(* the assertions of pubsubUnsubscribeChannel and                          *)
(* pubsubShardUnsubscribeAllClients rely on, however a client left.  A     *)
(* client is in Pub/Sub mode, where RESP2 refuses other commands, exactly  *)
(* while it has a subscription of any of the three kinds, and the last     *)
(* number it was sent for either kind is the number it has.                *)
(***************************************************************************)
SubscriptionsAgree ==
    /\ \A t \in Topics, c \in Subscribers : nodes[t][c] = IF t \in mine[c] THEN 1 ELSE 0
    /\ entry = {t \in Topics : \E c \in Subscribers : nodes[t][c] > 0}
    /\ slots = {x \in Channels : <<"shard", x>> \in entry}
    /\ \A x \in slots : SlotOf[x] \in served
    /\ \A c \in Subscribers : c \in mode <=> mine[c] # {}
    /\ \A c \in Subscribers : conn[c] = "open" =>
          /\ count[<<c, "global">>] = SubscriptionsCount(mine[c])
          /\ count[<<c, "shard">>] = ShardSubscriptionsCount(mine[c])

(***************************************************************************)
(* Whenever a message is published, pubsubPublishMessage writes it to each *)
(* open client once per subscription, as the client knows them from the    *)
(* replies it was sent, that covers the channel, and to nobody else.       *)
(***************************************************************************)
PublishReaches ==
    \A t \in {"global", "shard"} \X Channels, c \in Subscribers, x \in Topics :
        pubsubPublishMessage(t)[c][x] =
            IF /\ conn[c] = "open" /\ x \in told[c]
               /\ x = t \/ (x[1] = "pattern" /\ t[1] = "global" /\ <<x[2], t[2]>> \in Matches)
            THEN 1 ELSE 0
=============================================================================
