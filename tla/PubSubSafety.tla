---------------------------- MODULE PubSubSafety ----------------------------
(***************************************************************************)
(* The subscription tables of PubSub agree and a publish reaches whom it   *)
(* should, for any clients, channels, patterns and slots.                  *)
(***************************************************************************)
EXTENDS PubSub, TLAPS, FiniteSetTheorems

-----------------------------------------------------------------------------
(***************************************************************************)
(* The inductive invariant.  SubscriptionsAgree is not inductive alone:    *)
(* the numbers sent are right because a client that is not connected has   *)
(* no subscription, and that counting to zero means having none needs      *)
(* finitely many subscriptions.                                            *)
(***************************************************************************)

\* The clients' and the server's tables have their types, and no client has
\* infinitely many topics.
TablesType ==
    /\ mine \in [Subscribers -> SUBSET Topics]
    /\ \A c \in Subscribers : IsFiniteSet(mine[c])
    /\ nodes \in [Topics -> [Subscribers -> Nat]]
    /\ entry \subseteq Topics

\* So has everything else.
TypeOK ==
    /\ TablesType
    /\ slots \subseteq Channels /\ served \subseteq Slots
    /\ mode \subseteq Subscribers
    /\ conn \in [Subscribers -> {"none", "open", "closing"}]
    /\ told \in [Subscribers -> SUBSET Topics]
    /\ count \in [Subscribers \X {"global", "shard"} -> Nat]

\* A client's own table and the lists of the server say the same.
ListsAgree ==
    /\ \A t \in Topics, c \in Subscribers : nodes[t][c] = IF t \in mine[c] THEN 1 ELSE 0
    /\ \A t \in Topics : t \in entry <=> \E c \in Subscribers : t \in mine[c]

\* The index has the shard channels with an entry, all of them served.
IndexAgrees ==
    /\ \A x \in Channels : x \in slots <=> <<"shard", x>> \in entry
    /\ \A x \in slots : SlotOf[x] \in served

\* What one client knows, and its mode, are what its table says.
ClientAgrees(c) ==
    /\ c \in mode <=> mine[c] # {}
    /\ conn[c] = "none" => mine[c] = {} /\ told[c] = {}
                           /\ count[<<c, "global">>] = 0 /\ count[<<c, "shard">>] = 0
    /\ conn[c] = "open" => /\ told[c] = mine[c]
                           /\ count[<<c, "global">>] = SubscriptionsCount(mine[c])
                           /\ count[<<c, "shard">>] = ShardSubscriptionsCount(mine[c])

PubSubInv ==
    /\ TypeOK
    /\ ListsAgree
    /\ IndexAgrees
    /\ \A c \in Subscribers : ClientAgrees(c)

-----------------------------------------------------------------------------
(***************************************************************************)
(* Counting.                                                               *)
(***************************************************************************)

\* The numbers of the replies are natural numbers.
LEMMA CountsType ==
  ASSUME NEW topics, IsFiniteSet(topics)
  PROVE  SubscriptionsCount(topics) \in Nat /\ ShardSubscriptionsCount(topics) \in Nat
  <1>1. /\ IsFiniteSet({t \in topics : t[1] # "shard"})
        /\ IsFiniteSet({t \in topics : t[1] = "shard"})
    BY FS_Subset
  <1>2. QED
    BY <1>1, FS_CardinalityType DEF SubscriptionsCount, ShardSubscriptionsCount

\* clientTotalPubSubSubscriptionCount is zero for nobody but a client without
\* subscriptions.
LEMMA TotalZero ==
  ASSUME NEW topics, IsFiniteSet(topics)
  PROVE  TotalCount(topics) = 0 <=> topics = {}
  <1> DEFINE g == {t \in topics : t[1] # "shard"}
             s == {t \in topics : t[1] = "shard"}
  <1>1. IsFiniteSet(g) /\ IsFiniteSet(s)
    BY FS_Subset
  <1>2. /\ Cardinality(g) \in Nat /\ Cardinality(s) \in Nat
        /\ Cardinality(g) = 0 <=> g = {}
        /\ Cardinality(s) = 0 <=> s = {}
    BY <1>1, FS_CardinalityType, FS_EmptySet, Zenon
  <1>3. topics = {} <=> g = {} /\ s = {}
    OBVIOUS
  <1>4. TotalCount(topics) = Cardinality(g) + Cardinality(s)
    BY DEF TotalCount, SubscriptionsCount, ShardSubscriptionsCount
  <1> HIDE DEF g, s
  <1>5. QED
    BY <1>2, <1>3, <1>4

\* Somebody without subscriptions is sent zero.
LEMMA CountNone == SubscriptionsCount({}) = 0 /\ ShardSubscriptionsCount({}) = 0
  <1>1. {t \in {} : t[1] # "shard"} = {} /\ {t \in {} : t[1] = "shard"} = {}
    OBVIOUS
  <1>2. QED
    BY <1>1, FS_EmptySet DEF SubscriptionsCount, ShardSubscriptionsCount

\* Topics of one kind leave the number of the other kind alone.
LEMMA CountsApart ==
  ASSUME NEW old, NEW new, NEW kind \in {"global", "shard", "pattern"},
         \A t : t[1] # kind => (t \in old <=> t \in new)
  PROVE  /\ kind = "shard" => SubscriptionsCount(new) = SubscriptionsCount(old)
         /\ kind # "shard" => ShardSubscriptionsCount(new) = ShardSubscriptionsCount(old)
  <1>1. CASE kind = "shard"
    <2>1. {t \in new : t[1] # "shard"} = {t \in old : t[1] # "shard"}
      BY <1>1
    <2>2. QED
      BY <1>1, <2>1, Zenon DEF SubscriptionsCount
  <1>2. CASE kind # "shard"
    <2>1. {t \in new : t[1] = "shard"} = {t \in old : t[1] = "shard"}
      BY <1>2
    <2>2. QED
      BY <1>2, <2>1, Zenon DEF ShardSubscriptionsCount
  <1>3. QED
    BY <1>1, <1>2

\* The topics a command names are topics of its kind, finitely many.
LEMMA NamedTopics ==
  ASSUME NEW kind \in {"global", "shard", "pattern"},
         NEW names \in Names(IF kind = "pattern" THEN Patterns ELSE Channels)
  PROVE  /\ {kind} \X names \in SUBSET Topics
         /\ IsFiniteSet({kind} \X names)
         /\ \A t \in {kind} \X names : t[1] = kind
  <1>1. IsFiniteSet(names) /\ IsFiniteSet({kind})
    BY FS_Singleton, Zenon DEF Names
  <1>2. IsFiniteSet({kind} \X names)
    BY <1>1, FS_Product
  <1>3. QED
    BY <1>2 DEF Names, Topics

-----------------------------------------------------------------------------
(***************************************************************************)
(* What the steps do to the clients' tables and the server's lists.        *)
(***************************************************************************)

\* pubsubSubscribeChannel: the client's table and the lists get the same topics.
LEMMA SubscribeLists ==
  ASSUME TablesType, ListsAgree, NEW c \in Subscribers, NEW topics \in SUBSET Topics,
         IsFiniteSet(topics), pubsubSubscribeChannel(c, topics)
  PROVE  /\ TablesType' /\ ListsAgree'
         /\ mine'[c] = mine[c] \cup topics
         /\ \A x \in Subscribers \ {c} : mine'[x] = mine[x]
         /\ entry' = entry \cup topics
  <1>1. /\ mine'[c] = mine[c] \cup topics
        /\ \A x \in Subscribers \ {c} : mine'[x] = mine[x]
        /\ mine' \in [Subscribers -> SUBSET Topics]
    BY DEF TablesType, pubsubSubscribeChannel
  <1>2. \A x \in Subscribers : IsFiniteSet(mine'[x])
    <2>1. IsFiniteSet(mine[c] \cup topics)
      BY FS_Union, Zenon DEF TablesType
    <2>2. \A x \in Subscribers \ {c} : IsFiniteSet(mine[x])
      BY DEF TablesType
    <2>3. QED
      BY <1>1, <2>1, <2>2, Zenon
  <1>3. ASSUME NEW t \in Topics, NEW x \in Subscribers
        PROVE  nodes'[t][x] = IF t \in mine'[x] THEN 1 ELSE 0
    BY <1>1 DEF TablesType, ListsAgree, pubsubSubscribeChannel
  <1>4. nodes' \in [Topics -> [Subscribers -> Nat]]
    BY DEF TablesType, pubsubSubscribeChannel
  <1>5. entry' = entry \cup topics
    <2>1. \A t \in topics \cap mine[c] : t \in entry
      BY DEF ListsAgree
    <2>2. entry' = entry \cup (topics \ mine[c])
      BY DEF pubsubSubscribeChannel
    <2>3. QED
      BY <2>1, <2>2
  <1>6. ASSUME NEW t \in Topics
        PROVE  t \in entry' <=> \E x \in Subscribers : t \in mine'[x]
    BY <1>1, <1>5 DEF ListsAgree
  <1>7. QED
    BY <1>1, <1>2, <1>3, <1>4, <1>5, <1>6, Zenon DEF TablesType, ListsAgree

\* pubsubUnsubscribeChannel: they lose the same topics, and a list nobody is left in
\* loses its entry.
LEMMA UnsubscribeLists ==
  ASSUME TablesType, ListsAgree, NEW c \in Subscribers, NEW topics \in SUBSET Topics,
         pubsubUnsubscribeChannel(c, topics)
  PROVE  /\ TablesType' /\ ListsAgree'
         /\ mine'[c] = mine[c] \ topics
         /\ \A x \in Subscribers \ {c} : mine'[x] = mine[x]
         /\ entry' = entry \ Emptied(c, topics)
  <1>1. /\ mine'[c] = mine[c] \ topics
        /\ \A x \in Subscribers \ {c} : mine'[x] = mine[x]
        /\ mine' \in [Subscribers -> SUBSET Topics]
    BY DEF TablesType, pubsubUnsubscribeChannel
  <1>2. \A x \in Subscribers : IsFiniteSet(mine'[x])
    <2>1. \A x \in Subscribers : mine'[x] \subseteq mine[x]
      BY <1>1
    <2>2. QED
      BY <2>1, FS_Subset DEF TablesType
  <1>3. ASSUME NEW t \in Topics, NEW x \in Subscribers
        PROVE  nodes'[t][x] = IF t \in mine'[x] THEN 1 ELSE 0
    BY <1>1 DEF TablesType, ListsAgree, pubsubUnsubscribeChannel
  <1>4. nodes' \in [Topics -> [Subscribers -> Nat]]
    <2>1. ASSUME NEW t \in Topics
          PROVE  nodes'[t] \in [Subscribers -> Nat]
      <3>1. CASE t \in topics \cap mine[c]
        <4>1. nodes[t][c] = 1 /\ nodes[t] \in [Subscribers -> Nat]
          BY <3>1 DEF TablesType, ListsAgree
        <4>2. nodes'[t] = [nodes[t] EXCEPT ![c] = nodes[t][c] - 1]
          BY <3>1 DEF pubsubUnsubscribeChannel
        <4>3. QED
          BY <4>1, <4>2
      <3>2. CASE t \notin topics \cap mine[c]
        BY <3>2 DEF TablesType, pubsubUnsubscribeChannel
      <3>3. QED
        BY <3>1, <3>2
    <2>2. QED
      BY <2>1, Zenon DEF pubsubUnsubscribeChannel
  <1>5. entry' = entry \ Emptied(c, topics)
    BY DEF pubsubUnsubscribeChannel
  <1>6. ASSUME NEW t \in Topics
        PROVE  t \in entry' <=> \E x \in Subscribers : t \in mine'[x]
    <2>1. t \in Emptied(c, topics) <=>
             t \in topics \cap mine[c] /\ \A x \in Subscribers \ {c} : t \notin mine[x]
      BY DEF Emptied, ListsAgree
    <2>2. QED
      BY <1>1, <1>5, <2>1, Zenon DEF ListsAgree
  <1>7. QED
    BY <1>1, <1>2, <1>3, <1>4, <1>5, <1>6, Zenon DEF TablesType, ListsAgree

\* pubsubShardUnsubscribeAllClients: nobody keeps one of the channels, and their
\* entries go.
LEMMA LoseLists ==
  ASSUME TablesType, ListsAgree, NEW channels \in SUBSET Channels,
         pubsubShardUnsubscribeAllClients(channels)
  PROVE  /\ TablesType' /\ ListsAgree'
         /\ \A c \in Subscribers :
               /\ ListedIn(c, channels) = mine[c] \cap ({"shard"} \X channels)
               /\ mine'[c] = mine[c] \ ({"shard"} \X channels)
         /\ entry' = entry \ ({"shard"} \X channels)
  <1> DEFINE lost == {"shard"} \X channels
  <1>0. lost \subseteq Topics
    BY DEF Topics
  <1>1. ASSUME NEW c \in Subscribers
        PROVE  /\ ListedIn(c, channels) = mine[c] \cap lost
               /\ mine'[c] = mine[c] \ lost
    <2>1. \A t \in lost : nodes[t][c] > 0 <=> t \in mine[c]
      BY <1>0 DEF ListsAgree
    <2>2. ListedIn(c, channels) = mine[c] \cap lost
      BY <2>1 DEF ListedIn
    <2>3. mine'[c] = mine[c] \ ListedIn(c, channels)
      BY Zenon DEF pubsubShardUnsubscribeAllClients
    <2>4. QED
      BY <2>2, <2>3
  <1>2. mine' \in [Subscribers -> SUBSET Topics]
    BY Zenon DEF TablesType, pubsubShardUnsubscribeAllClients
  <1>3. \A c \in Subscribers : IsFiniteSet(mine'[c])
    <2>1. \A c \in Subscribers : mine'[c] \subseteq mine[c]
      BY <1>1
    <2>2. QED
      BY <2>1, FS_Subset DEF TablesType
  <1>4. nodes' \in [Topics -> [Subscribers -> Nat]]
    BY Zenon DEF TablesType, pubsubShardUnsubscribeAllClients
  <1>5. ASSUME NEW t \in Topics, NEW c \in Subscribers
        PROVE  nodes'[t][c] = IF t \in mine'[c] THEN 1 ELSE 0
    BY <1>1 DEF ListsAgree, pubsubShardUnsubscribeAllClients
  <1>6. entry' = entry \ lost
    BY Zenon DEF pubsubShardUnsubscribeAllClients
  <1>7. ASSUME NEW t \in Topics
        PROVE  t \in entry' <=> \E c \in Subscribers : t \in mine'[c]
    <2>1. t \in entry <=> \E c \in Subscribers : t \in mine[c]
      BY DEF ListsAgree
    <2>2. CASE t \in lost
      BY <1>1, <1>6, <2>2, Zenon
    <2>3. CASE t \notin lost
      BY <1>1, <1>6, <2>1, <2>3, Zenon
    <2>4. QED
      BY <2>2, <2>3
  <1>8. QED
    BY <1>1, <1>2, <1>3, <1>4, <1>5, <1>6, <1>7, Zenon DEF TablesType, ListsAgree

-----------------------------------------------------------------------------
(***************************************************************************)
(* The steps.                                                              *)
(***************************************************************************)

\* A client nothing happens to stays as it is.
LEMMA ClientKept ==
  ASSUME NEW x, ClientAgrees(x), conn'[x] = conn[x], mine'[x] = mine[x], told'[x] = told[x],
         x \in mode' <=> x \in mode,
         count'[<<x, "global">>] = count[<<x, "global">>],
         count'[<<x, "shard">>] = count[<<x, "shard">>]
  PROVE  ClientAgrees(x)'
  BY Zenon DEF ClientAgrees

\* A reply puts the right number in the one place it is about.
LEMMA NotifyCounts ==
  ASSUME TypeOK, TablesType', NEW c \in Subscribers, conn[c] = "open", ClientAgrees(c),
         NEW kind \in {"global", "shard", "pattern"}, NEW topics \in SUBSET Topics,
         \A t : t[1] # kind => (t \in mine[c] <=> t \in mine'[c]),
         Notify(c, kind, topics)
  PROVE  /\ told' \in [Subscribers -> SUBSET Topics] /\ told'[c] = topics
         /\ count' \in [Subscribers \X {"global", "shard"} -> Nat]
         /\ count'[<<c, "global">>] = SubscriptionsCount(mine'[c])
         /\ count'[<<c, "shard">>] = ShardSubscriptionsCount(mine'[c])
         /\ \A x \in Subscribers \ {c} :
               /\ told'[x] = told[x]
               /\ count'[<<x, "global">>] = count[<<x, "global">>]
               /\ count'[<<x, "shard">>] = count[<<x, "shard">>]
  <1>1. /\ told' \in [Subscribers -> SUBSET Topics] /\ told'[c] = topics
        /\ \A x \in Subscribers \ {c} : told'[x] = told[x]
    BY DEF Notify, TypeOK
  <1>2. PICK m : m = mine[c]
    OBVIOUS
  <1>3. PICK n : n = mine'[c]
    OBVIOUS
  <1>4. SubscriptionsCount(n) \in Nat /\ ShardSubscriptionsCount(n) \in Nat
    BY <1>3, CountsType DEF TablesType
  <1>5. /\ kind = "shard" => SubscriptionsCount(n) = SubscriptionsCount(m)
        /\ kind # "shard" => ShardSubscriptionsCount(n) = ShardSubscriptionsCount(m)
    BY <1>2, <1>3, CountsApart, Zenon
  <1>6. /\ count[<<c, "global">>] = SubscriptionsCount(m)
        /\ count[<<c, "shard">>] = ShardSubscriptionsCount(m)
    BY <1>2, Zenon DEF ClientAgrees
  <1>7. count' = [count EXCEPT ![<<c, CountedAs(kind)>>] = CountFor(kind, n)]
    BY <1>3 DEF Notify
  <1>8. CASE kind = "shard"
    <2>1. count' = [count EXCEPT ![<<c, "shard">>] = ShardSubscriptionsCount(n)]
      BY <1>7, <1>8 DEF CountedAs, CountFor
    <2>2. QED
      BY <1>1, <1>3, <1>4, <1>5, <1>6, <1>8, <2>1, Zenon DEF TypeOK
  <1>9. CASE kind # "shard"
    <2>1. count' = [count EXCEPT ![<<c, "global">>] = SubscriptionsCount(n)]
      BY <1>7, <1>9 DEF CountedAs, CountFor
    <2>2. QED
      BY <1>1, <1>3, <1>4, <1>5, <1>6, <1>9, <2>1, Zenon DEF TypeOK
  <1>10. QED
    BY <1>8, <1>9, Zenon

\* Whoever leaves takes out of the index what they take out of the table.
LEMMA IndexShrinks ==
  ASSUME IndexAgrees, slots \subseteq Channels, NEW c, NEW topics, served' = served,
         pubsubUnsubscribeChannel(c, topics)
  PROVE  IndexAgrees' /\ slots' \subseteq Channels
  <1>1. /\ entry' = entry \ Emptied(c, topics)
        /\ slots' = {x \in slots : <<"shard", x>> \notin Emptied(c, topics)}
    BY DEF pubsubUnsubscribeChannel
  <1>2. QED
    BY <1>1 DEF IndexAgrees

\* SUBSCRIBE, PSUBSCRIBE and SSUBSCRIBE: everything but the index.
LEMMA SubscribeStep ==
  ASSUME PubSubInv, NEW c \in Subscribers, NEW kind \in {"global", "shard", "pattern"},
         NEW names \in Names(IF kind = "pattern" THEN Patterns ELSE Channels),
         Subscribe(c, kind, names)
  PROVE  /\ slots' \subseteq Channels => TypeOK'
         /\ ListsAgree'
         /\ entry' = entry \cup ({kind} \X names)
         /\ \A x \in Subscribers : ClientAgrees(x)'
  <1> DEFINE topics == {kind} \X names
  <1>1. /\ topics \in SUBSET Topics /\ IsFiniteSet(topics)
        /\ \A t \in topics : t[1] = kind
    BY NamedTopics
  <1>2. topics # {}
    <2>1. PICK n \in names : TRUE
      BY DEF Subscribe
    <2>2. <<kind, n>> \in topics
      OBVIOUS
    <2>3. QED
      BY <2>2
  <1>3. /\ conn[c] = "open" /\ pubsubSubscribeChannel(c, topics)
        /\ Notify(c, kind, told[c] \cup topics)
        /\ mode' = mode \cup {c} /\ conn' = conn /\ served' = served
    BY DEF Subscribe, AddReplySubscribed, pubsubSubscribePattern
  <1>4. TypeOK /\ TablesType /\ ListsAgree /\ \A x \in Subscribers : ClientAgrees(x)
    BY DEF PubSubInv, TypeOK
  <1> HIDE DEF topics
  <1>5. /\ TablesType' /\ ListsAgree'
        /\ mine'[c] = mine[c] \cup topics
        /\ \A x \in Subscribers \ {c} : mine'[x] = mine[x]
        /\ entry' = entry \cup topics
    BY <1>1, <1>3, <1>4, SubscribeLists, Zenon
  <1>6. \A t : t[1] # kind => (t \in mine[c] <=> t \in mine'[c])
    BY <1>1, <1>5
  <1>7. PICK known \in SUBSET Topics : known = told[c] \cup topics
    BY <1>1, <1>4, Zenon DEF TypeOK
  <1>8. Notify(c, kind, known)
    BY <1>3, <1>7
  <1>9. /\ told' \in [Subscribers -> SUBSET Topics] /\ told'[c] = known
        /\ count' \in [Subscribers \X {"global", "shard"} -> Nat]
        /\ count'[<<c, "global">>] = SubscriptionsCount(mine'[c])
        /\ count'[<<c, "shard">>] = ShardSubscriptionsCount(mine'[c])
        /\ \A x \in Subscribers \ {c} :
              /\ told'[x] = told[x]
              /\ count'[<<x, "global">>] = count[<<x, "global">>]
              /\ count'[<<x, "shard">>] = count[<<x, "shard">>]
    BY <1>3, <1>4, <1>5, <1>6, <1>8, NotifyCounts, ZenonT(30)
  <1>10. ClientAgrees(c)'
    <2>1. told[c] = mine[c]
      BY <1>3, <1>4, Zenon DEF ClientAgrees
    <2>2. told'[c] = mine'[c] /\ mine'[c] # {} /\ c \in mode' /\ conn'[c] = "open"
      BY <1>2, <1>3, <1>5, <1>7, <1>9, <2>1, Zenon
    <2>3. QED
      BY <1>9, <2>2, Zenon DEF ClientAgrees
  <1>11. ASSUME NEW x \in Subscribers \ {c}
         PROVE  ClientAgrees(x)'
    BY <1>3, <1>4, <1>5, <1>9, ClientKept, Zenon
  <1>12. slots' \subseteq Channels => TypeOK'
    BY <1>3, <1>4, <1>5, <1>9, Zenon DEF TypeOK
  <1>13. QED
    BY <1>5, <1>10, <1>11, <1>12 DEF topics

\* UNSUBSCRIBE, PUNSUBSCRIBE and SUNSUBSCRIBE.
LEMMA UnsubscribeStep ==
  ASSUME PubSubInv, NEW c \in Subscribers, NEW kind \in {"global", "shard", "pattern"},
         NEW names \in Names(IF kind = "pattern" THEN Patterns ELSE Channels),
         Unsubscribe(c, kind, names)
  PROVE  PubSubInv'
  <1>1. PICK topics : topics = Named(c, kind, names)
    OBVIOUS
  <1>2. topics \in SUBSET Topics /\ \A t \in topics : t[1] = kind
    <2>1. mine[c] \subseteq Topics
      BY DEF PubSubInv, TypeOK, TablesType
    <2>2. CASE names = {}
      <3>1. topics = {t \in mine[c] : t[1] = kind}
        BY <1>1, <2>2 DEF Named
      <3>2. QED
        BY <2>1, <3>1
    <2>3. CASE names # {}
      <3>1. topics = {kind} \X names
        BY <1>1, <2>3 DEF Named
      <3>2. QED
        BY <3>1, NamedTopics, Zenon
    <2>4. QED
      BY <2>2, <2>3
  <1>3. /\ conn[c] = "open" /\ pubsubUnsubscribeChannel(c, topics)
        /\ Notify(c, kind, told[c] \ topics)
        /\ mode' = IF TotalCount(mine'[c]) = 0 THEN mode \ {c} ELSE mode
        /\ conn' = conn /\ served' = served
    BY <1>1 DEF Unsubscribe, AddReplyUnsubscribed, pubsubUnsubscribePattern
  <1>4. /\ TypeOK /\ TablesType /\ ListsAgree /\ IndexAgrees
        /\ \A x \in Subscribers : ClientAgrees(x)
    BY DEF PubSubInv, TypeOK
  <1>5. /\ TablesType' /\ ListsAgree'
        /\ mine'[c] = mine[c] \ topics
        /\ \A x \in Subscribers \ {c} : mine'[x] = mine[x]
        /\ entry' = entry \ Emptied(c, topics)
    BY <1>2, <1>3, <1>4, UnsubscribeLists, Zenon
  <1>6. \A t : t[1] # kind => (t \in mine[c] <=> t \in mine'[c])
    BY <1>2, <1>5
  <1>7. PICK known \in SUBSET Topics : known = told[c] \ topics
    BY <1>4, Zenon DEF TypeOK
  <1>8. Notify(c, kind, known)
    BY <1>3, <1>7
  <1>9. /\ told' \in [Subscribers -> SUBSET Topics] /\ told'[c] = known
        /\ count' \in [Subscribers \X {"global", "shard"} -> Nat]
        /\ count'[<<c, "global">>] = SubscriptionsCount(mine'[c])
        /\ count'[<<c, "shard">>] = ShardSubscriptionsCount(mine'[c])
        /\ \A x \in Subscribers \ {c} :
              /\ told'[x] = told[x]
              /\ count'[<<x, "global">>] = count[<<x, "global">>]
              /\ count'[<<x, "shard">>] = count[<<x, "shard">>]
    BY <1>3, <1>4, <1>5, <1>6, <1>8, NotifyCounts, ZenonT(30)
  <1>10. ClientAgrees(c)'
    <2>1. told[c] = mine[c] /\ (c \in mode <=> mine[c] # {})
      BY <1>3, <1>4, Zenon DEF ClientAgrees
    <2>2. PICK left : left = mine'[c]
      OBVIOUS
    <2>3. TotalCount(left) = 0 <=> left = {}
      BY <1>5, <2>2, TotalZero, Zenon DEF TablesType
    <2>4. told'[c] = mine'[c] /\ (c \in mode' <=> mine'[c] # {}) /\ conn'[c] = "open"
      BY <1>3, <1>5, <1>7, <1>9, <2>1, <2>2, <2>3, Zenon
    <2>5. QED
      BY <1>9, <2>4, Zenon DEF ClientAgrees
  <1>11. ASSUME NEW x \in Subscribers \ {c}
         PROVE  ClientAgrees(x)'
    BY <1>3, <1>4, <1>5, <1>9, ClientKept, Zenon
  <1>12. IndexAgrees' /\ slots' \subseteq Channels
    BY <1>3, <1>4, <1>5, IndexShrinks, Zenon DEF TypeOK
  <1>13. TypeOK'
    BY <1>3, <1>4, <1>5, <1>9, <1>12, Zenon DEF TypeOK
  <1>14. QED
    BY <1>5, <1>10, <1>11, <1>12, <1>13, Zenon DEF PubSubInv

\* RESET and freed clients, whatever becomes of the connection.
LEMMA QuitStep ==
  ASSUME PubSubInv, NEW c \in Subscribers, Quit(c), NEW to \in {"none", "open"},
         conn' = [conn EXCEPT ![c] = to]
  PROVE  PubSubInv'
  <1>1. /\ pubsubUnsubscribeChannel(c, Topics) /\ mode' = mode \ {c}
        /\ told' = [told EXCEPT ![c] = {}]
        /\ count' = [p \in DOMAIN count |-> IF p[1] = c THEN 0 ELSE count[p]]
        /\ served' = served
    BY DEF Quit
  <1>2. /\ TypeOK /\ TablesType /\ ListsAgree /\ IndexAgrees
        /\ \A x \in Subscribers : ClientAgrees(x)
    BY DEF PubSubInv, TypeOK
  <1>3. PICK all \in SUBSET Topics : all = Topics
    OBVIOUS
  <1>4. /\ TablesType' /\ ListsAgree'
        /\ mine'[c] = mine[c] \ all
        /\ \A x \in Subscribers \ {c} : mine'[x] = mine[x]
        /\ entry' = entry \ Emptied(c, all)
    BY <1>1, <1>2, <1>3, UnsubscribeLists, Zenon
  <1>5. mine'[c] = {}
    BY <1>2, <1>3, <1>4 DEF TablesType
  <1>6. /\ conn' \in [Subscribers -> {"none", "open", "closing"}] /\ conn'[c] = to
        /\ \A x \in Subscribers \ {c} : conn'[x] = conn[x]
    BY <1>2 DEF TypeOK
  <1>7. /\ told' \in [Subscribers -> SUBSET Topics] /\ told'[c] = {}
        /\ \A x \in Subscribers \ {c} : told'[x] = told[x]
    BY <1>1, <1>2 DEF TypeOK
  <1>8. /\ count' \in [Subscribers \X {"global", "shard"} -> Nat]
        /\ count'[<<c, "global">>] = 0 /\ count'[<<c, "shard">>] = 0
        /\ \A x \in Subscribers \ {c} :
              /\ count'[<<x, "global">>] = count[<<x, "global">>]
              /\ count'[<<x, "shard">>] = count[<<x, "shard">>]
    BY <1>1, <1>2, Zenon DEF TypeOK
  <1>9. ClientAgrees(c)'
    BY <1>1, <1>5, <1>6, <1>7, <1>8, CountNone, Zenon DEF ClientAgrees
  <1>10. ASSUME NEW x \in Subscribers \ {c}
         PROVE  ClientAgrees(x)'
    BY <1>1, <1>2, <1>4, <1>6, <1>7, <1>8, ClientKept, Zenon
  <1>11. IndexAgrees' /\ slots' \subseteq Channels
    BY <1>1, <1>2, <1>3, <1>4, IndexShrinks, Zenon DEF TypeOK
  <1>12. TypeOK'
    BY <1>1, <1>2, <1>4, <1>6, <1>7, <1>8, <1>11, Zenon DEF TypeOK
  <1>13. QED
    BY <1>4, <1>9, <1>10, <1>11, <1>12, Zenon DEF PubSubInv

\* A slot that moves away takes its channels from everybody, and from the index.
LEMMA LoseSlotStep ==
  ASSUME PubSubInv, NEW s \in Slots, LoseSlot(s)
  PROVE  PubSubInv'
  <1>1. PICK channels \in SUBSET Channels : channels = ChannelsInSlot(s)
    BY Zenon DEF ChannelsInSlot, PubSubInv, TypeOK
  <1>2. /\ pubsubShardUnsubscribeAllClients(channels)
        /\ served' = served \ {s} /\ conn' = conn
    BY <1>1 DEF LoseSlot
  <1>3. /\ TypeOK /\ TablesType /\ ListsAgree /\ IndexAgrees
        /\ \A x \in Subscribers : ClientAgrees(x)
    BY DEF PubSubInv, TypeOK
  <1>4. /\ TablesType' /\ ListsAgree'
        /\ \A c \in Subscribers :
              /\ ListedIn(c, channels) = mine[c] \cap ({"shard"} \X channels)
              /\ mine'[c] = mine[c] \ ({"shard"} \X channels)
        /\ entry' = entry \ ({"shard"} \X channels)
    BY <1>2, <1>3, LoseLists
  <1>5. IndexAgrees' /\ slots' \subseteq Channels
    <2>1. slots' = slots \ channels
      BY <1>2, Zenon DEF pubsubShardUnsubscribeAllClients
    <2>2. \A x \in Channels : x \in slots' <=> <<"shard", x>> \in entry'
      BY <1>3, <1>4, <2>1 DEF IndexAgrees
    <2>3. \A x \in slots' : SlotOf[x] \in served'
      BY <1>1, <1>2, <1>3, <2>1 DEF IndexAgrees, ChannelsInSlot
    <2>4. QED
      BY <1>3, <2>1, <2>2, <2>3 DEF IndexAgrees, TypeOK
  <1>6. ASSUME NEW c \in Subscribers
        PROVE  /\ told'[c] = IF conn[c] = "open" THEN told[c] \ ListedIn(c, channels) ELSE told[c]
               /\ count'[<<c, "global">>] = count[<<c, "global">>]
               /\ count'[<<c, "shard">>] =
                     IF conn[c] = "open" /\ ListedIn(c, channels) # {}
                     THEN ShardSubscriptionsCount(mine'[c]) ELSE count[<<c, "shard">>]
               /\ c \in mode' <=> /\ c \in mode
                                  /\ ListedIn(c, channels) = {} \/ TotalCount(mine'[c]) # 0
    BY <1>2, <1>3, Zenon DEF pubsubShardUnsubscribeAllClients, TypeOK
  <1>7. ASSUME NEW c \in Subscribers, ListedIn(c, channels) = {}
        PROVE  ClientAgrees(c)'
    <2>1. mine'[c] = mine[c]
      BY <1>4, <1>7, Zenon
    <2>2. QED
      BY <1>2, <1>3, <1>6, <1>7, <2>1, ClientKept, Zenon
  <1>8. ASSUME NEW c \in Subscribers, ListedIn(c, channels) # {}
        PROVE  ClientAgrees(c)'
    <2>1. PICK m, left : m = mine[c] /\ left = mine'[c]
      OBVIOUS
    <2>2. \A t : t[1] # "shard" => (t \in m <=> t \in left)
      BY <1>4, <2>1
    <2>3. SubscriptionsCount(left) = SubscriptionsCount(m)
      BY <2>2, CountsApart
    <2>4. TotalCount(left) = 0 <=> left = {}
      BY <1>4, <2>1, TotalZero DEF TablesType
    <2>5. m # {} /\ c \in mode /\ conn[c] # "none"
      BY <1>3, <1>4, <1>8, <2>1, Zenon DEF ClientAgrees
    <2>6. c \in mode' <=> left # {}
      BY <1>6, <1>8, <2>1, <2>4, <2>5, Zenon
    <2>7. conn[c] = "open" =>
             /\ told'[c] = left
             /\ count'[<<c, "global">>] = SubscriptionsCount(left)
             /\ count'[<<c, "shard">>] = ShardSubscriptionsCount(left)
      <3>1. SUFFICES ASSUME conn[c] = "open"
                     PROVE  /\ told'[c] = left
                            /\ count'[<<c, "global">>] = SubscriptionsCount(left)
                            /\ count'[<<c, "shard">>] = ShardSubscriptionsCount(left)
        OBVIOUS
      <3>2. told[c] = m /\ count[<<c, "global">>] = SubscriptionsCount(m)
        BY <1>3, <2>1, <3>1, Zenon DEF ClientAgrees
      <3>3. told'[c] = m \ ListedIn(c, channels)
        BY <1>6, <3>1, <3>2, Zenon
      <3>4. m \ ListedIn(c, channels) = left
        BY <1>4, <2>1
      <3>5. QED
        BY <1>6, <1>8, <2>1, <2>3, <3>1, <3>2, <3>3, <3>4, Zenon
    <2>8. QED
      BY <1>2, <2>1, <2>5, <2>6, <2>7 DEF ClientAgrees
  <1>9. TypeOK'
    <2>1. told' \in [Subscribers -> SUBSET Topics]
      BY <1>2, <1>3, Zenon DEF pubsubShardUnsubscribeAllClients, TypeOK
    <2>2. \A c \in Subscribers : ShardSubscriptionsCount(mine'[c]) \in Nat
      <3>1. SUFFICES ASSUME NEW c \in Subscribers
                     PROVE  ShardSubscriptionsCount(mine'[c]) \in Nat
        OBVIOUS
      <3>2. PICK left : left = mine'[c]
        OBVIOUS
      <3>3. QED
        BY <1>4, <3>2, CountsType DEF TablesType
    <2>3. count' \in [Subscribers \X {"global", "shard"} -> Nat]
      BY <1>2, <1>3, <2>2, Zenon DEF pubsubShardUnsubscribeAllClients, TypeOK
    <2>4. mode' \subseteq Subscribers
      BY <1>2, <1>3, Zenon DEF pubsubShardUnsubscribeAllClients, TypeOK
    <2>5. QED
      BY <1>2, <1>3, <1>4, <1>5, <2>1, <2>3, <2>4, Zenon DEF TypeOK
  <1>10. QED
    BY <1>4, <1>5, <1>7, <1>8, <1>9 DEF PubSubInv

-----------------------------------------------------------------------------
(***************************************************************************)
(* The invariant, and what follows from it.                                *)
(***************************************************************************)

\* A server that has just started has no clients and no tables.
LEMMA InitInv == PubSubInit => PubSubInv
  <1> SUFFICES ASSUME PubSubInit
               PROVE  PubSubInv
    OBVIOUS
  <1>1. TypeOK
    BY FS_EmptySet DEF PubSubInit, TypeOK, TablesType
  <1>2. ListsAgree /\ IndexAgrees
    BY DEF PubSubInit, ListsAgree, IndexAgrees
  <1>3. \A c \in Subscribers : ClientAgrees(c)
    BY DEF PubSubInit, ClientAgrees
  <1>4. QED
    BY <1>1, <1>2, <1>3 DEF PubSubInv

\* Every step keeps the invariant.
LEMMA NextInv == PubSubInv /\ [PubSubNext]_pubsubVars => PubSubInv'
  <1> SUFFICES ASSUME PubSubInv, [PubSubNext]_pubsubVars
               PROVE  PubSubInv'
    OBVIOUS
  <1>1. ASSUME NEW c \in Subscribers, Accept(c)
        PROVE  PubSubInv'
    <2>1. ListsAgree' /\ IndexAgrees'
      BY <1>1 DEF Accept, PubSubInv, ListsAgree, IndexAgrees
    <2>2. TypeOK'
      BY <1>1, Zenon DEF Accept, PubSubInv, TypeOK, TablesType
    <2>3. ASSUME NEW x \in Subscribers
          PROVE  ClientAgrees(x)'
      BY <1>1, CountNone, Zenon DEF Accept, PubSubInv, ClientAgrees, TypeOK
    <2>4. QED
      BY <2>1, <2>2, <2>3 DEF PubSubInv
  <1>2. ASSUME NEW c \in Subscribers, ScheduleFree(c)
        PROVE  PubSubInv'
    <2>1. ListsAgree' /\ IndexAgrees'
      BY <1>2 DEF ScheduleFree, PubSubInv, ListsAgree, IndexAgrees
    <2>2. TypeOK'
      BY <1>2, Zenon DEF ScheduleFree, PubSubInv, TypeOK, TablesType
    <2>3. ASSUME NEW x \in Subscribers
          PROVE  ClientAgrees(x)'
      BY <1>2, Zenon DEF ScheduleFree, PubSubInv, ClientAgrees, TypeOK
    <2>4. QED
      BY <2>1, <2>2, <2>3 DEF PubSubInv
  <1>3. ASSUME NEW c \in Subscribers, FreeSubscriber(c)
        PROVE  PubSubInv'
    BY <1>3, QuitStep, Zenon DEF FreeSubscriber
  <1>4. ASSUME NEW c \in Subscribers, ResetSubscriber(c)
        PROVE  PubSubInv'
    <2>1. conn' = [conn EXCEPT ![c] = "open"]
      BY <1>4 DEF ResetSubscriber, PubSubInv, TypeOK
    <2>2. QED
      BY <1>4, <2>1, QuitStep, Zenon DEF ResetSubscriber
  <1>5. ASSUME NEW c \in Subscribers, NEW names \in Names(Channels), subscribeCommand(c, names)
        PROVE  PubSubInv'
    <2>1. /\ slots' \subseteq Channels => TypeOK'
          /\ ListsAgree' /\ entry' = entry \cup ({"global"} \X names)
          /\ \A x \in Subscribers : ClientAgrees(x)'
      BY <1>5, SubscribeStep DEF subscribeCommand
    <2>2. slots' = slots /\ served' = served
      BY <1>5 DEF subscribeCommand, Subscribe
    <2>3. IndexAgrees' /\ slots' \subseteq Channels
      BY <2>1, <2>2, Zenon DEF PubSubInv, IndexAgrees, TypeOK
    <2>4. QED
      BY <2>1, <2>3 DEF PubSubInv
  <1>6. ASSUME NEW c \in Subscribers, NEW names \in Names(Patterns), psubscribeCommand(c, names)
        PROVE  PubSubInv'
    <2>1. /\ slots' \subseteq Channels => TypeOK'
          /\ ListsAgree' /\ entry' = entry \cup ({"pattern"} \X names)
          /\ \A x \in Subscribers : ClientAgrees(x)'
      BY <1>6, SubscribeStep DEF psubscribeCommand
    <2>2. slots' = slots /\ served' = served
      BY <1>6 DEF psubscribeCommand, Subscribe
    <2>3. IndexAgrees' /\ slots' \subseteq Channels
      BY <2>1, <2>2 DEF PubSubInv, IndexAgrees, TypeOK
    <2>4. QED
      BY <2>1, <2>3 DEF PubSubInv
  <1>7. ASSUME NEW c \in Subscribers, NEW names \in Names(Channels), ssubscribeCommand(c, names)
        PROVE  PubSubInv'
    <2>1. /\ slots' \subseteq Channels => TypeOK'
          /\ ListsAgree' /\ entry' = entry \cup ({"shard"} \X names)
          /\ \A x \in Subscribers : ClientAgrees(x)'
      BY <1>7, SubscribeStep DEF ssubscribeCommand
    <2>2. /\ slots' = slots \cup {x \in names : <<"shard", x>> \notin entry}
          /\ served' = served /\ ServedHere(names) /\ names \subseteq Channels
      BY <1>7 DEF ssubscribeCommand, Subscribe, Names
    <2>3. slots' \subseteq Channels
      BY <2>2 DEF PubSubInv, TypeOK
    <2>4. \A x \in Channels : x \in slots' <=> <<"shard", x>> \in entry'
      BY <2>1, <2>2 DEF PubSubInv, IndexAgrees
    <2>5. \A x \in slots' : SlotOf[x] \in served'
      BY <2>2 DEF PubSubInv, IndexAgrees, ServedHere
    <2>6. QED
      BY <2>1, <2>3, <2>4, <2>5 DEF PubSubInv, IndexAgrees
  <1>8. ASSUME NEW c \in Subscribers, NEW names \in Names(Channels),
               unsubscribeCommand(c, names) \/ sunsubscribeCommand(c, names)
        PROVE  PubSubInv'
    BY <1>8, UnsubscribeStep DEF unsubscribeCommand, sunsubscribeCommand
  <1>9. ASSUME NEW c \in Subscribers, NEW names \in Names(Patterns), punsubscribeCommand(c, names)
        PROVE  PubSubInv'
    BY <1>9, UnsubscribeStep DEF punsubscribeCommand
  <1>10. ASSUME NEW s \in Slots, ServeSlot(s)
         PROVE  PubSubInv'
    <2>1. ListsAgree' /\ IndexAgrees' /\ \A x \in Subscribers : ClientAgrees(x)'
      BY <1>10 DEF ServeSlot, PubSubInv, ListsAgree, IndexAgrees, ClientAgrees
    <2>2. TypeOK'
      BY <1>10, Zenon DEF ServeSlot, PubSubInv, TypeOK, TablesType
    <2>3. QED
      BY <2>1, <2>2 DEF PubSubInv
  <1>11. CASE UNCHANGED pubsubVars
    BY <1>11 DEF pubsubVars, PubSubInv, TypeOK, TablesType, ListsAgree, IndexAgrees, ClientAgrees
  <1>12. QED
    BY <1>1, <1>2, <1>3, <1>4, <1>5, <1>6, <1>7, <1>8, <1>9, <1>10, <1>11, LoseSlotStep, Zenon
       DEF PubSubNext

(***************************************************************************)
(* However clients come, subscribe, unsubscribe, reset, are freed or lose  *)
(* a slot, the tables of pubsub.c hold together and every client's table   *)
(* is what the replies told it.                                            *)
(***************************************************************************)
THEOREM TablesHold == PubSubSpec => []PubSubInv
  <1>1. QED
    BY InitInv, NextInv, PTL DEF PubSubSpec

(***************************************************************************)
(* For any number of clients, channels, patterns and slots the client's    *)
(* tables, the server's lists, the slot index, the Pub/Sub flag and the    *)
(* numbers in the replies agree, so no assertion of                        *)
(* pubsubUnsubscribeChannel or pubsubShardUnsubscribeAllClients fails.     *)
(***************************************************************************)
THEOREM TablesAgree == PubSubSpec => []SubscriptionsAgree
  <1>1. PubSubInv => SubscriptionsAgree
    <2> SUFFICES ASSUME PubSubInv
                 PROVE  SubscriptionsAgree
      OBVIOUS
    <2>1. entry = {t \in Topics : \E c \in Subscribers : nodes[t][c] > 0}
      BY DEF PubSubInv, ListsAgree, TypeOK, TablesType
    <2>2. slots = {x \in Channels : <<"shard", x>> \in entry}
      BY DEF PubSubInv, IndexAgrees, TypeOK
    <2>3. QED
      BY <2>1, <2>2, Zenon DEF PubSubInv, SubscriptionsAgree, ListsAgree, IndexAgrees, ClientAgrees
  <1>2. QED
    BY <1>1, TablesHold, PTL

(***************************************************************************)
(* Whatever has happened before, a message is written to an open client    *)
(* once for each subscription it knows of that covers the channel, and to  *)
(* nobody else (pubsubPublishMessageInternal).                             *)
(***************************************************************************)
THEOREM MessagesReach == PubSubSpec => []PublishReaches
  <1>1. PubSubInv => PublishReaches
    <2> SUFFICES ASSUME PubSubInv, NEW t \in {"global", "shard"} \X Channels,
                        NEW c \in Subscribers, NEW x \in Topics
                 PROVE  pubsubPublishMessage(t)[c][x] =
                           IF /\ conn[c] = "open" /\ x \in told[c]
                              /\ x = t \/ (/\ x[1] = "pattern" /\ t[1] = "global"
                                           /\ <<x[2], t[2]>> \in Matches)
                           THEN 1 ELSE 0
      BY DEF PublishReaches
    <2>1. pubsubPublishMessage(t)[c][x] =
             IF conn[c] = "open" /\ x \in MatchingTopics(t) THEN nodes[x][c] ELSE 0
      BY DEF pubsubPublishMessage
    <2>2. conn[c] = "open" => told[c] = mine[c]
      BY Zenon DEF PubSubInv, ClientAgrees
    <2>3. nodes[x][c] = (IF x \in mine[c] THEN 1 ELSE 0) /\ (x \in mine[c] => x \in entry)
      BY DEF PubSubInv, ListsAgree
    <2>4. QED
      BY <2>1, <2>2, <2>3 DEF MatchingTopics
  <1>2. QED
    BY <1>1, TablesHold, PTL
=============================================================================
