------------------------------- MODULE Cluster -------------------------------
(***************************************************************************)
(* Nodes of a Redis Cluster and their bus (cluster.c).                     *)
(*                                                                         *)
(* Each node keeps a view of the whole cluster: epochs, roles, failure     *)
(* flags and reports, the owner of every hash slot, the slots being        *)
(* migrated, its election and manual failover, the keys it stores, and the *)
(* nodes.conf it saved.  An event handler and the clusterBeforeSleep that  *)
(* follows it are one step: packets leave after the file is written.       *)
(* Pings and pongs are exchanged in one step, every other packet travels   *)
(* on the bus and may be late, overtaken or lost with its link.  Time is   *)
(* not modelled: a step says which timeout has elapsed.                    *)
(***************************************************************************)
EXTENDS Integers, FiniteSets, FiniteSetsExt

CONSTANTS Peers,      \* the nodes: numbers, ordered as their names are
          Plans       \* the clusters and budgets Init chooses from

VARIABLES view,       \* the cluster as each node sees it
          bus,        \* packets on their way
          off,        \* nodes that are not running
          apart,      \* pairs of nodes whose links are down
          plan,       \* the chosen member of Plans
          left,       \* what remains of each budget
          elected,    \* the epochs and winners of the elections so far
          client      \* a client of the cluster, and the keys it was told are stored

clusterVars == <<view, bus, off, apart, plan, left, elected, client>>

NoPeer == 0

ASSUME ClusterAssumption ==
    /\ Peers \subseteq Nat \ {0}
    /\ \A p \in Plans :
          /\ p.nodes \subseteq Peers
          /\ p.owner \in [p.slots -> p.nodes \cup {NoPeer}]
          /\ p.master \in [p.nodes -> p.nodes \cup {NoPeer}]
          /\ p.epochs \in Nat

Talk(a, b) == {a, b} \cap off = {} /\ {a, b} \notin apart

Pay(what) == left[what] > 0 /\ left' = [left EXCEPT ![what] = @ - 1]

NoManual == [on |-> FALSE, can |-> FALSE, slave |-> NoPeer, known |-> FALSE, data |-> {}]

NoElection == [phase |-> "idle", count |-> 0, epoch |-> 0]

-----------------------------------------------------------------------------
(* Nodes, replicas and slots, in the view c of node n.                     *)

nodeIsMaster(c, m) == m \notin c.slaves

SlotsOf(c, m) == {j \in DOMAIN c.slots : c.slots[j] = m}

ReplicasOf(c, m) == {r \in c.known : c.of[r] = m}

KeysIn(c, j) == {k \in c.keys : k[1] = j}

Todo(c, what) == [c EXCEPT !.todo = @ \cup what]

clusterNodeRemoveSlave(c, r) ==
    [c EXCEPT !.of[r] = NoPeer,
              !.migrateTo = IF ReplicasOf(c, c.of[r]) = {r} THEN @ \ {c.of[r]} ELSE @]

clusterNodeAddSlave(c, m, r) == [c EXCEPT !.of[r] = m, !.migrateTo = @ \cup {m}]

\* clusterMastersHaveSlaves makes a master with a first slot a target of migration.
clusterAddSlot(c, m, j) ==
    LET first == SlotsOf(c, m) = {} /\ \E r \in c.known : c.of[r] # NoPeer
    IN IF c.slots[j] # NoPeer THEN c
       ELSE [c EXCEPT !.slots[j] = m, !.migrateTo = IF first THEN @ \cup {m} ELSE @]

clusterDelNodeSlots(c, m) ==
    [c EXCEPT !.slots = [j \in DOMAIN @ |-> IF @[j] = m THEN NoPeer ELSE @[j]]]

\* clusterDelSlot and clusterAddSlot for each slot of J.
Rebind(c, m, J) ==
    LET first == J # {} /\ SlotsOf(c, m) = {} /\ \E r \in c.known : c.of[r] # NoPeer
    IN [c EXCEPT !.slots = [j \in DOMAIN @ |-> IF j \in J THEN m ELSE @[j]],
                 !.migrateTo = IF first THEN @ \cup {m} ELSE @]

clusterCloseAllSlots(c) ==
    LET none == [j \in DOMAIN c.slots |-> NoPeer]
    IN [c EXCEPT !.migrating = none, !.importing = none]

clusterSetNodeAsMaster(n, c, m) ==
    IF nodeIsMaster(c, m) THEN c
    ELSE LET d == IF c.of[m] = NoPeer THEN c
                  ELSE LET e == clusterNodeRemoveSlave(c, m)
                       IN IF m = n THEN e ELSE [e EXCEPT !.migrateTo = @ \cup {m}]
         IN Todo([d EXCEPT !.slaves = @ \ {m}], {"save", "state"})

clusterSetMaster(n, c, m) ==
    LET d == IF nodeIsMaster(c, n)
             THEN clusterCloseAllSlots([c EXCEPT !.slaves = @ \cup {n},
                                                 !.migrateTo = @ \ {n}])
             ELSE clusterNodeRemoveSlave(c, n)
    IN [clusterNodeAddSlave(d, m, n) EXCEPT !.mf = NoManual]

\* freeClusterNode included: the replicas of the node lose their master.
clusterDelNode(c, m) ==
    LET gone(f) == [j \in DOMAIN f |-> IF f[j] = m THEN NoPeer ELSE f[j]]
        d == IF c.of[m] # NoPeer THEN clusterNodeRemoveSlave(c, m) ELSE c
    IN [d EXCEPT !.known = @ \ {m}, !.slaves = @ \ {m}, !.migrateTo = @ \ {m},
                 !.slots = gone(@), !.migrating = gone(@), !.importing = gone(@),
                 !.of = gone(@), !.ce[m] = 0, !.flag[m] = "ok",
                 !.reports = [x \in DOMAIN @ |-> IF x = m THEN {} ELSE @[x] \ {m}]]

-----------------------------------------------------------------------------
(* Epochs, the state of the cluster, and nodes.conf.                       *)

clusterGetMaxEpoch(c) == Max({c.epoch} \cup {c.ce[m] : m \in c.known})

clusterBumpConfigEpochWithoutConsensus(n, c) ==
    IF c.ce[n] # 0 /\ c.ce[n] = clusterGetMaxEpoch(c) THEN c
    ELSE Todo([c EXCEPT !.epoch = @ + 1, !.ce[n] = c.epoch + 1], {"save"})

\* Mutant: two masters keep the same configuration epoch.
CollisionStays(n, c, m) == c

clusterHandleConfigEpochCollision(n, c, m) ==
    IF c.ce[m] # c.ce[n] \/ ~nodeIsMaster(c, m) \/ ~nodeIsMaster(c, n) \/ m <= n THEN c
    ELSE Todo([c EXCEPT !.epoch = @ + 1, !.ce[n] = c.epoch + 1], {"save"})

\* A master leaves the failed state later, in the cron; until then young says
\* that it has just been started and evaluates nothing.
clusterUpdateState(n, c, waited) ==
    LET voters == {m \in c.known : nodeIsMaster(c, m) /\ SlotsOf(c, m) # {}}
        served == \A j \in DOMAIN c.slots :
                     c.slots[j] # NoPeer /\ c.flag[c.slots[j]] # "fail"
        quorum == Cardinality(voters) \div 2 + 1
        fine == served /\ Cardinality({m \in voters : c.flag[m] = "ok"}) >= quorum
    IN IF nodeIsMaster(c, n) /\ c.young /\ ~waited THEN c
       ELSE [c EXCEPT !.size = Cardinality(voters), !.young = FALSE,
                      !.ok = fine /\ (@ \/ waited \/ ~nodeIsMaster(c, n))]

\* clusterCron evaluates the state as long as it is failed.
CronState(n, c) == IF c.ok THEN c ELSE clusterUpdateState(n, c, TRUE)

\* nodes.conf, kept only for the nodes that may be restarted.
clusterSaveConfig(n, c) ==
    IF n \notin plan.mortal THEN c
    ELSE [c EXCEPT !.saved =
             [epoch |-> c.epoch, vote |-> c.vote, known |-> c.known, slaves |-> c.slaves,
              of |-> c.of, flag |-> c.flag, slots |-> c.slots, ce |-> c.ce,
              migrating |-> c.migrating, importing |-> c.importing]]

clusterBeforeSleep(n, c) ==
    LET d == IF "state" \in c.todo THEN clusterUpdateState(n, c, FALSE) ELSE c
        e == IF "save" \in c.todo THEN clusterSaveConfig(n, d) ELSE d
    IN [e EXCEPT !.todo = {}]

\* verifyClusterConfigWithData, for the slots j that hold keys.
verifyClusterConfigWithData(n, c) ==
    LET stray == {j \in DOMAIN c.slots : /\ KeysIn(c, j) # {}
                                         /\ c.slots[j] # n /\ c.importing[j] = NoPeer}
    IN IF ~nodeIsMaster(c, n) \/ stray = {} THEN c
       ELSE clusterSaveConfig(n,
               [Rebind(c, n, {j \in stray : c.slots[j] = NoPeer}) EXCEPT
                   !.importing = [j \in DOMAIN @ |->
                       IF j \in stray THEN c.slots[j] ELSE @[j]]])

\* clusterInit with the file f; the keys come back from the persisted dataset.
clusterLoadConfig(n, f, keys) ==
    LET ce == [m \in DOMAIN f.ce |-> IF m \in f.slaves /\ f.of[m] # NoPeer
                                     THEN 0 ELSE f.ce[m]]
        c == [epoch |-> Max({f.epoch} \cup {ce[m] : m \in f.known}), vote |-> f.vote,
              known |-> f.known, slaves |-> f.slaves, of |-> f.of, flag |-> f.flag,
              slots |-> f.slots, ce |-> ce, migrating |-> f.migrating,
              importing |-> f.importing, saved |-> f, keys |-> keys, size |-> 1,
              ok |-> FALSE, young |-> TRUE, todo |-> {}, auth |-> NoElection,
              mf |-> NoManual, banned |-> {}, meeting |-> {},
              reports |-> [m \in DOMAIN f.of |-> {}],
              migrateTo |-> {f.of[r] : r \in f.known} \ {NoPeer}]
    IN verifyClusterConfigWithData(n, c)

-----------------------------------------------------------------------------
(* Packets.  An outcome is the view after a handler and the packets sent.  *)

Outcome(c, sent) == [c |-> c, sent |-> sent]

\* A replica announces the slots and the configuration epoch of its master.
clusterBuildMessageHdr(n, c) ==
    LET m == IF ~nodeIsMaster(c, n) /\ c.of[n] # NoPeer THEN c.of[n] ELSE n
    IN [from |-> n, epoch |-> c.epoch, ce |-> c.ce[m], slots |-> SlotsOf(c, m),
        of |-> c.of[n], paused |-> nodeIsMaster(c, n) /\ c.mf.on,
        data |-> IF nodeIsMaster(c, n) /\ c.mf.on THEN c.keys ELSE {}]

Packet(n, c, kind, to) ==
    [kind |-> kind, to |-> to, hdr |-> clusterBuildMessageHdr(n, c), about |-> NoPeer,
     ce |-> 0, slots |-> {}, force |-> FALSE]

clusterBroadcastMessage(n, c, kind) ==
    {Packet(n, c, kind, m) : m \in {x \in c.known \ {n} : Talk(n, x)}}

clusterSendFail(n, c, about) ==
    {[p EXCEPT !.about = about] : p \in clusterBroadcastMessage(n, c, "fail")}

clusterSendUpdate(n, c, to, about) ==
    {[Packet(n, c, "update", to) EXCEPT
         !.about = about, !.ce = c.ce[about], !.slots = SlotsOf(c, about)]}

\* Only the masters answer: the packets for the others are left out.
clusterRequestFailoverAuth(n, c) ==
    {[p EXCEPT !.force = c.mf.on] :
        p \in {q \in clusterBroadcastMessage(n, c, "request") : nodeIsMaster(c, q.to)}}

\* What every packet of a known sender tells (clusterProcessPacket).
ProcessHeader(n, c, h) ==
    LET newer == h.ce > c.ce[h.from]
        told == /\ c.mf.on /\ ~nodeIsMaster(c, n) /\ c.of[n] = h.from
                /\ h.paused /\ ~c.mf.known
        d == [c EXCEPT !.epoch = Max({@, h.epoch}), !.ce[h.from] = Max({@, h.ce}),
                       !.mf = IF told THEN [@ EXCEPT !.known = TRUE, !.data = h.data]
                              ELSE @]
    IN IF newer THEN Todo(d, {"save"}) ELSE d

\* long: the node has been failing for some time.
clearNodeFailureIfNeeded(c, m, long) ==
    IF ~nodeIsMaster(c, m) \/ SlotsOf(c, m) = {} \/ long
    THEN Todo([c EXCEPT !.flag[m] = "ok"], {"save", "state"}) ELSE c

ProcessPong(c, m, long) ==
    CASE c.flag[m] = "pfail" -> Todo([c EXCEPT !.flag[m] = "ok"], {"save", "state"})
      [] c.flag[m] = "fail" -> clearNodeFailureIfNeeded(c, m, long)
      [] OTHER -> c

\* The sender became a master, became a replica, or changed its master.
ProcessRole(n, c, h) ==
    LET m == h.from
        d == IF nodeIsMaster(c, m)
             THEN Todo([clusterDelNodeSlots(c, m) EXCEPT !.slaves = @ \cup {m},
                                                         !.migrateTo = @ \ {m}],
                       {"save", "state"})
             ELSE c
    IN CASE h.of = NoPeer -> clusterSetNodeAsMaster(n, c, m)
         [] h.of \in c.known /\ d.of[m] # h.of ->
               LET e == IF d.of[m] = NoPeer THEN d ELSE clusterNodeRemoveSlave(d, m)
               IN Todo(clusterNodeAddSlave(e, h.of, m), {"save"})
         [] OTHER -> d

\* m claims the slots S with the configuration epoch e.
clusterUpdateSlotsConfigWith(n, c, m, e, S) ==
    LET cur == IF nodeIsMaster(c, n) THEN n ELSE c.of[n]
        taken == {j \in S : /\ c.slots[j] # m /\ c.importing[j] = NoPeer
                            /\ c.slots[j] = NoPeer \/ c.ce[c.slots[j]] < e}
        lost == {j \in taken : c.slots[j] = cur /\ cur # NoPeer}
        dirty == {j \in taken : c.slots[j] = n}
        d == IF taken = {} THEN c ELSE Todo(Rebind(c, m, taken), {"save", "state"})
        grand == IF c.of[n] = NoPeer THEN NoPeer ELSE c.of[c.of[n]]
    IN CASE m = n -> c
         [] m # n /\ lost # {} /\ SlotsOf(d, cur) = {} -> clusterSetMaster(n, d, m)
         [] m # n /\ (lost = {} \/ SlotsOf(d, cur) # {}) /\ grand \notin {NoPeer, n} ->
               Todo(clusterSetMaster(n, d, grand), {"save", "state"})
         [] OTHER -> [d EXCEPT !.keys = {k \in @ : k[1] \notin dirty}]

\* The slots a ping or pong claims; a sender with an old configuration is told.
ProcessSlots(n, c, h) ==
    LET m == h.from
        owner == IF nodeIsMaster(c, m) THEN m ELSE c.of[m]
        differs == owner # NoPeer /\ SlotsOf(c, owner) # h.slots
        d == IF differs /\ nodeIsMaster(c, m)
             THEN clusterUpdateSlotsConfigWith(n, c, m, h.ce, h.slots) ELSE c
        old == {j \in h.slots : /\ differs /\ d.slots[j] \notin {m, NoPeer}
                                /\ d.ce[d.slots[j]] > h.ce}
    IN Outcome(d, IF old = {} THEN {} ELSE clusterSendUpdate(n, d, m, d.slots[Min(old)]))

markNodeAsFailingIfNeeded(n, c, X) ==
    LET agreed == {x \in X : /\ c.flag[x] = "pfail"
                             /\ Cardinality(c.reports[x])
                                  + (IF nodeIsMaster(c, n) THEN 1 ELSE 0)
                                    >= c.size \div 2 + 1}
        d == [c EXCEPT !.flag = [x \in DOMAIN @ |-> IF x \in agreed THEN "fail" ELSE @[x]]]
    IN IF agreed = {} THEN Outcome(c, {})
       ELSE Outcome(Todo(d, {"save", "state"}),
                    UNION {clusterSendFail(n, d, x) : x \in agreed})

\* gossip: the nodes the sender tells about, and its flags for them.
clusterProcessGossipSection(n, c, m, gossip) ==
    LET heard == IF nodeIsMaster(c, m) THEN DOMAIN gossip \cap (c.known \ {n}) ELSE {}
        bad == {x \in heard : gossip[x].flag # "ok"}
        new == (DOMAIN gossip \ c.known) \ c.banned
        d == [c EXCEPT !.reports = [x \in DOMAIN @ |->
                 CASE x \in bad -> @[x] \cup {m}
                   [] x \in heard \ bad -> @[x] \ {m}
                   [] OTHER -> @[x]]]
        r == markNodeAsFailingIfNeeded(n, d, bad)
    IN Outcome([r.c EXCEPT !.known = @ \cup new,
                           !.slaves = @ \cup {x \in new : gossip[x].slave},
                           !.flag = [x \in DOMAIN @ |-> IF x \in new THEN gossip[x].flag
                                                        ELSE @[x]]],
               r.sent)

\* clusterSetGossipEntry for each node of G.
Gossip(c, G) == [x \in G |-> [flag |-> c.flag[x], slave |-> ~nodeIsMaster(c, x)]]

SameEpoch(n, c, h) == IF h.ce = c.ce[n] THEN clusterHandleConfigEpochCollision(n, c, h.from) ELSE c

\* What follows the slots of a ping: s is their outcome, g that of the gossip.
AlsoSent(g, s) == Outcome(g.c, s.sent \cup g.sent)

ProcessRest(n, s, h, gossip) ==
    AlsoSent(clusterProcessGossipSection(n, SameEpoch(n, s.c, h), h.from, gossip), s)

PongIf(answers, c, m, long) == IF answers THEN ProcessPong(c, m, long) ELSE c

\* A ping, or the pong that answers ours, from a node that is known.
ProcessPing(n, c, h, gossip, answers, long) ==
    ProcessRest(n, ProcessSlots(n, ProcessRole(n, PongIf(answers, ProcessHeader(n, c, h), h.from, long), h), h),
                h, gossip)

ProcessFail(n, c, m) ==
    IF m \notin c.known \ {n} \/ c.flag[m] = "fail" THEN c
    ELSE Todo([c EXCEPT !.flag[m] = "fail"], {"save", "state"})

ProcessUpdate(n, c, p) ==
    IF p.about \notin c.known \/ c.ce[p.about] >= p.ce THEN c
    ELSE LET d == clusterSetNodeAsMaster(n, c, p.about)
         IN clusterUpdateSlotsConfigWith(n, Todo([d EXCEPT !.ce[p.about] = p.ce], {"save"}),
                                         p.about, p.ce, p.slots)

-----------------------------------------------------------------------------
(* Elections and manual failovers.                                         *)

\* recent: this node voted about that master less than two timeouts ago.
MayVote(n, c, p, recent) ==
    LET m == p.hdr.from
    IN /\ nodeIsMaster(c, n) /\ SlotsOf(c, n) # {}
       /\ p.hdr.epoch >= c.epoch
       /\ c.vote # c.epoch
       /\ ~nodeIsMaster(c, m) /\ c.of[m] # NoPeer
       /\ c.flag[c.of[m]] = "fail" \/ p.force
       /\ ~recent
       /\ \A j \in p.hdr.slots : c.slots[j] = NoPeer \/ c.ce[c.slots[j]] <= p.hdr.ce

\* Mutant: the vote is not written to nodes.conf.
VoteNotWritten(n, c, p, recent) ==
    LET d == [c EXCEPT !.vote = c.epoch]
    IN IF MayVote(n, c, p, recent)
       THEN Outcome(d, {Packet(n, d, "ack", p.hdr.from)}) ELSE Outcome(c, {})

clusterSendFailoverAuthIfNeeded(n, c, p, recent) ==
    LET d == Todo([c EXCEPT !.vote = c.epoch], {"save"})
    IN IF MayVote(n, c, p, recent)
       THEN Outcome(d, {Packet(n, d, "ack", p.hdr.from)}) ELSE Outcome(c, {})

ProcessAck(c, h) ==
    IF nodeIsMaster(c, h.from) /\ SlotsOf(c, h.from) # {} /\ h.epoch >= c.auth.epoch
    THEN [c EXCEPT !.auth.count = @ + 1] ELSE c

\* clusterFailoverReplaceYourMaster; the broadcast of pongs is a round of pings.
clusterFailoverReplaceYourMaster(n, c) ==
    LET old == c.of[n]
        d == clusterSetNodeAsMaster(n, c, n)
        e == clusterUpdateState(n, Rebind(d, n, SlotsOf(d, old)), FALSE)
    IN IF nodeIsMaster(c, n) \/ old = NoPeer THEN c
       ELSE [clusterSaveConfig(n, e) EXCEPT !.mf = NoManual]

\* Why a replica may try to take over: its master failed, or it is told to.
MayFailover(n, c) ==
    /\ ~nodeIsMaster(c, n) /\ c.of[n] # NoPeer
    /\ c.flag[c.of[n]] = "fail" \/ (c.mf.on /\ c.mf.can)
    /\ SlotsOf(c, c.of[n]) # {}

clusterHandleManualFailover(c) ==
    IF c.mf.on /\ ~c.mf.can /\ c.mf.known /\ c.mf.data = c.keys
    THEN [c EXCEPT !.mf.can = TRUE] ELSE c

\* One call of clusterHandleSlaveFailover that changes something.
clusterHandleSlaveFailover(n) ==
    LET c == clusterHandleManualFailover(view[n])
        asking == [c EXCEPT !.epoch = @ + 1,
                            !.auth = [phase |-> "asked", count |-> @.count,
                                      epoch |-> c.epoch + 1]]
        won == [c EXCEPT !.ce[n] = Max({@, c.auth.epoch})]
    IN /\ n \notin off /\ MayFailover(n, c)
       /\ \/ /\ c.auth.phase = "idle"
             /\ view' = [view EXCEPT ![n] =
                   CronState(n, [c EXCEPT !.auth.phase = "scheduled", !.auth.count = 0])]
             /\ UNCHANGED <<bus, elected>>
          \/ /\ c.auth.phase = "scheduled" /\ c.epoch < plan.epochs
             /\ view' = [view EXCEPT ![n] =
                   clusterBeforeSleep(n, Todo(asking, {"save", "state"}))]
             /\ bus' = bus \cup clusterRequestFailoverAuth(n, asking)
             /\ UNCHANGED elected
          \/ /\ c.auth.phase = "asked" /\ c.auth.count >= c.size \div 2 + 1
             /\ view' = [view EXCEPT ![n] =
                   clusterBeforeSleep(n, clusterFailoverReplaceYourMaster(n, won))]
             /\ elected' = elected \cup {<<c.auth.epoch, n>>}
             /\ UNCHANGED bus
       /\ UNCHANGED <<off, apart, plan, left, client>>

\* auth_retry_time elapses.  Unless the plan says otherwise a vote that is still
\* on its way is not delivered any more.
ElectionExpires(n) ==
    /\ Pay("retries") /\ view[n].auth.phase # "idle" /\ MayFailover(n, view[n])
    /\ view' = [view EXCEPT ![n].auth.phase = "idle"]
    /\ bus' = IF plan.lateVotes THEN bus
              ELSE {p \in bus : p.kind # "ack" \/ p.to # n}
    /\ UNCHANGED <<off, apart, plan, elected, client>>

\* mf_end.  The master gives up, and serves clients again, later than the replica,
\* and not before a replica that won has told it.
manualFailoverCheckTimeout(n) ==
    /\ Pay("retries") /\ n \notin off /\ view[n].mf.on
    /\ view[n].mf.slave # NoPeer => LET r == view[n].mf.slave
                                    IN ~view[r].mf.on /\ ~nodeIsMaster(view[r], r)
    /\ view' = [view EXCEPT ![n].mf = NoManual]
    /\ UNCHANGED <<bus, off, apart, plan, elected, client>>

\* clusterHandleSlaveMigration, with the tests of the cron that calls it.
clusterHandleSlaveMigration(n) ==
    LET c == view[n]
        Working(m) == {r \in ReplicasOf(c, m) : c.flag[r] # "fail"}
        masters == {m \in c.known : nodeIsMaster(c, m) /\ c.flag[m] # "fail"}
        most == Max({Cardinality(Working(m)) : m \in masters})
        orphans == {m \in masters : /\ SlotsOf(c, m) # {} /\ m \in c.migrateTo
                                    /\ Working(m) = {}}
        full == {m \in c.known \ c.slaves : Cardinality(Working(m)) = most}
    IN /\ n \notin off /\ ~nodeIsMaster(c, n) /\ c.of[n] \in masters /\ c.ok
       /\ orphans # {} /\ most >= 2 /\ c.of[n] \in full
       /\ Cardinality({r \in ReplicasOf(c, c.of[n]) : c.flag[r] = "ok"}) > 1
       /\ n = Min(UNION {ReplicasOf(c, m) : m \in full} \cup {n})
       /\ \E m \in orphans :
             view' = [view EXCEPT ![n] = clusterSetMaster(n, c, m)]
       /\ UNCHANGED <<bus, off, apart, plan, left, elected, client>>

-----------------------------------------------------------------------------
(* The bus and the timeouts.                                               *)

\* r is the outcome at n of a packet; the packets of rest stay on their way.
Handled(n, r, rest) ==
    /\ r.c.epoch <= plan.epochs
    /\ view' = [view EXCEPT ![n] = clusterBeforeSleep(n, r.c)]
    /\ bus' = rest \cup r.sent

\* A ping of m, or its pong to a ping of n, with all its gossip or with none.  Only
\* a failure flag, or a node that does not know the other, tells them apart.
clusterSendPing(m, n) ==
    /\ {m, n} \in plan.beats /\ Talk(m, n) /\ m \in view[n].known
    /\ \E answers \in IF view[n].flag[m] = "ok" /\ n \in view[m].known
                      THEN {FALSE} ELSE BOOLEAN :
       \E long \in IF view[n].flag[m] = "fail" THEN BOOLEAN ELSE {FALSE}, rich \in BOOLEAN :
          LET G == IF rich THEN view[m].known \ {m, n} ELSE {}
          IN /\ answers \/ (n \in view[m].known /\ ~long)
             /\ Handled(n, ProcessPing(n, view[n], clusterBuildMessageHdr(m, view[m]),
                                       Gossip(view[m], G), answers, long), bus)
    /\ UNCHANGED <<off, apart, plan, left, elected, client>>

\* A ping that stays on its way, without gossip.
SendLatePing(m, n) ==
    /\ Pay("late") /\ m # n /\ Talk(m, n) /\ n \in view[m].known
    /\ bus' = bus \cup {Packet(m, view[m], "ping", n)}
    /\ UNCHANGED <<view, off, apart, plan, elected, client>>

Received(n, c, p, recent) ==
    CASE p.kind = "fail" -> Outcome(ProcessFail(n, c, p.about), {})
      [] p.kind = "update" -> Outcome(ProcessUpdate(n, c, p), {})
      [] p.kind = "request" -> clusterSendFailoverAuthIfNeeded(n, c, p, recent)
      [] p.kind = "ack" -> Outcome(ProcessAck(c, p.hdr), {})
      [] p.kind = "mfstart" ->
            Outcome(IF c.of[p.hdr.from] # n THEN c
                    ELSE [c EXCEPT !.mf = [NoManual EXCEPT !.on = TRUE,
                                                           !.slave = p.hdr.from]], {})

clusterProcessPacket(p) ==
    LET n == p.to
        c == view[n]
        known == p.hdr.from \in c.known
    IN /\ n \notin off
       /\ \E recent \in BOOLEAN :
             /\ recent => p.kind = "request" /\ c.vote > 0
             /\ Handled(n, CASE ~known -> Outcome(c, {})
                             [] known /\ p.kind = "ping" ->
                                   ProcessPing(n, c, p.hdr, <<>>, FALSE, FALSE)
                             [] OTHER -> Received(n, ProcessHeader(n, c, p.hdr), p, recent),
                        bus \ {p})
       /\ UNCHANGED <<off, apart, plan, left, elected, client>>

\* clusterCron finds that m does not answer.
NodeTimesOut(n, m) ==
    /\ n \notin off /\ m \in view[n].known \ {n} /\ ~Talk(n, m)
    /\ view[n].flag[m] = "ok"
    /\ view' = [view EXCEPT ![n] =
                   clusterUpdateState(n, [@ EXCEPT !.flag[m] = "pfail"], FALSE)]
    /\ UNCHANGED <<bus, off, apart, plan, left, elected, client>>

CronUpdatesState(n) ==
    /\ n \notin off
    /\ view' = [view EXCEPT ![n] = CronState(n, @)]
    /\ UNCHANGED <<bus, off, apart, plan, left, elected, client>>

clusterNodeCleanupFailureReports(n, m) ==
    /\ Pay("retries") /\ view[n].reports[m] # {}
    /\ view' = [view EXCEPT ![n].reports[m] = {}]
    /\ UNCHANGED <<bus, off, apart, plan, elected, client>>

\* The replica receives what its master stores, while they are connected.
ReplicaCatchesUp(n) ==
    LET m == view[n].of[n]
    IN /\ n \notin off /\ ~nodeIsMaster(view[n], n) /\ m # NoPeer /\ Talk(n, m)
       /\ view' = [view EXCEPT ![n].keys = view[m].keys]
       /\ UNCHANGED <<bus, off, apart, plan, left, elected, client>>

NodeStops(n) ==
    /\ Pay("faults") /\ n \in plan.mortal \ off
    /\ off' = off \cup {n}
    /\ bus' = {p \in bus : p.to # n}
    /\ UNCHANGED <<view, apart, plan, elected, client>>

NodeStarts(n) ==
    /\ Pay("repairs") /\ n \in off
    /\ off' = off \ {n}
    /\ view' = [view EXCEPT ![n] = clusterLoadConfig(n, @.saved, @.keys)]
    /\ UNCHANGED <<bus, apart, plan, elected, client>>

NodeRestarts(n) ==
    /\ Pay("restarts") /\ n \in plan.mortal \ off
    /\ view' = [view EXCEPT ![n] = clusterLoadConfig(n, @.saved, @.keys)]
    /\ bus' = {p \in bus : p.to # n}
    /\ UNCHANGED <<off, apart, plan, elected, client>>

LinksBreak(l) ==
    /\ Pay("faults") /\ l \notin apart
    /\ apart' = apart \cup {l}
    /\ bus' = {p \in bus : {p.hdr.from, p.to} # l}
    /\ UNCHANGED <<view, off, plan, elected, client>>

LinksReturn(l) ==
    /\ Pay("repairs")
    /\ apart' = apart \ {l}
    /\ UNCHANGED <<view, bus, off, plan, elected, client>>

-----------------------------------------------------------------------------
(* Commands of the operator, to the nodes plan.operated.                   *)

\* Node n ends the command with view c and sends packets.
Ordered(n, c, sent) ==
    /\ n \notin off /\ c.epoch <= plan.epochs
    /\ view' = [view EXCEPT ![n] = clusterBeforeSleep(n, c)]
    /\ bus' = bus \cup sent
    /\ UNCHANGED <<off, apart, plan, elected, client>>

Order(n, what) == what \in plan.orders /\ n \in plan.operated /\ Pay("orders")

\* One slot of ADDSLOTS or DELSLOTS.  The operator sends them to masters: the
\* command itself does not ask.
clusterUpdateSlots(n, j, del) ==
    LET c == [view[n] EXCEPT !.importing[j] = NoPeer]
    IN /\ Order(n, IF del THEN "delslots" ELSE "addslots")
       /\ nodeIsMaster(c, n) /\ del = (c.slots[j] # NoPeer)
       /\ Ordered(n, Todo(IF del THEN [c EXCEPT !.slots[j] = NoPeer]
                          ELSE clusterAddSlot(c, n, j), {"save", "state"}), {})

FlushSlots(n) ==
    /\ Order(n, "flushslots") /\ view[n].keys = {}
    /\ Ordered(n, Todo(clusterDelNodeSlots(view[n], n), {"save", "state"}), {})

BumpEpoch(n) ==
    /\ Order(n, "bumpepoch")
    /\ Ordered(n, clusterBumpConfigEpochWithoutConsensus(n, view[n]), {})

SetConfigEpoch(n, e) ==
    LET c == view[n]
    IN /\ Order(n, "set-config-epoch")
       /\ c.known = {n} /\ c.meeting = {} /\ c.ce[n] = 0
       /\ Ordered(n, Todo([c EXCEPT !.ce[n] = e, !.epoch = Max({@, e})],
                          {"save", "state"}), {})

\* CLUSTER SETSLOT is refused, or changes the view of n.
SetSlotRefused(n, c, j, how, m) ==
    \/ ~nodeIsMaster(c, n)
    \/ how = "migrating" /\ c.slots[j] # n
    \/ how = "importing" /\ c.slots[j] = n
    \/ how # "stable" /\ (m \notin c.known \/ ~nodeIsMaster(c, m))
    \/ how = "node" /\ c.slots[j] = n /\ m # n /\ KeysIn(c, j) # {}

SetSlotNode(n, c, j, m) ==
    LET c1 == IF KeysIn(c, j) = {} THEN [c EXCEPT !.migrating[j] = NoPeer] ELSE c
        c2 == Rebind(c1, m, {j})
        c3 == IF c.slots[j] = n /\ m # n /\ SlotsOf(c2, n) = {}
              THEN clusterSetMaster(n, c2, m) ELSE c2
    IN IF m = n /\ c.importing[j] # NoPeer
       THEN [clusterBumpConfigEpochWithoutConsensus(n, c3) EXCEPT !.importing[j] = NoPeer]
       ELSE c3

SetSlot(n, c, j, how, m) ==
    LET d == CASE how = "migrating" -> [c EXCEPT !.migrating[j] = m]
               [] how = "importing" -> [c EXCEPT !.importing[j] = m]
               [] how = "stable" -> [c EXCEPT !.importing[j] = NoPeer, !.migrating[j] = NoPeer]
               [] how = "node" -> SetSlotNode(n, c, j, m)
    IN Todo(d, {"save", "state"})

SetSlotCommand(n, j, how, m) ==
    /\ Order(n, "setslot") /\ ~SetSlotRefused(n, view[n], j, how, m)
    /\ Ordered(n, SetSlot(n, view[n], j, how, m), {})

Forget(n, m) ==
    LET c == view[n]
    IN /\ Order(n, "forget") /\ m \in c.known \ {n} /\ c.of[n] # m
       /\ Ordered(n, Todo(clusterDelNode([c EXCEPT !.banned = @ \cup {m}], m),
                          {"save", "state"}), {})

clusterBlacklistCleanup(n, m) ==
    /\ Pay("retries") /\ m \in view[n].banned
    /\ view' = [view EXCEPT ![n].banned = @ \ {m}]
    /\ UNCHANGED <<bus, off, apart, plan, elected, client>>

Replicate(n, m) ==
    LET c == view[n]
    IN /\ Order(n, "replicate") /\ m \in c.known \ {n} /\ nodeIsMaster(c, m)
       /\ nodeIsMaster(c, n) => SlotsOf(c, n) = {} /\ c.keys = {}
       /\ Ordered(n, Todo(clusterSetMaster(n, c, m), {"save", "state"}), {})

\* CLUSTER FAILOVER, with FORCE or TAKEOVER.
ClusterFailover(n, how) ==
    LET c == view[n]
        m == c.of[n]
        d == [c EXCEPT !.mf = [NoManual EXCEPT !.on = TRUE, !.can = how = "force"]]
    IN /\ Order(n, how) /\ ~nodeIsMaster(c, n) /\ m # NoPeer
       /\ how = "failover" => c.flag[m] # "fail" /\ Talk(n, m)
       /\ Ordered(n, IF how = "takeover"
                     THEN clusterFailoverReplaceYourMaster(n,
                             clusterBumpConfigEpochWithoutConsensus(n, d))
                     ELSE d,
                  IF how = "failover" THEN {Packet(n, d, "mfstart", m)} ELSE {})

\* CLUSTER RESET SOFT.
clusterReset(n) ==
    LET c == view[n]
        d == clusterCloseAllSlots(clusterSetNodeAsMaster(n, c, n))
        none == [x \in DOMAIN c.of |-> NoPeer]
    IN /\ Order(n, "reset")
       /\ nodeIsMaster(c, n) => c.keys = {}
       /\ Ordered(n, Todo([d EXCEPT !.mf = NoManual, !.keys = {}, !.known = {n},
                                    !.slots = [j \in DOMAIN @ |-> NoPeer],
                                    !.of = none, !.slaves = {}, !.migrateTo = {},
                                    !.ce = [x \in DOMAIN @ |-> IF x = n THEN @[n] ELSE 0],
                                    !.flag = [x \in DOMAIN @ |-> "ok"],
                                    !.reports = [x \in DOMAIN @ |-> {}],
                                    !.meeting = {}], {"save", "state"}), {})

\* CLUSTER MEET; an entry <<m, TRUE>> of meeting makes n send MEET to m.
clusterStartHandshake(n, m) ==
    /\ Order(n, "meet") /\ m # n /\ {<<m, TRUE>>, <<m, FALSE>>} \cap view[n].meeting = {}
    /\ Ordered(n, [view[n] EXCEPT !.meeting = @ \cup {<<m, TRUE>>}], {})

\* MEET or the first ping of a handshake, and the pong that ends it.
Meet(n, e) ==
    LET m == e[1]
        c == [view[n] EXCEPT !.meeting = @ \ {e}]
        known == [c EXCEPT !.known = @ \cup {m},
                           !.slaves = IF nodeIsMaster(view[m], m) THEN @ ELSE @ \cup {m}]
        met == IF e[2] /\ n \notin view[m].known
               THEN clusterBeforeSleep(m, Todo([view[m] EXCEPT !.meeting = @ \cup {<<n, FALSE>>}],
                                               {"save"}))
               ELSE view[m]
    IN /\ Talk(n, m)
       /\ view' = [view EXCEPT
             ![n] = IF m \in c.known THEN c
                    ELSE clusterBeforeSleep(n, Todo(known, {"save"})),
             ![m] = met]
       /\ UNCHANGED <<bus, off, apart, plan, left, elected, client>>

HandshakeExpires(n, e) ==
    /\ Pay("retries")
    /\ view' = [view EXCEPT ![n].meeting = @ \ {e}]
    /\ UNCHANGED <<bus, off, apart, plan, elected, client>>

-----------------------------------------------------------------------------
(* A client that writes keys of one slot and follows the redirections.     *)

Redirect(why, to) == [why |-> why, to |-> to]

\* Mutant: a node that migrates a slot serves the keys it no longer has.
NeverAsks(n, c, K, asking) ==
    LET j == (CHOOSE k \in K : TRUE)[1]
    IN IF c.slots[j] = n \/ (asking /\ c.importing[j] # NoPeer) THEN Redirect("none", n)
       ELSE Redirect("moved", c.slots[j])

getNodeByQuery(n, c, K, asking) ==
    LET j == (CHOOSE k \in K : TRUE)[1]
        migrates == c.slots[j] = n /\ c.migrating[j] # NoPeer
        imports == ~migrates /\ c.importing[j] # NoPeer
        missing == K \ c.keys
    IN CASE c.slots[j] = NoPeer -> Redirect("unbound", NoPeer)
         [] c.slots[j] # NoPeer /\ ~c.ok -> Redirect("down", NoPeer)
         [] c.slots[j] # NoPeer /\ c.ok /\ migrates /\ missing # {} ->
               IF missing = K THEN Redirect("ask", c.migrating[j])
               ELSE Redirect("unstable", NoPeer)
         [] c.slots[j] # NoPeer /\ c.ok /\ imports /\ asking ->
               IF Cardinality(K) > 1 /\ missing # {} THEN Redirect("unstable", NoPeer)
               ELSE Redirect("none", n)
         [] OTHER -> Redirect(IF c.slots[j] = n THEN "none" ELSE "moved", c.slots[j])

Idle(acked) == [keys |-> {}, at |-> NoPeer, asking |-> FALSE, acked |-> acked]

\* A master in a manual failover has paused its clients.
clusterRedirectClient(K, n, asking) ==
    LET r == getNodeByQuery(n, view[n], K, asking)
    IN /\ n \notin off /\ ~(nodeIsMaster(view[n], n) /\ view[n].mf.on)
       /\ view' = IF r.why = "none" THEN [view EXCEPT ![n].keys = @ \cup K] ELSE view
       /\ client' = CASE r.why = "none" -> Idle(client.acked \cup K)
                      [] r.why \in {"ask", "moved"} ->
                            [client EXCEPT !.keys = K, !.at = r.to, !.asking = r.why = "ask"]
                      [] OTHER -> Idle(client.acked)
       /\ UNCHANGED <<bus, off, apart, plan, elected>>

ClientWrites(K, n) ==
    /\ client.at = NoPeer /\ Pay("writes")
    /\ clusterRedirectClient(K, n, FALSE)

ClientFollows ==
    /\ client.at # NoPeer
    /\ clusterRedirectClient(client.keys, client.at, client.asking)
    /\ UNCHANGED left

-----------------------------------------------------------------------------
ClusterInit ==
    /\ plan \in Plans
    /\ LET None == [x \in plan.nodes |-> NoPeer]
           Closed == [j \in plan.slots |-> NoPeer]
           owners == {plan.owner[j] : j \in plan.slots} \ {NoPeer}
           Saved(n) == [epoch |-> Max({plan.ce[m] : m \in plan.nodes}), vote |-> 0,
                        known |-> IF plan.alone THEN {n} ELSE plan.nodes,
                        slaves |-> {x \in plan.nodes : plan.master[x] # NoPeer},
                        of |-> plan.master,
                        flag |-> [x \in plan.nodes |-> IF x \in plan.failed THEN "fail"
                                                       ELSE "ok"],
                        slots |-> IF plan.alone THEN Closed ELSE plan.owner,
                        ce |-> plan.ce, migrating |-> Closed, importing |-> Closed]
           Fresh(n) == [clusterLoadConfig(n, Saved(n), {}) EXCEPT
                           !.young = FALSE, !.ok = ~plan.alone, !.ce = plan.ce, !.size = Cardinality(owners)]
       IN view = [n \in plan.nodes |-> Fresh(n)]
    /\ bus = {} /\ off = plan.failed /\ apart = {} /\ elected = {}
    /\ left = plan.budget
    /\ client = Idle({})

clusterCron ==
    \E n \in plan.nodes :
       \/ clusterHandleSlaveFailover(n)
       \/ ElectionExpires(n)
       \/ manualFailoverCheckTimeout(n)
       \/ clusterHandleSlaveMigration(n)
       \/ CronUpdatesState(n)
       \/ ReplicaCatchesUp(n)
       \/ \E m \in plan.nodes : \/ clusterSendPing(m, n)
                                \/ SendLatePing(m, n)
                                \/ NodeTimesOut(n, m)
                                \/ clusterNodeCleanupFailureReports(n, m)
                                \/ clusterBlacklistCleanup(n, m)
       \/ \E e \in view[n].meeting : Meet(n, e) \/ HandshakeExpires(n, e)

clusterCommand ==
    \E n \in plan.nodes :
       \/ \E j \in plan.slots, del \in BOOLEAN : clusterUpdateSlots(n, j, del)
       \/ FlushSlots(n)
       \/ BumpEpoch(n)
       \/ \E e \in 1..plan.epochs : SetConfigEpoch(n, e)
       \/ \E j \in plan.slots, m \in plan.nodes,
             how \in {"migrating", "importing", "stable", "node"} :
                SetSlotCommand(n, j, how, m)
       \/ \E m \in plan.nodes : \/ Forget(n, m)
                                \/ Replicate(n, m)
                                \/ clusterStartHandshake(n, m)
       \/ \E how \in {"failover", "force", "takeover"} : ClusterFailover(n, how)
       \/ clusterReset(n)

ClusterNext ==
    \/ clusterCron
    \/ clusterCommand
    \/ \E p \in bus : clusterProcessPacket(p)
    \/ \E n \in plan.nodes : NodeStops(n) \/ NodeStarts(n) \/ NodeRestarts(n)
    \/ \E l \in plan.weak : LinksBreak(l)
    \/ \E l \in apart : LinksReturn(l)
    \/ \E K \in plan.writes, n \in plan.nodes : ClientWrites(K, n)
    \/ ClientFollows

-----------------------------------------------------------------------------
(* Correctness.                                                            *)

\* An epoch elects one replica at most: two failovers won by votes at the same
\* epoch were won by the same node, whatever votes, requests and restarts of the
\* voters were mixed (clusterSendFailoverAuthIfNeeded).
ElectedAlone == \A a, b \in elected : a[1] = b[1] => a[2] = b[2]
=============================================================================
