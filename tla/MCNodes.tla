------------------------------ MODULE MCNodes ------------------------------
(***************************************************************************)
(* Small instances of the parts of the vendored Redis that involve several *)
(* processes, side by side: a behaviour runs one part, chosen in Init.     *)
(***************************************************************************)
EXTENDS Replication, Sentinel, ClusterManager, TLC

CONSTANTS Parts,                     \* the parts to run
          ra, rb, rc,                \* replicating servers
          s1, s2, s3, sm, sx, sy     \* Sentinels, and the servers they watch

VARIABLE part      \* the part this behaviour runs

Pick(S) == CHOOSE e \in S : TRUE

-----------------------------------------------------------------------------
Topology(roles, diskless, swapdb, writes, pings, faults, admin, saves) ==
    [roles |-> roles, members |-> IF rc \in DOMAIN roles THEN Instances ELSE {ra, rb},
     diskless |-> diskless, swapdb |-> swapdb, writes |-> writes,
     pings |-> pings, faults |-> faults, admin |-> admin, saves |-> saves]

Pair == rb :> ra

Star == rb :> ra @@ rc :> ra

Chain == rb :> ra @@ rc :> rb

MCTopologies ==
    {Topology(Pair, FALSE, FALSE, 2, 0, 0, 2, 0),
     Topology(Pair, FALSE, FALSE, 2, 1, 0, 1, 0),
     Topology(Pair, TRUE, FALSE, 1, 0, 1, 1, 0),
     Topology(Pair, FALSE, TRUE, 1, 0, 1, 1, 0),
     Topology(Pair, FALSE, FALSE, 1, 0, 2, 0, 1),
     Topology(Chain, FALSE, FALSE, 1, 0, 0, 1, 0),
     Topology(Chain, TRUE, FALSE, 1, 0, 1, 0, 0),
     Topology(Star, FALSE, FALSE, 1, 0, 1, 0, 0)}

-----------------------------------------------------------------------------
Group(members, servers, quorum) ==
    [servers |-> servers, members |-> members, master |-> sm, quorum |-> quorum,
     priority |-> [i \in servers |-> 1], offset |-> [i \in servers |-> IF i = sx THEN 2 ELSE 1],
     acquainted |-> TRUE, fragile |-> {}, epochs |-> 1, talks |-> 1,
     faults |-> 0, repairs |-> 0, orders |-> 0, crashes |-> 0]

\* Two of three Sentinels lose the master, and the third may restart; nobody can be promoted.
Contest == [Group({s1, s2, s3}, {sm, sx}, 2) EXCEPT
               !.priority = [i \in {sm, sx} |-> 0], !.fragile = {{s1, sm}, {s2, sm}, {s3}},
               !.faults = 2, !.crashes = 1]

\* An operator asks for a failover.
Asked == [Group({s1, s2}, {sm, sx}, 1) EXCEPT !.orders = 1]

\* The new master stops as well, and the servers come back.
Twice == [Group({s1}, {sm, sx, sy}, 1) EXCEPT
             !.epochs = 2, !.fragile = {{sm}, {sx}, {s1}}, !.faults = 2, !.repairs = 2, !.crashes = 1]

\* The Sentinels have yet to find each other.
Strangers == [Group({s1, s2}, {sm, sx}, 2) EXCEPT
                 !.acquainted = FALSE, !.fragile = {{sm}}, !.faults = 1]

MCGroups == {Contest, Asked, Twice, Strangers}

Pairs(S) == {{a, b} : a, b \in S}

P(nodes, owner, master, ce, epochs) ==
     [nodes |-> nodes, slots |-> DOMAIN owner, owner |-> owner, master |-> master, ce |-> ce,
      alone |-> FALSE, mortal |-> {}, failed |-> {}, weak |-> {}, epochs |-> epochs, lateVotes |-> FALSE,
      orders |-> {}, operated |-> {}, writes |-> {}, beats |-> Pairs(nodes),
      budget |-> [faults |-> 0, repairs |-> 0, restarts |-> 0, retries |-> 0, orders |-> 0, late |-> 0,
                  writes |-> 0]]

Budget(fault, repair, restart, retry, order, late, write) ==
    [faults |-> fault, repairs |-> repair, restarts |-> restart, retries |-> retry,
     orders |-> order, late |-> late, writes |-> write]

\* Both replicas of node 1, which failed, ask nodes 2 and 3, which may restart.
Election == [P(1..5, <<1, 2, 3>>, <<0, 0, 0, 1, 1>>, <<1, 2, 3, 1, 1>>, 4) EXCEPT
                !.beats = {}, !.failed = {1}, !.mortal = {2, 3},
                !.budget = Budget(0, 0, 2, 0, 0, 0, 0)]
\* A second election, after the first one failed.
Again == [P(1..4, <<1, 2, 3>>, <<0, 0, 0, 1>>, <<1, 2, 3, 1>>, 5) EXCEPT
                !.beats = {}, !.failed = {1}, !.budget = Budget(0, 0, 0, 1, 0, 0, 0)]
\* Node 1 stops and comes back.
Detect == [P(1..3, <<1, 2, 3>>, <<0, 0, 0>>, <<1, 2, 3>>, 3) EXCEPT
                !.mortal = {1}, !.budget = Budget(1, 1, 0, 0, 0, 0, 0)]
Broken == [P(1..3, <<1, 2, 3>>, <<0, 0, 0>>, <<1, 2, 3>>, 3) EXCEPT
                !.weak = {{1, 2}}, !.beats = {{1,2},{1,3}}, !.budget = Budget(1, 1, 0, 1, 0, 0, 0)]
\* Node 1 comes back while its replica replaces it.
Failed == [P(1..4, <<1, 2, 3>>, <<0, 0, 0, 1>>, <<1, 2, 3, 1>>, 4) EXCEPT
                !.beats = {{1, 4}, {2, 4}}, !.failed = {1}, !.mortal = {1},
                !.budget = Budget(0, 1, 0, 0, 0, 0, 0)]
\* Node 2 is told to replace its master while clients write.
Manual == [P(1..3, <<1, 3>>, <<0, 1, 0>>, <<1, 1, 2>>, 3) EXCEPT
                !.orders = {"failover"}, !.operated = {2}, !.writes = {{<<1, 1>>}, {<<1, 2>>}},
                !.budget = Budget(0, 0, 0, 2, 1, 0, 2)]
Takeover == [P(1..3, <<1, 3>>, <<0, 1, 0>>, <<1, 1, 2>>, 4) EXCEPT
                !.orders = {"takeover", "bumpepoch"}, !.operated = {1, 2},
                !.budget = Budget(0, 0, 0, 0, 2, 0, 0)]
Forced == [P(1..3, <<1, 3>>, <<0, 1, 0>>, <<1, 1, 2>>, 3) EXCEPT
                !.orders = {"force"}, !.operated = {2},
                !.budget = Budget(0, 0, 0, 0, 1, 0, 0)]
Late == [P(1..3, <<1, 3>>, <<0, 1, 0>>, <<1, 1, 2>>, 4) EXCEPT
                !.orders = {"takeover"}, !.operated = {2},
                !.budget = Budget(0, 0, 0, 0, 1, 1, 0)]
Interrupted == [P(1..2, <<1, 2>>, <<0, 0>>, <<1, 2>>, 4) EXCEPT
                !.orders = {"reshard", "fix"}, !.writes = {{<<1, 1>>}, {<<1, 2>>}},
                !.beats = {{1, 2}},
                !.budget = Budget(1, 0, 0, 0, 2, 0, 1)]
Reshard == [P(1..2, <<1, 2>>, <<0, 0>>, <<1, 2>>, 4) EXCEPT
                !.orders = {"reshard"}, !.writes = {{<<1, 1>>}, {<<1, 1>>, <<1, 2>>}},
                !.mortal = {1, 2}, !.budget = Budget(0, 0, 1, 0, 1, 0, 2)]
Mixed == [P(1..3, <<1, 2, 2>>, <<0, 0, 2>>, <<1, 2, 2>>, 3) EXCEPT
                !.orders = {"fix", "setslot"}, !.operated = {1,2},
                !.budget = Budget(0, 0, 0, 0, 2, 0, 0)]
Uncover == [P(1..3, <<1>>, <<0, 0, 0>>, <<1, 2, 3>>, 4) EXCEPT
                !.orders = {"fix", "delslots", "flushslots"}, !.operated = {1,2}, !.writes={{<<1,1>>}},
                !.budget = Budget(0, 0, 0, 0, 3, 0, 1)]
Join == [P(1..3, <<0>>, <<0, 0, 0>>, <<0, 0, 0>>, 3) EXCEPT !.alone = TRUE,
                !.orders = {"meet", "addslots"}, !.operated = {1},
                !.budget = Budget(0, 0, 0, 1, 3, 0, 0)]
Grow == [P(1..2, <<0>>, <<0, 0>>, <<0, 0>>, 3) EXCEPT !.alone = TRUE,
                !.orders = {"meet", "addslots", "set-config-epoch", "forget", "replicate", "reset"},
                !.operated = {1, 2}, !.budget = Budget(0, 0, 0, 1, 3, 0, 0)]
\* A replica of node 1 moves to node 2, whose only replica failed.
Migration == [P(1..5, <<1, 2>>, <<0, 0, 1, 1, 2>>, <<1, 2, 1, 1, 2>>, 2) EXCEPT
                !.beats = {{3, 4}, {2, 3}, {3, 5}, {1, 3}}, !.failed = {5}, !.mortal = {5},
                !.budget = Budget(0, 1, 0, 0, 0, 0, 0)]

MCPlans == {Election, Again, Detect, Broken, Failed, Manual, Takeover, Forced, Late, Interrupted, Reshard, Mixed, Uncover, Join, Grow, Migration}

-----------------------------------------------------------------------------
partVars == <<replicationVars, sentinelVars, managerVars, part>>

\* The parts that do not run stay in one of their initial states.
NodesInit ==
    /\ part \in Parts
    /\ ReplicationInit /\ (part = "replication" \/ topo = Pick(Topologies))
    /\ SentinelInit /\ (part = "sentinel" \/ group = Pick(Groups))
    /\ ManagerInit /\ (part = "cluster" \/ plan = Pick(Plans))

NodesNext ==
    \/ /\ part = "replication" /\ ReplicationNext
       /\ UNCHANGED <<sentinelVars, managerVars, part>>
    \/ /\ part = "sentinel" /\ SentinelNext
       /\ UNCHANGED <<replicationVars, managerVars, part>>
    \/ /\ part = "cluster" /\ ManagerNext
       /\ UNCHANGED <<replicationVars, sentinelVars, part>>

NodesSpec == NodesInit /\ [][NodesNext]_partVars
=============================================================================
