--------------------------- MODULE ClusterManager ---------------------------
(***************************************************************************)
(* redis-cli --cluster: moving a slot to another node, and fixing slots    *)
(* that are open, not covered or claimed by several nodes, while the       *)
(* cluster and its clients go on.                                          *)
(*                                                                         *)
(* The tool decides what to do from what it read of the nodes, and then    *)
(* sends one command after another; a command that is refused ends it, and *)
(* so may anything else between two commands.                              *)
(***************************************************************************)
EXTENDS Cluster, Sequences, SequencesExt

VARIABLE job          \* the slot worked on, what was read, the commands to send

managerVars == <<clusterVars, job>>

NoJob == [slot |-> 0, seen |-> <<>>, todo |-> <<>>, contested |-> job.contested]

Ask(do, at, to) == [do |-> do, at |-> at, to |-> to]

ForEach(S, do, to) == [i \in 1..Cardinality(S) |-> Ask(do, SetToSeq(S)[i], to)]

-----------------------------------------------------------------------------
(* The commands.                                                           *)

\* clusterManagerMoveSlot.  cold: the slot is not opened and keeps its owner.
clusterManagerMoveSlot(src, dst, cold, masters) ==
    IF cold THEN <<Ask("keys", src, dst)>>
    ELSE <<Ask("importing", dst, src), Ask("migrating", src, dst), Ask("keys", src, dst),
           Ask("node", dst, dst), Ask("source", src, dst)>>
         \o ForEach(masters \ {src, dst}, "node", dst)

\* DELSLOTS, ADDSLOTS, perhaps SETSLOT STABLE, and BUMPEPOCH, in a transaction.
clusterManagerSetSlotOwner(n, c, j, clear) ==
    LET d == Rebind([c EXCEPT !.importing[j] = NoPeer,
                              !.migrating[j] = IF clear THEN NoPeer ELSE @], n, {j})
    IN Todo(clusterBumpConfigEpochWithoutConsensus(n, d), {"save", "state"})

\* The view of the node after the command, or {} when it is refused.
Reply(n, c, j, cmd) ==
    CASE cmd.do \in {"importing", "migrating", "stable", "node"} ->
            IF SetSlotRefused(n, c, j, cmd.do, cmd.to) THEN {}
            ELSE {SetSlot(n, c, j, cmd.do, cmd.to)}
      [] cmd.do = "source" ->
            IF ~nodeIsMaster(c, n) THEN {c}
            ELSE IF SetSlotRefused(n, c, j, "node", cmd.to) THEN {}
            ELSE {SetSlot(n, c, j, "node", cmd.to)}
      [] cmd.do \in {"own", "own clear"} ->
            {clusterManagerSetSlotOwner(n, c, j, cmd.do = "own clear")}
      [] cmd.do = "del" ->
            {Todo([c EXCEPT !.slots[j] = NoPeer,
                            !.importing[j] = IF c.slots[j] = NoPeer THEN @ ELSE NoPeer],
                  {"save", "state"})}

SendCommand ==
    LET cmd == Head(job.todo)
        n == cmd.at
        r == Reply(n, view[n], job.slot, cmd)
    IN /\ job.todo # <<>> /\ cmd.do # "keys" /\ n \notin off
       /\ IF r = {} THEN job' = NoJob /\ UNCHANGED view
          ELSE /\ job' = IF Len(job.todo) = 1 THEN NoJob ELSE [job EXCEPT !.todo = Tail(@)]
               /\ \E c \in r : /\ c.epoch <= plan.epochs
                               /\ view' = [view EXCEPT ![n] = clusterBeforeSleep(n, c)]
       /\ UNCHANGED <<bus, off, apart, plan, left, elected, client>>

\* MIGRATE of one key works in an open slot, or at its owner; the target takes it
\* as if asked.
migrateAllowed(src, dst, k) ==
    LET Serves(n, asking) ==
            getNodeByQuery(n, view[n], {k}, asking).why = "none"
        open == \/ view[src].slots[k[1]] = src /\ view[src].migrating[k[1]] # NoPeer
                \/ view[src].importing[k[1]] # NoPeer
    IN /\ dst \notin off
       /\ Serves(src, FALSE)
             \/ (open /\ view[src].ok /\ view[src].slots[k[1]] # NoPeer)
       /\ Serves(dst, TRUE)

\* clusterManagerMigrateKeysInSlot moves a key, or ends: the slot has no more keys,
\* MIGRATE fails, its answer is lost after the key was restored, or the key exists
\* in both nodes with different values.
clusterManagerMigrateKeysInSlot ==
    LET cmd == Head(job.todo)
        src == cmd.at
        dst == cmd.to
        K == KeysIn(view[src], job.slot)
    IN /\ job.todo # <<>> /\ cmd.do = "keys" /\ src \notin off
       /\ \/ /\ K = {}
             /\ job' = IF Len(job.todo) = 1 THEN NoJob ELSE [job EXCEPT !.todo = Tail(@)]
             /\ UNCHANGED <<view, left>>
          \/ \E k \in K :
                \/ /\ migrateAllowed(src, dst, k)
                   /\ view' = [view EXCEPT ![src].keys = @ \ {k}, ![dst].keys = @ \cup {k}]
                   /\ UNCHANGED <<job, left>>
                \/ /\ migrateAllowed(src, dst, k) /\ Pay("faults")
                   /\ view' = [view EXCEPT ![dst].keys = @ \cup {k}]
                   /\ job' = NoJob
                \/ /\ ~migrateAllowed(src, dst, k) \/ k \in view[dst].keys
                   /\ job' = NoJob
                   /\ UNCHANGED <<view, left>>
       /\ UNCHANGED <<bus, off, apart, plan, elected, client>>

\* The tool is interrupted, or the node it talks to is down.
ToolDies ==
    /\ job.todo # <<>>
    /\ Head(job.todo).at \in off \/ left.faults > 0
    /\ left' = IF Head(job.todo).at \in off THEN left
               ELSE [left EXCEPT !.faults = @ - 1]
    /\ job' = NoJob
    /\ UNCHANGED <<view, bus, off, apart, plan, elected, client>>

-----------------------------------------------------------------------------
(* What the tool decides.  seen: the masters it found, and what each of    *)
(* them says of the slot itself.                                           *)

Seen(j) ==
    [n \in {x \in plan.nodes : nodeIsMaster(view[x], x)} |->
        [owns |-> view[n].slots[j] = n, migrating |-> view[n].migrating[j],
         importing |-> view[n].importing[j]]]

Begin(j, todo) ==
    job' = [job EXCEPT !.slot = j, !.todo = todo, !.seen = <<>>]

\* The reshard command moves slot j to dst, if the check of the cluster finds the
\* nodes in agreement, every slot covered and no slot open.
clusterManagerCommandReshard(j, src, dst) ==
    /\ job.todo = <<>> /\ job.slot = 0 /\ "reshard" \in plan.orders /\ Pay("orders")
    /\ src # dst /\ {src, dst} \subseteq DOMAIN Seen(j) /\ Seen(j)[src].owns
    /\ off = {}
    /\ \A n \in plan.nodes, i \in plan.slots :
          /\ view[n].slots[i] = view[src].slots[i] /\ view[n].slots[i] # NoPeer
          /\ {view[n].migrating[i], view[n].importing[i]} = {NoPeer}
    /\ Begin(j, clusterManagerMoveSlot(src, dst, FALSE, DOMAIN Seen(j)))
    /\ UNCHANGED <<view, bus, off, apart, plan, elected, client>>

\* The fix command reads the nodes (clusterManagerCheckCluster).
clusterManagerLoadInfo(j) ==
    /\ job.todo = <<>> /\ job.slot = 0 /\ "fix" \in plan.orders /\ Pay("orders")
    /\ off = {}
    /\ job' = [job EXCEPT !.slot = j, !.seen = Seen(j)]
    /\ UNCHANGED <<view, bus, off, apart, plan, elected, client>>

HasKeys(n) == KeysIn(view[n], job.slot) # {}

clusterManagerGetNodeWithMostKeysInSlot(S) ==
    {n \in S : \A m \in S : Cardinality(KeysIn(view[m], job.slot))
                               <= Cardinality(KeysIn(view[n], job.slot))}

\* Cases 1 to 4 of clusterManagerFixOpenSlot for an owner and the migrating and
\* importing nodes; {} when the tool cannot fix the slot.
FixCases(owner, migrating, importing) ==
    LET seen == job.seen
        src == CHOOSE n \in migrating : TRUE
        dst == seen[src].migrating
        close(S) == ForEach(S, "stable", NoPeer)
        Cold(n) == <<Ask("keys", n, owner), Ask("stable", n, NoPeer)>>
        others == importing \ {owner}
    IN CASE Cardinality(migrating) = 1 /\ Cardinality(importing) = 1 ->
               {clusterManagerMoveSlot(src, CHOOSE n \in importing : TRUE, FALSE, DOMAIN seen)}
         [] migrating = {} /\ importing # {} ->
               {FlattenSeq([i \in 1..Cardinality(others) |-> Cold(SetToSeq(others)[i])])
                   \o ForEach(DOMAIN seen \ {owner}, "node", owner)}
         [] Cardinality(migrating) = 1 /\ Cardinality(importing) > 1 ->
               IF \E n \in importing : HasKeys(n) THEN {}
               ELSE IF dst \in importing
               THEN {clusterManagerMoveSlot(src, dst, FALSE, DOMAIN seen)
                        \o close(importing \ {dst})}
               ELSE {close({src}) \o close(importing)}
         [] Cardinality(migrating) = 1 /\ importing = {}
              /\ (owner = src \/ ~HasKeys(src)) -> {close({src})}
         [] OTHER -> {}

clusterManagerFixOpenSlot ==
    LET seen == job.seen
        masters == DOMAIN seen
        owners == {n \in masters : seen[n].owns \/ HasKeys(n)}
        clear == Cardinality(owners) = 1
        migrating == {n \in masters : seen[n].migrating # NoPeer}
        Importing(owner) ==
            {n \in masters \ migrating : seen[n].importing # NoPeer
                                            \/ (HasKeys(n) /\ ~(clear /\ n = owner))}
        Close(n, owner) == <<Ask("del", n, NoPeer), Ask("node", n, owner),
                             Ask("importing", n, owner)>>
    IN \E owner \in IF clear THEN owners
                    ELSE clusterManagerGetNodeWithMostKeysInSlot(masters) :
          LET rest == owners \ {owner}
              taking == IF clear THEN <<>>
                        ELSE <<Ask("stable", owner, NoPeer), Ask("own", owner, NoPeer)>>
                             \o FlattenSeq([i \in 1..Cardinality(rest) |->
                                              Close(SetToSeq(rest)[i], owner)])
              todo == IF clear THEN FixCases(owner, migrating, Importing(owner))
                      ELSE FixCases(owner, migrating \ (rest \cup {owner}),
                                    (Importing(owner) \cup rest) \ {owner})
          IN job' = [job EXCEPT !.seen = <<>>,
                                !.todo = IF todo = {} THEN taking
                                         ELSE taking \o CHOOSE t \in todo : TRUE,
                                !.slot = IF todo = {} /\ clear THEN 0 ELSE @,
                                !.contested = @ \/ ~clear]

\* No node owns the slot: the nodes that store keys of it decide.
clusterManagerFixSlotsCoverage ==
    LET masters == DOMAIN job.seen
        holders == {n \in masters : HasKeys(n)}
        Move(n, target) == <<Ask("node", n, target), Ask("importing", n, target),
                             Ask("keys", n, target), Ask("stable", n, NoPeer)>>
    IN \E target \in IF holders = {} THEN masters
                     ELSE clusterManagerGetNodeWithMostKeysInSlot(holders) :
          LET rest == holders \ {target}
          IN Begin(job.slot,
                   <<Ask(IF rest = {} THEN "own" ELSE "own clear", target, NoPeer)>>
                   \o FlattenSeq([i \in 1..Cardinality(rest) |->
                                    Move(SetToSeq(rest)[i], target)]))

\* Several nodes own the slot or store keys of it, and it is not open.
clusterManagerFixMultipleSlotOwners(owners) ==
    LET others(owner) == DOMAIN job.seen \ {owner}
        Yield(n, owner) == <<Ask("del", n, NoPeer), Ask("node", n, owner)>>
                           \o (IF HasKeys(n) THEN <<Ask("keys", n, owner)>> ELSE <<>>)
    IN \E owner \in clusterManagerGetNodeWithMostKeysInSlot(owners) :
          LET rest == others(owner)
          IN job' = [job EXCEPT !.seen = <<>>, !.contested = TRUE,
                        !.todo = <<Ask("own", owner, NoPeer)>>
                                 \o FlattenSeq([i \in 1..Cardinality(rest) |->
                                                  Yield(SetToSeq(rest)[i], owner)])]

clusterManagerCheckCluster ==
    LET seen == job.seen
        open == \E n \in DOMAIN seen : {seen[n].migrating, seen[n].importing} # {NoPeer}
        claims == {n \in DOMAIN seen : seen[n].owns}
        owners == {n \in DOMAIN seen : seen[n].owns \/ HasKeys(n)}
    IN /\ job.slot # 0 /\ job.todo = <<>> /\ off = {}
       /\ CASE open -> clusterManagerFixOpenSlot
            [] ~open /\ claims = {} -> clusterManagerFixSlotsCoverage
            [] ~open /\ claims # {} /\ Cardinality(owners) > 1 ->
                  clusterManagerFixMultipleSlotOwners(owners)
            [] OTHER -> job' = NoJob
       /\ UNCHANGED <<view, bus, off, apart, plan, left, elected, client>>

-----------------------------------------------------------------------------
ManagerInit ==
    /\ ClusterInit
    /\ job = [slot |-> 0, seen |-> <<>>, todo |-> <<>>, contested |-> FALSE]

ManagerNext ==
    \/ ClusterNext /\ UNCHANGED job
    \/ \E j \in plan.slots, src, dst \in plan.nodes : clusterManagerCommandReshard(j, src, dst)
    \/ \E j \in plan.slots : clusterManagerLoadInfo(j)
    \/ clusterManagerCheckCluster
    \/ SendCommand
    \/ clusterManagerMigrateKeysInSlot
    \/ ToolDies

\* A key that a client was told is stored is stored by a node that serves or imports
\* its slot, or knows no owner of it, while slots move, migrations are interrupted
\* and fixed, nodes restart and masters are replaced by agreement (getNodeByQuery,
\* migrateCommand, clusterManagerMoveSlot, clusterHandleManualFailover).  Fixing a
\* slot whose keys are in two nodes is excepted.
KeysKept ==
    job.contested \/
    \A k \in client.acked :
       \E n \in plan.nodes : /\ k \in view[n].keys
                             /\ \/ view[n].slots[k[1]] \in {n, NoPeer}
                                \/ view[n].importing[k[1]] # NoPeer

NoNews(n, r) == r.sent = {} /\ clusterBeforeSleep(n, r.c) = view[n]

\* No heartbeat would tell anybody anything.
Quiet ==
    /\ bus = {} /\ off = {} /\ apart = {}
    /\ \A n \in plan.nodes :
          /\ view[n].known = plan.nodes /\ view[n].meeting = {}
          /\ \A j \in plan.slots : {view[n].migrating[j], view[n].importing[j]} = {NoPeer}
    /\ \A n \in plan.nodes : \A m \in plan.nodes \ {n} :
          NoNews(n, ProcessPing(n, view[n], clusterBuildMessageHdr(m, view[m]),
                                Gossip(view[m], plan.nodes \ {m, n}), TRUE, TRUE))

\* Heartbeats settle who owns a slot: once they carry no news and no slot is
\* open, a slot that some node claims is that node's in every node's table, after
\* any elections, takeovers, bumped epochs, joins and resharding
\* (clusterUpdateSlotsConfigWith, clusterHandleConfigEpochCollision).  Nothing is
\* said once an operator unassigns a slot: its owner does not announce that.
QuietAgrees ==
    Quiet /\ {"delslots", "flushslots"} \cap plan.orders = {} /\ ~job.contested =>
       \A j \in plan.slots, n \in plan.nodes :
          view[n].slots[j] = n => \A m \in plan.nodes : view[m].slots[j] = n
=============================================================================
