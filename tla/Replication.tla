---------------------------- MODULE Replication ----------------------------
(***************************************************************************)
(* Master/replica synchronisation of the vendored Redis (replication.c).   *)
(*                                                                         *)
(* Every instance is a master or a replica of another instance, replicas   *)
(* of replicas included.  A dataset is the sequence of the writes that     *)
(* built it; a stream item is one command: a write, or a PING, which moves *)
(* offsets and changes no data.  A replica has at most one connection, to  *)
(* its master; chan holds what the master's side wrote and the replica has *)
(* not read, "eof" last when the master's side closed.  When the replica's *)
(* side closes, the master drops its client in the same step.              *)
(***************************************************************************)
EXTENDS Integers, Sequences, FiniteSets, SequencesExt, FiniteSetsExt

CONSTANTS Instances,      \* the servers
          NoOne,          \* REPLICAOF NO ONE, and no connection
          BacklogSize,    \* repl-backlog-size, in commands
          Topologies      \* the budgets and settings Init chooses from

VARIABLES srv,     \* what each server holds in memory
          chan,    \* master to replica: written and not yet read
          req,     \* replica to master: the PSYNC not yet handled
          disk,    \* dump.rdb of each server
          topo,    \* the chosen member of Topologies
          used     \* how many writes, faults and commands have been spent

replicationVars == <<srv, chan, req, disk, topo, used>>

None == [none |-> TRUE]
NoSlave == [replstate |-> "NONE", initial |-> 0, buf |-> <<>>, ack |-> 0,
            onack |-> FALSE, bulk |-> None]
NoFailover == [state |-> "NO_FAILOVER", target |-> NoOne, force |-> FALSE,
               timed |-> FALSE]
Handshake == {"CONNECTING", "RECEIVE_PSYNC_REPLY"}
Eof == [t |-> "eof"]
PingItem == 0

ASSUME ReplicationAssumption ==
    /\ NoOne \notin Instances
    /\ BacklogSize \in Nat \ {0}
    /\ \A t \in Topologies :
          /\ t.diskless \in BOOLEAN /\ t.swapdb \in BOOLEAN
          /\ DOMAIN t.roles \subseteq t.members /\ t.members \subseteq Instances
          /\ {t.writes, t.pings, t.faults, t.admin, t.saves} \subseteq Nat

(***************************************************************************)
(* A helper of the code that changes a server, its connections and its     *)
(* replicas is an operator from one such triple to the next.               *)
(***************************************************************************)
World == [srv |-> srv, chan |-> chan, req |-> req]

Becomes(w) == /\ srv' = w.srv
              /\ chan' = w.chan
              /\ req' = w.req

Spend(what) == /\ used[what] < topo[what]
               /\ used' = [used EXCEPT ![what] = @ + 1]

Attached(s) == {r \in Instances : s.slaves[r] # NoSlave}

-----------------------------------------------------------------------------
(* Replication IDs and the backlog.                                        *)

changeReplicationId(s) == [s EXCEPT !.runs = @ + 1,
                                    !.replid = [by |-> s.name, run |-> s.runs + 1]]

clearReplicationId2(s) == [s EXCEPT !.replid2 = None, !.second = -1]

shiftReplicationId(s) ==
    changeReplicationId([s EXCEPT !.replid2 = s.replid, !.second = s.offset + 1])

createReplicationBacklog(s) ==
    [s EXCEPT !.backlog = [first |-> s.offset + 1, log |-> <<>>]]

freeReplicationBacklog(s) == [s EXCEPT !.backlog = None]

\* A block is one command; one that a waiting replica still refers to stays.
incrementalTrimReplicationBacklog(s) ==
    LET held == {s.offset + 1 - Len(s.slaves[r].buf) :
                     r \in {x \in Attached(s) : s.slaves[x].buf # <<>>}}
        over == Len(s.backlog.log) - (BacklogSize + 1)
        cut  == Max({0, Min({over} \cup {h - s.backlog.first : h \in held})})
    IN IF s.backlog = None THEN s
       ELSE [s EXCEPT !.backlog = [first |-> @.first + cut,
                                   log |-> SubSeq(@.log, cut + 1, Len(@.log))]]

canFeedReplicaReplBuffer(c) == c.replstate \notin {"NONE", "WAIT_BGSAVE_START"}

Streams(c) == c.replstate = "ONLINE" /\ ~c.onack

feedReplicationBuffer(w, m, item) ==
    LET s == w.srv[m]
        fed == {r \in Instances : canFeedReplicaReplBuffer(s.slaves[r])}
        now == {r \in fed : Streams(s.slaves[r])}
        t == [s EXCEPT !.offset = @ + 1,
                       !.backlog.log = Append(@, item),
                       !.slaves = [r \in fed \ now |->
                            [s.slaves[r] EXCEPT !.buf = Append(@, item)]] @@ @]
    IN IF s.backlog = None THEN w
       ELSE [w EXCEPT !.srv[m] = incrementalTrimReplicationBacklog(t),
                      !.chan = [r \in now |->
                            Append(w.chan[r], [t |-> "cmd", item |-> item])] @@ @]

-----------------------------------------------------------------------------
(* Closing a connection, from either side.                                 *)

FreeSlaves(w, m, gone) ==
    [w EXCEPT !.srv[m] = incrementalTrimReplicationBacklog(
                             [@ EXCEPT !.slaves = [r \in gone |-> NoSlave] @@ @]),
              !.chan = [r \in gone |-> Append(w.chan[r], Eof)] @@ @]

disconnectSlaves(w, m) == FreeSlaves(w, m, Attached(w.srv[m]))

CloseLink(w, r) ==
    LET m == w.srv[r].conn
        v == [w EXCEPT !.srv[r].conn = NoOne,
                       !.chan[r] = <<>>,
                       !.req[r] = None]
    IN IF m = NoOne THEN w
       ELSE [v EXCEPT !.srv[m] = incrementalTrimReplicationBacklog(
                                     [@ EXCEPT !.slaves[r] = NoSlave])]

connectWithMaster(w, r) ==
    [w EXCEPT !.srv[r].repl_state = "CONNECTING",
              !.srv[r].conn = w.srv[r].masterhost]

cancelReplicationHandshake(w, r, reconnect) ==
    LET v == [CloseLink(w, r) EXCEPT !.srv[r].repl_state = "CONNECT"]
    IN IF w.srv[r].repl_state \notin Handshake \cup {"TRANSFER"} THEN w
       ELSE IF reconnect THEN connectWithMaster(v, r) ELSE v

replicationCacheMaster(w, r) ==
    LET v == [CloseLink(w, r) EXCEPT !.srv[r].cached = w.srv[r].master,
                                     !.srv[r].master = None,
                                     !.srv[r].repl_state = "CONNECT"]
    IN IF v.srv[r].masterhost # NoOne THEN connectWithMaster(v, r) ELSE v

replicationCacheMasterUsingMyself(s) ==
    [s EXCEPT !.cached = [replid |-> s.replid, reploff |-> s.offset]]

FreeMaster(w, r) == IF w.srv[r].master = None THEN w
                    ELSE replicationCacheMaster(w, r)

replicationSetMaster(w, r, host) ==
    LET was_master == w.srv[r].masterhost = NoOne
        freed == FreeMaster([w EXCEPT !.srv[r].masterhost = NoOne], r)
        quiet == cancelReplicationHandshake(
                     [freed EXCEPT !.srv[r].masterhost = host], r, FALSE)
        v == IF was_master
             THEN [quiet EXCEPT !.srv[r] = replicationCacheMasterUsingMyself(@)]
             ELSE quiet
    IN connectWithMaster(v, r)

replicationUnsetMaster(w, r) ==
    LET freed == FreeMaster([w EXCEPT !.srv[r].masterhost = NoOne], r)
        quiet == cancelReplicationHandshake(
                     [freed EXCEPT !.srv[r].cached = None], r, FALSE)
        v == [quiet EXCEPT !.srv[r] = shiftReplicationId(@)]
    IN IF w.srv[r].masterhost = NoOne THEN w
       ELSE [disconnectSlaves(v, r) EXCEPT !.srv[r].repl_state = "NONE"]

-----------------------------------------------------------------------------
(* The master's side of a synchronisation.                                 *)

rdbPopulateSaveInfo(s) == \/ s.masterhost = NoOne /\ s.backlog # None
                          \/ s.master # None
                          \/ s.cached # None

RdbOf(s) == [data |-> s.data,
             info |-> IF rdbPopulateSaveInfo(s)
                      THEN [replid |-> s.replid, reploff |-> s.offset] ELSE None]

replicationSetupSlaveForFullResync(w, m, r, offset) ==
    [w EXCEPT !.srv[m].slaves[r].replstate = "WAIT_BGSAVE_END",
              !.srv[m].slaves[r].initial = offset,
              !.chan[r] = Append(@, [t |-> "FULLRESYNC", offset |-> offset,
                                     replid |-> w.srv[m].replid])]

\* Every waiting replica joins the save; the fork fails when ok is FALSE.
startBgsaveForReplication(w, m, ok) ==
    LET s == w.srv[m]
        waiting == {r \in Instances : s.slaves[r].replstate = "WAIT_BGSAVE_START"}
        forked == [w EXCEPT !.srv[m].child =
                       [type |-> IF topo.diskless THEN "SOCKET" ELSE "DISK",
                        rdb |-> RdbOf(s), killed |-> FALSE]]
        Join(v, r) == replicationSetupSlaveForFullResync(v, m, r, s.offset)
    IN IF ok /\ rdbPopulateSaveInfo(s)
       THEN FoldLeft(Join, forked, SetToSeq(waiting))
       ELSE FreeSlaves([w EXCEPT !.chan = [r \in waiting |->
                Append(w.chan[r], [t |-> "ERR"])] @@ @], m, waiting)

\* Mutant: an old ID is served past the offset at which it was left.
ServesPastSecondOffset(s, q) ==
    /\ q.replid \in {s.replid, s.replid2}
    /\ s.backlog # None
    /\ q.offset \in s.backlog.first .. s.backlog.first + Len(s.backlog.log)

masterTryPartialResynchronization(s, q) ==
    /\ \/ q.replid = s.replid
       \/ q.replid = s.replid2 /\ q.offset <= s.second
    /\ s.backlog # None
    /\ q.offset \in s.backlog.first .. s.backlog.first + Len(s.backlog.log)

\* CONTINUE, then the backlog from the requested offset on.
addReplyReplicationBacklog(w, m, r, offset) ==
    LET s == w.srv[m]
        tail == SubSeq(s.backlog.log, offset - s.backlog.first + 1, Len(s.backlog.log))
    IN [w EXCEPT !.srv[m].slaves[r] = [NoSlave EXCEPT !.replstate = "ONLINE"],
                 !.chan[r] = Append(@, [t |-> "CONTINUE", replid |-> s.replid])
                    \o [i \in DOMAIN tail |-> [t |-> "cmd", item |-> tail[i]]]]

Refuse(w, r, why) == [w EXCEPT !.chan[r] = Append(@, [t |-> why])]

\* A replica that waits for the running save lends its buffer to the next.
FullResync(w, m, r, ok) ==
    LET added == [w EXCEPT !.srv[m].slaves[r] =
                      [NoSlave EXCEPT !.replstate = "WAIT_BGSAVE_START"]]
        first == Attached(added.srv[m]) = {r} /\ w.srv[m].backlog = None
        v == IF first
             THEN [added EXCEPT !.srv[m] = createReplicationBacklog(
                       clearReplicationId2(changeReplicationId(@)))]
             ELSE added
        s == v.srv[m]
        ends == {x \in Instances : s.slaves[x].replstate = "WAIT_BGSAVE_END"}
        other == CHOOSE x \in ends : TRUE
    IN CASE s.child # None /\ s.child.type = "DISK" /\ ends # {} ->
              replicationSetupSlaveForFullResync(
                  [v EXCEPT !.srv[m].slaves[r].buf = s.slaves[other].buf],
                  m, r, s.slaves[other].initial)
         [] s.child = None /\ ~topo.diskless -> startBgsaveForReplication(v, m, ok)
         [] OTHER -> v

syncCommand(w, m, r, q, ok) ==
    LET v == IF q.failover THEN replicationUnsetMaster(w, m) ELSE w
        s == v.srv[m]
    IN CASE q.failover /\ \/ w.srv[m].masterhost = NoOne
                          \/ q.replid # w.srv[m].replid -> Refuse(w, r, "ERR")
         [] s.fo.state # "NO_FAILOVER" -> Refuse(v, r, "NOMASTERLINK")
         [] s.masterhost # NoOne /\ s.repl_state # "CONNECTED" ->
              Refuse(v, r, "NOMASTERLINK")
         [] masterTryPartialResynchronization(s, q) ->
              addReplyReplicationBacklog(v, m, r, q.offset)
         [] OTHER -> FullResync(v, m, r, ok)

\* Mutant: a failed save leaves its replicas attached, waiting.
FailedSaveKeepsSlaves(w, m, ok) ==
    LET s == w.srv[m]
        ends == {r \in Instances : s.slaves[r].replstate = "WAIT_BGSAVE_END"}
        rdb == [t |-> "rdb", rdb |-> s.child.rdb]
    IN IF ok THEN [w EXCEPT !.srv[m].slaves = [r \in ends |-> [s.slaves[r] EXCEPT
                            !.replstate = "SEND_BULK", !.bulk = rdb]] @@ @]
       ELSE w

updateSlavesWaitingBgsave(w, m, ok) ==
    LET s == w.srv[m]
        ends == {r \in Instances : s.slaves[r].replstate = "WAIT_BGSAVE_END"}
        rdb == [t |-> "rdb", rdb |-> s.child.rdb]
    IN CASE ~ok -> FreeSlaves(w, m, ends)
         [] s.child.type = "SOCKET" ->
              [w EXCEPT !.srv[m].slaves = [r \in ends |-> [s.slaves[r] EXCEPT
                            !.replstate = "ONLINE", !.onack = TRUE]] @@ @,
                        !.chan = [r \in ends |-> Append(w.chan[r], rdb)] @@ @]
         [] OTHER ->
              [w EXCEPT !.srv[m].slaves = [r \in ends |-> [s.slaves[r] EXCEPT
                            !.replstate = "SEND_BULK", !.bulk = rdb]] @@ @]

replicaStartCommandStream(w, m, r) ==
    LET buf == w.srv[m].slaves[r].buf
    IN [w EXCEPT !.srv[m].slaves[r].onack = FALSE,
                 !.srv[m].slaves[r].buf = <<>>,
                 !.chan[r] = @ \o
                    [i \in DOMAIN buf |-> [t |-> "cmd", item |-> buf[i]]]]

\* Mutant: off by one, a replica one command behind counts.
CountsOneBehind(s, offset) ==
    Cardinality({r \in Instances : /\ s.slaves[r].replstate = "ONLINE"
                                   /\ s.slaves[r].ack + 1 >= offset})

replicationCountAcksByOffset(s, offset) ==
    Cardinality({r \in Instances : /\ s.slaves[r].replstate = "ONLINE"
                                   /\ s.slaves[r].ack >= offset})

\* What WAIT would answer the client of the last write.
waitCommand(s) == replicationCountAcksByOffset(s, s.wrote.woff)

-----------------------------------------------------------------------------
(* The replica's side of a synchronisation.                                *)

clearFailoverState(w, r) == [w EXCEPT !.srv[r].fo = NoFailover]

abortFailover(w, r) ==
    clearFailoverState(IF w.srv[r].fo.state = "FAILOVER_IN_PROGRESS"
                       THEN replicationUnsetMaster(w, r) ELSE w, r)

\* The same ID keeps the sub-replicas; a new one makes them ask again.
ResumeStream(w, r, new) ==
    LET s == w.srv[r]
        v == IF new = s.cached.replid THEN w
             ELSE disconnectSlaves([w EXCEPT
                      !.srv[r].replid2 = s.cached.replid,
                      !.srv[r].second = s.offset + 1,
                      !.srv[r].replid = new,
                      !.srv[r].cached.replid = new], r)
    IN [v EXCEPT !.srv[r].master = v.srv[r].cached,
                 !.srv[r].cached = None,
                 !.srv[r].repl_state = "CONNECTED",
                 !.srv[r].backlog = IF @ = None
                    THEN createReplicationBacklog(v.srv[r]).backlog ELSE @]

slaveTryPartialResynchronization(w, r, reply) ==
    LET s == w.srv[r]
        granted == reply.t \in {"FULLRESYNC", "CONTINUE"}
        v == IF granted THEN clearFailoverState(w, r) ELSE w
    IN CASE s.fo.state = "FAILOVER_IN_PROGRESS" /\ ~granted -> abortFailover(w, r)
         [] reply.t = "CONTINUE" -> ResumeStream(v, r, reply.replid)
         [] reply.t = "FULLRESYNC" ->
              [v EXCEPT !.srv[r].repl_state = "TRANSFER",
                        !.srv[r].initial = [replid |-> reply.replid,
                                            reploff |-> reply.offset]]
         [] reply.t = "ERR" -> [v EXCEPT !.srv[r].repl_state = "TRANSFER"]
         [] OTHER -> [CloseLink(v, r) EXCEPT !.srv[r].repl_state = "CONNECT"]

replicationAttachToNewMaster(w, r) ==
    LET v == disconnectSlaves([w EXCEPT !.srv[r].cached = None], r)
    IN [v EXCEPT !.srv[r] = freeReplicationBacklog(@)]

\* The end of a full resynchronisation: the master's ID and offset are ours.
SyncDone(s, rdb) ==
    createReplicationBacklog(clearReplicationId2(
        [s EXCEPT !.data = rdb.data, !.master = s.initial,
                  !.repl_state = "CONNECTED",
                  !.replid = s.initial.replid, !.offset = s.initial.reploff]))

readSyncBulkPayload(w, r, rdb, ok) ==
    LET killed == IF w.srv[r].child = None THEN w
                  ELSE [w EXCEPT !.srv[r].child.killed = TRUE]
        v == replicationAttachToNewMaster(killed, r)
    IN CASE ok -> [v EXCEPT !.srv[r] = SyncDone(@, rdb)]
         [] ~ok /\ topo.swapdb -> cancelReplicationHandshake(killed, r, TRUE)
         [] OTHER -> cancelReplicationHandshake(
                         [v EXCEPT !.srv[r].data = <<>>], r, TRUE)

\* commandProcessed, then the bytes go on to the sub-replicas as they came.
replicationFeedStreamFromMasterStream(w, r, item) ==
    feedReplicationBuffer(
        [w EXCEPT !.srv[r].master.reploff = @ + 1,
                  !.srv[r].data = IF item = PingItem THEN @ ELSE Append(@, item)],
        r, item)

\* freeClient of the master, or the end of an unfinished synchronisation.
MasterDisconnected(w, r) ==
    CASE w.srv[r].master # None -> replicationCacheMaster(w, r)
      [] w.srv[r].fo.state = "FAILOVER_IN_PROGRESS"
         /\ w.srv[r].repl_state = "RECEIVE_PSYNC_REPLY" -> abortFailover(w, r)
      [] w.srv[r].repl_state = "TRANSFER" -> cancelReplicationHandshake(w, r, TRUE)
      [] OTHER -> [CloseLink(w, r) EXCEPT !.srv[r].repl_state = "CONNECT"]

-----------------------------------------------------------------------------
(* The steps of a server: commands of clients and operators, messages,     *)
(* timers, ends of child processes, and faults.                            *)

FreshServer(n, runs) ==
    [name |-> n, masterhost |-> NoOne, conn |-> NoOne, repl_state |-> "NONE",
     runs |-> runs, replid |-> [by |-> n, run |-> runs], replid2 |-> None, second |-> -1,
     offset |-> 0, backlog |-> None, master |-> None, cached |-> None,
     initial |-> None, slaves |-> [r \in Instances |-> NoSlave], child |-> None,
     data |-> <<>>, wrote |-> [item |-> PingItem, woff |-> 0], fo |-> NoFailover]

\* The configuration file may already say replicaof.
ReplicationInit ==
    /\ topo \in Topologies
    /\ srv = [n \in Instances |->
                 IF n \notin DOMAIN topo.roles THEN FreshServer(n, 0)
                 ELSE [FreshServer(n, 0) EXCEPT !.masterhost = topo.roles[n],
                                                !.repl_state = "CONNECT"]]
    /\ chan = [n \in Instances |-> <<>>]
    /\ req = [n \in Instances |-> None]
    /\ disk = [n \in Instances |-> None]
    /\ used = [writes |-> 0, pings |-> 0, faults |-> 0, admin |-> 0, saves |-> 0]

\* A client writes to a master; FAILOVER pauses writes.
replicationFeedSlaves(n) ==
    LET item == used.writes + 1
        w == feedReplicationBuffer(
                 [World EXCEPT !.srv[n].data = Append(@, item)], n, item)
    IN /\ srv[n].masterhost = NoOne
       /\ srv[n].fo.state = "NO_FAILOVER"
       /\ Spend("writes")
       /\ Becomes([w EXCEPT !.srv[n].wrote = [item |-> item,
                                              woff |-> w.srv[n].offset]])
       /\ UNCHANGED <<disk, topo>>

PingReplicas(n) ==
    /\ srv[n].masterhost = NoOne
    /\ Attached(srv[n]) # {}
    /\ ~(srv[n].fo.timed /\ srv[n].fo.state # "NO_FAILOVER")
    /\ Spend("pings")
    /\ Becomes(feedReplicationBuffer(World, n, PingItem))
    /\ UNCHANGED <<disk, topo>>

Connect(r) ==
    /\ srv[r].repl_state = "CONNECT"
    /\ Becomes(connectWithMaster(World, r))
    /\ UNCHANGED <<disk, topo, used>>

syncWithMaster(r) ==
    LET s == srv[r]
        from == IF s.cached = None THEN [replid |-> None, offset |-> -1]
                ELSE [replid |-> s.cached.replid, offset |-> s.cached.reploff + 1]
    IN /\ s.repl_state = "CONNECTING"
       /\ chan[r] = <<>>
       /\ Becomes([World EXCEPT
              !.srv[r].repl_state = "RECEIVE_PSYNC_REPLY",
              !.req[r] = [replid |-> from.replid, offset |-> from.offset,
                          failover |-> s.fo.state = "FAILOVER_IN_PROGRESS"]])
       /\ UNCHANGED <<disk, topo, used>>

\* ok is FALSE when the fork for the full resynchronisation fails.
HandleSync(m, r) ==
    /\ req[r] # None
    /\ srv[r].conn = m
    /\ \E ok \in BOOLEAN :
          /\ IF ok THEN UNCHANGED used ELSE Spend("faults")
          /\ Becomes(syncCommand([World EXCEPT !.req[r] = None], m, r, req[r], ok))
    /\ UNCHANGED <<disk, topo>>

ReadReply(r) ==
    /\ chan[r] # <<>> /\ Head(chan[r]) # Eof
    /\ srv[r].repl_state = "RECEIVE_PSYNC_REPLY"
    /\ Becomes(slaveTryPartialResynchronization(
                   [World EXCEPT !.chan[r] = Tail(@)], r, Head(chan[r])))
    /\ UNCHANGED <<disk, topo, used>>

ReadPayload(r) ==
    /\ chan[r] # <<>> /\ Head(chan[r]).t = "rdb"
    /\ srv[r].repl_state = "TRANSFER"
    /\ \E ok \in BOOLEAN :
          /\ IF ok THEN UNCHANGED used ELSE Spend("faults")
          /\ Becomes(readSyncBulkPayload([World EXCEPT !.chan[r] = Tail(@)], r,
                                         Head(chan[r]).rdb, ok))
    /\ disk' = IF topo.swapdb THEN disk
               ELSE [disk EXCEPT ![r] = Head(chan[r]).rdb]
    /\ UNCHANGED topo

ReadStream(r) ==
    /\ chan[r] # <<>> /\ Head(chan[r]).t = "cmd"
    /\ srv[r].repl_state = "CONNECTED"
    /\ Becomes(replicationFeedStreamFromMasterStream(
                   [World EXCEPT !.chan[r] = Tail(@)], r, Head(chan[r]).item))
    /\ UNCHANGED <<disk, topo, used>>

ReadEof(r) ==
    /\ chan[r] # <<>> /\ Head(chan[r]) = Eof
    /\ Becomes(MasterDisconnected(World, r))
    /\ UNCHANGED <<disk, topo, used>>

\* REPLCONF ACK, on its way no longer than it takes to handle it.
SendAck(r) ==
    LET m == srv[r].conn
        off == srv[r].master.reploff
        w == [World EXCEPT !.srv[m].slaves[r].ack = Max({@, off})]
        c == srv[m].slaves[r]
    IN /\ srv[r].master # None
       /\ c.replstate = "ONLINE"
       /\ c.ack < off \/ c.onack
       /\ Becomes(IF c.onack THEN replicaStartCommandStream(w, m, r) ELSE w)
       /\ UNCHANGED <<disk, topo, used>>

sendBulkToSlave(m, r) ==
    LET c == srv[m].slaves[r]
    IN /\ c.replstate = "SEND_BULK"
       /\ Becomes(replicaStartCommandStream(
              [World EXCEPT !.srv[m].slaves[r].replstate = "ONLINE",
                            !.srv[m].slaves[r].bulk = None,
                            !.chan[r] = Append(@, c.bulk)], m, r))
       /\ UNCHANGED <<disk, topo, used>>

replicationStartPendingFork(m) ==
    /\ srv[m].child = None
    /\ \E r \in Instances : srv[m].slaves[r].replstate = "WAIT_BGSAVE_START"
    /\ \E ok \in BOOLEAN :
          /\ IF ok THEN UNCHANGED used ELSE Spend("faults")
          /\ Becomes(startBgsaveForReplication(World, m, ok))
    /\ UNCHANGED <<disk, topo>>

bgsaveCommand(m) ==
    /\ srv[m].child = None
    /\ Spend("saves")
    /\ Becomes([World EXCEPT !.srv[m].child =
                   [type |-> "DISK", rdb |-> RdbOf(srv[m]), killed |-> FALSE]])
    /\ UNCHANGED <<disk, topo>>

backgroundSaveDoneHandler(m) ==
    LET c == srv[m].child
    IN /\ c # None
       /\ \E ok \in BOOLEAN :
             /\ c.killed => ~ok
             /\ IF ok \/ c.killed THEN UNCHANGED used ELSE Spend("faults")
             /\ Becomes([updateSlavesWaitingBgsave(World, m, ok) EXCEPT
                            !.srv[m].child = None])
             /\ disk' = IF ok /\ c.type = "DISK"
                        THEN [disk EXCEPT ![m] = c.rdb] ELSE disk
       /\ UNCHANGED topo

replicaofCommand(r, host) ==
    /\ srv[r].fo.state = "NO_FAILOVER"
    /\ host # r /\ host # srv[r].masterhost
    /\ Spend("admin")
    /\ Becomes(IF host = NoOne THEN replicationUnsetMaster(World, r)
               ELSE replicationSetMaster(World, r, host))
    /\ UNCHANGED <<disk, topo>>

failoverCommand(n) ==
    /\ srv[n].fo.state = "NO_FAILOVER"
    /\ srv[n].masterhost = NoOne
    /\ Attached(srv[n]) # {}
    /\ \E target \in {NoOne} \cup {r \in Instances :
                                     srv[n].slaves[r].replstate = "ONLINE"},
          force \in BOOLEAN, timed \in BOOLEAN :
          /\ force => timed /\ target # NoOne
          /\ Becomes([World EXCEPT !.srv[n].fo =
                 [state |-> "FAILOVER_WAIT_FOR_SYNC", target |-> target,
                  force |-> force, timed |-> timed]])
    /\ Spend("admin")
    /\ UNCHANGED <<disk, topo>>

failoverAbort(n) ==
    /\ srv[n].fo.state # "NO_FAILOVER"
    /\ Spend("admin")
    /\ Becomes(abortFailover(World, n))
    /\ UNCHANGED <<disk, topo>>

FailOverTo(n, target) ==
    replicationSetMaster([World EXCEPT
        !.srv[n].fo.state = "FAILOVER_IN_PROGRESS",
        !.srv[n].fo.target = target], n, target)

\* Mutant: any replica that is online counts as caught up.
FailoverToAnyReplica(n) ==
    LET fo == srv[n].fo
        caught == {r \in Attached(srv[n]) : srv[n].slaves[r].replstate = "ONLINE"}
    IN /\ fo.state = "FAILOVER_WAIT_FOR_SYNC"
       /\ \/ fo.target = NoOne /\ \E r \in caught : Becomes(FailOverTo(n, r))
          \/ fo.target \in caught /\ Becomes(FailOverTo(n, fo.target))
       /\ UNCHANGED <<disk, topo, used>>

updateFailoverStatus(n) ==
    LET fo == srv[n].fo
        caught == {r \in Attached(srv[n]) : srv[n].slaves[r].ack = srv[n].offset}
    IN /\ fo.state = "FAILOVER_WAIT_FOR_SYNC"
       /\ \/ fo.timed /\ fo.force /\ Becomes(FailOverTo(n, fo.target))
          \/ fo.timed /\ ~fo.force /\ Becomes(abortFailover(World, n))
          \/ fo.target = NoOne /\ \E r \in caught : Becomes(FailOverTo(n, r))
          \/ fo.target \in caught /\ Becomes(FailOverTo(n, fo.target))
       /\ UNCHANGED <<disk, topo, used>>

\* replicationCron: a master left without replicas reclaims the backlog.
ReclaimBacklog(n) ==
    /\ srv[n].masterhost = NoOne /\ srv[n].backlog # None
    /\ Attached(srv[n]) = {}
    /\ Spend("faults")
    /\ Becomes([World EXCEPT !.srv[n] = freeReplicationBacklog(
                   clearReplicationId2(changeReplicationId(@)))])
    /\ UNCHANGED <<disk, topo>>

\* A connection breaks, or one of its ends times out.
LoseLink(r) ==
    /\ srv[r].conn # NoOne
    /\ chan[r] # <<>> => Last(chan[r]) # Eof
    /\ Spend("faults")
    /\ LET m == srv[r].conn
           w == IF srv[m].slaves[r] = NoSlave THEN World
                ELSE FreeSlaves(World, m, {r})
       IN Becomes([w EXCEPT !.chan[r] = <<Eof>>, !.req[r] = None])
    /\ UNCHANGED <<disk, topo>>

loadDataFromDisk(s, rdb) ==
    LET info == rdb.info
    IN CASE rdb = None -> s
         [] info = None -> [s EXCEPT !.data = rdb.data]
         [] s.masterhost # NoOne ->
              replicationCacheMasterUsingMyself([s EXCEPT !.data = rdb.data,
                  !.replid = info.replid, !.offset = info.reploff])
         [] OTHER ->
              createReplicationBacklog([s EXCEPT !.data = rdb.data,
                  !.replid2 = info.replid, !.second = info.reploff + 1,
                  !.offset = info.reploff])

\* A crash and the restart, with the role kept in the configuration or lost.
Restart(n) ==
    /\ Spend("faults")
    /\ LET w == CloseLink(disconnectSlaves(World, n), n)
           peers == {r \in Instances : w.srv[r].conn = n}
           lost == [w EXCEPT !.chan = [r \in peers |-> <<Eof>>] @@ @,
                             !.req = [r \in peers |-> None] @@ @]
       IN \E host \in {NoOne, srv[n].masterhost} :
             Becomes([lost EXCEPT !.srv[n] = loadDataFromDisk(
                 [FreshServer(n, srv[n].runs + 1) EXCEPT
                     !.masterhost = host,
                     !.repl_state = IF host = NoOne THEN "NONE" ELSE "CONNECT"],
                 disk[n])])
    /\ UNCHANGED <<disk, topo>>

ReplicationNext ==
    \E n \in topo.members :
       \/ replicationFeedSlaves(n)
       \/ PingReplicas(n)
       \/ Connect(n)
       \/ syncWithMaster(n)
       \/ ReadReply(n)
       \/ ReadPayload(n)
       \/ ReadStream(n)
       \/ ReadEof(n)
       \/ SendAck(n)
       \/ replicationStartPendingFork(n)
       \/ bgsaveCommand(n)
       \/ backgroundSaveDoneHandler(n)
       \/ failoverCommand(n)
       \/ failoverAbort(n)
       \/ updateFailoverStatus(n)
       \/ ReclaimBacklog(n)
       \/ LoseLink(n)
       \/ Restart(n)
       \/ \E r \in Instances : \/ HandleSync(n, r)
                               \/ sendBulkToSlave(n, r)
       \/ \E host \in topo.members \cup {NoOne} : replicaofCommand(n, host)

ReplicationSpec == ReplicationInit /\ [][ReplicationNext]_replicationVars

-----------------------------------------------------------------------------

\* The writes among stream items, in order.
Writes(items) == SelectSeq(items, LAMBDA i : i # PingItem)

Commands(msgs) == [i \in DOMAIN msgs |-> msgs[i].item]

(***************************************************************************)
(* What a synchronised replica has applied, followed by what its master    *)
(* still has on the way to it (on the connection, and in the buffer kept   *)
(* while the RDB is transferred), is its master's dataset: whatever mix of *)
(* full and partial resynchronisations, of replication IDs, saves, lost    *)
(* links and restarts led there, no write is missing, repeated or foreign. *)
(***************************************************************************)
StreamComplete ==
    \A r \in Instances :
       LET m == srv[r].conn
       IN srv[r].master # None /\ srv[m].slaves[r] # NoSlave =>
            srv[r].data \o Writes(Commands(chan[r]) \o srv[m].slaves[r].buf)
                = srv[m].data

(***************************************************************************)
(* Nobody waits for a message nobody will send: when no connection, save   *)
(* or request is under way, every replica is connected to its master and   *)
(* holds its master's data.  A PSYNC left unanswered, or a replica left    *)
(* out of every save, would stay in RECEIVE_PSYNC_REPLY or TRANSFER.       *)
(***************************************************************************)
NothingLeftWaiting ==
    (\A n \in Instances :
        /\ chan[n] = <<>> /\ req[n] = None /\ srv[n].child = None
        /\ srv[n].repl_state \notin {"CONNECT", "CONNECTING"}
        /\ \A r \in Instances :
              /\ srv[n].slaves[r].replstate \notin {"WAIT_BGSAVE_START", "SEND_BULK"}
              /\ ~srv[n].slaves[r].onack)
    => \A r \in Instances : srv[r].masterhost # NoOne =>
          /\ srv[r].repl_state = "CONNECTED"
          /\ srv[r].data = srv[srv[r].masterhost].data

(***************************************************************************)
(* WAIT counts only replicas that hold the write: the replicas that        *)
(* acknowledged the offset of a client's last write have that write.  Left *)
(* out are a write made at offset 0, before there is a stream to           *)
(* acknowledge, and one the master itself lost when it was a replica.      *)
(***************************************************************************)
WaitCountsHolders ==
    \A m \in {x \in Instances : /\ srv[x].masterhost = NoOne
                                /\ srv[x].wrote.woff > 0
                                /\ Contains(srv[x].data, srv[x].wrote.item)} :
       waitCommand(srv[m]) <=
          Cardinality({r \in Instances \ {m} :
                         Contains(srv[r].data, srv[m].wrote.item)})

(***************************************************************************)
(* FAILOVER without FORCE loses nothing: the replica that the PSYNC with   *)
(* FAILOVER promotes holds exactly the data of the master stepping down,   *)
(* as long as the link over which it acknowledged that data is up.         *)
(***************************************************************************)
PromotedFor(r, m) ==
    /\ req[r] # None /\ req[r].failover /\ srv[r].conn = m
    /\ srv[m].masterhost # NoOne /\ srv'[m].masterhost = NoOne
    /\ req'[r] = None /\ chan'[r] # <<Eof>>

FailoverLosesNothing ==
    [][\A r, m \in Instances :
          PromotedFor(r, m) /\ ~srv[r].fo.force /\ srv[r].slaves[m] # NoSlave
             => srv[m].data = srv[r].data
      ]_replicationVars

=============================================================================
