------------------------------ MODULE Dataset -------------------------------
(***************************************************************************)
(* A vendored Redis master with its clients, a replica that follows it at  *)
(* a distance and with a clock of its own, and the append only file, kept  *)
(* as the dataset that a later restart would load from it.                 *)
(***************************************************************************)
EXTENDS Tracking

CONSTANTS
    Loads,      \* workloads: [name, argvs: what each client may send, steps: how often,
                \*   seeds, until: the last millisecond]
    MaxLag,     \* batches the replica may be behind
    Skew,       \* how far the replica's clock is ahead
    Restart,    \* when the AOF is loaded
    MaxTracked  \* tracking-table-max-keys

VARIABLES
    load,
    master,     \* [dict, expires, blocking, bpop]
    replica,    \* [dict, expires, blocking, bpop]: nobody blocks here
    aof,        \* the same
    pending,    \* batches of commands on their way to the replica
    now,
    steps,
    multi,      \* transactions and watched keys
    track,      \* client side caching
    watch       \* history: [wanted: what each client asked to watch, stale: whether
                \*   that changed since, torn: whether an EXEC ran although it had]

datasetVars == <<load, master, replica, aof, pending, now, steps, multi, track, watch>>

NoData ==
    [dict |-> [k \in Key |-> Nil], expires |-> [k \in Key |-> NoExpire],
     blocking |-> [k \in Key |-> <<>>], bpop |-> [c \in Clients |-> NotBlocked]]

DatasetInit ==
    /\ load \in Loads
    /\ master = NoData /\ replica = NoData /\ aof = NoData
    /\ pending = <<>>
    /\ now = 0 /\ steps = 0
    /\ multi = NoTransactions
    /\ track = NoTracking
    /\ watch = [wanted |-> [c \in Clients |-> {}], stale |-> [c \in Clients |-> FALSE],
                torn |-> FALSE]

(***************************************************************************)
(* What watchers of a key, and readers of a replica, are told about.  The  *)
(* groups of a stream and its counters change without a signal; a replica  *)
(* is not told of consumers that have nothing pending, of the counter      *)
(* behind the lag and of when a consumer read its own history again.       *)
(***************************************************************************)
Watched(o) == IF o.t = "stream" THEN [t |-> "stream", v |-> o.v.entries] ELSE o

GroupSeen(g) == [last |-> g.last, pel |-> [e \in DOMAIN g.pel |-> g.pel[e].c]]

Seen(o) ==
    IF o.t # "stream" THEN o
    ELSE [o EXCEPT !.v.groups = [g \in DOMAIN @ |-> GroupSeen(@[g])]]

Same(o, p) == o.t = p.t /\ o = p

Agrees(f) ==
    /\ f.expires = master.expires
    /\ \A k \in Key : Same(Seen(f.dict[k]), Seen(master.dict[k]))

(***************************************************************************)
(* Steps.                                                                  *)
(***************************************************************************)
DataOf(x) == [dict |-> x.dict, expires |-> x.expires, blocking |-> x.blocking, bpop |-> x.bpop]

\* A follower runs what it is sent, with its own clock and its own luck.
Replay(role, time, seed, f, argvs) ==
    DataOf(FoldLeft(call, Execution(role, time, seed, CHOOSE c \in Clients : TRUE, TRUE, f), argvs))

\* What a client would see of a key.
Logical(m, time, k) ==
    IF m.expires[k] # NoExpire /\ time > m.expires[k] THEN Nil ELSE Watched(m.dict[k])

Staler(w, m, time, n, later) ==
    [w EXCEPT !.stale = [c \in Clients |-> \/ @[c]
                                           \/ \E k \in w.wanted[c] :
                                                  ~Same(Logical(m, time, k), Logical(n, later, k))]]

Forgotten(w, c) == [w EXCEPT !.wanted[c] = {}, !.stale[c] = FALSE]

\* The end of a step of the master, as client c or by itself: blocked clients are
\* served, watchers and caches are told, the changes go to the AOF and to the
\* replica.
Finish(x, seed, c, t, w) ==
    LET y == handleClientsBlockedOnKeys(x)
    IN  /\ master' = DataOf(y)
        /\ aof' = Replay("loading", Restart, 1 - seed, aof, y.also)
        /\ pending' = IF y.also = <<>> THEN pending
                      ELSE Append(pending, [argvs |-> y.also, seed |-> 1 - seed])
        /\ multi' = TouchWatched(t, y.events)
        /\ track' = LET tr == TellCaches(track, c, y.events)
                    IN  IF c \in Clients /\ "MULTI" \notin multi'.flags[c] THEN ForgetCaching(tr, c) ELSE tr
        /\ watch' = Staler(w, master, now, DataOf(y), now)

Running(c, seed) == Execution("master", now, seed, c, FALSE, master)

\* A client that is not blocked sends a command.
Sends(c) ==
    /\ steps < load.steps
    /\ Len(pending) < MaxLag
    /\ master.bpop[c] = NotBlocked
    /\ steps' = steps + 1
    /\ UNCHANGED <<load, replica, now>>

Session == {"watch", "unwatch", "multi", "discard", "rejected", "tracking", "caching"}

processCommand(c, argv, seed) ==
    /\ argv.op \notin Session \cup {"exec"}
    /\ Sends(c)
    /\ IF "MULTI" \in multi.flags[c]
       THEN /\ multi' = queueMultiCommand(multi, c, argv)
            /\ UNCHANGED <<master, aof, pending, track, watch>>
       ELSE Finish(call(Running(c, seed), argv), seed, c, multi, watch)

\* Commands about the connection; in a transaction only WATCH, MULTI, DISCARD and
\* commands that are refused are sent.
processSessionCommand(c, argv) ==
    /\ argv.op \in Session
    /\ "MULTI" \in multi.flags[c] => argv.op \notin {"unwatch", "tracking", "caching"}
    /\ Sends(c)
    /\ multi' = CASE argv.op = "watch" -> watchCommand(multi, Running(c, 0), c, argv.ks)
                  [] argv.op = "unwatch" -> unwatchCommand(multi, c)
                  [] argv.op = "multi" -> multiCommand(multi, c)
                  [] argv.op = "discard" -> discardCommand(multi, c)
                  [] argv.op = "rejected" -> flagTransaction(multi, c)
                  [] OTHER -> multi
    /\ track' = CASE argv.op = "tracking" -> trackingCommand(track, c, argv.o)
                  [] argv.op = "caching" -> cachingCommand(track, c)
                  [] "MULTI" \in multi'.flags[c] -> track
                  [] OTHER -> ForgetCaching(track, c)
    /\ watch' = IF argv.op = "unwatch" \/ (argv.op = "discard" /\ multi' # multi)
                THEN Forgotten(watch, c)
                ELSE [watch EXCEPT !.wanted[c] = {k \in Key : k \in @ \/ Watches(multi', c, k)}]
    /\ UNCHANGED <<master, aof, pending>>

processExec(c, seed) ==
    LET x == Running(c, seed)
        runs == Executes(multi, x, c)
    IN  /\ "MULTI" \in multi.flags[c]
        /\ Sends(c)
        /\ Finish(execCommand(multi, x, c), seed, c, discardTransaction(multi, c),
                  [Forgotten(watch, c) EXCEPT !.torn = @ \/ (runs /\ watch.stale[c])])

\* serverCron samples some keys with an expire.
databasesCron(sampled) ==
    /\ Len(pending) < MaxLag
    /\ \E k \in sampled : master.expires[k] # NoExpire /\ now > master.expires[k]
    /\ Finish(activeExpireCycle(Running(NoClient, 0), sampled), 0, NoClient, multi, watch)
    /\ UNCHANGED <<load, replica, now, steps>>

\* A blocked client times out or hangs up.
clientsCronHandleTimeout(c) ==
    /\ master.bpop[c] # NotBlocked
    /\ Finish(unblockClient(Running(c, 0), c), 0, NoClient, multi, watch)
    /\ UNCHANGED <<load, replica, now, steps>>

\* Before the server sleeps.
beforeSleep ==
    /\ track' = trackingBroadcastInvalidationMessages(track)
    /\ track' # track
    /\ UNCHANGED <<load, master, replica, aof, pending, now, steps, multi, watch>>

\* serverCron finds more names in the tracking table than configured.
trackingCron(n) ==
    /\ Cardinality({m \in Names : track.table[m] # {}}) > MaxTracked
    /\ track.table[n] # {}
    /\ track' = trackingLimitUsedSlots(track, n)
    /\ UNCHANGED <<load, master, replica, aof, pending, now, steps, multi, watch>>

\* The replica applies the next batch of its master's stream.
replicaApply ==
    /\ pending # <<>>
    /\ replica' = Replay("replica", now + Skew, Head(pending).seed, replica, Head(pending).argvs)
    /\ pending' = Tail(pending)
    /\ UNCHANGED <<load, master, aof, now, steps, multi, track, watch>>

Tick ==
    /\ now < load.until
    /\ now' = now + 1
    /\ watch' = Staler(watch, master, now, master, now + 1)
    /\ UNCHANGED <<load, master, replica, aof, pending, steps, multi, track>>

DatasetNext ==
    \/ \E c \in DOMAIN load.argvs :
           \E argv \in load.argvs[c] :
               \/ \E seed \in load.seeds :
                      \/ processCommand(c, argv, seed)
                      \/ argv.op = "exec" /\ processExec(c, seed)
               \/ processSessionCommand(c, argv)
    \/ \E sampled \in SUBSET Key : databasesCron(sampled)
    \/ \E c \in Clients : clientsCronHandleTimeout(c)
    \/ beforeSleep
    \/ \E n \in Names : trackingCron(n)
    \/ replicaApply
    \/ Tick

(***************************************************************************)
(* Properties.                                                             *)
(***************************************************************************)
\* A replica that has applied all it was sent has the dataset of its master,
\* whatever the clock of the replica says and however its random choices and
\* floating point sums come out; and so has a server that loads the append only
\* file long after it was written.
FollowersAgree == Agrees(aof) /\ (pending = <<>> => Agrees(replica))

\* The pending entries of a group are in the table of the group and in the
\* table of exactly the consumer that owns them.
PelsAgree(s) ==
    \A g \in Range(s.groups) :
        /\ \A e \in DOMAIN g.pel : g.pel[e].c \in DOMAIN g.consumers
        /\ \A c \in DOMAIN g.consumers : g.consumers[c] = {e \in DOMAIN g.pel : g.pel[e].c = c}

Empty(o) ==
    CASE o.t = "list" -> o.v = <<>>
      [] o.t = "set" -> o.v = {}
      [] o.t \in {"hash", "zset"} -> DOMAIN o.v = {}
      [] OTHER -> FALSE

\* No command, failed ones included, leaves an empty list, set, hash or sorted
\* set in the keyspace or an expire without its key, and a stream's tables agree:
\* its first_id and last_id with its entries, a group's PEL with its consumers'.
KeyspaceSound ==
    \A k \in Key :
        LET o == master.dict[k]
        IN  /\ o = Nil => master.expires[k] = NoExpire
            /\ ~Empty(o)
            /\ o.t = "stream" => /\ o.v.first = EdgeOf(o.v.entries)
                                 /\ \A e \in o.v.entries : e <= o.v.last
                                 /\ PelsAgree(o.v)

\* Whether what a client that is blocked on key k waits for is there.
CouldServe(b, k) ==
    LET o == master.dict[k]
    IN  CASE b.btype # "stream" -> o.t = b.btype
          [] b.btype = "stream" /\ b.g = NoGroup ->
                 o.t = "stream" /\ \E e \in o.v.entries :
                     e > b.from[CHOOSE i \in DOMAIN b.keys : b.keys[i] = k]
          [] OTHER -> ~(/\ HasGroup(o, b.g)
                        /\ \A e \in o.v.entries : e <= o.v.groups[b.g].last)

\* Between two steps of the server no client is blocked on a key that could serve
\* it, and the clients queued for a key are those whose c->bpop names it, once.
NoLostWakeup ==
    \A c \in Clients :
        LET b == master.bpop[c]
        IN  /\ b # NotBlocked => \A k \in Range(b.keys) : ~CouldServe(b, k)
            /\ \A k \in Key :
                   Cardinality({i \in DOMAIN master.blocking[k] : master.blocking[k][i] = c})
                   = IF b = NotBlocked THEN 0 ELSE IF k \in Range(b.keys) THEN 1 ELSE 0

Before(k, c, d) ==
    \E i, j \in DOMAIN master.blocking[k] :
        i < j /\ master.blocking[k][i] = c /\ master.blocking[k][j] = d

\* Clients that pop from the same key are served in the order they blocked: a
\* command never serves one that waits for that key alone and leaves an earlier
\* one waiting.
ServedInOrder ==
    [][\A k \in Key, c, d \in Clients :
           (/\ steps' # steps
            /\ Before(k, c, d)
            /\ master.bpop[d].btype \in {"list", "zset"}
            /\ master.bpop[c].btype = master.bpop[d].btype
            /\ Range(master.bpop[d].keys) = {k}
            /\ master'.bpop[d] = NotBlocked)
           => master'.bpop[c] = NotBlocked]_datasetVars

\* An EXEC that runs finds every key as it was when its client watched it: no
\* command, expiry, flush or exchange of databases changed what a client sees of
\* it in between.
WatchHonest == ~watch.torn

\* A client that caches what it reads, and drops what it is told to drop, never
\* keeps a value the server no longer has, except for names whose invalidation is
\* about to be broadcast.
CachesCoherent ==
    \A c \in Clients, n \in Names :
        \/ track.cache[c][n] = NotCached
        \/ \E p \in PrefixesOf(track, c) : track.changed[p][n] # {}
        \/ Same(track.cache[c][n], master.dict[<<0, n>>])

=============================================================================
