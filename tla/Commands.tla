------------------------------ MODULE Commands ------------------------------
(***************************************************************************)
(* How the vendored Redis runs a command (server.c, blocked.c): it calls   *)
(* the procedure, hands what must be propagated to the replicas and to the *)
(* AOF, and serves the clients that were blocked on the keys it made       *)
(* ready, all in one step of the event loop.                               *)
(***************************************************************************)
EXTENDS Lists, Sets, Strings, ZSets, Streams

\* c->cmd->proc(c).
proc(x) ==
    LET op == x.argv.op
    IN  CASE op = "exists" -> existsCommand(x)
          [] op = "del" -> delGenericCommand(x)
          [] op = "rename" -> renameGenericCommand(x)
          [] op = "move" -> moveCommand(x)
          [] op = "copy" -> copyCommand(x)
          [] op = "swapdb" -> swapdbCommand(x)
          [] op = "flush" -> flushCommand(x)
          [] op = "expire" -> expireGenericCommand(x)
          [] op = "persist" -> persistCommand(x)
          [] op = "set" -> setGenericCommand(x)
          [] op = "getex" -> getexCommand(x)
          [] op = "getdel" -> getdelCommand(x)
          [] op = "getset" -> getsetCommand(x)
          [] op = "setrange" -> setrangeCommand(x)
          [] op = "append" -> appendCommand(x)
          [] op = "mset" -> msetGenericCommand(x)
          [] op = "incr" -> incrDecrCommand(x)
          [] op = "incrbyfloat" -> incrbyfloatCommand(x)
          [] op = "push" -> pushGenericCommand(x)
          [] op = "pop" -> popGenericCommand(x)
          [] op = "lmpop" -> mpopGenericCommand(x)
          [] op = "blpop" -> blockingPopGenericCommand(x)
          [] op = "lmove" -> lmoveGenericCommand(x)
          [] op = "blmove" -> blmoveGenericCommand(x)
          [] op = "lset" -> lsetCommand(x)
          [] op = "linsert" -> linsertCommand(x)
          [] op = "ltrim" -> ltrimCommand(x)
          [] op = "lrem" -> lremCommand(x)
          [] op = "sadd" -> saddCommand(x)
          [] op = "srem" -> sremCommand(x)
          [] op = "smove" -> smoveCommand(x)
          [] op = "spop" -> spopCommand(x)
          [] op = "spopcount" -> spopWithCountCommand(x)
          [] op = "sstore" -> storeSetCommand(x)
          [] op = "hset" -> hsetCommand(x)
          [] op = "hincrby" -> hincrbyCommand(x)
          [] op = "hincrbyfloat" -> hincrbyfloatCommand(x)
          [] op = "hdel" -> hdelCommand(x)
          [] op = "zadd" -> zaddGenericCommand(x)
          [] op = "zrem" -> zremCommand(x)
          [] op = "zremrange" -> zremrangeGenericCommand(x)
          [] op = "zpop" -> zpopMinMaxCommand(x)
          [] op = "zmpop" -> zmpopCommand(x)
          [] op = "bzpop" -> blockingGenericZpopCommand(x)
          [] op = "zstore" -> zunionInterDiffGenericCommand(x)
          [] op = "zrangestore" -> zrangestoreCommand(x)
          [] op = "xadd" -> xaddCommand(x)
          [] op = "xtrim" -> xtrimCommand(x)
          [] op = "xdel" -> xdelCommand(x)
          [] op = "xsetid" -> xsetidCommand(x)
          [] op = "xgroup" -> xgroupCommand(x)
          [] op = "xack" -> xackCommand(x)
          [] op = "xread" -> xreadCommand(x)
          [] op = "xclaim" -> xclaimCommand(x)
          [] op = "xautoclaim" -> xautoclaimCommand(x)

\* What a command that only reads tells its client about its keys.
Reads(x) ==
    IF x.argv.op # "exists" THEN <<>>
    ELSE [i \in DOMAIN x.argv.ks |->
             [kind |-> "read", k |-> x.argv.ks[i], v |-> lookupKey(x, x.argv.ks[i])]]

\* The command goes last, after what it propagated itself: the deletion of an
\* expired key that it met, or what stands for it.
Propagated(x) ==
    LET told == [x EXCEPT !.events = @ \o Reads(x)]
    IN  IF ~x.prevent /\ (x.dirty \/ x.force) THEN alsoPropagate(told, x.argv) ELSE told

call(x, argv) ==
    Propagated(proc([x EXCEPT !.argv = argv, !.dirty = FALSE, !.force = FALSE, !.prevent = FALSE]))

\* One key that was made ready.  A key of another type than a client waits
\* for leaves it waiting, unless it reads a stream with a group.
ServeReadyKey(x0, k) ==
    WithKey(x0, k, LAMBDA x, o :
        IF o.t = "stream" THEN serveClientsBlockedOnStreamKey(x, k)
        ELSE unblockDeletedStreamReadgroupClients(
                 CASE o.t = "list" -> serveClientsBlockedOnListKey(x, k)
                   [] o.t = "zset" -> serveClientsBlockedOnSortedSetKey(x, k)
                   [] OTHER -> x, k))

handleReadyKeysOnce(x) ==
    FoldLeft(LAMBDA y, k : ServeReadyKey([y EXCEPT !.ready = Tail(@)], k), x, x.ready)

\* Again and again, because a client that is served may push to another key.
RECURSIVE handleClientsBlockedOnKeys(_)
handleClientsBlockedOnKeys(x) ==
    IF x.ready = <<>> THEN x
    ELSE handleClientsBlockedOnKeys(ServeReadyKey([x EXCEPT !.ready = Tail(@)], Head(x.ready)))

-----------------------------------------------------------------------------
(***************************************************************************)
(* MULTI, EXEC and WATCH (multi.c).  A transaction state t holds, for      *)
(* every client, its flags and its queue, and, for every key,              *)
(* db->watched_keys: who watches it, in the order they began, and whether  *)
(* the key was expired already when they did.                              *)
(***************************************************************************)
NoTransactions ==
    [flags |-> [c \in Clients |-> {}], queue |-> [c \in Clients |-> <<>>],
     watched |-> [k \in Key |-> <<>>]]

unwatchAllKeys(t, c) ==
    [t EXCEPT !.watched = [k \in Key |-> SelectSeq(@[k], LAMBDA wk : wk.c # c)]]

discardTransaction(t, c) ==
    unwatchAllKeys([t EXCEPT !.flags[c] = {}, !.queue[c] = <<>>], c)

\* A command that is refused while a transaction is queued.
flagTransaction(t, c) ==
    IF "MULTI" \in t.flags[c] THEN [t EXCEPT !.flags[c] = @ \cup {"DIRTY_EXEC"}] ELSE t

\* Nothing more is queued once the transaction is known to fail.
queueMultiCommand(t, c, argv) ==
    IF t.flags[c] \cap {"DIRTY_CAS", "DIRTY_EXEC"} # {} THEN t
    ELSE [t EXCEPT !.queue[c] = Append(@, argv)]

multiCommand(t, c) == [t EXCEPT !.flags[c] = @ \cup {"MULTI"}]

discardCommand(t, c) == IF "MULTI" \in t.flags[c] THEN discardTransaction(t, c) ELSE t

Watches(t, c, k) == \E i \in DOMAIN t.watched[k] : t.watched[k][i].c = c

watchForKey(t, x, c, k) ==
    IF Watches(t, c, k) THEN t
    ELSE [t EXCEPT !.watched[k] = Append(@, [c |-> c, expired |-> keyIsExpired(x, k)])]

watchCommand(t, x, c, ks) ==
    IF t.flags[c] # {} THEN t ELSE FoldLeft(LAMBDA u, k : watchForKey(u, x, c, k), t, ks)

unwatchCommand(t, c) == unwatchAllKeys([t EXCEPT !.flags[c] = @ \ {"DIRTY_CAS"}], c)

(***************************************************************************)
(* Keys that change.                                                       *)
(***************************************************************************)
DirtyCas(t, cs) ==
    [t EXCEPT !.flags = [c \in Clients |-> IF c \in cs THEN @[c] \cup {"DIRTY_CAS"} ELSE @[c]]]

\* The deletion of a key that was expired when it was watched is no change; any
\* other signal stops at the first client that watched the key when expired.
touchWatchedKey(t, e) ==
    LET wks == t.watched[e.k]
        expired == {i \in DOMAIN wks : wks[i].expired}
        told == {i \in DOMAIN wks : /\ ~wks[i].expired
                                    /\ e.gone \/ \A j \in expired : i < j}
        dirty == {wks[i].c : i \in told}
        u == IF e.gone
             THEN [t EXCEPT !.watched[e.k] = [i \in DOMAIN wks |-> [wks[i] EXCEPT !.expired = FALSE]]]
             ELSE t
    IN  FoldSet(LAMBDA c, a : unwatchAllKeys(a, c), DirtyCas(u, dirty), dirty)

touchAllWatchedKeysInDb(t, e) ==
    LET wks == t.watched[e.k]
        same(wk) == IF wk.expired THEN ~e.is \/ e.dead ELSE ~e.was /\ e.dead
        after(wk) == IF ~same(wk) THEN wk ELSE [wk EXCEPT !.expired = e.is]
        dirty == {wks[i].c : i \in {j \in DOMAIN wks : ~same(wks[j])}}
    IN  IF ~e.was /\ ~e.is THEN t
        ELSE DirtyCas([t EXCEPT !.watched[e.k] = [i \in DOMAIN wks |-> after(wks[i])]], dirty)

TouchWatched(t, events) ==
    FoldLeft(LAMBDA u, e : CASE e.kind = "key" -> touchWatchedKey(u, e)
                             [] e.kind = "db" -> touchAllWatchedKeysInDb(u, e)
                             [] OTHER -> u,
             t, events)

(***************************************************************************)
(* EXEC.                                                                   *)
(***************************************************************************)
isWatchedKeyExpired(t, x, c) ==
    \E k \in Key : keyIsExpired(x, k)
                   /\ \E i \in DOMAIN t.watched[k] : t.watched[k][i] = [c |-> c, expired |-> FALSE]

execIgnoringExpired(t, x, c) ==
    "MULTI" \in t.flags[c] /\ t.flags[c] \cap {"DIRTY_CAS", "DIRTY_EXEC"} = {}

\* Whether EXEC runs what was queued.
Executes(t, x, c) ==
    /\ "MULTI" \in t.flags[c]
    /\ t.flags[c] \cap {"DIRTY_CAS", "DIRTY_EXEC"} = {}
    /\ ~isWatchedKeyExpired(t, x, c)

\* The queued commands run as one, and cannot block.
execCommand(t, x, c) ==
    IF Executes(t, x, c) THEN [FoldLeft(call, [x EXCEPT !.deny = TRUE], t.queue[c]) EXCEPT !.deny = FALSE]
    ELSE x

=============================================================================
