------------------------------ MODULE Keyspace ------------------------------
(***************************************************************************)
(* The keyspace of the vendored Redis: the two tables of a database (db.c),*)
(* the clock that empties them (expire.c), and the clients that block for  *)
(* keys (blocked.c).                                                       *)
(*                                                                         *)
(* A command is one atomic step of the server, but what it does depends on *)
(* who runs it: a master expires keys as it meets them, a replica applying *)
(* the stream of its master and a server loading its append only file do   *)
(* not.  Every operator below takes and returns an execution x: the server *)
(* as the running command sees it.                                         *)
(***************************************************************************)
EXTENDS Integers, FiniteSets, SequencesExt

CONSTANTS
    Dbs,        \* database numbers
    Names,      \* key names
    Clients,    \* connections that may block
    Second,     \* milliseconds in a second
    MaxInt      \* LLONG_MAX

Key == Dbs \X Names

Nil == [t |-> "none"]

NoExpire == -1

NoClient == "nobody"

NotBlocked == [btype |-> "none"]

(***************************************************************************)
(* role: "master", "replica" (running the master's stream), "reader" (a    *)
(*   replica answering its own clients) or "loading" (replaying the AOF);  *)
(* now: server.mstime, fixed while a command runs; seed: what random       *)
(*   choices and the rounding of this machine come out as;                 *)
(* dict, expires: the tables of all databases;                             *)
(* argv: the command, as rewritten so far; dirty, force, prevent: whether  *)
(*   server.dirty grew, CLIENT_FORCE_REPL/AOF, CLIENT_PREVENT_PROP;        *)
(* also: server.also_propagate; events: what watchers and caches are told; *)
(* blocking, bpop, ready: db->blocking_keys, c->bpop, server.ready_keys;   *)
(* client, deny: the client and CLIENT_DENY_BLOCKING.                      *)
(***************************************************************************)
Execution(role, now, seed, client, deny, m) ==
    [role |-> role, now |-> now, seed |-> seed, client |-> client, deny |-> deny,
     dict |-> m.dict, expires |-> m.expires,
     blocking |-> m.blocking, bpop |-> m.bpop, ready |-> <<>>,
     argv |-> [op |-> "none"], dirty |-> FALSE, force |-> FALSE, prevent |-> FALSE,
     also |-> <<>>, events |-> <<>>]

(***************************************************************************)
(* Signals and propagation.                                                *)
(***************************************************************************)
Dirty(x) == [x EXCEPT !.dirty = TRUE]

\* What the replicas and the AOF get instead of the command as it was sent.
rewriteClientCommandVector(x, argv) == [x EXCEPT !.argv = argv]

alsoPropagate(x, argv) == [x EXCEPT !.also = Append(@, argv)]

Tell(x, e) == [x EXCEPT !.events = Append(@, e)]

\* gone: the signal of a deletion comes after it.
Modified(x, k, by) == [kind |-> "key", k |-> k, gone |-> x.dict[k] = Nil, by |-> by]

signalModifiedKey(x, k) == Tell(x, Modified(x, k, x.client))

\* A database that is emptied or exchanged: whether the key was there, whether
\* one takes its place, and whether that one is expired.
Replaced(k, was, is, dead) == [kind |-> "db", k |-> k, was |-> was, is |-> is, dead |-> dead]

signalKeyAsReady(x, k, type) ==
    IF /\ type \in {"list", "zset", "stream"}
       /\ \E c \in Clients : x.bpop[c].btype = type
       /\ x.blocking[k] # <<>>
       /\ k \notin Range(x.ready)
    THEN [x EXCEPT !.ready = Append(@, k)]
    ELSE x

(***************************************************************************)
(* Adding, overwriting and deleting entries.  An overwritten value keeps   *)
(* the expire of its key; a deleted one does not.                          *)
(***************************************************************************)
getExpire(x, k) == x.expires[k]

setExpire(x, k, when) == [x EXCEPT !.expires[k] = when]

removeExpire(x, k) == [x EXCEPT !.expires[k] = NoExpire]

dbAdd(x, k, v) == signalKeyAsReady([x EXCEPT !.dict[k] = v], k, v.t)

dbOverwrite(x, k, v) ==
    LET y == IF x.dict[k].t = "stream" THEN signalKeyAsReady(x, k, "stream") ELSE x
    IN  [y EXCEPT !.dict[k] = v]

\* A key that is freed in the background is gone from the tables at once.
dbGenericDelete(x, k) ==
    LET y == IF x.dict[k].t = "stream" THEN signalKeyAsReady(x, k, "stream") ELSE x
    IN  [y EXCEPT !.dict[k] = Nil, !.expires[k] = NoExpire]

(***************************************************************************)
(* Expiration on access.                                                   *)
(***************************************************************************)
keyIsExpired(x, k) ==
    /\ getExpire(x, k) # NoExpire
    /\ x.role # "loading"
    /\ x.now > getExpire(x, k)

propagateDeletion(x, k) == alsoPropagate(x, [op |-> "del", ks |-> <<k>>])

\* No client did it.
deleteExpiredKeyAndPropagate(x, k) ==
    LET y == dbGenericDelete(x, k)
    IN  propagateDeletion(Tell(y, Modified(y, k, NoClient)), k)

\* Deletes what expired when a replica runs the stream, as a master does.
expireIfNeededAnywhere(x, k) ==
    IF keyIsExpired(x, k) THEN deleteExpiredKeyAndPropagate(x, k) ELSE x

\* The stream of the master is never second-guessed, and readers of a replica
\* are told that the key is gone without deleting it.
expireIfNeeded(x, k) ==
    IF keyIsExpired(x, k) /\ x.role = "master"
    THEN deleteExpiredKeyAndPropagate(x, k)
    ELSE x

\* What a lookup finds once expireIfNeeded ran.
lookupKey(x, k) ==
    IF keyIsExpired(x, k) /\ x.role # "replica" THEN Nil ELSE x.dict[k]

checkType(o, type) == o = Nil \/ o.t = type

\* What is stored at a key, new or not.
Put(x, k, v) == IF lookupKey(x, k) = Nil THEN dbAdd(x, k, v) ELSE dbOverwrite(x, k, v)

\* setKey: the expire goes unless KEEPTTL is given.
KeepTtl(x, k, keepttl) == IF keepttl THEN x ELSE removeExpire(x, k)

setKey(x, k, v, keepttl) ==
    signalModifiedKey(KeepTtl(Put(expireIfNeeded(x, k), k, v), k, keepttl), k)

(***************************************************************************)
(* Commands on keys of any type.  A command reads its arguments from the   *)
(* fields of x.argv and leaves x as it was when it fails.                  *)
(***************************************************************************)
\* A key that a master looks up, to read or to write.
Looked(x, k) == expireIfNeeded(x, k)

\* What a command does with the server and the value once it looked a key up.
Found(x, k, Do(_, _)) == Do(x, lookupKey(x, k))

WithKey(x, k, Do(_, _)) == Found(Looked(x, k), k, Do)

\* EXISTS, TYPE, TTL, OBJECT and the other commands that only look keys up.
existsCommand(x) == FoldLeft(Looked, x, x.argv.ks)

\* DEL and UNLINK.
DeleteOne(x, k) ==
    IF x.dict[k] = Nil THEN x ELSE Dirty(signalModifiedKey(dbGenericDelete(x, k), k))

delGenericCommand(x) ==
    FoldLeft(LAMBDA y, k : DeleteOne(expireIfNeeded(y, k), k), x, x.argv.ks)

\* A value that comes with its expire.
WithExpire(x, k, expire) == IF expire # NoExpire THEN setExpire(x, k, expire) ELSE x

Place(x, k, o, expire) == WithExpire(dbAdd(x, k, o), k, expire)

Cleared(x, k, o) == IF o # Nil THEN dbGenericDelete(x, k) ELSE x

\* RENAME and RENAMENX: the value moves with its expire, which replaces that
\* of the target.
renameGenericCommand(x0) ==
    LET from == x0.argv.k
        to == x0.argv.to
    IN  WithKey(x0, from, LAMBDA x, o :
            IF o = Nil \/ from = to THEN x
            ELSE WithKey(x, to, LAMBDA y, p :
                IF x0.argv.nx /\ p # Nil THEN y
                ELSE Dirty(signalModifiedKey(signalModifiedKey(dbGenericDelete(
                         Place(Cleared(y, to, p), to, o, getExpire(x, from)), from), from), to))))

\* MOVE: to the same name in another database, if it is free there.
moveCommand(x0) ==
    LET src == x0.argv.k
        dst == <<x0.argv.db, src[2]>>
    IN  IF src = dst THEN x0
        ELSE WithKey(x0, src, LAMBDA x, o :
            IF o = Nil THEN x
            ELSE WithKey(x, dst, LAMBDA y, p :
                IF p # Nil THEN y
                ELSE Dirty(signalModifiedKey(signalModifiedKey(dbGenericDelete(
                         Place(y, dst, o, getExpire(x, src)), src), src), dst))))

copyCommand(x0) ==
    LET src == x0.argv.k
        dst == x0.argv.to
    IN  IF src = dst THEN x0
        ELSE WithKey(x0, src, LAMBDA x, o :
            IF o = Nil THEN x
            ELSE WithKey(x, dst, LAMBDA y, p :
                IF p # Nil /\ ~x0.argv.replace THEN y
                ELSE Dirty(signalModifiedKey(
                         Place(Cleared(y, dst, p), dst, o, getExpire(x, src)), dst))))

\* An aggregate that is changed in place, and goes when it is empty.
SetValue(x, k, v) == [x EXCEPT !.dict[k].v = v]

SetOrDelete(x, k, v, empty) == IF v = empty THEN dbGenericDelete(x, k) ELSE SetValue(x, k, v)

\* SWAPDB exchanges the tables; clients stay blocked in the database they
\* were in, and what they wait for may be there now, or be gone.
Other(x, k) == <<IF k[1] = x.argv.db THEN x.argv.with ELSE x.argv.db, k[2]>>

Exchanged(x, here, f) == [k \in here |-> f[Other(x, k)]] @@ f

\* First those who wait for a stream that goes, then the watchers, and after the
\* exchange those who wait for what came.
LostStreams(x, here) ==
    FoldSet(LAMBDA k, a : signalKeyAsReady(a, k, "stream"), x,
            {k \in here : x.dict[k].t = "stream" /\ x.dict[Other(x, k)].t # "stream"})

TellExchanged(x, y, here) ==
    FoldSet(LAMBDA k, a : Tell(a, Replaced(k, x.dict[k] # Nil, x.dict[Other(x, k)] # Nil,
                                           keyIsExpired(x, Other(x, k)))), y, here)

scanDatabaseForReadyKeys(x, here) ==
    FoldSet(LAMBDA k, a : IF x.blocking[k] = <<>> THEN a
                          ELSE signalKeyAsReady(a, k, x.dict[k].t), x, here)

dbSwapDatabases(x) ==
    LET here == {k \in Key : k[1] \in {x.argv.db, x.argv.with}}
    IN  scanDatabaseForReadyKeys(
            [TellExchanged(x, LostStreams(x, here), here) EXCEPT
                !.dict = Exchanged(x, here, @), !.expires = Exchanged(x, here, @)], here)

swapdbCommand(x) == Dirty(IF x.argv.db = x.argv.with THEN x ELSE dbSwapDatabases(x))

\* Whoever waits for a stream, watches a key or keeps a cache is told before
\* the tables are emptied.
TellFlushed(x, y, gone) ==
    Tell(FoldSet(LAMBDA k, a : Tell(a, Replaced(k, x.dict[k] # Nil, FALSE, FALSE)), y, gone),
         [kind |-> "flush"])

signalFlushedDb(x, gone) ==
    TellFlushed(x, FoldSet(LAMBDA k, a : IF a.dict[k].t # "stream" THEN a
                                         ELSE signalKeyAsReady(a, k, "stream"), x, gone), gone)

Emptied(x, gone) ==
    [x EXCEPT !.dict = [k \in gone |-> Nil] @@ @,
              !.expires = [k \in gone |-> NoExpire] @@ @,
              !.dirty = @ \/ \E k \in gone : x.dict[k] # Nil]

emptyData(x, dbs) ==
    LET gone == {k \in Key : k[1] \in dbs}
    IN  Emptied(signalFlushedDb(x, gone), gone)

\* FLUSHDB and FLUSHALL are propagated even if there was nothing to flush.
flushCommand(x) == [emptyData(x, x.argv.dbs) EXCEPT !.force = TRUE]

(***************************************************************************)
(* Commands on expires.                                                    *)
(***************************************************************************)
\* Never on a replica or when loading: there the key waits for its DEL.
checkAlreadyExpired(x, when) == when <= x.now /\ x.role = "master"

\* A time as a command gives it: relative or not, in seconds or not.
Milliseconds(x, ttl) ==
    (IF ttl.unit = "s" THEN ttl.n * Second ELSE ttl.n) + (IF ttl.relative THEN x.now ELSE 0)

At(when) == [unit |-> "ms", relative |-> FALSE, n |-> when]

\* DEL or UNLINK in place of a command that found the time already past.
DeleteInstead(x, k) ==
    Dirty(signalModifiedKey(rewriteClientCommandVector(
        dbGenericDelete(x, k), [op |-> "del", ks |-> <<k>>]), k))

\* Whether NX, XX, GT and LT let the expire be set.  No expire counts as an
\* infinite one.
FlagsAllow(flags, when, current) ==
    /\ "NX" \in flags => current = NoExpire
    /\ "XX" \in flags => current # NoExpire
    /\ "GT" \in flags => current # NoExpire /\ when > current
    /\ "LT" \in flags => current = NoExpire \/ when < current

\* What parseExtendedExpireArgumentsOrReply accepts.
ExpireFlags == {{}, {"NX"}, {"XX"}, {"GT"}, {"LT"}, {"XX", "GT"}, {"XX", "LT"}}

\* EXPIRE, PEXPIRE, EXPIREAT and PEXPIREAT: PEXPIREAT is what is propagated.
expireGenericCommand(x0) ==
    LET k == x0.argv.k
        when == Milliseconds(x0, x0.argv.ttl)
    IN  WithKey(x0, k, LAMBDA x, o :
            IF o = Nil \/ ~FlagsAllow(x.argv.flags, when, getExpire(x, k)) THEN x
            ELSE IF checkAlreadyExpired(x, when) THEN DeleteInstead(x, k)
            ELSE Dirty(signalModifiedKey(rewriteClientCommandVector(
                     setExpire(x, k, when), [x.argv EXCEPT !.ttl = At(when)]), k)))

persistCommand(x0) ==
    LET k == x0.argv.k
    IN  WithKey(x0, k, LAMBDA x, o :
            IF o = Nil \/ getExpire(x, k) = NoExpire THEN x
            ELSE Dirty(signalModifiedKey(removeExpire(x, k), k)))

\* One pass of activeExpireCycle over the keys it happens to sample.
activeExpireCycle(x, sampled) ==
    FoldSet(LAMBDA k, y : IF getExpire(y, k) # NoExpire /\ y.now > getExpire(y, k)
                          THEN deleteExpiredKeyAndPropagate(y, k) ELSE y,
            x, sampled)

\* A command without a target key.
NoKey == <<>>

\* COUNT not given.
NoCount == -1

AtMost(count, n) == IF count > n THEN n ELSE count

(***************************************************************************)
(* Blocking.  c->bpop holds the keys, what to pop from where and, for      *)
(* BLMOVE, the target.                                                     *)
(***************************************************************************)
\* A key given twice is waited for once.
blockForKeys(x, b) ==
    [x EXCEPT !.bpop[x.client] = b,
              !.blocking = [k \in Key |-> IF k \in Range(b.keys) THEN Append(@[k], x.client)
                                          ELSE @[k]]]

\* unblockClient and unblockClientWaitingData: off the queue of every key.
unblockClient(x, c) ==
    [x EXCEPT !.bpop[c] = NotBlocked,
              !.blocking = [k \in Key |-> IF k \in Range(x.bpop[c].keys)
                                          THEN SelectSeq(@[k], LAMBDA d : d # c)
                                          ELSE @[k]]]

(***************************************************************************)
(* Commands that take several keys.                                        *)
(***************************************************************************)
\* The keys a command with many looks up: all before the first that exists,
\* and that one.
FirstExisting(x, ks) ==
    LET found == {i \in DOMAIN ks : lookupKey(x, ks[i]) # Nil}
    IN  IF found = {} THEN 0 ELSE CHOOSE i \in found : \A j \in found : i <= j

LookedUntilFirst(x, ks, first) ==
    FoldLeft(Looked, x, IF first = 0 THEN ks ELSE SubSeq(ks, 1, first))

FoundFirst(x, ks, Do(_, _)) == Do(x, FirstExisting(x, ks))

WithFirst(x, ks, Do(_, _)) == FoundFirst(LookedUntilFirst(x, ks, FirstExisting(x, ks)), ks, Do)

\* The keys that are looked up before one of another type ends the command.
Typed(x, k, types) == [x |-> x, stop |-> lookupKey(x, k).t \notin types \cup {"none"}]

LookedTyped(x, ks, types) ==
    FoldLeft(LAMBDA y, k : IF y.stop THEN y ELSE Typed(Looked(y.x, k), k, types),
             [x |-> x, stop |-> FALSE], ks)

\* The target of a command that stores its result: replaced or, by an empty
\* result, deleted, even if it expired unnoticed.
StoreResult(x, k, o, empty) ==
    IF o.v # empty THEN Dirty(setKey(x, k, o, FALSE))
    ELSE IF x.dict[k] = Nil THEN x
    ELSE Dirty(signalModifiedKey(dbGenericDelete(x, k), k))

=============================================================================
