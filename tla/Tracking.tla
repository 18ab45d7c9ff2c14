------------------------------ MODULE Tracking ------------------------------
(***************************************************************************)
(* Client side caching of the vendored Redis (tracking.c).  The server     *)
(* remembers by NAME, in whatever database, who read a key, or sends every *)
(* changed name to the clients of the prefixes it has.  Replies and        *)
(* invalidations share a connection and arrive in order, so the cache a    *)
(* client has after reading all it was sent is part of the state;          *)
(* redirected invalidations are left out.  A prefix is the set of names    *)
(* that begin with it.                                                     *)
(***************************************************************************)
EXTENDS Commands

NotCached == [t |-> "not cached"]

NoMode == [on |-> FALSE, bcast |-> FALSE, noloop |-> FALSE, opt |-> "none", caching |-> FALSE]

NamePrefixes == {p \in SUBSET Names : p # {}}

NoChanges == [n \in Names |-> {}]

NoTracking ==
    [mode |-> [c \in Clients |-> NoMode],
     table |-> [n \in Names |-> {}],
     prefixes |-> [p \in NamePrefixes |-> {}],         \* PrefixTable: bs->clients
     changed |-> [p \in NamePrefixes |-> NoChanges],   \* bs->keys: who changed each last
     cache |-> [c \in Clients |-> [n \in Names |-> NotCached]],
     unsent |-> {}]                                 \* tracking_pending_keys

(***************************************************************************)
(* CLIENT TRACKING and CLIENT CACHING.                                     *)
(***************************************************************************)
PrefixesOf(tr, c) == {p \in NamePrefixes : c \in tr.prefixes[p]}

\* The prefixes of a client do not overlap.  Of those that are given, only an
\* overlap with the first is refused.
checkPrefixCollisionsOrReply(tr, c, prefixes) ==
    LET overlap(p, q) == p \cap q # {}
    IN  /\ \A i \in DOMAIN prefixes : \A q \in PrefixesOf(tr, c) : ~overlap(prefixes[i], q)
        /\ \A j \in DOMAIN prefixes : j > 1 => ~overlap(prefixes[1], prefixes[j])

\* The client starts with an empty cache.
enableTracking(tr, c, o) ==
    LET prefixes == IF ~o.bcast THEN {} ELSE IF o.prefixes = <<>> THEN {Names} ELSE Range(o.prefixes)
    IN  [tr EXCEPT !.mode[c] = [on |-> TRUE, bcast |-> o.bcast, noloop |-> o.noloop, opt |-> o.opt,
                                caching |-> @.caching],
                   !.cache[c] = [n \in Names |-> NotCached],
                   !.prefixes = [p \in NamePrefixes |-> IF p \in prefixes THEN @[p] \cup {c} ELSE @[p]]]

\* A client that turns tracking off cannot trust its cache any more; the table
\* forgets it as keys change.
disableTracking(tr, c) ==
    [tr EXCEPT !.mode[c] = NoMode,
               !.prefixes = [p \in NamePrefixes |-> @[p] \ {c}],
               !.changed = [p \in NamePrefixes |-> IF tr.prefixes[p] = {c} THEN NoChanges ELSE @[p]],
               !.cache[c] = [n \in Names |-> NotCached]]

trackingCommand(tr, c, o) ==
    LET old == tr.mode[c]
    IN  IF ~o.on THEN disableTracking(tr, c)
        ELSE IF \/ ~o.bcast /\ o.prefixes # <<>>
                \/ old.on /\ old.bcast # o.bcast
                \/ o.bcast /\ o.opt # "none"
                \/ {old.opt, o.opt} = {"in", "out"}
                \/ o.bcast /\ ~checkPrefixCollisionsOrReply(tr, c, o.prefixes)
        THEN tr
        ELSE enableTracking(tr, c, o)

\* CLIENT CACHING YES or NO, for the next command.
cachingCommand(tr, c) ==
    IF tr.mode[c].opt = "none" THEN tr ELSE [tr EXCEPT !.mode[c].caching = TRUE]

\* resetClient, except inside a transaction.
ForgetCaching(tr, c) == [tr EXCEPT !.mode[c].caching = FALSE]

(***************************************************************************)
(* What a command tells the caches.                                        *)
(***************************************************************************)
\* The client knows as well as the server what it may cache.
trackingRememberKeys(tr, c, e) ==
    LET m == tr.mode[c]
        n == e.k[2]
        skip == \/ m.opt = "in" /\ ~m.caching
                \/ m.opt = "out" /\ m.caching
                \/ m.bcast /\ \A p \in PrefixesOf(tr, c) : n \notin p
    IN  IF ~m.on \/ skip THEN tr
        ELSE [tr EXCEPT !.table[n] = IF m.bcast THEN @ ELSE @ \cup {c}, !.cache[c][n] = e.v]

Uncached(tr, cs, n) ==
    [tr EXCEPT !.cache = [c \in Clients |-> IF c \in cs THEN [@[c] EXCEPT ![n] = NotCached] ELSE @[c]]]

Targets(tr, current, n) ==
    {c \in tr.table[n] : /\ tr.mode[c].on /\ ~tr.mode[c].bcast
                         /\ ~(tr.mode[c].noloop /\ c = current)}

\* For every prefix that somebody tracks and n begins with.
trackingRememberKeyToBroadcast(tr, n, by) ==
    [tr EXCEPT !.changed = [p \in NamePrefixes |-> IF n \in p /\ tr.prefixes[p] # {}
                                               THEN [@[p] EXCEPT ![n] = {by}] ELSE @[p]]]

\* The client whose command runs is never told.
invalidateKeyForReaders(tr, current, e) ==
    LET n == e.k[2]
        targets == Targets(tr, current, n)
    IN  [Uncached(trackingRememberKeyToBroadcast(tr, n, e.by), targets \ {current}, n) EXCEPT
            !.table[n] = {}]

\* The client whose command runs is told after its reply; every other now.
trackingInvalidateKey(tr, current, e) ==
    LET n == e.k[2]
        targets == Targets(tr, current, n)
    IN  [Uncached(trackingRememberKeyToBroadcast(tr, n, e.by), targets \ {current}, n) EXCEPT
            !.unsent = IF current \in targets THEN @ \cup {n} ELSE @,
            !.table[n] = {}]

trackingInvalidateKeysOnFlush(tr, current) ==
    [tr EXCEPT !.cache = [c \in Clients |-> IF tr.mode[c].on /\ c # current
                                            THEN [n \in Names |-> NotCached] ELSE @[c]],
               !.unsent = IF current \in Clients /\ tr.mode[current].on THEN Names ELSE @,
               !.table = [n \in Names |-> {}]]

trackingHandlePendingKeyInvalidations(tr, current) ==
    [FoldSet(LAMBDA n, a : Uncached(a, {current}, n), tr, tr.unsent) EXCEPT !.unsent = {}]

\* With NOLOOP a client is not told of what it does: it forgets the keys of
\* its own commands by itself.
ForgetOwn(tr, current, events) ==
    IF current \notin Clients \/ ~tr.mode[current].noloop THEN tr
    ELSE FoldSet(LAMBDA n, a : Uncached(a, {current}, n), tr,
                 {events[i].k[2] : i \in {j \in DOMAIN events : events[j].kind = "key"}})

TellCaches(tr, current, events) ==
    ForgetOwn(trackingHandlePendingKeyInvalidations(
        FoldLeft(LAMBDA a, e : CASE e.kind = "read" -> trackingRememberKeys(a, current, e)
                                 [] e.kind = "key" -> trackingInvalidateKey(a, current, e)
                                 [] e.kind = "flush" -> trackingInvalidateKeysOnFlush(a, current)
                                 [] OTHER -> a,
                 tr, events), current), current, events)

\* Before the server sleeps, what changed goes to the clients of each prefix.
trackingBroadcastInvalidationMessages(tr) ==
    LET told(c, n) == \E p \in PrefixesOf(tr, c) :
                          /\ tr.changed[p][n] # {}
                          /\ tr.mode[c].noloop => tr.changed[p][n] # {c}
    IN  [tr EXCEPT !.cache = [c \in Clients |-> [n \in Names |-> IF told(c, n) THEN NotCached
                                                                 ELSE @[c][n]]],
                   !.changed = [p \in NamePrefixes |-> NoChanges]]

\* A table with too many names loses some, as if they had changed.
trackingLimitUsedSlots(tr, n) ==
    [Uncached(tr, {c \in tr.table[n] : tr.mode[c].on /\ ~tr.mode[c].bcast}, n) EXCEPT !.table[n] = {}]

=============================================================================
