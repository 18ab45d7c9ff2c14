------------------------------ MODULE Streams -------------------------------
(***************************************************************************)
(* Streams and consumer groups of the vendored Redis (t_stream.c).         *)
(*                                                                         *)
(* An id is the number that its two halves, milliseconds and sequence,     *)
(* make up.  What an entry says is left out: its id stands for it.  A      *)
(* group holds the entries that were delivered and not acknowledged (its   *)
(* PEL) twice, in one table for the group and in one for each consumer.    *)
(* How often an entry was delivered, and when a consumer was last seen,    *)
(* are only replied and are left out.                                      *)
(***************************************************************************)
EXTENDS Keyspace

CONSTANTS
    SeqRange,   \* sequence numbers in a millisecond
    MaxId       \* the last id

LastId == -1        \* "$"
NextSeq == -2       \* "*"
NoGroup == "none"
NoTime == -1
NotKnown == -1      \* SCG_INVALID_ENTRIES_READ, and options not given

Ms(id) == id \div SeqRange

Ids(ids) == SetToSortSeq(ids, LAMBDA a, b : a < b)

NewStream ==
    [t |-> "stream",
     v |-> [entries |-> {}, first |-> 0, last |-> 0, maxdel |-> 0, added |-> 0,
            groups |-> <<>>]]

(***************************************************************************)
(* Adding, deleting and trimming entries.                                  *)
(***************************************************************************)
streamNextID(now, last) == IF now > Ms(last) THEN now * SeqRange ELSE last + 1

\* The id of a new entry; seq: whether the sequence was given too.
NewId(now, last, id, seq) ==
    IF id = NextSeq THEN streamNextID(now, last)
    ELSE IF ~seq /\ Ms(id) = Ms(last) THEN last + 1
    ELSE id

\* No new id, or none in that millisecond.
Appendable(now, last, id, seq) ==
    /\ last # MaxId
    /\ NewId(now, last, id, seq) > last
    /\ (id # NextSeq /\ ~seq) => Ms(NewId(now, last, id, seq)) = Ms(id)

streamAppendItem(s, id) ==
    [s EXCEPT !.entries = @ \cup {id}, !.last = id, !.added = @ + 1,
              !.first = IF s.entries = {} THEN id ELSE @]

EdgeOf(entries) == IF entries = {} THEN 0 ELSE Ids(entries)[1]

\* All but the newest maxlen entries, or those before minid.
Trimmable(s, trim) ==
    IF trim.by = "maxlen"
    THEN LET n == Cardinality(s.entries) - trim.n
         IN  IF n <= 0 THEN {} ELSE Range(SubSeq(Ids(s.entries), 1, n))
    ELSE {e \in s.entries : trim.by = "minid" /\ e < trim.n}

\* A trim marked ~ only removes whole nodes of the radix tree, and not too
\* many: what it leaves behind depends on the machine.
streamTrim(x, s, trim) ==
    LET gone == IF trim.approx /\ x.seed = 0 THEN {} ELSE Trimmable(s, trim)
    IN  [s EXCEPT !.entries = @ \ gone,
                  !.first = IF gone = {} THEN @ ELSE EdgeOf(s.entries \ gone)]

\* The exact trim that has the same result.
streamRewriteTrimArgument(s, trim) ==
    IF ~trim.approx THEN trim
    ELSE [by |-> trim.by, approx |-> FALSE,
          n |-> CASE trim.by = "maxlen" -> Cardinality(s.entries)
                  [] s.entries = {} -> MaxId
                  [] OTHER -> s.first]

NoTrim == [by |-> "none", approx |-> FALSE, n |-> 0]

\* XADD.  Ids and trims that depend on the machine are propagated as what
\* they came out as.
xaddCommand(x0) ==
    LET a == x0.argv
    IN  WithKey(x0, a.k, LAMBDA x, o :
            LET y == IF o = Nil THEN dbAdd(x, a.k, NewStream) ELSE x
                s == y.dict[a.k].v
                id == NewId(x.now, s.last, a.id, a.seq)
                t == streamTrim(x, streamAppendItem(s, id), a.trim)
                z == rewriteClientCommandVector(
                         SetValue(y, a.k, t),
                         [a EXCEPT !.id = id, !.seq = TRUE, !.trim = streamRewriteTrimArgument(t, @)])
            IN  IF a.id = 0 /\ a.seq THEN x0
                ELSE IF ~checkType(o, "stream") \/ (o = Nil /\ ~a.mkstream) THEN x
                ELSE IF ~Appendable(x.now, s.last, a.id, a.seq) THEN y
                ELSE signalKeyAsReady(Dirty(signalModifiedKey(z, a.k)), a.k, "stream"))

xtrimCommand(x0) ==
    LET a == x0.argv
    IN  WithKey(x0, a.k, LAMBDA x, o :
            LET t == streamTrim(x, o.v, a.trim)
            IN  IF o = Nil \/ ~checkType(o, "stream") THEN x
                ELSE IF t.entries = o.v.entries THEN x
                ELSE Dirty(signalModifiedKey(rewriteClientCommandVector(
                         SetValue(x, a.k, t),
                         [a EXCEPT !.trim = streamRewriteTrimArgument(t, @)]), a.k)))

xdelCommand(x0) ==
    LET a == x0.argv
    IN  WithKey(x0, a.k, LAMBDA x, o :
            LET gone == o.v.entries \cap a.ids
                newest == Ids(gone)[Cardinality(gone)]
                left == o.v.entries \ gone
                s == [o.v EXCEPT !.entries = left,
                                 !.maxdel = IF newest > @ THEN newest ELSE @,
                                 !.first = IF left = {} \/ @ \in gone THEN EdgeOf(left) ELSE @]
            IN  IF o = Nil \/ ~checkType(o, "stream") THEN x
                ELSE IF gone = {} THEN x
                ELSE Dirty(signalModifiedKey(SetValue(x, a.k, s), a.k)))

\* XSETID never goes below the top entry.
xsetidCommand(x0) ==
    LET a == x0.argv
    IN  WithKey(x0, a.k, LAMBDA x, o :
            LET s == [o.v EXCEPT !.last = a.id,
                                 !.added = IF a.added = NotKnown THEN @ ELSE a.added,
                                 !.maxdel = IF a.maxdel = 0 THEN @ ELSE a.maxdel]
            IN  IF a.id < a.maxdel THEN x0
                ELSE IF o = Nil \/ ~checkType(o, "stream") THEN x
                ELSE IF \E e \in o.v.entries : a.id < e THEN x
                ELSE IF a.added # NotKnown /\ Cardinality(o.v.entries) > a.added THEN x
                ELSE Dirty(SetValue(x, a.k, s)))

(***************************************************************************)
(* The counters behind the lag of a group.                                 *)
(***************************************************************************)
streamRangeHasTombstones(s, start) ==
    /\ s.entries # {} /\ s.maxdel # 0
    /\ s.first <= s.maxdel
    /\ start <= s.maxdel

streamEstimateDistanceFromFirstEverEntry(s, id) ==
    LET gaps == s.maxdel # 0 /\ s.maxdel >= s.first
    IN  CASE s.added = 0 -> 0
          [] s.added # 0 /\ (id = s.last \/ (s.entries = {} /\ id <= s.last)) -> s.added
          [] s.added # 0 /\ s.entries # {} /\ id < s.last /\ ~gaps /\ id < s.first ->
                 s.added - Cardinality(s.entries)
          [] s.added # 0 /\ s.entries # {} /\ id < s.last /\ ~gaps /\ id = s.first ->
                 s.added - Cardinality(s.entries) + 1
          [] OTHER -> NotKnown

\* What XINFO GROUPS tells of the entries a group has not read yet.
streamReplyWithCGLag(s, g) ==
    LET read == IF g.read # NotKnown /\ ~streamRangeHasTombstones(s, g.last) THEN g.read
                ELSE streamEstimateDistanceFromFirstEverEntry(s, g.last)
    IN  IF s.added = 0 THEN 0
        ELSE IF read = NotKnown THEN NotKnown ELSE s.added - read

(***************************************************************************)
(* Groups, consumers and pending entries.                                  *)
(***************************************************************************)
streamCreateCG(s, g, id, read) ==
    [s EXCEPT !.groups = (g :> [last |-> id, read |-> read, pel |-> <<>>, consumers |-> <<>>])
                         @@ @]

HasGroup(o, g) == o # Nil /\ g \in DOMAIN o.v.groups

SetGroup(x, k, g, group) == [x EXCEPT !.dict[k].v.groups[g] = group]

GroupOf(x, k, g) == x.dict[k].v.groups[g]

streamCreateConsumer(group, c) ==
    IF c \in DOMAIN group.consumers THEN group
    ELSE [group EXCEPT !.consumers = (c :> {}) @@ @]

\* An entry leaves the PEL of the group and that of its consumer.
Release(group, id) ==
    IF id \notin DOMAIN group.pel THEN group
    ELSE [group EXCEPT !.consumers[group.pel[id].c] = @ \ {id},
                       !.pel = [e \in DOMAIN @ \ {id} |-> @[e]]]

\* The consumer that had the entry keeps it in its own PEL.
AssignOnTop(group, id, c, time) ==
    [group EXCEPT !.pel = (id :> [c |-> c, time |-> time]) @@ @, !.consumers[c] = @ \cup {id}]

\* An entry becomes c's, whoever had it.
Assign(group, id, c, time) ==
    LET freed == Release(group, id)
    IN  [freed EXCEPT !.pel = (id :> [c |-> c, time |-> time]) @@ @,
                      !.consumers[c] = @ \cup {id}]

streamDelConsumer(group, c) ==
    [group EXCEPT !.pel = [e \in DOMAIN @ \ group.consumers[c] |-> @[e]],
                  !.consumers = [d \in DOMAIN @ \ {c} |-> @[d]]]

\* The claim that makes a replica and the AOF follow a delivery.
streamPropagateXCLAIM(x, k, g, id) ==
    LET group == GroupOf(x, k, g)
    IN  alsoPropagate(x, [op |-> "xclaim", k |-> k, g |-> g, c |-> group.pel[id].c,
                          minidle |-> 0, ids |-> <<id>>, time |-> group.pel[id].time,
                          idle |-> NoTime, force |-> TRUE, last |-> group.last])

Xgroup(sub, k, g, id, read, c) ==
    [op |-> "xgroup", sub |-> sub, k |-> k, g |-> g, id |-> id, read |-> read,
     mkstream |-> FALSE, c |-> c]

streamPropagateGroupID(x, k, g) ==
    LET group == GroupOf(x, k, g)
    IN  alsoPropagate(x, Xgroup("setid", k, g, group.last, group.read, "none"))

streamPropagateConsumerCreation(x, k, g, c) ==
    alsoPropagate(x, Xgroup("createconsumer", k, g, 0, NotKnown, c))

\* XGROUP CREATE, SETID, DESTROY, CREATECONSUMER and DELCONSUMER.  Only the
\* stream that CREATE makes counts as modified.
xgroupCommand(x0) ==
    LET a == x0.argv
    IN  WithKey(x0, a.k, LAMBDA x, o :
            LET made == signalModifiedKey(dbAdd(x, a.k, NewStream), a.k)
                y == IF o = Nil THEN made ELSE x
                s == y.dict[a.k].v
                id == IF a.id = LastId THEN s.last ELSE a.id
                group == s.groups[a.g]
            IN  IF ~checkType(o, "stream") \/ (o = Nil /\ ~(a.sub = "create" /\ a.mkstream)) THEN x
                ELSE IF a.sub = "create"
                     THEN IF a.g \in DOMAIN s.groups THEN y
                          ELSE Dirty(SetValue(y, a.k, streamCreateCG(s, a.g, id, a.read)))
                ELSE IF ~HasGroup(o, a.g) THEN x
                ELSE CASE a.sub = "setid" ->
                            Dirty(SetGroup(x, a.k, a.g, [group EXCEPT !.last = id, !.read = a.read]))
                       [] a.sub = "destroy" ->
                            signalKeyAsReady(Dirty(SetValue(x, a.k, [s EXCEPT !.groups =
                                [g \in DOMAIN @ \ {a.g} |-> @[g]]])), a.k, "stream")
                       [] a.sub = "createconsumer" /\ a.c \notin DOMAIN group.consumers ->
                            Dirty(SetGroup(x, a.k, a.g, streamCreateConsumer(group, a.c)))
                       [] a.sub = "delconsumer" /\ a.c \in DOMAIN group.consumers ->
                            Dirty(SetGroup(x, a.k, a.g, streamDelConsumer(group, a.c)))
                       [] OTHER -> x)

xackCommand(x0) ==
    LET a == x0.argv
    IN  WithKey(x0, a.k, LAMBDA x, o :
            LET group == o.v.groups[a.g]
            IN  IF ~checkType(o, "stream") THEN x
                ELSE IF ~HasGroup(o, a.g) THEN x
                ELSE IF Range(a.ids) \cap DOMAIN group.pel = {} THEN x
                ELSE Dirty(SetGroup(x, a.k, a.g, FoldLeft(Release, group, a.ids))))

(***************************************************************************)
(* Reading, with or without a group.                                       *)
(***************************************************************************)
\* The group moves past an entry that it delivers.
Advance(s, group, id) ==
    IF id <= group.last THEN group
    ELSE [group EXCEPT
            !.last = id,
            !.read = IF @ # NotKnown /\ ~streamRangeHasTombstones(s, id) THEN @ + 1
                     ELSE IF s.added # 0 THEN streamEstimateDistanceFromFirstEverEntry(s, id)
                     ELSE @]

\* One new entry of stream k goes to consumer c of group g.
Deliver(x, k, g, c, noack, id) ==
    LET group == Advance(x.dict[k].v, GroupOf(x, k, g), id)
    IN  IF noack THEN SetGroup(x, k, g, group)
        ELSE streamPropagateXCLAIM(SetGroup(x, k, g, Assign(group, id, c, x.now)), k, g, id)

\* The entries after gt, count of them unless it is 0, for a group.
streamReplyWithRange(x, k, gt, count, g, c, noack) ==
    LET all == Ids({e \in x.dict[k].v.entries : e > gt})
        ids == IF count = 0 THEN all ELSE SubSeq(all, 1, AtMost(count, Len(all)))
        y == FoldLeft(LAMBDA z, id : Deliver(z, k, g, c, noack, id), x, ids)
    IN  IF noack /\ GroupOf(y, k, g).last # GroupOf(x, k, g).last
        THEN streamPropagateGroupID(y, k, g) ELSE y

\* The consumer's own pending entries after gt are delivered again.
streamReplyWithRangeFromConsumerPEL(x, k, gt, count, g, c) ==
    LET group == GroupOf(x, k, g)
        all == Ids({e \in group.consumers[c] : e > gt})
        ids == IF count = 0 THEN all ELSE SubSeq(all, 1, AtMost(count, Len(all)))
        again == Range(ids) \cap x.dict[k].v.entries
    IN  SetGroup(x, k, g, [group EXCEPT !.pel =
            [e \in DOMAIN @ |-> IF e \in again THEN [@[e] EXCEPT !.time = x.now] ELSE @[e]]])

WithConsumer(x, k, g, c, noack) ==
    LET y == SetGroup(x, k, g, streamCreateConsumer(GroupOf(x, k, g), c))
    IN  IF c \in DOMAIN GroupOf(x, k, g).consumers THEN x
        ELSE IF noack THEN streamPropagateConsumerCreation(Dirty(y), k, g, c) ELSE Dirty(y)

\* One stream of an XREADGROUP; from MaxId (">") on, only what is new.
ServeStream(x, k, a, gt) ==
    LET new == gt = MaxId
        group == GroupOf(x, k, a.g)
        y == WithConsumer(x, k, a.g, a.c, a.noack)
    IN  IF new /\ \A e \in x.dict[k].v.entries : e <= group.last THEN x
        ELSE Dirty(IF new THEN streamReplyWithRange(y, k, group.last, a.count, a.g, a.c, a.noack)
                   ELSE streamReplyWithRangeFromConsumerPEL(y, k, gt, a.count, a.g, a.c))

\* Looks the streams up, one after the other, until one will not do.
LookedStreams(x0, a) ==
    LET look(x, o) == [x |-> x, stop |-> IF ~checkType(o, "stream") THEN TRUE
                                         ELSE a.g # NoGroup /\ ~HasGroup(o, a.g)]
    IN  FoldLeft(LAMBDA y, k : IF y.stop THEN y ELSE WithKey(y.x, k, look),
                 [x |-> x0, stop |-> FALSE], a.ks)

\* XREAD and XREADGROUP: served at once if any stream can be, blocked if BLOCK
\* was given and none can.
ReadFrom(x, a, i) ==
    LET o == lookupKey(x, a.ks[i])
    IN  IF a.from[i] # LastId THEN a.from[i] ELSE IF o = Nil THEN 0 ELSE o.v.last

ReadAfter(x, a, i, from) ==
    IF a.g # NoGroup /\ from = MaxId THEN GroupOf(x, a.ks[i], a.g).last ELSE from

HasAfter(o, id) == o # Nil /\ \E e \in o.v.entries : e > id

Readable(x, a, i, from) ==
    \/ a.g # NoGroup /\ from # MaxId
    \/ HasAfter(lookupKey(x, a.ks[i]), ReadAfter(x, a, i, from))

\* from: where each stream is read from.
ReadStreams(x, a, from) ==
    IF \E i \in DOMAIN a.ks : Readable(x, a, i, from[i])
    THEN IF a.g = NoGroup THEN x
         ELSE FoldLeft(LAMBDA y, i : ServeStream(y, a.ks[i], a, from[i]), x,
                       [i \in DOMAIN a.ks |-> i])
    ELSE IF a.block /\ ~x.deny
    THEN blockForKeys(x, [btype |-> "stream", keys |-> a.ks, from |-> from,
                          g |-> a.g, c |-> a.c, noack |-> a.noack, count |-> a.count])
    ELSE x

xreadCommand(x0) ==
    LET a == x0.argv
        read(l) == IF l.stop THEN l.x
                   ELSE ReadStreams(l.x, a, [i \in DOMAIN a.ks |-> ReadFrom(l.x, a, i)])
    IN  [read(LookedStreams(x0, a)) EXCEPT !.prevent = TRUE]

(***************************************************************************)
(* Claiming entries from other consumers.                                  *)
(***************************************************************************)
\* An entry that is gone from the stream is dropped from the PELs instead.
ForgetDeleted(x, k, g, id) ==
    SetGroup(Dirty(streamPropagateXCLAIM(x, k, g, id)), k, g, Release(GroupOf(x, k, g), id))

ClaimEntry(x, k, g, c, id, time) ==
    LET group == streamCreateConsumer(GroupOf(x, k, g), c)
    IN  Dirty(streamPropagateXCLAIM(SetGroup(x, k, g, Assign(group, id, c, time)), k, g, id))

xclaimCommand(x0) ==
    LET a == x0.argv
    IN  WithKey(x0, a.k, LAMBDA x, o :
            LET asked == IF a.idle # NoTime THEN x.now - a.idle ELSE a.time
                time == IF asked < 0 \/ asked > x.now THEN x.now ELSE asked
                moves == a.last > GroupOf(x, a.k, a.g).last
                y == IF moves THEN [x EXCEPT !.dict[a.k].v.groups[a.g].last = a.last] ELSE x
                claim(z, id) ==
                    LET pel == GroupOf(z, a.k, a.g).pel
                    IN  IF id \notin o.v.entries
                        THEN IF id \in DOMAIN pel THEN ForgetDeleted(z, a.k, a.g, id) ELSE z
                        ELSE IF id \notin DOMAIN pel
                             THEN IF a.force THEN ClaimEntry(z, a.k, a.g, a.c, id, time) ELSE z
                        ELSE IF z.now - pel[id].time < a.minidle THEN z
                        ELSE ClaimEntry(z, a.k, a.g, a.c, id, time)
                done == FoldLeft(claim, y, a.ids)
            IN  IF ~checkType(o, "stream") THEN x
                ELSE IF ~HasGroup(o, a.g) THEN x
                ELSE [IF moves /\ done.also = y.also THEN Dirty(streamPropagateGroupID(done, a.k, a.g))
                      ELSE done EXCEPT !.prevent = TRUE])

\* XAUTOCLAIM goes through the PEL from an id on, count entries at most and
\* not for long.
xautoclaimCommand(x0) ==
    LET a == x0.argv
    IN  WithKey(x0, a.k, LAMBDA x, o :
            LET pel == GroupOf(x, a.k, a.g).pel
                attempts == Ids({e \in DOMAIN pel : e >= a.start})
                claim(r, id) ==
                    IF r.count = 0 THEN r
                    ELSE IF id \notin o.v.entries
                    THEN [x |-> ForgetDeleted(r.x, a.k, a.g, id), count |-> r.count - 1]
                    ELSE IF x.now - pel[id].time < a.minidle THEN r
                    ELSE [x |-> ClaimEntry(r.x, a.k, a.g, a.c, id, x.now), count |-> r.count - 1]
                done == FoldLeft(claim, [x |-> x, count |-> a.count],
                                 SubSeq(attempts, 1, AtMost(10 * a.count, Len(attempts))))
            IN  IF ~checkType(o, "stream") THEN x
                ELSE IF ~HasGroup(o, a.g) THEN x
                ELSE [done.x EXCEPT !.prevent = TRUE])

(***************************************************************************)
(* Serving the clients blocked on a stream.                                *)
(***************************************************************************)
\* One that reads with a group waits for what the group has not seen; if the
\* group is gone it is told so.
serveStreamReceiver(x, c, k) ==
    LET b == x.bpop[c]
        s == x.dict[k].v
        from == b.from[CHOOSE i \in DOMAIN b.keys : b.keys[i] = k]
    IN  IF b.g = NoGroup THEN IF s.last > from THEN unblockClient(x, c) ELSE x
        ELSE IF b.g \notin DOMAIN s.groups THEN unblockClient(x, c)
        ELSE IF s.last > s.groups[b.g].last
             THEN unblockClient(streamReplyWithRange(
                      WithConsumer(x, k, b.g, b.c, b.noack),
                      k, s.groups[b.g].last, b.count, b.g, b.c, b.noack), c)
        ELSE x

serveClientsBlockedOnStreamKey(x, k) ==
    FoldLeft(LAMBDA y, c : IF y.bpop[c].btype = "stream" THEN serveStreamReceiver(y, c, k) ELSE y,
             x, x.blocking[k])

\* Readers with a group do not wait for a stream that is gone.
unblockDeletedStreamReadgroupClients(x, k) ==
    FoldLeft(LAMBDA y, c : IF y.bpop[c].btype # "stream" THEN y
                           ELSE IF y.bpop[c].g = NoGroup THEN y
                           ELSE unblockClient(y, c),
             x, x.blocking[k])

=============================================================================
