----------------------------- MODULE Quicklist -----------------------------
(***************************************************************************)
(* The list behind every Redis list key (quicklist.c): a chain of nodes,   *)
(* each a packed run of small items or one large item, filled up to a      *)
(* count or a size, the nodes far from both ends kept compressed, split    *)
(* and merged as items come and go.                                        *)
(*                                                                         *)
(* A node is known by an id, 0 is NULL; an item is its value, whose size   *)
(* is ItemBytes.  An action is a whole list command as far as the list     *)
(* goes (t_list.c), RDB loading or a step of active defragmentation.       *)
(* q.held is the sequence of items the commands should have left, and      *)
(* q.asserted says that every assert so far held.                          *)
(***************************************************************************)
EXTENDS Integers, Sequences, SequencesExt, FiniteSetsExt

CONSTANTS Items,            \* values, positive integers
          ItemBytes,        \* [Items -> Nat]: length of the value
          PackedThreshold,  \* packed_threshold
          SizeLevel,        \* optimization_level of the fills below 0
          SafetyLimit,      \* SIZE_SAFETY_LIMIT
          MinCompress,      \* MIN_COMPRESS_BYTES
          Noise,            \* values whose node LZF does not shrink enough
          PauseEvery,       \* nodes defragmented between two looks at the clock: 128
          MaxItems,         \* bound on the length of a list
          ListOptions       \* {[fill, compress, defrag]}: list-max-listpack-size, list-compress-depth,
                            \* active defragmentation

VARIABLE quick

isLargeElement(v) == ItemBytes[v] >= PackedThreshold

\* lpBytes: header and end marker, and two bytes of encoding and back length per item
lpBytes(items) == 7 + FoldLeft(LAMBDA n, v : n + ItemBytes[v] + 2, 0, items)

quicklistNew(o) ==
    [fill |-> o.fill, compress |-> o.compress, defrag |-> o.defrag, nodes |-> <<>>, count |-> 0, mark |-> 0, cursor |-> 0,
     held |-> <<>>, asserted |-> TRUE]

quicklistCreateNode(id, items) ==
    [id |-> id, items |-> items, count |-> Len(items), sz |-> lpBytes(items), plain |-> FALSE,
     lzf |-> FALSE, tried |-> FALSE, recompress |-> FALSE, dont |-> FALSE]

__quicklistCreatePlainNode(id, v) ==
    [quicklistCreateNode(id, <<v>>) EXCEPT !.plain = TRUE, !.sz = ItemBytes[v]]

Ids(q) == {q.nodes[i].id : i \in DOMAIN q.nodes}

FreshId(q) == Min((1..Len(q.nodes) + 1) \ Ids(q))

Ix(q, id) == CHOOSE i \in DOMAIN q.nodes : q.nodes[i].id = id

Node(q, id) == q.nodes[Ix(q, id)]

SetNode(q, n) == [q EXCEPT !.nodes[Ix(q, n.id)] = n]

IdAt(q, i) == IF i \in DOMAIN q.nodes THEN q.nodes[i].id ELSE 0

PrevId(q, id) == IdAt(q, Ix(q, id) - 1)

NextId(q, id) == IdAt(q, Ix(q, id) + 1)

HeadId(q) == IdAt(q, 1)

TailId(q) == IdAt(q, Len(q.nodes))

Assert_(q, p) == [q EXCEPT !.asserted = @ /\ p]

Filled(n, items) == [n EXCEPT !.items = items, !.count = Len(items), !.sz = lpBytes(items)]

-----------------------------------------------------------------------------
(* Compression *)

__quicklistCompressNode(q, id) ==
    LET n == Node(q, id)
        small == n.sz < MinCompress \/ \E i \in DOMAIN n.items : n.items[i] \in Noise
    IN IF n.dont THEN SetNode(q, [n EXCEPT !.tried = TRUE])
       ELSE Assert_(SetNode(q, [n EXCEPT !.tried = TRUE, !.recompress = FALSE, !.lzf = ~small]),
                    PrevId(q, id) # 0 /\ NextId(q, id) # 0)

quicklistCompressNode(q, id) ==
    IF id # 0 /\ ~Node(q, id).lzf THEN __quicklistCompressNode(q, id) ELSE q

quicklistDecompressNode(q, id) ==
    LET n == Node(q, id)
    IN IF n.lzf THEN SetNode(q, [n EXCEPT !.lzf = FALSE, !.tried = FALSE, !.recompress = FALSE]) ELSE q

quicklistDecompressNodeForUse(q, id) ==
    LET n == Node(q, id)
    IN IF n.lzf THEN SetNode(q, [n EXCEPT !.lzf = FALSE, !.tried = FALSE, !.recompress = TRUE]) ELSE q

UnpackEnds(q) ==
    FoldLeft(LAMBDA r, i : quicklistDecompressNode(quicklistDecompressNode(r, IdAt(r, i)),
                                                   IdAt(r, Len(r.nodes) + 1 - i)),
             q, [i \in 1..q.compress |-> i])

PackInside(q, id) ==
    LET deep == q.compress + 1..Len(q.nodes) - q.compress
    IN FoldLeft(quicklistCompressNode, q,
                <<IF id # 0 /\ Ix(q, id) \in deep THEN id ELSE 0,
                  IdAt(q, q.compress + 1), IdAt(q, Len(q.nodes) - q.compress)>>)

__quicklistCompress(q, id) ==
    LET len == Len(q.nodes)
        a == Assert_(q, ~q.nodes[1].recompress /\ ~q.nodes[len].recompress)
    IN IF len = 0 THEN q
       ELSE IF q.compress = 0 \/ len < 2 * q.compress THEN a
       ELSE IF len = 2 * q.compress THEN UnpackEnds(a)
       ELSE PackInside(UnpackEnds(a), id)

quicklistRecompressOnly(q, id) == IF Node(q, id).recompress THEN quicklistCompressNode(q, id) ELSE q

quicklistCompress(q, id) ==
    IF Node(q, id).recompress THEN quicklistCompressNode(q, id) ELSE __quicklistCompress(q, id)

-----------------------------------------------------------------------------
(* Nodes *)

CompressOld(q, old) == IF old = 0 THEN q ELSE quicklistCompress(q, old)

__quicklistInsertNode(q, old, n, after) ==
    LET at == IF old = 0 THEN 1 ELSE Ix(q, old) + (IF after THEN 1 ELSE 0)
    IN quicklistCompress(CompressOld([q EXCEPT !.nodes = InsertAt(@, at, n)], old), n.id)

Counted(q, by) == [q EXCEPT !.count = @ + by]

__quicklistInsertPlainNode(q, old, v, after) ==
    Counted(__quicklistInsertNode(q, old, __quicklistCreatePlainNode(FreshId(q), v), after), 1)

_quicklistNodeSizeMeetsOptimizationRequirement(sz, fill) == fill < 0 /\ sz <= SizeLevel[-fill]

_quicklistNodeAllowInsert(q, id, v) ==
    /\ id # 0
    /\ ~Node(q, id).plain /\ ~isLargeElement(v)
    /\ LET sz == Node(q, id).sz + ItemBytes[v] + 8
       IN \/ _quicklistNodeSizeMeetsOptimizationRequirement(sz, q.fill)
          \/ sz <= SafetyLimit /\ Node(q, id).count < q.fill

_quicklistNodeAllowMerge(q, a, b) ==
    /\ a # 0 /\ b # 0
    /\ ~Node(q, a).plain /\ ~Node(q, b).plain
    /\ LET sz == Node(q, a).sz + Node(q, b).sz - 11
       IN \/ _quicklistNodeSizeMeetsOptimizationRequirement(sz, q.fill)
          \/ sz <= SafetyLimit /\ Node(q, a).count + Node(q, b).count <= q.fill

DelNodeLeavesPacked(q, id) ==
    [q EXCEPT !.nodes = RemoveAt(@, Ix(q, id)), !.count = @ - Node(q, id).count,
              !.mark = IF @ = id THEN NextId(q, id) ELSE @]

\* A bookmark of the node moves to the next one, or is dropped
__quicklistDelNode(q, id) ==
    __quicklistCompress([q EXCEPT !.nodes = RemoveAt(@, Ix(q, id)), !.count = @ - Node(q, id).count,
                                  !.mark = IF @ = id THEN NextId(q, id) ELSE @], 0)

\* Delete the item at position p (from 0) of a node: <<list, whether the node went too>>
DelItem(q, n) ==
    IF n.count = 0 THEN <<Counted(__quicklistDelNode(SetNode(q, n), n.id), -1), TRUE>>
    ELSE <<Counted(SetNode(q, n), -1), FALSE>>

quicklistDelIndex(q, id, p) ==
    LET n == Node(q, id)
    IN IF n.plain THEN <<__quicklistDelNode(q, id), TRUE>>
       ELSE DelItem(q, Filled(n, RemoveAt(n.items, p + 1)))

\* lpMerge keeps the larger of the two
MergeInto(q, keep, gone, items) ==
    LET m == SetNode(q, Filled(Node(q, keep), items))
    IN quicklistCompress(__quicklistDelNode(SetNode(m, [Node(m, gone) EXCEPT !.count = 0]), gone), keep)

MergeUnpacked(q, a, b) ==
    LET keep == IF Node(q, a).sz >= Node(q, b).sz THEN a ELSE b
    IN <<MergeInto(q, keep, IF keep = a THEN b ELSE a, Node(q, a).items \o Node(q, b).items), keep>>

_quicklistListpackMerge(q, a, b) ==
    MergeUnpacked(quicklistDecompressNode(quicklistDecompressNode(q, a), b), a, b)

TryMerge(q, a, b, otherwise) ==
    IF _quicklistNodeAllowMerge(q, a, b) THEN _quicklistListpackMerge(q, a, b) ELSE <<q, otherwise>>

\* The pair before a node, the pair after it, the node with its neighbours
MergePairBefore(q, prev) == IF prev = 0 THEN q ELSE TryMerge(q, PrevId(q, prev), prev, 0)[1]

MergePairAfter(q, next) == IF next = 0 THEN q ELSE TryMerge(q, next, NextId(q, next), 0)[1]

MergeBack(q, center) == TryMerge(q, PrevId(q, center), center, center)

MergeOn(r) == TryMerge(r[1], r[2], NextId(r[1], r[2]), 0)[1]

_quicklistMergeNodes(q, center) ==
    MergeOn(MergeBack(MergePairAfter(MergePairBefore(q, PrevId(q, center)), NextId(q, center)), center))

\* <<what the node keeps, what a new node takes>>
_quicklistSplitNode(n, offset, after) ==
    LET o == IF offset < 0 THEN n.count + offset ELSE offset
        cut == IF after THEN o + 1 ELSE o
        low == SubSeq(n.items, 1, cut)
        high == SubSeq(n.items, cut + 1, n.count)
    IN IF after THEN <<low, high>> ELSE <<high, low>>

-----------------------------------------------------------------------------
(* Iterators.  zi is a position in the current node, from 0, or -1 *)

quicklistGetIterator(q, dir) ==
    [current |-> IF dir = "head" THEN HeadId(q) ELSE TailId(q),
     offset |-> IF dir = "head" THEN 0 ELSE -1, zi |-> -1, dir |-> dir]

NoCurrent(it) == [it EXCEPT !.current = 0, !.zi = -1]

\* The node holding the item idx places from an end, and the items before it on that side
RECURSIVE SeekNode(_, _, _, _)
SeekNode(q, i, step, left) ==
    IF q.nodes[i].count > left THEN <<i, left>> ELSE SeekNode(q, i + step, step, left - q.nodes[i].count)

\* Only for an index inside the list: the code returns NULL otherwise
quicklistGetIteratorAtIdx(q, dir, idx) ==
    LET forward == idx >= 0
        index == IF forward THEN idx ELSE -idx - 1
        near == index <= (q.count - 1) \div 2
        seek == IF near THEN index ELSE q.count - 1 - index
        ahead == IF near THEN forward ELSE ~forward
        at(n, left) ==
            LET before == IF near THEN index - left ELSE q.count - n.count - (seek - left)
            IN [quicklistGetIterator(q, dir) EXCEPT
                   !.current = n.id, !.offset = IF forward THEN index - before ELSE -index - 1 + before]
        found(f) == at(q.nodes[f[1]], f[2])
    IN found(SeekNode(q, IF ahead THEN 1 ELSE Len(q.nodes), IF ahead THEN 1 ELSE -1, seek))

InList(q, idx) == (IF idx >= 0 THEN idx ELSE -idx - 1) < q.count

quicklistReleaseIterator(q, it) == IF it.current # 0 THEN quicklistCompress(q, it.current) ELSE q

ItemOffset(n, offset) ==
    LET p == IF offset < 0 THEN n.count + offset ELSE offset
    IN IF p \in 0..n.count - 1 THEN p ELSE -1

\* [q, it, node, zi, offset]; node 0 when there is no further item
RECURSIVE quicklistNext(_, _)
quicklistNext(q, it) ==
    LET n == Node(q, it.current)
        step == IF it.dir = "head" THEN 1 ELSE -1
        used == IF it.zi = -1 THEN quicklistDecompressNodeForUse(q, it.current) ELSE q
        to == IF it.zi = -1
              THEN [it EXCEPT !.zi = IF n.plain THEN 0 ELSE ItemOffset(n, it.offset)]
              ELSE IF n.plain THEN [it EXCEPT !.zi = -1]
              ELSE [it EXCEPT !.zi = IF @ + step \in 0..n.count - 1 THEN @ + step ELSE -1,
                              !.offset = @ + step]
        left == quicklistCompress(used, it.current)
    IN IF it.current = 0 THEN [q |-> q, it |-> it, node |-> 0, zi |-> -1, offset |-> 0]
       ELSE IF to.zi # -1 THEN [q |-> used, it |-> to, node |-> it.current, zi |-> to.zi, offset |-> to.offset]
       ELSE quicklistNext(left, [to EXCEPT
                !.current = IF it.dir = "head" THEN NextId(q, @) ELSE PrevId(q, @),
                !.offset = IF it.dir = "head" THEN 0 ELSE -1])

ItemAt(e) == Node(e.q, e.node).items[e.zi + 1]

Entered(e) == [e EXCEPT !.q = Assert_(e.q, e.node # 0)]

quicklistGetIteratorEntryAtIdx(q, idx) ==
    Entered(quicklistNext(q, quicklistGetIteratorAtIdx(q, "tail", idx)))

\* The iterator moves on only when the node is gone: otherwise the next item has the same offset
quicklistDelEntry(e) ==
    LET to == IF e.it.dir = "head" THEN NextId(e.q, e.node) ELSE PrevId(e.q, e.node)
        it == [e.it EXCEPT !.zi = -1]
        left(d) == [q |-> d[1],
                    it |-> IF ~d[2] THEN it
                           ELSE [it EXCEPT !.current = to, !.offset = IF it.dir = "head" THEN 0 ELSE -1]]
    IN left(quicklistDelIndex(e.q, e.node, e.zi))

-----------------------------------------------------------------------------
(* Operations *)

Prepended(q, id, v) == SetNode(q, Filled(Node(q, id), <<v>> \o Node(q, id).items))

Appended(q, id, v) == SetNode(q, Filled(Node(q, id), Append(Node(q, id).items, v)))

quicklistPushHead(q, v) ==
    LET h == HeadId(q)
    IN IF isLargeElement(v) THEN __quicklistInsertPlainNode(q, h, v, FALSE)
       ELSE Counted(IF _quicklistNodeAllowInsert(q, h, v) THEN Prepended(q, h, v)
                    ELSE __quicklistInsertNode(q, h, quicklistCreateNode(FreshId(q), <<v>>), FALSE), 1)

quicklistPushTail(q, v) ==
    LET t == TailId(q)
    IN IF isLargeElement(v) THEN __quicklistInsertPlainNode(q, t, v, TRUE)
       ELSE Counted(IF _quicklistNodeAllowInsert(q, t, v) THEN Appended(q, t, v)
                    ELSE __quicklistInsertNode(q, t, quicklistCreateNode(FreshId(q), <<v>>), TRUE), 1)

EndsUnpacked(q) == q.nodes # <<>> => ~q.nodes[1].lzf /\ ~q.nodes[Len(q.nodes)].lzf

quicklistPush(q, v, where) ==
    LET a == Assert_(q, EndsUnpacked(q))
    IN IF where = "head" THEN quicklistPushHead(a, v) ELSE quicklistPushTail(a, v)

quicklistPop(q, where) ==
    LET id == IF where = "head" THEN HeadId(q) ELSE TailId(q)
        a == Assert_(q, ~Node(q, id).lzf)
    IN quicklistDelIndex(a, id, IF where = "head" THEN 0 ELSE Node(q, id).count - 1)[1]

\* Into a node that has room, at position p (from 0)
InsertInto(q, id, p, v) ==
    LET put(u) == SetNode(u, Filled(Node(u, id), InsertAt(Node(u, id).items, p + 1, v)))
    IN quicklistRecompressOnly(put(quicklistDecompressNodeForUse(q, id)), id)

\* A large item inside a packed node parts it
PlainThen(q, id, n, rest, after) ==
    LET link(i) == __quicklistInsertNode(i, n.id, quicklistCreateNode(FreshId(i), rest), after)
    IN Counted(link(__quicklistInsertNode(q, id, n, after)), 1)

InsertLarge(q, id, offset, v, after) ==
    LET split(u, parts) == PlainThen(SetNode(u, Filled(Node(u, id), parts[1])), id,
                                     __quicklistCreatePlainNode(FreshId(u), v), parts[2], after)
    IN split(quicklistDecompressNodeForUse(q, id), _quicklistSplitNode(Node(q, id), offset, after))

\* A full node is split, and the halves merged with their neighbours where they fit
InsertSplitting(q, id, offset, v, after) ==
    LET split(u, parts) ==
            __quicklistInsertNode(
                SetNode(u, Filled(Node(u, id), parts[1])), id,
                quicklistCreateNode(FreshId(u), IF after THEN <<v>> \o parts[2] ELSE Append(parts[2], v)), after)
    IN _quicklistMergeNodes(split(quicklistDecompressNodeForUse(q, id),
                                  _quicklistSplitNode(Node(q, id), offset, after)), id)

InsertSmall(e, v, after, edge) ==
    LET q == e.q
        id == e.node
        side == IF after THEN NextId(q, id) ELSE PrevId(q, id)
        room == edge /\ _quicklistNodeAllowInsert(q, side, v)
    IN IF _quicklistNodeAllowInsert(q, id, v)
       THEN InsertInto(q, id, IF after THEN e.zi + 1 ELSE e.zi, v)
       ELSE IF room
       THEN quicklistRecompressOnly(InsertInto(q, side, IF after THEN 0 ELSE Node(q, side).count, v), id)
       ELSE IF edge THEN __quicklistInsertNode(q, id, quicklistCreateNode(FreshId(q), <<v>>), after)
       ELSE InsertSplitting(q, id, e.offset, v, after)

\* <<list, iterator>>; the iterator is reset unless the item is large
_quicklistInsert(e, v, after) ==
    LET n == Node(e.q, e.node)
        edge == e.offset \in (IF after THEN {n.count - 1, -1} ELSE {0, -n.count})
    IN IF ~isLargeElement(v) THEN <<Counted(InsertSmall(e, v, after, edge), 1), NoCurrent(e.it)>>
       ELSE IF n.plain \/ edge THEN <<__quicklistInsertPlainNode(e.q, e.node, v, after), e.it>>
       ELSE <<InsertLarge(e.q, e.node, e.offset, v, after), e.it>>

\* What is left of the node once the new item is in one of its own
CompressAgain(q, id) ==
    LET next(u) == quicklistCompress(u, NextId(u, id))
    IN next(quicklistCompress(SetNode(q, [Node(q, id) EXCEPT !.dont = FALSE]), id))

DropReplaced(q, id, plain) ==
    IF plain \/ Node(q, id).count = 1 THEN __quicklistDelNode(q, id)
    ELSE CompressAgain(quicklistDelIndex(q, id, Node(q, id).count - 1)[1], id)

quicklistReplaceEntry(e, v) ==
    LET q == e.q
        id == e.node
        n == Node(q, id)
        new == IF n.plain THEN [n EXCEPT !.items = <<v>>, !.sz = ItemBytes[v]]
               ELSE Filled(n, [n.items EXCEPT ![e.zi + 1] = v])
    IN IF n.plain = isLargeElement(v) THEN quicklistCompress(SetNode(q, new), id)
       ELSE DropReplaced(
                _quicklistInsert([e EXCEPT !.q = SetNode(q, [n EXCEPT !.dont = ~n.plain])], v, TRUE)[1],
                id, n.plain)

quicklistReplaceAtIndex(q, idx, v) == quicklistReplaceEntry(quicklistGetIteratorEntryAtIdx(q, idx), v)

RECURSIVE DelFrom(_, _, _, _)
DelFrom(q, id, offset, extent) ==
    LET n == Node(q, id)
        next == NextId(q, id)
        all == offset = 0 /\ extent >= n.count
        del == IF all THEN n.count
               ELSE IF offset >= 0 /\ extent + offset >= n.count THEN n.count - offset
               ELSE IF offset < 0 THEN Min({-offset, extent})
               ELSE extent
        from == IF offset < 0 THEN n.count + offset ELSE offset
        u == quicklistDecompressNodeForUse(q, id)
        m == Filled(Node(u, id), SubSeq(n.items, 1, from) \o SubSeq(n.items, from + del + 1, n.count))
        cut == [SetNode(u, m) EXCEPT !.count = @ - del]
        done == IF all \/ n.plain THEN __quicklistDelNode(q, id)
                ELSE IF m.count = 0 THEN __quicklistDelNode(cut, id)
                ELSE quicklistRecompressOnly(cut, id)
    IN IF extent = 0 THEN q ELSE DelFrom(done, next, 0, extent - del)

quicklistDelRange(q, start, count) ==
    LET extent == Min({count, IF start >= 0 THEN q.count - start ELSE -start})
        it == quicklistGetIteratorAtIdx(q, "tail", start)
    IN IF count <= 0 \/ ~InList(q, start) THEN q
       ELSE DelFrom(quicklistReleaseIterator(q, it), it.current, it.offset, extent)

\* Up to n items from index idx on, and the list once the iterator is released
NextOf(r) == quicklistNext(r.q, r.it)

ReleaseOf(r) == quicklistReleaseIterator(r.q, r.it)

RECURSIVE ReadOn(_, _, _)
ReadOn(e, n, seen) ==
    IF e.node = 0 THEN <<e.q, seen>>
    ELSE IF n = 1 THEN <<ReleaseOf(e), Append(seen, ItemAt(e))>>
    ELSE ReadOn(NextOf(e), n - 1, Append(seen, ItemAt(e)))

\* Delete up to n items equal to v: LREM
RECURSIVE RemoveOn(_, _, _)
RemoveOn(e, v, n) ==
    IF e.node = 0 THEN e.q
    ELSE IF ItemAt(e) = v /\ n = 1 THEN ReleaseOf(quicklistDelEntry(e))
    ELSE IF ItemAt(e) = v THEN RemoveOn(NextOf(quicklistDelEntry(e)), v, n - 1)
    ELSE RemoveOn(NextOf(e), v, n)

\* Insert next to the first item equal to the pivot: LINSERT
RECURSIVE InsertOn(_, _, _, _)
InsertOn(e, pivot, v, after) ==
    LET released(i) == quicklistReleaseIterator(i[1], i[2])
    IN IF e.node = 0 THEN e.q
       ELSE IF ItemAt(e) = pivot THEN released(_quicklistInsert(e, v, after))
       ELSE InsertOn(NextOf(e), pivot, v, after)

EntryFrom(dir) == quicklistNext(quick, quicklistGetIterator(quick, dir))

Bare(q) == [q EXCEPT !.nodes = <<>>, !.count = 0, !.mark = 0]

quicklistDup(q) ==
    FoldLeft(LAMBDA c, n : __quicklistInsertNode([c EXCEPT !.count = @ + n.count], TailId(c),
                               [n EXCEPT !.id = FreshId(c), !.tried = FALSE, !.recompress = FALSE, !.dont = FALSE], TRUE),
             Bare(q), q.nodes)

quicklistAppendListpack(q, items) ==
    Counted(__quicklistInsertNode(q, TailId(q), quicklistCreateNode(FreshId(q), items), TRUE), Len(items))

quicklistAppendPlainNode(q, v) ==
    Counted(__quicklistInsertNode(q, TailId(q), __quicklistCreatePlainNode(FreshId(q), v), TRUE), 1)

\* rdbLoadObject, from the nodes rdbSaveObject wrote
Reloaded(q) ==
    FoldLeft(LAMBDA c, n : IF n.plain THEN quicklistAppendPlainNode(c, n.items[1])
                           ELSE quicklistAppendListpack(c, n.items),
             Bare(q), q.nodes)

\* From the bookmark on, until time is up after a while, when a bookmark keeps the place
RECURSIVE DefragOn(_, _, _, _)
DefragOn(q, id, iterations, late) ==
    IF id = 0 THEN [q EXCEPT !.mark = 0, !.cursor = 0]
    ELSE IF iterations + 1 > PauseEvery /\ late THEN [q EXCEPT !.mark = id]
    ELSE DefragOn(q, NextId(q, id), IF iterations + 1 > PauseEvery THEN 0 ELSE iterations + 1, late)

scanLaterList(q, late) ==
    IF q.cursor = 0 THEN DefragOn([q EXCEPT !.cursor = 1], HeadId(q), 0, late)
    ELSE IF q.mark = 0 THEN [q EXCEPT !.cursor = 0]
    ELSE DefragOn(q, NextId(q, q.mark), 0, late)

-----------------------------------------------------------------------------
\* Which id a node has does not matter: it takes its position for one once a command is over
Settled(q, held) ==
    [q EXCEPT !.nodes = FoldLeft(LAMBDA r, n : Append(r, [n EXCEPT !.id = Len(r) + 1]), <<>>, @),
              !.mark = IF @ = 0 THEN 0 ELSE Ix(q, @), !.held = held]

QuickInit == \E o \in ListOptions : quick = quicklistNew(o)

Indexes == -quick.count..quick.count - 1

\* RPUSH, LPUSH
QuickPush(v, where) ==
    /\ quick.count < MaxItems
    /\ quick' = Settled(quicklistPush(quick, v, where),
                        IF where = "head" THEN <<v>> \o quick.held ELSE Append(quick.held, v))

\* LPOP, RPOP
QuickPop(where) ==
    /\ quick.count > 0
    /\ quick' = Settled(quicklistPop(quick, where), IF where = "head" THEN Tail(quick.held) ELSE Front(quick.held))

First(s, v) == CHOOSE i \in DOMAIN s : s[i] = v /\ \A j \in 1..i - 1 : s[j] # v

\* LINSERT
QuickInsert(pivot, v, after) ==
    /\ quick.count < MaxItems
    /\ quick' = Settled(InsertOn(EntryFrom("head"), pivot, v, after),
                        IF pivot \notin Range(quick.held) THEN quick.held
                        ELSE InsertAt(quick.held, First(quick.held, pivot) + (IF after THEN 1 ELSE 0), v))

\* LSET
QuickSet(idx, v) ==
    quick' = Settled(quicklistReplaceAtIndex(quick, idx, v),
                     [quick.held EXCEPT ![IF idx >= 0 THEN idx + 1 ELSE quick.count + idx + 1] = v])

\* LTRIM and LPOP with a count
QuickDelRange(start, n) ==
    LET from == IF start >= 0 THEN start ELSE quick.count + start
    IN quick' = Settled(quicklistDelRange(quick, start, n),
                        SubSeq(quick.held, 1, from) \o SubSeq(quick.held, from + n + 1, Len(quick.held)))

\* The first n items equal to v removed
Without(s, v, n) ==
    FoldLeft(LAMBDA a, x : IF x = v /\ a[2] < n THEN <<a[1], a[2] + 1>> ELSE <<Append(a[1], x), a[2]>>,
             <<<<>>, 0>>, s)[1]

\* LREM
QuickRem(v, dir, n) ==
    /\ quick.count > 0
    /\ quick' = Settled(RemoveOn(EntryFrom(dir), v, n),
                        IF dir = "head" THEN Without(quick.held, v, n)
                        ELSE Reverse(Without(Reverse(quick.held), v, n)))

\* LRANGE, LINDEX, LPOS: reading unpacks nodes and packs them again
QuickRead(idx, dir, n) ==
    quick' = ReadOn(quicklistNext(quick, quicklistGetIteratorAtIdx(quick, dir, idx)), n, <<>>)[1]

\* COPY: the copy takes the place of the list
QuickDup == quick' = quicklistDup(quick)

QuickReload == quick' = Reloaded(quick)

QuickDefrag(late) == quick.defrag /\ quick' = scanLaterList(quick, late)

QuickNext ==
    \/ \E v \in Items, where \in {"head", "tail"} : QuickPush(v, where)
    \/ \E where \in {"head", "tail"} : QuickPop(where)
    \/ \E pivot, v \in Items, after \in BOOLEAN : QuickInsert(pivot, v, after)
    \/ \E idx \in Indexes, v \in Items : QuickSet(idx, v)
    \/ \E start \in Indexes, n \in 1..2 : QuickDelRange(start, n)
    \/ \E v \in Items, dir \in {"head", "tail"}, n \in 1..2 : QuickRem(v, dir, n)
    \/ \E idx \in Indexes, dir \in {"head", "tail"}, n \in 1..2 : QuickRead(idx, dir, n)
    \/ QuickDup
    \/ QuickReload
    \/ \E late \in BOOLEAN : QuickDefrag(late)

-----------------------------------------------------------------------------
\* The list holds what the commands left in it, in order; every cached count and size is right, no node
\* is empty, nodes keep to the fill factor; the ends and the nodes within the compress depth of them are
\* not compressed, every other node is, unless an attempt did not pay, and none waits to be recompressed;
\* the defragmentation bookmark names a node of the list; no assert of quicklist.c has failed.
QuicklistHolds ==
    LET q == quick
        n == Len(q.nodes)
        deep(i) == q.compress > 0 /\ i > q.compress /\ i <= n - q.compress
    IN /\ q.asserted
       /\ FlattenSeq([i \in 1..n |-> q.nodes[i].items]) = q.held
       /\ q.count = Len(q.held)
       /\ q.mark \in Ids(q) \cup {0}
       /\ \A i \in 1..n :
             LET m == q.nodes[i]
             IN /\ m.count = Len(m.items) /\ m.count > 0
                /\ m.sz = IF m.plain THEN ItemBytes[m.items[1]] ELSE lpBytes(m.items)
                /\ m.plain <=> isLargeElement(m.items[1])
                /\ m.plain => m.count = 1
                /\ \A j \in DOMAIN m.items : isLargeElement(m.items[j]) => m.plain
                /\ m.count > 1 /\ q.fill > 0 => m.count <= q.fill
                /\ ~m.recompress /\ ~m.dont
                /\ IF deep(i) THEN m.lzf \/ m.tried ELSE ~m.lzf

\* Reading from any index in either direction gives the items from there on, whichever end the seek
\* started from and whatever was compressed.
QuicklistReads ==
    \A idx \in Indexes, dir \in {"head", "tail"} :
       LET at == IF idx >= 0 THEN idx + 1 ELSE quick.count + idx + 1
           r == ReadOn(quicklistNext(quick, quicklistGetIteratorAtIdx(quick, dir, idx)), MaxItems, <<>>)
       IN r[2] = IF dir = "head" THEN SubSeq(quick.held, at, quick.count) ELSE Reverse(SubSeq(quick.held, 1, at))
=============================================================================
