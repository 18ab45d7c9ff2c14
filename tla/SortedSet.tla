------------------------------ MODULE SortedSet ------------------------------
(***************************************************************************)
(* The two encodings of a sorted set (t_zset.c): a listpack of members and *)
(* scores in order, and a dictionary with a skiplist whose links know how  *)
(* many nodes they skip.                                                   *)
(*                                                                         *)
(* Members are 1..Members, in lexicographic order; a node is named by its  *)
(* member, NULL is 0 and the header of the skiplist is Header.  lv[i] is   *)
(* the link of level i: [f: the next node, s: the span].  The listpack is  *)
(* the sequence of its pairs.  zset.held is what the caller has stored.    *)
(***************************************************************************)
EXTENDS Integers, Sequences, SequencesExt, FiniteSetsExt

CONSTANTS Members,        \* how many members there may be
          Scores,
          MaxLevel,       \* ZSKIPLIST_MAXLEVEL
          MaxListpack     \* zset-max-listpack-entries

VARIABLE zset

Header == Members + 1

-----------------------------------------------------------------------------
(* The skiplist *)

Times(n, v) == FoldLeft(LAMBDA s, i : Append(s, v), <<>>, [i \in 1..n |-> i])

Gone == [score |-> 0, back |-> 0, lv |-> <<>>]

zslCreate ==
    [level |-> 1, length |-> 0, tail |-> 0,
     at |-> Append(Times(Members, Gone), [Gone EXCEPT !.lv = Times(MaxLevel, [f |-> 0, s |-> 0])])]

Link(sl, x, i) == sl.at[x].lv[i]

\* Along level i, over nodes of pass, without getting further than lim
RECURSIVE Ahead(_, _, _, _, _, _)
Ahead(sl, pass, lim, x, i, r) ==
    LET l == Link(sl, x, i)
    IN IF l.f # 0 /\ l.f \in pass /\ r + l.s <= lim THEN Ahead(sl, pass, lim, l.f, i, r + l.s)
       ELSE [x |-> x, r |-> r]

\* update[] and rank[]: where the walk left each level, from the top one down
RECURSIVE Descend(_, _, _, _, _, _)
Descend(sl, pass, lim, x, i, r) ==
    LET a == Ahead(sl, pass, lim, x, i, r)
    IN IF i = 0 THEN <<>> ELSE Append(Descend(sl, pass, lim, a.x, i - 1, a.r), a)

Nodes == 1..Members

Walk(sl, pass) == Descend(sl, pass, Members, Header, sl.level, 0)

WalkRank(sl, lim) == Descend(sl, Nodes, lim, Header, sl.level, 0)

\* The nodes of sl before (score, e)
Before(sl, score, e) ==
    {n \in Nodes : sl.at[n].lv # <<>> /\ (sl.at[n].score < score \/ (sl.at[n].score = score /\ n < e))}

SetLink(sl, x, i, f, s) == [sl EXCEPT !.at[x].lv[i] = [f |-> f, s |-> s]]

Upto(n) == [i \in 1..n |-> i]

\* e becomes a node at level i, or one more that the link there passes over
LinkAt(z, e, level, i, before, crossed) ==
    LET old == Link(z, before, i)
    IN IF i > level THEN SetLink(z, before, i, old.f, old.s + 1)
       ELSE SetLink([z EXCEPT !.at[e].lv = Append(@, [f |-> old.f, s |-> old.s - crossed])],
                    before, i, e, crossed + 1)

LinkAll(z, e, level, u) ==
    FoldLeft(LAMBDA y, i : LinkAt(y, e, level, i, u[i].x, u[1].r - u[i].r), z, Upto(z.level))

LinkBack(z, e, before, next) ==
    LET back == [z EXCEPT !.at[e].back = IF before = Header THEN 0 ELSE before, !.length = @ + 1]
    IN IF next # 0 THEN [back EXCEPT !.at[next].back = e] ELSE [back EXCEPT !.tail = e]

LinkedBack(z, e, before) == LinkBack(z, e, before, Link(z, e, 1).f)

InsertAfter(sl, score, e, level, u) ==
    LET tall == FoldLeft(LAMBDA z, i : IF i > sl.level THEN SetLink(z, Header, i, Link(z, Header, i).f, sl.length) ELSE z,
                         [sl EXCEPT !.level = Max({@, level}), !.at[e] = [Gone EXCEPT !.score = score]], Upto(level))
    IN LinkedBack(LinkAll(tall, e, level, u), e, u[1].x)

zslInsert(sl, score, e, level) ==
    InsertAfter(sl, score, e, level,
                Walk(sl, Before(sl, score, e)) \o Times(level - sl.level, [x |-> Header, r |-> 0]))

RECURSIVE Lowered(_)
Lowered(sl) ==
    IF sl.level > 1 /\ Link(sl, Header, sl.level).f = 0 THEN Lowered([sl EXCEPT !.level = @ - 1]) ELSE sl

\* u is where a walk to the node before x left each level
zslDeleteNode(sl, x, u) ==
    LET cut == FoldLeft(
            LAMBDA z, i : LET l == Link(z, u[i].x, i)
                          IN IF l.f = x THEN SetLink(z, u[i].x, i, Link(z, x, i).f, l.s + Link(z, x, i).s - 1)
                             ELSE SetLink(z, u[i].x, i, l.f, l.s - 1),
            sl, Upto(sl.level))
        next == Link(sl, x, 1).f
        back == IF next # 0 THEN [cut EXCEPT !.at[next].back = sl.at[x].back] ELSE [cut EXCEPT !.tail = sl.at[x].back]
    IN [Lowered(back) EXCEPT !.length = @ - 1, !.at[x] = Gone]

zslDelete(sl, score, e) ==
    LET u == Walk(sl, Before(sl, score, e))
        x == Link(sl, u[1].x, 1).f
    IN IF x = e /\ sl.at[x].score = score THEN zslDeleteNode(sl, x, u) ELSE sl

\* In place when the neighbours allow it
zslUpdateScore(sl, old, e, new, level) ==
    LET u == Walk(sl, Before(sl, old, e))
        n == sl.at[e]
        next == n.lv[1].f
    IN IF (n.back = 0 \/ sl.at[n.back].score < new) /\ (next = 0 \/ sl.at[next].score > new)
       THEN [sl EXCEPT !.at[e].score = new]
       ELSE zslInsert(zslDeleteNode(sl, e, u), new, e, level)

\* A range of scores or of members: [by, min, minex, max, maxex]
Key(r, e, score) == IF r.by = "score" THEN score ELSE e

zslValueGteMin(v, r) == IF r.minex THEN v > r.min ELSE v >= r.min

zslValueLteMax(v, r) == IF r.maxex THEN v < r.max ELSE v <= r.max

EmptyRange(r) == r.min > r.max \/ (r.min = r.max /\ (r.minex \/ r.maxex))

NodeKey(sl, r, n) == Key(r, n, sl.at[n].score)

zslIsInRange(sl, r) ==
    /\ ~EmptyRange(r)
    /\ sl.tail # 0 /\ zslValueGteMin(NodeKey(sl, r, sl.tail), r)
    /\ zslValueLteMax(NodeKey(sl, r, Link(sl, Header, 1).f), r)

BelowMin(sl, r) == {n \in Nodes : sl.at[n].lv # <<>> /\ ~zslValueGteMin(NodeKey(sl, r, n), r)}

UptoMax(sl, r) == {n \in Nodes : sl.at[n].lv # <<>> /\ zslValueLteMax(NodeKey(sl, r, n), r)}

zslFirstInRange(sl, r) ==
    LET x == Link(sl, Walk(sl, BelowMin(sl, r))[1].x, 1).f
    IN IF zslIsInRange(sl, r) /\ zslValueLteMax(NodeKey(sl, r, x), r) THEN x ELSE 0

zslLastInRange(sl, r) ==
    LET x == Walk(sl, UptoMax(sl, r))[1].x
    IN IF zslIsInRange(sl, r) /\ zslValueGteMin(NodeKey(sl, r, x), r) THEN x ELSE 0

\* From the node after u on, at most count nodes, while they are in `in'
RECURSIVE DeleteOn(_, _, _, _)
DeleteOn(sl, u, in, count) ==
    LET x == Link(sl, u[1].x, 1).f
        dead == zslDeleteNode(sl, x, u)
    IN IF x # 0 /\ x \in in /\ count > 0 THEN DeleteOn(dead, u, in, count - 1) ELSE sl

zslDeleteRange(sl, r) == DeleteOn(sl, Walk(sl, BelowMin(sl, r)), UptoMax(sl, r), Members)

\* 1-based and inclusive
zslDeleteRangeByRank(sl, start, end) ==
    LET u == WalkRank(sl, start - 1) IN DeleteOn(sl, u, Nodes, end - u[1].r)

\* The level at which the walk first stands on e
zslGetRank(sl, score, e) ==
    LET u == Walk(sl, Before(sl, score, e + 1))
        on == {i \in DOMAIN u : u[i].x = e /\ sl.at[e].score = score}
    IN IF on = {} THEN 0 ELSE u[Max(on)].r

zslGetElementByRank(sl, rank) ==
    LET u == WalkRank(sl, rank)
        on == {i \in DOMAIN u : u[i].r = rank}
    IN IF on = {} THEN 0 ELSE u[Max(on)].x

-----------------------------------------------------------------------------
(* The listpack: a sequence of <<member, score>>; a position is an index, 0 is NULL *)

zzlFind(zl, e) == LET at == {i \in DOMAIN zl : zl[i][1] = e} IN IF at = {} THEN 0 ELSE Min(at)

\* Before the first pair that comes later
zzlInsert(zl, e, score) ==
    LET later == {i \in DOMAIN zl : zl[i][2] > score \/ (zl[i][2] = score /\ zl[i][1] > e)}
    IN IF later = {} THEN Append(zl, <<e, score>>) ELSE InsertAt(zl, Min(later), <<e, score>>)

zzlDelete(zl, i) == RemoveAt(zl, i)

PairKey(r, p) == Key(r, p[1], p[2])

zzlIsInRange(zl, r) ==
    /\ ~EmptyRange(r)
    /\ zl # <<>> /\ zslValueGteMin(PairKey(r, Last(zl)), r)
    /\ zslValueLteMax(PairKey(r, Head(zl)), r)

zzlFirstInRange(zl, r) ==
    LET at == {i \in DOMAIN zl : zslValueGteMin(PairKey(r, zl[i]), r)}
    IN IF zzlIsInRange(zl, r) /\ at # {} /\ zslValueLteMax(PairKey(r, zl[Min(at)]), r) THEN Min(at) ELSE 0

zzlLastInRange(zl, r) ==
    LET at == {i \in DOMAIN zl : zslValueLteMax(PairKey(r, zl[i]), r)}
    IN IF zzlIsInRange(zl, r) /\ at # {} /\ zslValueGteMin(PairKey(r, zl[Max(at)]), r) THEN Max(at) ELSE 0

RECURSIVE CutWhile(_, _, _)
CutWhile(zl, i, r) ==
    IF i <= Len(zl) /\ zslValueLteMax(PairKey(r, zl[i]), r) THEN CutWhile(zzlDelete(zl, i), i, r) ELSE zl

zzlDeleteRange(zl, r) ==
    LET i == zzlFirstInRange(zl, r) IN IF i = 0 THEN zl ELSE CutWhile(zl, i, r)

zzlDeleteRangeByRank(zl, start, end) == SubSeq(zl, 1, start - 1) \o SubSeq(zl, end + 1, Len(zl))

-----------------------------------------------------------------------------
(* The object, whichever its encoding: [enc, zl, sl, dict, held]; dict is the members of the dictionary, *)
(* each pointing at the score of its node                                                               *)

Packed == zset.enc = "listpack"

zsetLength == IF Packed THEN Len(zset.zl) ELSE zset.sl.length

RECURSIVE ForeChain(_, _)
ForeChain(sl, x) == IF x = 0 THEN <<>> ELSE <<<<x, sl.at[x].score>>>> \o ForeChain(sl, Link(sl, x, 1).f)

\* height: the levels the nodes will draw
zsetConvert(z, enc, height) ==
    IF z.enc = enc THEN z
    ELSE IF enc = "skiplist"
    THEN [z EXCEPT !.enc = enc, !.zl = <<>>, !.dict = {z.zl[i][1] : i \in DOMAIN z.zl},
                   !.sl = FoldLeft(LAMBDA sl, p : zslInsert(sl, p[2], p[1], height[p[1]]), zslCreate, z.zl)]
    ELSE [z EXCEPT !.enc = enc, !.zl = ForeChain(z.sl, Link(z.sl, Header, 1).f), !.sl = zslCreate, !.dict = {}]

zsetConvertToListpackIfNeeded(z) ==
    IF z.enc = "skiplist" /\ z.sl.length <= MaxListpack THEN zsetConvert(z, "listpack", <<>>) ELSE z

zsetScore(z, e) ==
    IF z.enc = "listpack" THEN IF zzlFind(z.zl, e) = 0 THEN {} ELSE {z.zl[zzlFind(z.zl, e)][2]}
    ELSE IF e \in z.dict THEN {z.sl.at[e].score} ELSE {}

\* ZADD of one pair: a listpack about to outgrow its limit is converted first
AddToSkiplist(z, e, score, height) ==
    IF e \notin z.dict THEN [z EXCEPT !.sl = zslInsert(@, score, e, height[e]), !.dict = @ \cup {e}]
    ELSE IF z.sl.at[e].score = score THEN z
    ELSE [z EXCEPT !.sl = zslUpdateScore(@, z.sl.at[e].score, e, score, height[e])]

zsetAdd(z, e, score, height) ==
    LET i == zzlFind(z.zl, e)
    IN IF z.enc = "listpack" /\ i # 0
       THEN IF z.zl[i][2] = score THEN z ELSE [z EXCEPT !.zl = zzlInsert(zzlDelete(@, i), e, score)]
       ELSE IF z.enc = "listpack" /\ Len(z.zl) + 1 <= MaxListpack
       THEN [z EXCEPT !.zl = zzlInsert(@, e, score)]
       ELSE AddToSkiplist(zsetConvert(z, "skiplist", height), e, score, height)

zsetRemoveFromSkiplist(z, e) ==
    IF e \in z.dict THEN [z EXCEPT !.dict = @ \ {e}, !.sl = zslDelete(@, z.sl.at[e].score, e)] ELSE z

zsetDel(z, e) ==
    IF z.enc # "listpack" THEN zsetRemoveFromSkiplist(z, e)
    ELSE IF zzlFind(z.zl, e) # 0 THEN [z EXCEPT !.zl = zzlDelete(@, zzlFind(@, e))]
    ELSE z

\* What zremrangeGenericCommand does to the object
DeleteRange(z, r) ==
    IF z.enc = "listpack" THEN [z EXCEPT !.zl = zzlDeleteRange(@, r)]
    ELSE LET sl == zslDeleteRange(z.sl, r)
         IN [z EXCEPT !.sl = sl, !.dict = {e \in @ : sl.at[e].lv # <<>>}]

DeleteRanks(z, start, end) ==
    IF z.enc = "listpack" THEN [z EXCEPT !.zl = zzlDeleteRangeByRank(@, start, end)]
    ELSE LET sl == zslDeleteRangeByRank(z.sl, start, end)
         IN [z EXCEPT !.sl = sl, !.dict = {e \in @ : sl.at[e].lv # <<>>}]

RECURSIVE BackChain(_, _)
BackChain(sl, x) == IF x = 0 THEN <<>> ELSE <<<<x, sl.at[x].score>>>> \o BackChain(sl, sl.at[x].back)

\* A copy has the same encoding, and levels of its own
zsetDup(z, height) ==
    IF z.enc = "listpack" THEN z
    ELSE [z EXCEPT !.sl = FoldLeft(LAMBDA sl, p : zslInsert(sl, p[2], p[1], height[p[1]]), zslCreate,
                                   BackChain(z.sl, z.sl.tail))]

zsetRank(z, e, reverse) ==
    LET n == IF z.enc = "listpack" THEN Len(z.zl) ELSE z.sl.length
        rank == IF z.enc = "listpack" THEN zzlFind(z.zl, e)
                ELSE IF e \in z.dict THEN zslGetRank(z.sl, z.sl.at[e].score, e) ELSE 0
    IN IF rank = 0 THEN -1 ELSE IF reverse THEN n - rank ELSE rank - 1

\* Up to count members one after the other from position x of either encoding, while `in' holds them
RECURSIVE Emit(_, _, _, _, _)
Emit(z, x, reverse, in, count) ==
    LET zl == z.enc = "listpack"
        e == IF zl THEN z.zl[x][1] ELSE x
        next == IF zl THEN IF reverse THEN x - 1 ELSE IF x = Len(z.zl) THEN 0 ELSE x + 1
                ELSE IF reverse THEN z.sl.at[x].back ELSE Link(z.sl, x, 1).f
    IN IF x = 0 \/ count = 0 THEN <<>>
       ELSE IF e \notin in THEN <<>>
       ELSE <<e>> \o Emit(z, next, reverse, in, count - 1)

genericZrangebyrankCommand(z, start0, end0, reverse) ==
    LET n == IF z.enc = "listpack" THEN Len(z.zl) ELSE z.sl.length
        start == Max({0, IF start0 < 0 THEN n + start0 ELSE start0})
        end == IF end0 < 0 THEN n + end0 ELSE end0
        first == IF z.enc = "listpack" THEN IF reverse THEN n - start ELSE start + 1
                 ELSE IF reverse THEN IF start = 0 THEN z.sl.tail ELSE zslGetElementByRank(z.sl, n - start)
                 ELSE IF start = 0 THEN Link(z.sl, Header, 1).f ELSE zslGetElementByRank(z.sl, start + 1)
    IN IF start > end \/ start >= n THEN <<>>
       ELSE Emit(z, first, reverse, Nodes, Min({end, n - 1}) - start + 1)

RECURSIVE Skip(_, _, _, _)
Skip(z, x, reverse, n) ==
    LET zl == z.enc = "listpack"
        next == IF zl THEN IF reverse THEN x - 1 ELSE IF x = Len(z.zl) THEN 0 ELSE x + 1
                ELSE IF reverse THEN z.sl.at[x].back ELSE Link(z.sl, x, 1).f
    IN IF x = 0 \/ n = 0 THEN x ELSE Skip(z, next, reverse, n - 1)

\* By score; limit -1 is no limit
genericZrangebyscoreCommand(z, r, offset, limit, reverse) ==
    LET zl == z.enc = "listpack"
        n == IF zl THEN Len(z.zl) ELSE z.sl.length
        first == IF zl THEN IF reverse THEN zzlLastInRange(z.zl, r) ELSE zzlFirstInRange(z.zl, r)
                 ELSE IF reverse THEN zslLastInRange(z.sl, r) ELSE zslFirstInRange(z.sl, r)
        in == {e \in Nodes : \A s \in zsetScore(z, e) :
                  IF reverse THEN zslValueGteMin(Key(r, e, s), r) ELSE zslValueLteMax(Key(r, e, s), r)}
    IN IF offset > 0 /\ offset >= n THEN <<>> ELSE Emit(z, Skip(z, first, reverse, offset), reverse, in, limit)

\* By member: no early return for the offset
genericZrangebylexCommand(z, r, offset, limit, reverse) ==
    LET zl == z.enc = "listpack"
        first == IF zl THEN IF reverse THEN zzlLastInRange(z.zl, r) ELSE zzlFirstInRange(z.zl, r)
                 ELSE IF reverse THEN zslLastInRange(z.sl, r) ELSE zslFirstInRange(z.sl, r)
        in == {e \in Nodes : IF reverse THEN zslValueGteMin(e, r) ELSE zslValueLteMax(e, r)}
    IN Emit(z, Skip(z, first, reverse, offset), reverse, in, limit)

\* A listpack is walked, a skiplist asked for two ranks
zcountCommand(z, r) ==
    LET first == zslFirstInRange(z.sl, r)
        last == zslLastInRange(z.sl, r)
        rank(x) == zslGetRank(z.sl, z.sl.at[x].score, x)
        from == zzlFirstInRange(z.zl, r)
        in == {e \in Nodes : \A s \in zsetScore(z, e) : zslValueLteMax(Key(r, e, s), r)}
    IN IF z.enc = "listpack" THEN IF from = 0 THEN 0 ELSE Len(Emit(z, from, FALSE, in, -1))
       ELSE IF first = 0 THEN 0
       ELSE z.sl.length - (rank(first) - 1) - (IF last = 0 THEN 0 ELSE z.sl.length - rank(last))

\* The same walk and the same ranks over a range of members
zlexcountCommand(z, r) == zcountCommand(z, r)

\* The member ZPOPMIN or ZPOPMAX takes next
PopEnd(z, max) ==
    IF z.enc = "listpack" THEN z.zl[IF max THEN Len(z.zl) ELSE 1][1]
    ELSE IF max THEN z.sl.tail ELSE Link(z.sl, Header, 1).f

-----------------------------------------------------------------------------
ZsetInit ==
    zset = [enc |-> "listpack", zl |-> <<>>, sl |-> zslCreate, dict |-> {}, held |-> Times(Members, {})]

\* held[e] is the set of the score of e, empty when e is not a member
Stored == {e \in Nodes : zset.held[e] # {}}

Heights == [Nodes -> 1..MaxLevel]

\* Only the levels that are drawn matter: those of the nodes that will be inserted
Drawn(S) == {h \in Heights : \A n \in Nodes \ S : h[n] = 1}

Stores(z, held) == zset' = [z EXCEPT !.held = held]

ZAdd(e, score) ==
    \E h \in Drawn(IF Packed THEN IF zsetLength < MaxListpack THEN {} ELSE Stored \cup {e} ELSE {e}) :
        Stores(zsetAdd(zset, e, score, h), [zset.held EXCEPT ![e] = {score}])

ZRem(e) == Stores(zsetDel(zset, e), [zset.held EXCEPT ![e] = {}])

Ranges(by, keys) ==
    {[by |-> by, min |-> a, minex |-> x, max |-> b, maxex |-> y] : a \in keys, b \in keys, x \in BOOLEAN, y \in BOOLEAN}

Within(r, e) ==
    \E s \in zset.held[e] : zslValueGteMin(Key(r, e, s), r) /\ zslValueLteMax(Key(r, e, s), r)

\* Ranges of members are asked of sets whose scores are all the same
SameScores == \A a, b \in Stored : zset.held[a] = zset.held[b]

AllRanges == Ranges("score", Scores) \cup (IF SameScores THEN Ranges("lex", Nodes) ELSE {})

Less(S) == FoldLeft(LAMBDA h, e : Append(h, IF e \in S THEN {} ELSE zset.held[e]), <<>>, Upto(Members))

ZRemRange(r) == Stores(DeleteRange(zset, r), Less({e \in Stored : Within(r, e)}))

Lesser(a, b) ==
    \E s \in zset.held[a], t \in zset.held[b] : s < t \/ (s = t /\ a < b)

\* 1-based rank
RankOf(e) == Cardinality({d \in Stored : Lesser(d, e)}) + 1

ZRemRanks(start, end) ==
    Stores(DeleteRanks(zset, start, end), Less({e \in Stored : RankOf(e) \in start..end}))

ZPop(max) ==
    /\ Stored # {}
    /\ LET e == PopEnd(zset, max)
       IN Stores(zsetDel(zset, e), Less({d \in Stored : RankOf(d) = IF max THEN Cardinality(Stored) ELSE 1}))

\* A result stored by ZRANGESTORE and the like, or loaded, is packed again when small enough
ZShrink == Stores(zsetConvertToListpackIfNeeded(zset), zset.held)

ZCopy == \E h \in Drawn(IF Packed THEN {} ELSE Stored) : Stores(zsetDup(zset, h), zset.held)

ZsetNext ==
    \/ \E e \in Nodes, s \in Scores : ZAdd(e, s)
    \/ \E e \in Nodes : ZRem(e)
    \/ \E r \in AllRanges : ZRemRange(r)
    \/ \E i, j \in DOMAIN zset.held : i <= j /\ j <= zsetLength /\ ZRemRanks(i, j)
    \/ \E max \in BOOLEAN : ZPop(max)
    \/ ZShrink
    \/ ZCopy

-----------------------------------------------------------------------------
Ordered == FoldLeft(LAMBDA s, i : s \o SetToSeq({e \in Stored : RankOf(e) = i}), <<>>, Upto(Cardinality(Stored)))

\* Both encodings hold what was stored, in order: the chain of level 1 in both directions, the dictionary,
\* the length and the tail agree, and at every level each link skips as many nodes as its span says, which
\* is what ranks are computed from.
SortedSetHolds ==
    LET pairs == FoldLeft(LAMBDA s, e : Append(s, <<e, CHOOSE x \in zset.held[e] : TRUE>>), <<>>, Ordered)
        sl == zset.sl
    IN IF Packed THEN zset.zl = pairs
       ELSE /\ ForeChain(sl, Link(sl, Header, 1).f) = pairs
            /\ BackChain(sl, sl.tail) = Reverse(pairs)
            /\ sl.length = Len(pairs)
            /\ zset.dict = Stored
            /\ sl.level = Max({1} \cup {Len(sl.at[e].lv) : e \in Stored})
            /\ \A x \in Stored \cup {Header} : \A i \in 1..Min({Len(sl.at[x].lv), sl.level}) :
                  LET l == Link(sl, x, i)
                      at == IF x = Header THEN 0 ELSE RankOf(x)
                      taller == {RankOf(e) : e \in {d \in Stored : RankOf(d) > at /\ Len(sl.at[d].lv) >= i}}
                  IN IF taller = {} THEN l.f = 0 /\ l.s = sl.length - at
                     ELSE l.f = Ordered[Min(taller)] /\ l.s = Min(taller) - at

\* The part of a sequence that LIMIT selects
Limited(s, offset, limit) == SubSeq(s, offset + 1, IF limit < 0 THEN Len(s) ELSE Min({Len(s), offset + limit}))

\* Ranks, ranges by rank, score and member, forwards and backwards, with and without LIMIT, and the counts
\* answer as the ordered members say, in either encoding.
SortedSetReads ==
    LET n == Cardinality(Stored)
        order(reverse) == IF reverse THEN Reverse(Ordered) ELSE Ordered
        index(i) == IF i < 0 THEN n + i ELSE i
    IN /\ \A e \in Nodes, rev \in BOOLEAN :
             zsetRank(zset, e, rev) =
                 (IF e \notin Stored THEN -1 ELSE IF rev THEN n - RankOf(e) ELSE RankOf(e) - 1)
       /\ \A e \in Nodes : zsetScore(zset, e) = zset.held[e]
       /\ \A i, j \in -n - 1..n, rev \in BOOLEAN :
             genericZrangebyrankCommand(zset, i, j, rev) =
                 SubSeq(order(rev), Max({0, index(i)}) + 1, Min({index(j), n - 1}) + 1)
       /\ \A r \in AllRanges, rev \in BOOLEAN, offset \in 0..1, limit \in {-1, 1} :
             LET all == SelectSeq(order(rev), LAMBDA e : Within(r, e))
             IN (IF r.by = "score" THEN genericZrangebyscoreCommand(zset, r, offset, limit, rev)
                 ELSE genericZrangebylexCommand(zset, r, offset, limit, rev)) = Limited(all, offset, limit)
       /\ \A r \in AllRanges :
             (IF r.by = "score" THEN zcountCommand(zset, r) ELSE zlexcountCommand(zset, r))
                 = Cardinality({e \in Stored : Within(r, e)})
=============================================================================
