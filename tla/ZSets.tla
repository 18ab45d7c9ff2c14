------------------------------- MODULE ZSets --------------------------------
(***************************************************************************)
(* Sorted sets of the vendored Redis (t_zset.c): functions from members to *)
(* scores; their two encodings are not seen outside.  Members and scores   *)
(* are numbers; infinite scores, and the NaN they add up to, are left out. *)
(***************************************************************************)
EXTENDS Keyspace

ZSetOf(v) == [t |-> "zset", v |-> v]

\* By score, then by member.
InOrder(v) ==
    SetToSortSeq(DOMAIN v, LAMBDA a, b : v[a] < v[b] \/ (v[a] = v[b] /\ a < b))

Restricted(v, members) == [e \in members |-> v[e]]

(***************************************************************************)
(* ZADD and ZINCRBY.                                                       *)
(***************************************************************************)
\* The flags zaddGenericCommand lets through.
ZaddFlags ==
    {flags \in SUBSET {"NX", "XX", "GT", "LT", "INCR"} :
        Cardinality(flags \cap {"NX", "GT", "LT"}) <= 1 /\ ~({"NX", "XX"} \subseteq flags)}

zsetAdd(v, score, e, flags) ==
    LET new == IF "INCR" \in flags THEN v[e] + score ELSE score
    IN  IF e \notin DOMAIN v THEN IF "XX" \in flags THEN v ELSE (e :> score) @@ v
        ELSE IF "NX" \in flags THEN v
        ELSE IF "LT" \in flags /\ new >= v[e] THEN v
        ELSE IF "GT" \in flags /\ new <= v[e] THEN v
        ELSE [v EXCEPT ![e] = new]

\* pairs: the scores and members of the command, in order.
zaddGenericCommand(x0) ==
    LET a == x0.argv
    IN  WithKey(x0, a.k, LAMBDA x, o :
            LET y == IF o = Nil THEN dbAdd(x, a.k, ZSetOf(<<>>)) ELSE x
                add(r, p) == LET w == zsetAdd(r.v, p[1], p[2], a.flags)
                             IN  [v |-> w, changed |-> r.changed \/ w # r.v]
                done == FoldLeft(add, [v |-> y.dict[a.k].v, changed |-> FALSE], a.pairs)
                z == SetValue(y, a.k, done.v)
            IN  IF ~checkType(o, "zset") \/ (o = Nil /\ "XX" \in a.flags) THEN x
                ELSE IF done.changed THEN Dirty(signalModifiedKey(z, a.k)) ELSE z)

(***************************************************************************)
(* Removing members.                                                       *)
(***************************************************************************)
Left(x, k, members) ==
    Dirty(signalModifiedKey(SetOrDelete(x, k, Restricted(x.dict[k].v, members), <<>>), k))

zremCommand(x0) ==
    LET a == x0.argv
    IN  WithKey(x0, a.k, LAMBDA x, o :
            IF o = Nil \/ ~checkType(o, "zset") THEN x
            ELSE IF DOMAIN o.v \cap a.es = {} THEN x
            ELSE Left(x, a.k, DOMAIN o.v \ a.es))

\* Ranks from either end, inclusive.
ByRank(s, start, end) ==
    LET at(i) == IF i < 0 THEN Len(s) + i + 1 ELSE i + 1
        first == IF at(start) < 1 THEN 1 ELSE at(start)
    IN  SubSeq(s, first, AtMost(at(end), Len(s)))

\* min and max, each inclusive or not, over scores or over members.
Within(n, r) ==
    /\ IF r.minex THEN n > r.min ELSE n >= r.min
    /\ IF r.maxex THEN n < r.max ELSE n <= r.max

\* The members of a range, in order; range: [by, start, end] or
\* [by, min, minex, max, maxex].
Ranged(s, v, range) ==
    CASE range.by = "rank" -> ByRank(s, range.start, range.end)
      [] range.by = "score" -> SelectSeq(s, LAMBDA e : Within(v[e], range))
      [] range.by = "lex" -> SelectSeq(s, LAMBDA e : Within(e, range))

zremrangeGenericCommand(x0) ==
    LET a == x0.argv
    IN  WithKey(x0, a.k, LAMBDA x, o :
            LET gone == Range(Ranged(InOrder(o.v), o.v, a.range))
            IN  IF o = Nil \/ ~checkType(o, "zset") THEN x
                ELSE IF gone = {} THEN x
                ELSE Left(x, a.k, DOMAIN o.v \ gone))

(***************************************************************************)
(* Popping from either end, blocking or not.                               *)
(***************************************************************************)
Zpop(k, where, count) == [op |-> "zpop", k |-> k, where |-> where, count |-> count]

Popped(v, where, count) ==
    LET n == IF count = NoCount THEN 1 ELSE AtMost(count, Cardinality(DOMAIN v))
        s == InOrder(v)
    IN  {s[i] : i \in IF where = "MIN" THEN 1 .. n ELSE Len(s) - n + 1 .. Len(s)}

PopMembers(x, k, where, count) ==
    Left(x, k, DOMAIN x.dict[k].v \ Popped(x.dict[k].v, where, count))

zpopMinMaxCommand(x0) ==
    LET a == x0.argv
    IN  WithKey(x0, a.k, LAMBDA x, o :
            IF o = Nil \/ ~checkType(o, "zset") \/ a.count = 0 THEN x
            ELSE PopMembers(x, a.k, a.where, a.count))

\* The count that is propagated is what was there to pop.
PopAndRewrite(x, k, a) ==
    IF ~checkType(lookupKey(x, k), "zset") THEN x
    ELSE rewriteClientCommandVector(
             PopMembers(x, k, a.where, a.count),
             Zpop(k, a.where, AtMost(a.count, Cardinality(DOMAIN x.dict[k].v))))

zmpopCommand(x0) ==
    LET a == x0.argv
    IN  WithFirst(x0, a.ks, LAMBDA x, i :
            IF i = 0 THEN x ELSE PopAndRewrite(x, a.ks[i], a))

blockingGenericZpopCommand(x0) ==
    LET a == x0.argv
    IN  WithFirst(x0, a.ks, LAMBDA x, i :
            IF i # 0 THEN PopAndRewrite(x, a.ks[i], a)
            ELSE IF x.deny THEN x
            ELSE blockForKeys(x, [btype |-> "zset", keys |-> a.ks, where |-> a.where,
                                  count |-> a.count]))

serveClientsBlockedOnSortedSetKey(x, k) ==
    FoldLeft(LAMBDA y, c :
               IF y.dict[k] = Nil \/ y.bpop[c].btype # "zset" THEN y
               ELSE LET b == y.bpop[c]
                    IN  unblockClient(alsoPropagate(
                            PopMembers(y, k, b.where, b.count),
                            Zpop(k, b.where, AtMost(b.count, Cardinality(DOMAIN y.dict[k].v)))),
                            c),
             x, x.blocking[k])

(***************************************************************************)
(* Storing the result of a range or of an operation on several sets.       *)
(***************************************************************************)
\* A plain set counts as a sorted one whose scores are all one.
Scored(x, k) ==
    LET o == lookupKey(x, k)
    IN  CASE o = Nil -> <<>>
          [] o.t = "set" -> [e \in o.v |-> 1]
          [] o.t = "zset" -> o.v

Aggregated(how, scores) ==
    CASE how = "sum" -> FoldLeft(LAMBDA a, b : a + b, 0, scores)
      [] how = "min" -> CHOOSE s \in Range(scores) : \A t \in Range(scores) : s <= t
      [] how = "max" -> CHOOSE s \in Range(scores) : \A t \in Range(scores) : s >= t

\* Which of the sources have a member, and the score they give it.
Having(src, e) == SelectSeq([i \in DOMAIN src |-> i], LAMBDA i : e \in DOMAIN src[i])

ScoreIn(a, src, e, having) ==
    Aggregated(a.aggregate, [j \in DOMAIN having |-> a.weights[having[j]] * src[having[j]][e]])

CombinedScores(a, src) ==
    LET all == UNION {DOMAIN src[i] : i \in DOMAIN src}
    IN  CASE a.how = "diff" -> Restricted(src[1], {m \in all : Having(src, m) = <<1>>})
          [] OTHER -> [e \in {m \in all : a.how = "inter" => Len(Having(src, m)) = Len(src)} |->
                          ScoreIn(a, src, e, Having(src, e))]

zunionInterDiffGenericCommand(x0) ==
    LET a == x0.argv
        scored(x) == CombinedScores(a, [i \in DOMAIN a.ks |-> Scored(x, a.ks[i])])
        store(l) == IF l.stop THEN l.x ELSE StoreResult(l.x, a.k, ZSetOf(scored(l.x)), <<>>)
    IN  store(LookedTyped(x0, a.ks, {"set", "zset"}))

\* ZRANGESTORE.  A limit of -1 is none.
zrangestoreCommand(x0) ==
    LET a == x0.argv
    IN  WithKey(x0, a.from, LAMBDA x, o :
            LET s == IF a.rev THEN Reverse(InOrder(o.v)) ELSE InOrder(o.v)
                r == Ranged(s, o.v, a.range)
                last == IF a.limit < 0 THEN Len(r) ELSE AtMost(a.offset + a.limit, Len(r))
                kept == IF a.range.by = "rank" THEN r ELSE SubSeq(r, a.offset + 1, last)
            IN  IF o = Nil THEN StoreResult(x, a.k, ZSetOf(<<>>), <<>>)
                ELSE IF ~checkType(o, "zset") THEN x
                ELSE StoreResult(x, a.k, ZSetOf(Restricted(o.v, Range(kept))), <<>>))

=============================================================================
