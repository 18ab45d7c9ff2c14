------------------------------- MODULE Lists --------------------------------
(***************************************************************************)
(* Lists of the vendored Redis (t_list.c).  A list is the sequence of its  *)
(* elements, head first; "L" and "R" are its ends.                        *)
(***************************************************************************)
EXTENDS Keyspace

ListOf(v) == [t |-> "list", v |-> v]

(***************************************************************************)
(* Pushing, popping and moving.                                            *)
(***************************************************************************)
listTypePush(v, e, where) == IF where = "L" THEN <<e>> \o v ELSE Append(v, e)

\* What is left when n elements are taken off an end, and the last of them.
listTypeDelRange(v, where, n) ==
    IF where = "L" THEN SubSeq(v, n + 1, Len(v)) ELSE SubSeq(v, 1, Len(v) - n)

listTypePop(v, where) == IF where = "L" THEN v[1] ELSE v[Len(v)]

pushGenericCommand(x0) ==
    LET a == x0.argv
    IN  WithKey(x0, a.k, LAMBDA x, o :
            LET y == IF o = Nil THEN dbAdd(x, a.k, ListOf(<<>>)) ELSE x
                v == FoldLeft(LAMBDA s, e : listTypePush(s, e, a.where), y.dict[a.k].v, a.vs)
            IN  IF ~checkType(o, "list") \/ (o = Nil /\ a.xx) THEN x
                ELSE Dirty(signalModifiedKey(SetValue(y, a.k, v), a.k)))

listElementsRemoved(x, k, v) ==
    Dirty(signalModifiedKey(SetOrDelete(x, k, v, <<>>), k))

Pop(k, where, count) == [op |-> "pop", k |-> k, where |-> where, count |-> count]

popGenericCommand(x0) ==
    LET a == x0.argv
    IN  WithKey(x0, a.k, LAMBDA x, o :
            LET n == IF a.count = NoCount THEN 1 ELSE AtMost(a.count, Len(o.v))
            IN  IF o = Nil \/ ~checkType(o, "list") \/ a.count = 0 THEN x
                ELSE listElementsRemoved(x, a.k, listTypeDelRange(o.v, a.where, n)))

\* LMPOP, BLMPOP, BLPOP and BRPOP that find a list: propagated as a pop.
PopFrom(x, k, where, count) ==
    LET o == lookupKey(x, k)
        n == IF count = NoCount THEN 1 ELSE AtMost(count, Len(o.v))
    IN  IF ~checkType(o, "list") THEN x
        ELSE rewriteClientCommandVector(
                 listElementsRemoved(x, k, listTypeDelRange(o.v, where, n)),
                 Pop(k, where, IF count = NoCount THEN NoCount ELSE n))

mpopGenericCommand(x0) ==
    LET a == x0.argv
    IN  WithFirst(x0, a.ks, LAMBDA x, i :
            IF i = 0 THEN x ELSE PopFrom(x, a.ks[i], a.where, a.count))

blockingPopGenericCommand(x0) ==
    LET a == x0.argv
    IN  WithFirst(x0, a.ks, LAMBDA x, i :
            IF i # 0 THEN PopFrom(x, a.ks[i], a.where, a.count)
            ELSE IF x.deny THEN x
            ELSE blockForKeys(x, [btype |-> "list", keys |-> a.ks, where |-> a.where,
                                  count |-> a.count, target |-> NoKey, whereto |-> "L"]))

\* Pops at once and pushes: the target may be the source.
lmoveHandlePush(x, from, wherefrom, to, whereto) ==
    LET e == listTypePop(x.dict[from].v, wherefrom)
        y == SetValue(x, from, listTypeDelRange(x.dict[from].v, wherefrom, 1))
        z == IF lookupKey(y, to) = Nil THEN dbAdd(y, to, ListOf(<<>>)) ELSE y
    IN  signalModifiedKey(SetValue(z, to, listTypePush(z.dict[to].v, e, whereto)), to)

DeleteIfDrained(x, k) == SetOrDelete(x, k, x.dict[k].v, <<>>)

Lmove(a) == [op |-> "lmove", k |-> a.k, to |-> a.to, where |-> a.where, whereto |-> a.whereto]

\* LMOVE and RPOPLPUSH, and the blocking ones when there is something to move.
lmoveGenericCommand(x0) ==
    LET a == x0.argv
    IN  WithKey(x0, a.k, LAMBDA x, o :
            LET y == Looked(x, a.to)
            IN  IF o = Nil \/ ~checkType(o, "list") THEN x
                ELSE IF ~checkType(lookupKey(y, a.to), "list") THEN y
                ELSE rewriteClientCommandVector(Dirty(signalModifiedKey(DeleteIfDrained(
                         lmoveHandlePush(y, a.k, a.where, a.to, a.whereto), a.k), a.k)), Lmove(a)))

blmoveGenericCommand(x0) ==
    LET a == x0.argv
    IN  WithKey(x0, a.k, LAMBDA x, o :
            IF o # Nil THEN lmoveGenericCommand(x)
            ELSE IF x.deny THEN x
            ELSE blockForKeys(x, [btype |-> "list", keys |-> <<a.k>>, where |-> a.where,
                                  count |-> NoCount, target |-> a.to, whereto |-> a.whereto]))

(***************************************************************************)
(* Changes in the middle.                                                  *)
(***************************************************************************)
\* Zero-based, from the tail when negative.
Position(v, index) == IF index < 0 THEN Len(v) + index + 1 ELSE index + 1

lsetCommand(x0) ==
    LET a == x0.argv
    IN  WithKey(x0, a.k, LAMBDA x, o :
            IF o = Nil \/ ~checkType(o, "list") THEN x
            ELSE IF Position(o.v, a.index) \notin DOMAIN o.v THEN x
            ELSE Dirty(signalModifiedKey(
                     SetValue(x, a.k, [o.v EXCEPT ![Position(o.v, a.index)] = a.e]), a.k)))

\* Next to the first occurrence of the pivot.
linsertCommand(x0) ==
    LET a == x0.argv
    IN  WithKey(x0, a.k, LAMBDA x, o :
            LET i == SelectInSeq(o.v, LAMBDA e : e = a.pivot)
            IN  IF o = Nil \/ ~checkType(o, "list") THEN x
                ELSE IF i = 0 THEN x
                ELSE Dirty(signalModifiedKey(
                         SetValue(x, a.k, InsertAt(o.v, IF a.where = "L" THEN i ELSE i + 1, a.e)), a.k)))

\* Marks the key as modified even if nothing is trimmed.
ltrimCommand(x0) ==
    LET a == x0.argv
    IN  WithKey(x0, a.k, LAMBDA x, o :
            LET start == IF Position(o.v, a.start) < 1 THEN 1 ELSE Position(o.v, a.start)
                end == AtMost(Position(o.v, a.end), Len(o.v))
                y == signalModifiedKey(SetOrDelete(x, a.k, SubSeq(o.v, start, end), <<>>), a.k)
            IN  IF o = Nil \/ ~checkType(o, "list") THEN x
                ELSE IF start = 1 /\ end = Len(o.v) THEN y ELSE Dirty(y))

\* The first toremove occurrences, the last ones if it is negative, all if it
\* is zero.
lremCommand(x0) ==
    LET a == x0.argv
    IN  WithKey(x0, a.k, LAMBDA x, o :
            LET equal(i, j) == Cardinality({h \in i .. j : o.v[h] = a.e})
                goes(i) == /\ o.v[i] = a.e
                           /\ \/ a.count = 0
                              \/ a.count > 0 /\ equal(1, i) <= a.count
                              \/ a.count < 0 /\ equal(i, Len(o.v)) <= -a.count
                kept == SelectSeq([i \in DOMAIN o.v |-> i], LAMBDA i : ~goes(i))
            IN  IF o = Nil \/ ~checkType(o, "list") THEN x
                ELSE IF Len(kept) = Len(o.v) THEN x
                ELSE listElementsRemoved(x, a.k, [i \in DOMAIN kept |-> o.v[kept[i]]]))

(***************************************************************************)
(* Serving the clients blocked on a list.                                  *)
(***************************************************************************)
\* Only BLMPOP marks the key as modified: the push already did.
PopForReceiver(x, b, k) ==
    LET v == x.dict[k].v
        n == IF b.count = NoCount THEN 1 ELSE AtMost(b.count, Len(v))
        y == SetOrDelete(x, k, listTypeDelRange(v, b.where, n), <<>>)
    IN  alsoPropagate(IF b.count = NoCount THEN y ELSE signalModifiedKey(y, k),
                      Pop(k, b.where, IF b.count = NoCount THEN NoCount ELSE n))

\* A target of another type costs the receiver its place, not the element.
MoveForReceiver(x, b, k) ==
    LET y == Looked(x, b.target)
    IN  IF ~checkType(lookupKey(y, b.target), "list") THEN y
        ELSE alsoPropagate(
                 DeleteIfDrained(lmoveHandlePush(y, k, b.where, b.target, b.whereto), k),
                 [op |-> "lmove", k |-> k, to |-> b.target, where |-> b.where,
                  whereto |-> b.whereto])

serveClientBlockedOnList(x, c, k) ==
    LET b == x.bpop[c]
    IN  unblockClient(IF b.target = NoKey THEN PopForReceiver(x, b, k)
                      ELSE MoveForReceiver(x, b, k), c)

serveLatestFirst(x, k) ==
    FoldLeft(LAMBDA y, c : IF y.dict[k] = Nil \/ y.bpop[c].btype # "list" THEN y
                           ELSE serveClientBlockedOnList(y, c, k),
             x, Reverse(x.blocking[k]))

\* In the order they blocked, until the list is gone.
serveClientsBlockedOnListKey(x, k) ==
    FoldLeft(LAMBDA y, c : IF y.dict[k] = Nil \/ y.bpop[c].btype # "list" THEN y
                           ELSE serveClientBlockedOnList(y, c, k),
             x, x.blocking[k])

=============================================================================
