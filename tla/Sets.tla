-------------------------------- MODULE Sets --------------------------------
(***************************************************************************)
(* Sets of the vendored Redis (t_set.c); their two encodings are not seen  *)
(* outside.  What SPOP picks is decided by the seed of the machine.        *)
(***************************************************************************)
EXTENDS Keyspace

SetOf(v) == [t |-> "set", v |-> v]

\* An element this machine would draw; elements are numbers.
Drawn(x, v) == IF x.seed = 0 THEN CHOOSE e \in v : \A d \in v : e <= d
               ELSE CHOOSE e \in v : \A d \in v : e >= d

saddCommand(x0) ==
    LET a == x0.argv
    IN  WithKey(x0, a.k, LAMBDA x, o :
            LET old == IF o = Nil THEN {} ELSE o.v
                y == IF o = Nil THEN dbAdd(x, a.k, SetOf({})) ELSE x
            IN  IF ~checkType(o, "set") THEN x
                ELSE IF a.es \subseteq old THEN x
                ELSE Dirty(signalModifiedKey(SetValue(y, a.k, old \cup a.es), a.k)))

Shrunk(x, k, v) == Dirty(signalModifiedKey(SetOrDelete(x, k, v, {}), k))

sremCommand(x0) ==
    LET a == x0.argv
    IN  WithKey(x0, a.k, LAMBDA x, o :
            IF o = Nil \/ ~checkType(o, "set") THEN x
            ELSE IF o.v \cap a.es = {} THEN x
            ELSE Shrunk(x, a.k, o.v \ a.es))

AddMoved(x, k, e) ==
    IF e \in x.dict[k].v THEN x
    ELSE signalModifiedKey(SetValue(x, k, x.dict[k].v \cup {e}), k)

smoveCommand(x0) ==
    LET a == x0.argv
        target(x, o) == IF o = Nil THEN dbAdd(x, a.to, SetOf({})) ELSE x
    IN  WithKey(Looked(x0, a.k), a.to, LAMBDA x, dst : Found(x, a.k, LAMBDA y, src :
            IF src = Nil \/ ~checkType(src, "set") \/ ~checkType(dst, "set") THEN y
            ELSE IF a.k = a.to \/ a.e \notin src.v THEN y
            ELSE AddMoved(target(Shrunk(y, a.k, src.v \ {a.e}), dst), a.to, a.e)))

Srem(k, e) == [op |-> "srem", k |-> k, es |-> {e}]

spopCommand(x0) ==
    LET a == x0.argv
    IN  WithKey(x0, a.k, LAMBDA x, o :
            LET e == Drawn(x, o.v)
            IN  IF o = Nil \/ ~checkType(o, "set") THEN x
                ELSE rewriteClientCommandVector(Shrunk(x, a.k, o.v \ {e}), Srem(a.k, e)))

\* SPOP with a count: DEL when the whole set goes, else one SREM for each
\* element in place of the command.
spopWithCountCommand(x0) ==
    LET a == x0.argv
    IN  WithKey(x0, a.k, LAMBDA x, o :
            LET one(y) == LET e == Drawn(y, y.dict[a.k].v)
                          IN  alsoPropagate(SetValue(y, a.k, y.dict[a.k].v \ {e}), Srem(a.k, e))
                some == FoldLeft(LAMBDA y, i : one(y), x, [i \in 1 .. a.count |-> i])
            IN  IF o = Nil \/ ~checkType(o, "set") \/ a.count = 0 THEN x
                ELSE IF a.count >= Cardinality(o.v) THEN DeleteInstead(x, a.k)
                ELSE Dirty(signalModifiedKey([some EXCEPT !.prevent = TRUE], a.k)))

(***************************************************************************)
(* SINTERSTORE, SUNIONSTORE and SDIFFSTORE.                                *)
(***************************************************************************)
Elements(x, k) == IF lookupKey(x, k) = Nil THEN {} ELSE lookupKey(x, k).v

Combined(x, how, ks) ==
    LET others == {ks[i] : i \in 2 .. Len(ks)}
    IN  CASE how = "inter" -> {e \in Elements(x, ks[1]) : \A k \in others : e \in Elements(x, k)}
          [] how = "union" -> UNION {Elements(x, k) : k \in Range(ks)}
          [] how = "diff" -> {e \in Elements(x, ks[1]) : \A k \in others : e \notin Elements(x, k)}

storeSetCommand(x0) ==
    LET a == x0.argv
        store(l) == IF l.stop THEN l.x
                    ELSE StoreResult(l.x, a.k, SetOf(Combined(l.x, a.how, a.ks)), {})
    IN  store(LookedTyped(x0, a.ks, {"set"}))

=============================================================================
