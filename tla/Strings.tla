------------------------------ MODULE Strings -------------------------------
(***************************************************************************)
(* Strings and hashes of the vendored Redis (t_string.c).  A string is     *)
(* the sequence of its bytes, of which the model knows ten digits, the     *)
(* minus sign, the zero byte and a few letters; MaxInt has one digit, so   *)
(* that a longer number is out of range.  Arguments are stored as they     *)
(* come: the encoding of a value (tryObjectEncoding) is not seen outside.  *)
(***************************************************************************)
EXTENDS Keyspace

Minus == 10
ZeroByte == 11

Str(v) == [t |-> "string", v |-> v]

NoTtl == [unit |-> "none"]

\* string2ll on the bytes of a string, and back.
IsNumber(v) ==
    \/ Len(v) = 1 /\ v[1] \in 0 .. MaxInt
    \/ Len(v) = 2 /\ v[1] = Minus /\ v[2] \in 1 .. MaxInt + 1

NumberOf(v) == IF Len(v) = 1 THEN v[1] ELSE -v[2]

TextOf(n) == IF n < 0 THEN <<Minus, -n>> ELSE <<n>>

\* An absent key counts as zero.
getLongLongFromObject(o) == IF o = Nil THEN 0 ELSE NumberOf(o.v)

IsLongLong(o) == o = Nil \/ (o.t = "string" /\ IsNumber(o.v))

\* The value of a string that is changed in place: the expire stays.
Store(x, k, v) == Dirty(signalModifiedKey(Put(x, k, Str(v)), k))

(***************************************************************************)
(* SET and what is made of it.  What parseExtendedStringArgumentsOrReply   *)
(* accepts: NX and XX exclude each other, KEEPTTL excludes a time.         *)
(***************************************************************************)
SetArguments(keys, values, ttls) ==
    [op : {"set"}, k : keys, v : values, cond : {"none", "NX", "XX"},
     ttl : {NoTtl}, keepttl : BOOLEAN, get : BOOLEAN]
    \cup
    [op : {"set"}, k : keys, v : values, cond : {"none", "NX", "XX"},
     ttl : ttls, keepttl : {FALSE}, get : BOOLEAN]

PlainSet(k, v, ttl, keepttl) ==
    [op |-> "set", k |-> k, v |-> v, cond |-> "none", ttl |-> ttl, keepttl |-> keepttl,
     get |-> FALSE]

setGenericCommand(x0) ==
    LET a == x0.argv
        when == Milliseconds(x0, a.ttl)
        timed(y) == rewriteClientCommandVector(setExpire(y, a.k, when),
                                               PlainSet(a.k, a.v, At(when), FALSE))
        untimed(y) == rewriteClientCommandVector(y, [a EXCEPT !.get = FALSE])
        stored(y) == IF a.ttl # NoTtl THEN timed(y) ELSE untimed(y)
    IN  IF a.ttl # NoTtl /\ a.ttl.n <= 0 THEN x0
        ELSE WithKey(x0, a.k, LAMBDA x, o :
            IF \/ a.get /\ ~checkType(o, "string")
               \/ a.cond = "NX" /\ o # Nil
               \/ a.cond = "XX" /\ o = Nil
            THEN x
            ELSE Dirty(stored(setKey(x, a.k, Str(a.v), a.keepttl))))

\* GETEX is never propagated as it is.
getexCommand(x0) ==
    LET a == x0.argv
    IN  WithKey(x0, a.k, LAMBDA x, o :
            LET when == Milliseconds(x, a.ttl)
            IN  IF o = Nil \/ ~checkType(o, "string") \/ (a.ttl # NoTtl /\ a.ttl.n <= 0) THEN x
                ELSE IF a.ttl # NoTtl /\ ~a.ttl.relative /\ checkAlreadyExpired(x, when)
                     THEN DeleteInstead(x, a.k)
                ELSE IF a.ttl # NoTtl
                     THEN Dirty(signalModifiedKey(rewriteClientCommandVector(
                              setExpire(x, a.k, when),
                              [op |-> "expire", k |-> a.k, ttl |-> At(when), flags |-> {}]), a.k))
                ELSE IF a.persist /\ getExpire(x, a.k) # NoExpire
                     THEN Dirty(rewriteClientCommandVector(
                              signalModifiedKey(removeExpire(x, a.k), a.k),
                              [op |-> "persist", k |-> a.k]))
                ELSE x)

getdelCommand(x0) ==
    LET k == x0.argv.k
    IN  WithKey(x0, k, LAMBDA x, o :
            IF ~checkType(o, "string") \/ x.dict[k] = Nil THEN x ELSE DeleteInstead(x, k))

getsetCommand(x0) ==
    LET a == x0.argv
    IN  WithKey(x0, a.k, LAMBDA x, o :
            IF ~checkType(o, "string") THEN x
            ELSE Dirty(rewriteClientCommandVector(setKey(x, a.k, Str(a.v), FALSE),
                                                  PlainSet(a.k, a.v, NoTtl, FALSE))))

(***************************************************************************)
(* Changes in place.                                                       *)
(***************************************************************************)
\* sdsgrowzero and memcpy.
Overlay(v, offset, w) ==
    [i \in 1 .. (IF Len(v) > offset + Len(w) THEN Len(v) ELSE offset + Len(w)) |->
        IF i > offset /\ i <= offset + Len(w) THEN w[i - offset]
        ELSE IF i <= Len(v) THEN v[i]
        ELSE ZeroByte]

Bytes(o) == IF o = Nil THEN <<>> ELSE o.v

setrangeCommand(x0) ==
    LET a == x0.argv
    IN  WithKey(x0, a.k, LAMBDA x, o :
            IF a.offset < 0 THEN x0
            ELSE IF ~checkType(o, "string") \/ a.v = <<>> THEN x
            ELSE Store(x, a.k, Overlay(Bytes(o), a.offset, a.v)))

appendCommand(x0) ==
    LET a == x0.argv
    IN  WithKey(x0, a.k, LAMBDA x, o :
            IF ~checkType(o, "string") THEN x
            ELSE Store(x, a.k, Bytes(o) \o a.v))

\* MSET and MSETNX, which sets all keys or none.
SetAll(x, a) ==
    IF a.nx /\ \E i \in DOMAIN a.ks : lookupKey(x, a.ks[i]) # Nil THEN x
    ELSE Dirty(FoldLeft(LAMBDA y, i : setKey(y, a.ks[i], Str(a.vs[i]), FALSE),
                        x, [i \in DOMAIN a.ks |-> i]))

msetGenericCommand(x) ==
    SetAll(IF x.argv.nx THEN FoldLeft(Looked, x, x.argv.ks) ELSE x, x.argv)

\* INCR, DECR, INCRBY and DECRBY.
incrDecrCommand(x0) ==
    LET a == x0.argv
    IN  WithKey(x0, a.k, LAMBDA x, o :
            LET value == getLongLongFromObject(o) + a.by
            IN  IF ~IsLongLong(o) \/ value > MaxInt \/ value < -MaxInt - 1 THEN x
                ELSE Store(x, a.k, TextOf(value)))

\* A sum of floating point numbers as this machine rounds it.
FloatSum(x, a, b) == a + b + x.seed

\* INCRBYFLOAT: the result is what is propagated, because sums come out
\* differently on other machines.
incrbyfloatCommand(x0) ==
    LET a == x0.argv
    IN  WithKey(x0, a.k, LAMBDA x, o :
            LET value == FloatSum(x, getLongLongFromObject(o), a.by)
            IN  IF ~IsLongLong(o) \/ value > MaxInt THEN x
                ELSE rewriteClientCommandVector(Store(x, a.k, TextOf(value)),
                                                PlainSet(a.k, TextOf(value), NoTtl, TRUE)))

-----------------------------------------------------------------------------
(***************************************************************************)
(* Hashes (t_hash.c): functions from some fields to strings; their two     *)
(* encodings are not seen outside.                                         *)
(***************************************************************************)
HashOf(v) == [t |-> "hash", v |-> v]

\* hashTypeLookupWriteOrCreate: a command that fails after this leaves an
\* empty hash behind.
hashTypeLookupWriteOrCreate(x, k) ==
    IF lookupKey(x, k) = Nil THEN dbAdd(x, k, HashOf(<<>>)) ELSE x

Written(x, k, v) == Dirty(signalModifiedKey(SetValue(x, k, v), k))

OldHash(x, k, Do(_, _)) == Do(x, x.dict[k].v)

WithHash(x0, k, Do(_, _)) ==
    WithKey(x0, k, LAMBDA x, o :
        IF ~checkType(o, "hash") THEN x ELSE OldHash(hashTypeLookupWriteOrCreate(x, k), k, Do))

\* HSET, HMSET and, if nx, HSETNX of one field.
hsetCommand(x0) ==
    LET a == x0.argv
        set(x, old) == IF a.nx /\ DOMAIN a.fv \subseteq DOMAIN old THEN x
                       ELSE Written(x, a.k, a.fv @@ old)
    IN  WithHash(x0, a.k, set)

\* What a field counts for; an absent one is zero.
FieldIsNumber(v, f) == f \in DOMAIN v => IsNumber(v[f])

FieldNumber(v, f) == IF f \in DOMAIN v THEN NumberOf(v[f]) ELSE 0

hincrbyCommand(x0) ==
    LET a == x0.argv
        add(x, old) ==
            LET value == FieldNumber(old, a.f) + a.by
            IN  IF ~FieldIsNumber(old, a.f) THEN x
                ELSE IF value > MaxInt \/ value < -MaxInt - 1 THEN x
                ELSE Written(x, a.k, (a.f :> TextOf(value)) @@ old)
    IN  WithHash(x0, a.k, add)

\* HINCRBYFLOAT is propagated as the HSET of its result.
hincrbyfloatCommand(x0) ==
    LET a == x0.argv
        add(x, old) ==
            LET value == FloatSum(x, FieldNumber(old, a.f), a.by)
            IN  IF ~FieldIsNumber(old, a.f) \/ value > MaxInt THEN x
                ELSE rewriteClientCommandVector(
                         Written(x, a.k, (a.f :> TextOf(value)) @@ old),
                         [op |-> "hset", k |-> a.k, fv |-> (a.f :> TextOf(value)), nx |-> FALSE])
    IN  WithHash(x0, a.k, add)

hdelCommand(x0) ==
    LET a == x0.argv
    IN  WithKey(x0, a.k, LAMBDA x, o :
            LET left == [f \in DOMAIN o.v \ a.fs |-> o.v[f]]
            IN  IF o = Nil \/ ~checkType(o, "hash") THEN x
                ELSE IF DOMAIN o.v \cap a.fs = {} THEN x
                ELSE Dirty(signalModifiedKey(SetOrDelete(x, a.k, left, <<>>), a.k)))

=============================================================================
