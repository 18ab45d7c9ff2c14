-------------------------------- MODULE Dict --------------------------------
(***************************************************************************)
(* The hash table behind the keyspace, hashes, sets and sorted sets        *)
(* (dict.c): two tables of chained buckets, moved from one to the other a  *)
(* bucket at a time by whatever operation comes by, safe and unsafe        *)
(* iterators, and the stateless cursor behind SCAN.                        *)
(*                                                                         *)
(* An entry is <<key, value>>, a bucket the sequence of its entries from   *)
(* the head of the chain.  Sizes, ratios and the width of a word are       *)
(* constants, smaller in a model than in the code.  d.held, d.owed and     *)
(* d.todo are history: the map the caller believes in, and what a cursor   *)
(* or an iterator still owes.                                              *)
(***************************************************************************)
EXTENDS Integers, Sequences, SequencesExt, FiniteSetsExt, TLC

CONSTANTS DictKeys,      \* keys, positive integers
          DictVals,      \* values
          Hash,          \* [DictKeys -> Nat]
          InitialExp,    \* DICT_HT_INITIAL_EXP
          WordBits,      \* bits of an unsigned long
          EmptyVisits,   \* empty buckets visited per rehashing step: 10
          ForceRatio,    \* dict_force_resize_ratio
          MaxLoad,       \* HASHTABLE_MAX_LOAD_FACTOR, in hundredths
          MinFill,       \* HASHTABLE_MIN_FILL
          SampleSteps,   \* steps per sample wanted: 10
          DictLoads      \* what a caller does: see DictInit

VARIABLE dict

Null == 0

NoTable == [exp |-> -1, at |-> <<>>]

Table(e) == [exp |-> e, at |-> [i \in 0..2^e - 1 |-> <<>>]]

Size(t) == IF t.exp = -1 THEN 0 ELSE 2^t.exp

Mask(t, v) == IF t.exp = -1 THEN 0 ELSE v % 2^t.exp

NoIter == [on |-> FALSE, safe |-> FALSE, table |-> 0, index |-> -1, entry |-> Null, next |-> Null, todo |-> {}]

_dictInit(load) ==
    [load |-> load, ht |-> (0 :> NoTable @@ 1 :> NoTable), used |-> (0 :> 0 @@ 1 :> 0), rehashidx |-> -1,
     pause |-> 0, resize |-> "enable", held |-> <<>>, iter |-> NoIter, cursor |-> 0, scanning |-> FALSE, owed |-> {}]

IsRehashing(d) == d.rehashidx # -1

dictSize(d) == d.used[0] + d.used[1]

Tables(d) == IF IsRehashing(d) THEN {0, 1} ELSE {0}

Bucket(d, i, h) == IF d.ht[i].exp = -1 THEN <<>> ELSE d.ht[i].at[Mask(d.ht[i], h)]

KeysIn(s) == {s[i][1] : i \in DOMAIN s}

\* The tables as a lookup sees them, table 0 first
Where(d, k) == {i \in Tables(d) : k \in KeysIn(Bucket(d, i, Hash[k]))}

Entry(d, i, k) == LET b == Bucket(d, i, Hash[k]) IN b[CHOOSE n \in DOMAIN b : b[n][1] = k]

-----------------------------------------------------------------------------
_dictNextExp(size) ==
    CHOOSE e \in InitialExp..WordBits - 1 :
        2^e >= size /\ \A x \in InitialExp..e - 1 : 2^x < size

_dictExpand(d, size) ==
    LET e == _dictNextExp(size) IN
    IF IsRehashing(d) \/ d.used[0] > size \/ e = d.ht[0].exp THEN d
    ELSE IF d.ht[0].exp = -1 THEN [d EXCEPT !.ht[0] = Table(e), !.used[0] = 0]
    ELSE [d EXCEPT !.ht[1] = Table(e), !.used[1] = 0, !.rehashidx = 0]

dictResize(d) ==
    IF d.resize # "enable" \/ IsRehashing(d) THEN d
    ELSE _dictExpand(d, IF d.used[0] < 2^InitialExp THEN 2^InitialExp ELSE d.used[0])

\* Every key of the bucket goes to the head of its new bucket
MoveBucket(d) ==
    LET moved == d.ht[0].at[d.rehashidx]
        to == d.ht[1]
        Goes(j) == Reverse(SelectSeq(moved, LAMBDA e : Mask(to, Hash[e[1]]) = j))
    IN  [d EXCEPT !.ht[0].at[d.rehashidx] = <<>>,
                  !.ht[1].at = [j \in DOMAIN @ |-> Goes(j) \o @[j]],
                  !.used[0] = @ - Len(moved), !.used[1] = @ + Len(moved),
                  !.rehashidx = @ + 1]

EndRehash(d) ==
    IF d.used[0] # 0 THEN d
    ELSE [d EXCEPT !.ht = 0 :> d.ht[1] @@ 1 :> NoTable, !.used = 0 :> d.used[1] @@ 1 :> 0, !.rehashidx = -1]

RECURSIVE RehashSteps(_, _, _)
RehashSteps(d, n, visits) ==
    IF n = 0 \/ d.used[0] = 0 THEN EndRehash(d)
    ELSE LET next == Min({i \in d.rehashidx..Size(d.ht[0]) - 1 : d.ht[0].at[i] # <<>>})
             empty == next - d.rehashidx
         IN  IF empty >= visits THEN [d EXCEPT !.rehashidx = @ + visits]
             ELSE RehashSteps(MoveBucket([d EXCEPT !.rehashidx = next]), n - 1, visits - empty)

Close(a, b) == a > b /\ a \div b < ForceRatio

dictRehash(d, n) ==
    LET s0 == Size(d.ht[0]) s1 == Size(d.ht[1]) IN
    IF ~IsRehashing(d) \/ d.resize = "forbid" \/ (d.resize = "avoid" /\ (Close(s0, s1) \/ Close(s1, s0))) THEN d
    ELSE RehashSteps(d, n, n * EmptyVisits)

_dictRehashStep(d) == IF d.pause = 0 THEN dictRehash(d, 1) ELSE d

dictRehashMilliseconds(d) == IF d.pause > 0 THEN d ELSE dictRehash(d, 100)

\* Whether memory allows the larger table is the caller's; past the load factor it has to
dictTypeExpandAllowed(d, room) == room \/ d.used[0] * 100 > MaxLoad * Size(d.ht[0])

_dictExpandIfNeeded(d, room) ==
    IF IsRehashing(d) THEN d
    ELSE IF d.ht[0].exp = -1 THEN _dictExpand(d, 2^InitialExp)
    ELSE IF /\ dictTypeExpandAllowed(d, room)
            /\ \/ d.resize = "enable" /\ d.used[0] >= Size(d.ht[0])
               \/ d.resize # "forbid" /\ d.used[0] \div Size(d.ht[0]) > ForceRatio
         THEN _dictExpand(d, d.used[0] + 1)
         ELSE d

-----------------------------------------------------------------------------
Insert(d, i, k, v) ==
    [d EXCEPT !.ht[i].at[Mask(d.ht[i], Hash[k])] = <<<<k, v>>>> \o @, !.used[i] = @ + 1]

dictAddRaw(d, k, v, room) ==
    LET c == _dictExpandIfNeeded(_dictRehashStep(d), room)
    IN  IF Where(c, k) # {} THEN c ELSE Insert(c, IF IsRehashing(c) THEN 1 ELSE 0, k, v)

dictReplace(d, k, v, room) ==
    LET c == dictAddRaw(d, k, v, room)
        i == Min(Where(c, k))
        h == Mask(c.ht[i], Hash[k])
    IN  [c EXCEPT !.ht[i].at[h] = [n \in DOMAIN @ |-> IF @[n][1] = k THEN <<k, v>> ELSE @[n]]]

dictGenericDelete(d, k) ==
    IF dictSize(d) = 0 THEN d
    ELSE LET c == _dictRehashStep(d) IN
         IF Where(c, k) = {} THEN c
         ELSE LET i == Min(Where(c, k)) IN
              [c EXCEPT !.ht[i].at[Mask(c.ht[i], Hash[k])] = SelectSeq(@, LAMBDA e : e[1] # k),
                        !.used[i] = @ - 1]

\* A lookup moves a bucket as well
dictFind(d) == IF dictSize(d) = 0 THEN d ELSE _dictRehashStep(d)

dictFetchValue(d, k) == IF Where(d, k) = {} THEN Null ELSE Entry(d, Min(Where(d, k)), k)[2]

dictEmpty(d) ==
    [d EXCEPT !.ht = 0 :> NoTable @@ 1 :> NoTable, !.used = 0 :> 0 @@ 1 :> 0, !.rehashidx = -1, !.pause = 0]

htNeedsResize(d) ==
    LET size == Size(d.ht[0]) + Size(d.ht[1])
    IN  size > 2^InitialExp /\ (dictSize(d) * 100) \div size < MinFill

-----------------------------------------------------------------------------
\* Sampling: what a random draw may return

dictGetRandomKey(d) ==
    LET s0 == Size(d.ht[0])
        from == IF IsRehashing(d) THEN d.rehashidx ELSE 0
        At(h) == IF h >= s0 THEN d.ht[1].at[h - s0] ELSE d.ht[0].at[h]
    IN  UNION {KeysIn(At(h)) : h \in from..s0 + Size(d.ht[1]) - 1}

\* The entries kept after a bucket: all of them while there is room, then any may replace any
Reservoir(got, bucket, count) ==
    LET all == got \cup KeysIn(bucket)
    IN  IF Cardinality(all) <= count THEN {all} ELSE {s \in SUBSET all : Cardinality(s) = count}

RECURSIVE SampleFrom(_, _, _, _, _, _)
SampleFrom(d, count, i, steps, empty, got) ==
    LET larger == Max({Size(d.ht[j]) : j \in Tables(d)})
        past == IsRehashing(d) /\ i < d.rehashidx
        x == IF past /\ i >= Size(d.ht[1]) THEN d.rehashidx ELSE i
        seen == [j \in {t \in Tables(d) : x < Size(d.ht[t]) /\ ~(t = 0 /\ past /\ x = i)} |-> d.ht[j].at[x]]
        found == UNION {KeysIn(seen[j]) : j \in DOMAIN seen}
        idle == IF found = {} THEN empty + Cardinality(DOMAIN seen) ELSE 0
        Kept == IF found = {} THEN {got}
                ELSE UNION {Reservoir(g, IF 1 \in DOMAIN seen /\ Cardinality(g) < count THEN seen[1] ELSE <<>>, count) :
                                g \in IF 0 \in DOMAIN seen THEN Reservoir(got, seen[0], count) ELSE {got}}
        Onward == IF idle >= 5 /\ idle > count THEN 0..larger - 1 ELSE {(x + 1) % larger}
    IN  IF steps = 0 \/ Cardinality(got) >= count THEN {got}
        ELSE UNION {SampleFrom(d, count, n, steps - 1, IF idle >= 5 /\ idle > count THEN 0 ELSE idle, g) :
                        n \in Onward, g \in Kept}

dictGetSomeKeys(d, want) ==
    LET count == Min({want, dictSize(d)})
        larger == Max({Size(d.ht[j]) : j \in Tables(d)})
    IN  IF larger = 0 THEN {{}}
        ELSE UNION {SampleFrom(d, count, i, count * SampleSteps, 0, {}) : i \in 0..larger - 1}

-----------------------------------------------------------------------------
\* Iterators

Entries(d) == UNION {UNION {KeysIn(d.ht[i].at[j]) : j \in DOMAIN d.ht[i].at} : i \in {0, 1}}

KeyOf(s) == IF s = <<>> THEN Null ELSE s[1][1]

\* The rest of the chain after key k of table i
After(d, i, k) ==
    LET b == Bucket(d, i, Hash[k])
    IN  SubSeq(b, 1 + CHOOSE n \in DOMAIN b : b[n][1] = k, Len(b))

dictGetIterator(d, safe) == [d EXCEPT !.iter = [NoIter EXCEPT !.on = TRUE, !.safe = safe, !.todo = Entries(d)]]

RECURSIVE Advance(_)
Advance(d) ==
    LET it == d.iter
        first == it.index = -1 /\ it.table = 0
        over == it.index + 1 >= Size(d.ht[it.table])
        table == IF over /\ IsRehashing(d) /\ it.table = 0 THEN 1 ELSE it.table
        index == IF table # it.table THEN 0 ELSE it.index + 1
        c == [d EXCEPT !.pause = IF it.entry = Null /\ first /\ it.safe THEN @ + 1 ELSE @]
        At(entry, i, j) == [c EXCEPT !.iter.table = i, !.iter.index = j, !.iter.entry = entry,
                                     !.iter.todo = @ \ {entry},
                                     !.iter.next = IF entry = Null THEN Null ELSE KeyOf(After(d, i, entry))]
    IN  IF it.entry # Null
        THEN IF it.next # Null THEN At(it.next, it.table, it.index)
             ELSE Advance(At(Null, it.table, it.index))
        ELSE IF over /\ table = it.table THEN [c EXCEPT !.iter.index = it.index + 1]
        ELSE IF d.ht[table].at[index] # <<>> THEN At(KeyOf(d.ht[table].at[index]), table, index)
        ELSE Advance(At(Null, table, index))

dictNext(d) == Advance(d)

dictReleaseIterator(d) ==
    LET begun == ~(d.iter.index = -1 /\ d.iter.table = 0)
    IN  [d EXCEPT !.pause = IF begun /\ d.iter.safe THEN @ - 1 ELSE @, !.iter = NoIter]

-----------------------------------------------------------------------------
\* The cursor of SCAN counts in reversed bits

rev(v) == SumSet({2^(WordBits - 1 - i) : i \in {j \in 0..WordBits - 1 : (v \div 2^j) % 2 = 1}})

\* Set the bits the mask does not cover, so that the increment acts on those it covers
NextCursor(t, v) ==
    LET w == Mask(t, v) + 2^WordBits - Size(t)
    IN  rev((rev(w) + 1) % 2^WordBits)

RECURSIVE Expansions(_, _, _)
Expansions(small, large, v) ==
    LET w == NextCursor(large, v)
    IN  IF (w % Size(large)) \div Size(small) = 0 THEN <<{Mask(large, v)}, w>>
        ELSE LET rest == Expansions(small, large, w) IN <<{Mask(large, v)} \cup rest[1], rest[2]>>

\* <<keys emitted, next cursor>>
dictScan(d, v) ==
    IF dictSize(d) = 0 THEN <<{}, 0>>
    ELSE IF ~IsRehashing(d) THEN <<KeysIn(Bucket(d, 0, v)), NextCursor(d.ht[0], v)>>
    ELSE LET a == IF Size(d.ht[0]) > Size(d.ht[1]) THEN 1 ELSE 0
             more == Expansions(d.ht[a], d.ht[1 - a], v)
         IN  <<KeysIn(Bucket(d, a, v)) \cup UNION {KeysIn(d.ht[1 - a].at[i]) : i \in more[1]}, more[2]>>

-----------------------------------------------------------------------------
\* The keys used, and whether an iterator, or a cursor, is used as well
DictInit == \E load \in DictLoads : dict = _dictInit(load)

\* An unsafe iterator allows dictNext only, and a safe one to delete what it returned
Free == ~dict.iter.on \/ dict.iter.safe

Hold(d, k, v) == [d EXCEPT !.held = [x \in {k} |-> v] @@ @]

Release(d, k) ==
    [d EXCEPT !.held = [x \in DOMAIN @ \ {k} |-> @[x]], !.owed = @ \ {k}, !.iter.todo = @ \ {k}]

Add == \E k \in dict.load.keys, v \in DictVals, room \in BOOLEAN :
    /\ Free
    /\ LET c == dictAddRaw(dict, k, v, room)
       IN  dict' = IF k \in DOMAIN dict.held THEN c ELSE Hold(c, k, v)

Replace == \E k \in dict.load.keys, v \in DictVals, room \in BOOLEAN :
    /\ Free
    /\ dict' = Hold(dictReplace(dict, k, v, room), k, v)

Delete == \E k \in dict.load.keys :
    /\ Free /\ (dict.iter.on => k = dict.iter.entry)
    /\ dict' = Release(dictGenericDelete(dict, k), k)

Find == Free /\ dict' = dictFind(dict)

Empty == ~dict.iter.on /\ dict' = [dictEmpty(dict) EXCEPT !.held = <<>>, !.owed = {}]

CronResize == Free /\ htNeedsResize(dict) /\ dict' = dictResize(dict)

CronRehash == Free /\ dict' = dictRehashMilliseconds(dict)

updateDictResizePolicy == Free /\ \E r \in {"enable", "avoid", "forbid"} : dict' = [dict EXCEPT !.resize = r]

IterBegin == dict.load.iter /\ ~dict.iter.on /\ \E safe \in BOOLEAN : dict' = dictGetIterator(dict, safe)

IterNext == dict.iter.on /\ dict.iter.index < Size(dict.ht[dict.iter.table]) /\ dict' = dictNext(dict)

IterEnd == dict.iter.on /\ dict' = dictReleaseIterator(dict)

ScanStep ==
    /\ dict.load.scan /\ Free
    /\ LET r == dictScan(dict, dict.cursor)
           owed == (IF dict.scanning THEN dict.owed ELSE Entries(dict)) \ r[1]
       IN  dict' = [dict EXCEPT !.cursor = r[2], !.owed = owed, !.scanning = r[2] # 0]

DictNext ==
    \/ Add \/ Replace \/ Delete \/ Find \/ Empty \/ CronResize \/ CronRehash \/ updateDictResizePolicy
    \/ IterBegin \/ IterNext \/ IterEnd \/ ScanStep

-----------------------------------------------------------------------------
\* The table holds exactly what was stored, wherever a rehash has got to: a lookup finds the
\* value last stored, every entry is in a bucket lookups reach, the two counters count them,
\* the buckets below rehashidx are empty, and a random draw can return every key.
DictHolds ==
    /\ \A k \in DictKeys :
           dictFetchValue(dict, k) = IF k \in DOMAIN dict.held THEN dict.held[k] ELSE Null
    /\ Entries(dict) = DOMAIN dict.held
    /\ \A i \in {0, 1} :
           dict.used[i] = MapThenSumSet(LAMBDA j : Len(dict.ht[i].at[j]), DOMAIN dict.ht[i].at)
    /\ dictSize(dict) = Cardinality(DOMAIN dict.held)
    /\ \A j \in 0..dict.rehashidx - 1 : dict.ht[0].at[j] = <<>>
    /\ dictSize(dict) > 0 => dictGetRandomKey(dict) = DOMAIN dict.held
    /\ \A s \in dictGetSomeKeys(dict, 2) : s \subseteq DOMAIN dict.held

\* What dictScan's comment promises: when the cursor comes back to 0, every key that was there
\* from the first call on has been returned, however the table was resized in between.  And a
\* safe iterator that reaches its end has returned every key it was not told to delete.
IterationComplete ==
    /\ dict.scanning \/ dict.owed = {}
    /\ dict.iter.on /\ dict.iter.index >= Size(dict.ht[dict.iter.table]) => dict.iter.todo = {}
    /\ dict.pause = IF dict.iter.on /\ dict.iter.safe /\ dict.iter.index # -1 THEN 1 ELSE 0
=============================================================================
