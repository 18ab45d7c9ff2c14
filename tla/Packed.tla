------------------------------- MODULE Packed -------------------------------
(***************************************************************************)
(* The encodings that keep a small collection in one block of memory: the  *)
(* listpack (listpack.c), its predecessor the ziplist (ziplist.c), which   *)
(* RDB files of older servers still hold, and the intset (intset.c).       *)
(*                                                                         *)
(* Memory is a sequence of bytes after the header, addressed from 0, and   *)
(* -1 is NULL; the header is fields of the record.  An element is          *)
(* <<"int", v>>, a string that reads as the integer v, or <<"str", bytes>>.*)
(* Encodings are the real ones; the limits that would take long strings    *)
(* or long lists to reach are constants.  pack.held is what the caller     *)
(* has put in, in order.                                                   *)
(***************************************************************************)
EXTENDS Integers, Sequences, SequencesExt, FiniteSetsExt

CONSTANTS Elements,      \* elements to insert
          SmallString,   \* bytes from which a string takes the middle encoding: 64
          LongString,    \* and the long one: 4096 in a listpack, 16384 in a ziplist
          BackBase,      \* base of a listpack's back length: 128
          UnknownCount,  \* LP_HDR_NUMELE_UNKNOWN, UINT16_MAX
          BigPrevlen,    \* ZIP_BIG_PREVLEN: 254
          CellBits,      \* bits of the narrowest intset encoding: 16
          IntsetValues,  \* integers to put in an intset
          MaxElements    \* bound on the elements of a list

VARIABLE pack

Byte(m, p) == m[p + 1]

Slice(m, p, n) == SubSeq(m, p + 1, p + n)

\* n bytes at p replaced by others, as many or not
Splice(m, p, n, with) == SubSeq(m, 1, p) \o with \o SubSeq(m, p + n + 1, Len(m))

\* Two's complement, least significant byte first
LeBytes(v, n) == [k \in 1..n |-> (v \div 256^(k - 1)) % 256]

FromLe(b) ==
    LET n == Len(b)
        top == IF b[n] >= 128 THEN b[n] - 256 ELSE b[n]
    IN FoldLeft(LAMBDA v, k : v * 256 + b[n - k], top, [k \in 1..n - 1 |-> k])

-----------------------------------------------------------------------------
(* Listpack: [num, total, mem] *)

EOF == 255

lpNew == [num |-> 0, total |-> 7, mem |-> <<EOF>>]

lpEncodeIntegerGetType(v) ==
    IF v \in 0..127 THEN <<v>>
    ELSE IF v \in -4096..4095 THEN <<192 + ((v \div 256) % 32), v % 256>>
    ELSE IF v \in -32768..32767 THEN <<241>> \o LeBytes(v, 2)
    ELSE IF v \in -8388608..8388607 THEN <<242>> \o LeBytes(v, 3)
    ELSE <<243>> \o LeBytes(v, 4)

lpEncodeString(s) ==
    LET n == Len(s)
    IN (IF n < SmallString THEN <<128 + n>>
        ELSE IF n < LongString THEN <<224 + n \div 256, n % 256>>
        ELSE <<240>> \o LeBytes(n, 4)) \o s

lpEncodeGetType(e) == IF e[1] = "int" THEN lpEncodeIntegerGetType(e[2]) ELSE lpEncodeString(e[2])

BacklenSize(l) ==
    IF l <= BackBase - 1 THEN 1
    ELSE IF l < BackBase^2 - 1 THEN 2
    ELSE IF l < BackBase^3 - 1 THEN 3
    ELSE IF l < BackBase^4 - 1 THEN 4
    ELSE 5

\* Most significant digit first; every other byte says that there is more before it
lpEncodeBacklen(l) ==
    LET n == BacklenSize(l)
    IN [i \in 1..n |-> ((l \div BackBase^(n - i)) % BackBase) + (IF i > 1 THEN BackBase ELSE 0)]

\* The back length whose last byte is at p
RECURSIVE BacklenAt(_, _, _)
BacklenAt(m, p, i) ==
    LET b == Byte(m, p)
    IN (b % BackBase) * BackBase^i + (IF b < BackBase THEN 0 ELSE BacklenAt(m, p - 1, i + 1))

lpDecodeBacklen(m, p) == BacklenAt(m, p, 0)

lpCurrentEncodedSizeUnsafe(m, p) ==
    LET b == Byte(m, p)
    IN IF b < 128 THEN 1
       ELSE IF b < 192 THEN 1 + (b % 64)
       ELSE IF b < 224 THEN 2
       ELSE IF b < 240 THEN 2 + (b % 16) * 256 + Byte(m, p + 1)
       ELSE IF b = 240 THEN 5 + FromLe(Slice(m, p + 1, 4))
       ELSE IF b = EOF THEN 1
       ELSE b - 238

lpSkip(m, p) == LET n == lpCurrentEncodedSizeUnsafe(m, p) IN p + n + BacklenSize(n)

NotEnd(m, p) == IF Byte(m, p) = EOF THEN -1 ELSE p

lpNext(m, p) == NotEnd(m, lpSkip(m, p))

lpPrev(m, p) ==
    LET n == lpDecodeBacklen(m, p - 1)
    IN IF p = 0 THEN -1 ELSE p - n - BacklenSize(n)

lpFirst(m) == IF Byte(m, 0) = EOF THEN -1 ELSE 0

lpLast(lp) == lpPrev(lp.mem, lp.total - 7)

RECURSIVE CountFrom(_, _)
CountFrom(m, p) == IF p = -1 THEN 0 ELSE 1 + CountFrom(m, lpNext(m, p))

\* Counting writes the number back when it fits again
LengthIs(lp, n) == [lp |-> IF n < UnknownCount THEN [lp EXCEPT !.num = n] ELSE lp, n |-> n]

lpLength(lp) ==
    IF lp.num # UnknownCount THEN [lp |-> lp, n |-> lp.num]
    ELSE LengthIs(lp, CountFrom(lp.mem, lpFirst(lp.mem)))

lpGetWithSize(m, p) ==
    LET b == Byte(m, p)
    IN IF b < 128 THEN <<"int", b>>
       ELSE IF b < 192 THEN <<"str", Slice(m, p + 1, b % 64)>>
       ELSE IF b < 224 THEN <<"int", (IF b % 32 >= 16 THEN (b % 32) - 32 ELSE b % 32) * 256 + Byte(m, p + 1)>>
       ELSE IF b < 240 THEN <<"str", Slice(m, p + 2, (b % 16) * 256 + Byte(m, p + 1))>>
       ELSE IF b = 240 THEN <<"str", Slice(m, p + 5, FromLe(Slice(m, p + 1, 4)))>>
       ELSE <<"int", FromLe(Slice(m, p + 1, b - 239))>>

\* The first of every (skip + 1)th entry from p on that equals e
RECURSIVE FindFrom(_, _, _, _, _)
FindFrom(m, p, e, skip, count) ==
    IF Byte(m, p) = EOF THEN -1
    ELSE IF count = 0 /\ lpGetWithSize(m, p) = e THEN p
    ELSE FindFrom(m, lpSkip(m, p), e, skip, IF count = 0 THEN skip ELSE count - 1)

lpFind(m, p, e, skip) == FindFrom(m, p, e, skip, 0)

\* old bytes at p make room for an entry, or for none
lpStore(lp, p, old, entry) ==
    LET mem == Splice(lp.mem, p, old, entry)
        step == IF entry = <<>> THEN -1 ELSE IF old > 0 THEN 0 ELSE 1
    IN [lp |-> [num |-> IF lp.num = UnknownCount THEN lp.num ELSE lp.num + step,
                total |-> lp.total + Len(entry) - old, mem |-> mem],
        newp |-> IF entry = <<>> THEN NotEnd(mem, p) ELSE p]

WithBacklen(enc) == enc \o lpEncodeBacklen(Len(enc))

\* where is "before", "after" or "replace"; e is <<"none">> to delete.  newp is the element, or the next
lpInsert(lp, e, p, where) ==
    lpStore(lp, IF where = "after" THEN lpSkip(lp.mem, p) ELSE p,
            IF where = "replace" THEN lpSkip(lp.mem, p) - p ELSE 0,
            IF e[1] = "none" THEN <<>> ELSE WithBacklen(lpEncodeGetType(e)))

lpAppend(lp, e) == lpInsert(lp, e, lp.total - 7, "before").lp

lpPrepend(lp, e) ==
    IF lpFirst(lp.mem) = -1 THEN lpAppend(lp, e) ELSE lpInsert(lp, e, 0, "before").lp

lpReplace(lp, p, e) == lpInsert(lp, e, p, "replace")

lpDelete(lp, p) == lpInsert(lp, <<"none">>, p, "replace")

\* <<where the entries after n more begin, how many there were>>
RECURSIVE SkipEntries(_, _, _, _)
SkipEntries(m, p, n, done) ==
    IF n = 0 \/ Byte(m, p) = EOF THEN <<p, done>> ELSE SkipEntries(m, lpSkip(m, p), n - 1, done + 1)

lpCut(lp, p, s) ==
    LET mem == Splice(lp.mem, p, s[1] - p, <<>>)
    IN [lp |-> [num |-> IF lp.num = UnknownCount THEN lp.num ELSE lp.num - s[2],
                total |-> lp.total - (s[1] - p), mem |-> mem],
        newp |-> NotEnd(mem, p)]

lpDeleteRangeWithEntry(lp, p, num) == lpCut(lp, p, SkipEntries(lp.mem, p, num, 0))

RECURSIVE StepOn(_, _, _, _)
StepOn(m, p, n, forward) ==
    IF p = -1 \/ n = 0 THEN p ELSE StepOn(m, IF forward THEN lpNext(m, p) ELSE lpPrev(m, p), n - 1, forward)

\* From whichever end is nearer, when the length is known
lpSeek(lp, index) ==
    LET known == lp.num # UnknownCount
        i == IF known /\ index < 0 THEN lp.num + index ELSE index
        forward == IF known THEN i <= lp.num \div 2 ELSE i >= 0
        back == IF known THEN lp.num - i - 1 ELSE -i - 1
    IN IF known /\ i \notin 0..lp.num - 1 THEN -1
       ELSE IF forward THEN StepOn(lp.mem, lpFirst(lp.mem), i, TRUE)
       ELSE StepOn(lp.mem, lpLast(lp), back, FALSE)

DeleteFrom(lp, p, i, num) ==
    IF num = 0 \/ p = -1 THEN lp
    ELSE IF lp.num # UnknownCount /\ lp.num - i <= num
    THEN [num |-> i, total |-> p + 7, mem |-> Append(Slice(lp.mem, 0, p), EOF)]
    ELSE lpDeleteRangeWithEntry(lp, p, num).lp

lpDeleteRange(lp, index, num) ==
    DeleteFrom(lp, lpSeek(lp, index), IF index < 0 THEN lp.num + index ELSE index, num)

\* The larger block is extended: which one, the caller sees
lpMerge(first, second) ==
    LET n == lpLength(first).n + lpLength(second).n
    IN [num |-> Min({n, UnknownCount}), total |-> first.total + second.total - 7,
        mem |-> Slice(first.mem, 0, first.total - 7) \o second.mem]

lpValidateNext(lp, p) ==
    LET n == lpCurrentEncodedSizeUnsafe(lp.mem, p)
        q == p + n + BacklenSize(n)
    IN IF q > lp.total - 7 \/ lpDecodeBacklen(lp.mem, q - 1) # n THEN -1 ELSE q

RECURSIVE ValidFrom(_, _, _)
ValidFrom(lp, p, count) ==
    IF p = -1 THEN FALSE
    ELSE IF Byte(lp.mem, p) = EOF THEN p = lp.total - 7 /\ lp.num \in {UnknownCount, count}
    ELSE ValidFrom(lp, lpValidateNext(lp, p), count + 1)

lpValidateIntegrity(lp, size) == lp.total = size /\ Byte(lp.mem, size - 7) = EOF /\ ValidFrom(lp, 0, 0)

\* The pairs at the indexes picked, in the order they were picked: one pass over the sorted picks
lpRandomPairs(lp, picks) ==
    [i \in DOMAIN picks |->
        LET p == lpSeek(lp, 2 * picks[i])
        IN <<lpGetWithSize(lp.mem, p), lpGetWithSize(lp.mem, lpNext(lp.mem, p))>>]

\* Every choice the dice allow: an entry must be taken once only as many are left as are wanted
RECURSIVE UniqueFrom(_, _, _, _, _)
UniqueFrom(m, p, left, wanted, picked) ==
    LET value == lpNext(m, p)
        next == lpNext(m, value)
        take == Append(picked, <<lpGetWithSize(m, p), lpGetWithSize(m, value)>>)
    IN IF wanted = 0 \/ p = -1 THEN {picked}
       ELSE UniqueFrom(m, next, left - 1, wanted - 1, take)
            \cup (IF wanted < left THEN UniqueFrom(m, next, left - 1, wanted, picked) ELSE {})

lpRandomPairsUnique(lp, count) ==
    LET total == lpLength(lp).n \div 2
    IN UniqueFrom(lp.mem, lpFirst(lp.mem), total, Min({count, total}), <<>>)

-----------------------------------------------------------------------------
(* Ziplist: [len, tail, mem, ok]; offsets do not count the header, and ok is FALSE once an assert fails *)

END == 255

ziplistNew == [len |-> 0, tail |-> 0, mem |-> <<END>>, ok |-> TRUE]

zipStorePrevEntryLengthLarge(len) == <<BigPrevlen>> \o LeBytes(len, 4)

zipStorePrevEntryLength(len) ==
    IF len < BigPrevlen THEN <<len>> ELSE zipStorePrevEntryLengthLarge(len)

\* The encoding byte, then the bytes of the integer
zipTryEncoding(v) ==
    IF v \in 0..12 THEN <<241 + v>>
    ELSE IF v \in -128..127 THEN <<254>> \o LeBytes(v, 1)
    ELSE IF v \in -32768..32767 THEN <<192>> \o LeBytes(v, 2)
    ELSE IF v \in -8388608..8388607 THEN <<240>> \o LeBytes(v, 3)
    ELSE <<208>> \o LeBytes(v, 4)

\* Lengths of strings are stored most significant byte first
zipStoreEntryEncoding(n) ==
    IF n < SmallString THEN <<n>>
    ELSE IF n < LongString THEN <<64 + n \div 256, n % 256>>
    ELSE <<128>> \o Reverse(LeBytes(n, 4))

zipEncoded(e) == IF e[1] = "int" THEN zipTryEncoding(e[2]) ELSE zipStoreEntryEncoding(Len(e[2])) \o e[2]

zipIntSize(b) ==
    CASE b = 254 -> 1 [] b = 192 -> 2 [] b = 240 -> 3 [] b = 208 -> 4 [] OTHER -> 0

\* prevsize bytes of the length of the entry before, then the encoding b, and a length where it has one
zipEntryAt(m, p, prevsize, b) ==
    LET q == p + prevsize
        str == b < 192
        lensize == IF ~str \/ b < 64 THEN 1 ELSE IF b < 128 THEN 2 ELSE 5
        whole(n) == [prevrawlen |-> IF prevsize = 5 THEN FromLe(Slice(m, p + 1, 4)) ELSE Byte(m, p),
                     prevrawlensize |-> prevsize, lensize |-> lensize, len |-> n, str |-> str,
                     encoding |-> b, raw |-> prevsize + lensize + n]
    IN whole(IF ~str THEN zipIntSize(b)
             ELSE IF b < 64 THEN b
             ELSE IF b < 128 THEN (b % 64) * 256 + Byte(m, q + 1)
             ELSE FromLe(Reverse(Slice(m, q + 1, 4))))

zipEntry(m, p) ==
    LET prevsize == IF Byte(m, p) >= BigPrevlen THEN 5 ELSE 1
    IN zipEntryAt(m, p, prevsize, Byte(m, p + prevsize))

ziplistGet(m, p) ==
    LET e == zipEntry(m, p)
        q == p + e.prevrawlensize + e.lensize
    IN IF e.str THEN <<"str", Slice(m, q, e.len)>>
       ELSE IF e.len = 0 THEN <<"int", (e.encoding % 16) - 1>>
       ELSE <<"int", FromLe(Slice(m, q, e.len))>>

Overwrite(m, p, bytes) == Splice(m, p, Len(bytes), bytes)

\* The first loop of the cascade.  c: the memory, the cursor p, the last entry changed (prevlen, at
\* prevoffset) and how many have to grow
CascadeStays(c, cur) == Byte(c.mem, c.p) = END \/ cur.prevrawlen = c.prevlen

CascadeFits(c, cur) == cur.prevrawlensize >= Len(zipStorePrevEntryLength(c.prevlen))

CascadeStore(c, cur) ==
    [c EXCEPT !.mem = Overwrite(@, c.p, IF cur.prevrawlensize = Len(zipStorePrevEntryLength(c.prevlen))
                                        THEN zipStorePrevEntryLength(c.prevlen)
                                        ELSE zipStorePrevEntryLengthLarge(c.prevlen))]

CascadeStep(c, cur) ==
    [c EXCEPT !.prevlen = cur.raw + 4, !.prevoffset = c.p, !.p = @ + cur.raw, !.cnt = @ + 1,
              !.ok = @ /\ cur.prevrawlen \in {0, c.prevlen - 4}]

RECURSIVE CascadeOver(_)
CascadeOver(c) ==
    LET cur == zipEntry(c.mem, c.p)
    IN IF CascadeStays(c, cur) THEN c
       ELSE IF CascadeFits(c, cur) THEN CascadeStore(c, cur)
       ELSE CascadeOver(CascadeStep(c, cur))

\* The second: the entries that grow move towards the tail, the last one first
MoveEntry(m, p, prevoffset, cur, firstentrylen) ==
    LET body == Slice(m, prevoffset + cur.prevrawlensize, cur.raw - cur.prevrawlensize)
        prev == IF cur.prevrawlen = 0 THEN firstentrylen ELSE cur.prevrawlen + 4
    IN Overwrite(Overwrite(m, p - Len(body), body), p - cur.raw - 4, zipStorePrevEntryLength(prev))

RECURSIVE MoveBack(_, _, _, _, _)
MoveBack(m, p, prevoffset, cnt, firstentrylen) ==
    LET cur == zipEntry(m, prevoffset)
    IN IF cnt = 0 THEN m
       ELSE MoveBack(MoveEntry(m, p, prevoffset, cur, firstentrylen), p - cur.raw - 4,
                     prevoffset - cur.prevrawlen, cnt - 1, firstentrylen)

CascadeMove(zl, c, first) ==
    LET extra == 4 * c.cnt
        moved == Splice(c.mem, c.p, 0, [i \in 1..extra |-> 0])
    IN IF c.cnt = 0 THEN [zl EXCEPT !.mem = c.mem]
       ELSE [zl EXCEPT !.tail = @ + extra - (IF @ = c.prevoffset THEN 4 ELSE 0), !.ok = c.ok,
                       !.mem = MoveBack(moved, c.p + extra, c.prevoffset, c.cnt, first)]

CascadeFrom(zl, p, first) ==
    CascadeMove(zl, CascadeOver([mem |-> zl.mem, p |-> p + first, prevlen |-> first, prevoffset |-> p,
                                 cnt |-> 0, ok |-> zl.ok]), first)

__ziplistCascadeUpdate(zl, p) ==
    IF Byte(zl.mem, p) = END THEN zl ELSE CascadeFrom(zl, p, zipEntry(zl.mem, p).raw)

ZIPLIST_INCR_LENGTH(zl, n) == [zl EXCEPT !.len = IF @ < UnknownCount THEN @ + n ELSE @]

\* n bytes from p on; what lies before the entries is the header
Read(m, p, n) == [i \in 1..n |-> IF p + i <= 0 THEN 0 ELSE m[p + i]]

CascadeIf(changed, zl, p) == IF changed THEN __ziplistCascadeUpdate(zl, p) ELSE zl

\* The tail follows, by nextdiff too if it is not the entry that changes size
ZipGrown(zl, p, reqlen, nextdiff, mem) ==
    LET lone == Byte(mem, p + reqlen + zipEntry(mem, p + reqlen).raw) = END
    IN [zl EXCEPT !.mem = mem,
                  !.tail = IF Byte(zl.mem, p) = END THEN p
                           ELSE @ + reqlen + (IF lone THEN 0 ELSE nextdiff)]

\* An entry takes its place; diff: what the length it has to the next one costs there
StoreEntry(zl, p, entry, diff) ==
    LET m == zl.mem
        reqlen == Len(entry)
        forcelarge == diff = -4 /\ reqlen < 4
        nextdiff == IF forcelarge THEN 0 ELSE diff
        next == IF forcelarge THEN zipStorePrevEntryLengthLarge(reqlen) ELSE zipStorePrevEntryLength(reqlen)
        room == Slice(m, 0, p) \o [i \in 1..reqlen |-> 0]
                \o Read(m, p - nextdiff, Len(m) - p - 1 + nextdiff) \o <<END>>
        mem == IF Byte(m, p) = END THEN room ELSE Overwrite(room, p + reqlen, next)
        put(z) == [z EXCEPT !.mem = Overwrite(@, p, entry)]
    IN ZIPLIST_INCR_LENGTH(
           put(CascadeIf(nextdiff # 0, ZipGrown(zl, p, reqlen, nextdiff, mem), p + reqlen)), 1)

InsertEntry(zl, p, entry) ==
    StoreEntry(zl, p, entry,
               IF Byte(zl.mem, p) = END THEN 0
               ELSE Len(zipStorePrevEntryLength(Len(entry))) - zipEntry(zl.mem, p).prevrawlensize)

__ziplistInsert(zl, p, e) ==
    LET prevlen == IF Byte(zl.mem, p) # END THEN zipEntry(zl.mem, p).prevrawlen
                   ELSE IF Byte(zl.mem, zl.tail) # END THEN zipEntry(zl.mem, zl.tail).raw ELSE 0
    IN InsertEntry(zl, p, zipStorePrevEntryLength(prevlen) \o zipEncoded(e))

RECURSIVE ZipSkip(_, _, _, _)
ZipSkip(m, p, n, done) ==
    IF n = 0 \/ Byte(m, p) = END THEN <<p, done>> ELSE ZipSkip(m, p + zipEntry(m, p).raw, n - 1, done + 1)

\* The bytes from p to to go; the next entry, if there is one, stores the length prev before it instead
CutTo(zl, p, to, prev, nextdiff) ==
    LET q == to - nextdiff
        stored == Overwrite(zl.mem, q, prev)
        lone == Byte(stored, q + zipEntry(stored, q).raw) = END
    IN [zl EXCEPT !.mem = Slice(@, 0, p) \o SubSeq(stored, q + 1, Len(@)),
                  !.tail = @ - (to - p) + (IF lone THEN 0 ELSE nextdiff),
                  !.ok = @ /\ q >= p]

CutBefore(zl, p, s, prev, nextdiff) ==
    CascadeIf(nextdiff # 0, ZIPLIST_INCR_LENGTH(CutTo(zl, p, s[1], prev, nextdiff), -s[2]), p)

CutAll(zl, p, s, prevlen) ==
    ZIPLIST_INCR_LENGTH([zl EXCEPT !.mem = Append(Slice(@, 0, p), END), !.tail = p - prevlen], -s[2])

DeleteSkipped(zl, p, s, prevlen) ==
    LET prev == zipStorePrevEntryLength(prevlen)
    IN IF s[1] = p THEN zl
       ELSE IF Byte(zl.mem, s[1]) = END THEN CutAll(zl, p, s, prevlen)
       ELSE CutBefore(zl, p, s, prev, Len(prev) - zipEntry(zl.mem, s[1]).prevrawlensize)

__ziplistDelete(zl, p, num) ==
    DeleteSkipped(zl, p, ZipSkip(zl.mem, p, num, 0), zipEntry(zl.mem, p).prevrawlen)

ziplistPush(zl, e, head) == __ziplistInsert(zl, IF head THEN 0 ELSE Len(zl.mem) - 1, e)

ziplistReplace(zl, p, e) ==
    LET old == zipEntry(zl.mem, p)
        enc == zipEncoded(e)
    IN IF Len(enc) = old.lensize + old.len
       THEN [zl EXCEPT !.mem = Overwrite(@, p + old.prevrawlensize, enc)]
       ELSE __ziplistInsert(__ziplistDelete(zl, p, 1), p, e)

ziplistMerge(first, second) ==
    __ziplistCascadeUpdate(
        [len |-> Min({first.len + second.len, UnknownCount}),
         tail |-> Len(first.mem) - 1 + second.tail,
         mem |-> Slice(first.mem, 0, Len(first.mem) - 1) \o second.mem,
         ok |-> first.ok /\ second.ok],
        first.tail)

ziplistNext(m, p) ==
    LET q == p + zipEntry(m, p).raw IN IF Byte(m, p) = END \/ Byte(m, q) = END THEN -1 ELSE q

ziplistPrev(zl, p) ==
    IF Byte(zl.mem, p) = END THEN IF Byte(zl.mem, zl.tail) = END THEN -1 ELSE zl.tail
    ELSE IF p = 0 THEN -1
    ELSE p - zipEntry(zl.mem, p).prevrawlen

RECURSIVE ZipBack(_, _, _)
ZipBack(m, p, n) ==
    LET prev == zipEntry(m, p).prevrawlen
    IN IF n = 0 THEN p ELSE IF prev = 0 THEN -1 ELSE ZipBack(m, p - prev, n - 1)

ZipSkipped(m, s, index) == IF Byte(m, s[1]) = END \/ s[2] < index THEN -1 ELSE s[1]

ziplistIndex(zl, index) ==
    IF index >= 0 THEN ZipSkipped(zl.mem, ZipSkip(zl.mem, 0, index, 0), index)
    ELSE IF Byte(zl.mem, zl.tail) = END THEN -1 ELSE ZipBack(zl.mem, zl.tail, -index - 1)

RECURSIVE ZipFindFrom(_, _, _, _, _)
ZipFindFrom(m, p, e, skip, count) ==
    IF Byte(m, p) = END THEN -1
    ELSE IF count = 0 /\ ziplistGet(m, p) = e THEN p
    ELSE ZipFindFrom(m, p + zipEntry(m, p).raw, e, skip, IF count = 0 THEN skip ELSE count - 1)

ziplistFind(zl, p, e, skip) == ZipFindFrom(zl.mem, p, e, skip, 0)

ziplistLen(zl) ==
    LET n == ZipSkip(zl.mem, 0, Len(zl.mem), 0)[2]
    IN IF zl.len < UnknownCount THEN [zl |-> zl, n |-> zl.len]
       ELSE [zl |-> IF n < UnknownCount THEN [zl EXCEPT !.len = n] ELSE zl, n |-> n]

RECURSIVE ZipValidFrom(_, _, _, _, _)
ZipValidFrom(zl, p, prev, prevraw, count) ==
    LET e == zipEntry(zl.mem, p)
    IN IF Byte(zl.mem, p) = END
       THEN p = Len(zl.mem) - 1 /\ prev \in {-1, zl.tail} /\ zl.len \in {UnknownCount, count}
       ELSE e.prevrawlen = prevraw /\ ZipValidFrom(zl, p + e.raw, p, e.raw, count + 1)

ziplistValidateIntegrity(zl) ==
    /\ Byte(zl.mem, Len(zl.mem) - 1) = END
    /\ zl.tail <= Len(zl.mem) - 1
    /\ ZipValidFrom(zl, 0, -1, 0, 0)

\* What rdbLoadObject makes of a list of an older server: each entry appended to a listpack
RECURSIVE ConvertFrom(_, _, _)
ConvertFrom(m, p, lp) ==
    IF Byte(m, p) = END THEN lp
    ELSE ConvertFrom(m, p + zipEntry(m, p).raw, lpAppend(lp, ziplistGet(m, p)))

ziplistConvertAndValidateIntegrity(zl) == ConvertFrom(zl.mem, 0, lpNew)

RECURSIVE FieldsFrom(_, _)
FieldsFrom(m, p) ==
    IF Byte(m, p) = END THEN <<>>
    ELSE LET q == p + zipEntry(m, p).raw
         IN <<ziplistGet(m, p)>> \o (IF Byte(m, q) = END THEN <<>> ELSE FieldsFrom(m, q + zipEntry(m, q).raw))

\* And of pairs, refused when a field comes twice or has no value
ziplistPairsConvertAndValidateIntegrity(zl) ==
    LET fields == FieldsFrom(zl.mem, 0)
    IN [ok |-> ziplistValidateIntegrity(zl) /\ IsInjective(fields) /\ ziplistLen(zl).n % 2 = 0,
        lp |-> ziplistConvertAndValidateIntegrity(zl)]

-----------------------------------------------------------------------------
(* Intset: [encoding, length, mem]; encoding is the number of cells of an   *)
(* integer, a cell being what the narrowest encoding takes                  *)

Cell == 2^CellBits

_intsetValueEncoding(v) ==
    CHOOSE n \in {1, 2, 4} : /\ v \in -(2^(n * CellBits - 1))..2^(n * CellBits - 1) - 1
                             /\ \A k \in {1, 2} : k < n => v \notin -(2^(k * CellBits - 1))..2^(k * CellBits - 1) - 1

_intsetGetEncoded(is, pos, enc) ==
    LET cells == Slice(is.mem, pos * enc, enc)
        v == FoldRight(LAMBDA c, acc : acc * Cell + c, cells, 0)
    IN IF cells[enc] >= Cell \div 2 THEN v - Cell^enc ELSE v

_intsetGet(is, pos) == _intsetGetEncoded(is, pos, is.encoding)

_intsetSet(is, pos, v) ==
    [is EXCEPT !.mem = Overwrite(@, pos * is.encoding, [k \in 1..is.encoding |-> (v \div Cell^(k - 1)) % Cell])]

intsetNew == [encoding |-> 1, length |-> 0, mem |-> <<>>]

intsetResize(is, n) ==
    LET size == n * is.encoding
    IN [is EXCEPT !.mem = IF size <= Len(@) THEN SubSeq(@, 1, size) ELSE @ \o [i \in 1..size - Len(@) |-> 0]]

\* <<found, where it is or goes>>
RECURSIVE Halve(_, _, _, _)
Halve(is, v, min, max) ==
    LET mid == (min + max) \div 2
        cur == _intsetGet(is, mid)
    IN IF max < min THEN <<FALSE, min>>
       ELSE IF v > cur THEN Halve(is, v, mid + 1, max)
       ELSE IF v < cur THEN Halve(is, v, min, mid - 1)
       ELSE <<TRUE, mid>>

intsetSearch(is, v) ==
    IF is.length = 0 THEN <<FALSE, 0>>
    ELSE IF v > _intsetGet(is, is.length - 1) THEN <<FALSE, is.length>>
    ELSE IF v < _intsetGet(is, 0) THEN <<FALSE, 0>>
    ELSE Halve(is, v, 0, is.length - 1)

RECURSIVE WidenFrom(_, _, _, _)
WidenFrom(is, i, prepend, enc) ==
    IF i < 0 THEN is
    ELSE WidenFrom(_intsetSet(is, i + prepend, _intsetGetEncoded(is, i, enc)), i - 1, prepend, enc)

intsetUpgradeAndAdd(is, v) ==
    LET wide == intsetResize([is EXCEPT !.encoding = _intsetValueEncoding(v)], is.length + 1)
        prepend == IF v < 0 THEN 1 ELSE 0
        moved == WidenFrom(wide, is.length - 1, prepend, is.encoding)
    IN [_intsetSet(moved, IF v < 0 THEN 0 ELSE is.length, v) EXCEPT !.length = @ + 1]

\* memmove of the integers from `from' on to `to'
intsetMoveTail(is, from, to) ==
    LET bytes == (is.length - from) * is.encoding
    IN [is EXCEPT !.mem = Overwrite(@, to * is.encoding, Slice(@, from * is.encoding, bytes))]

intsetAdd(is, v) ==
    LET s == intsetSearch(is, v)
        grown == intsetResize(is, is.length + 1)
        moved == IF s[2] < is.length THEN intsetMoveTail(grown, s[2], s[2] + 1) ELSE grown
    IN IF _intsetValueEncoding(v) > is.encoding THEN intsetUpgradeAndAdd(is, v)
       ELSE IF s[1] THEN is
       ELSE [_intsetSet(moved, s[2], v) EXCEPT !.length = @ + 1]

intsetFind(is, v) == _intsetValueEncoding(v) <= is.encoding /\ intsetSearch(is, v)[1]

intsetRemove(is, v) ==
    LET pos == intsetSearch(is, v)[2]
        moved == IF pos < is.length - 1 THEN intsetMoveTail(is, pos + 1, pos) ELSE is
    IN IF intsetFind(is, v) THEN [intsetResize(moved, is.length - 1) EXCEPT !.length = @ - 1] ELSE is

intsetValidateIntegrity(is) ==
    /\ is.length * is.encoding = Len(is.mem)
    /\ is.length > 0
    /\ \A i \in 1..is.length - 1 : _intsetGet(is, i - 1) < _intsetGet(is, i)

-----------------------------------------------------------------------------
(* The operations, next to what they promise *)

PackInit ==
    \/ pack = [kind |-> "listpack", at |-> lpNew, held |-> <<>>]
    \/ pack = [kind |-> "ziplist", at |-> ziplistNew, held |-> <<>>]
    \/ pack = [kind |-> "intset", at |-> intsetNew, held |-> <<>>]

Kind(k) == pack.kind = k

Becomes(at, held) == Len(held) <= MaxElements /\ pack' = [pack EXCEPT !.at = at, !.held = held]

ListpackPush(e, head) ==
    /\ Kind("listpack")
    /\ IF head THEN Becomes(lpPrepend(pack.at, e), <<e>> \o pack.held)
       ELSE Becomes(lpAppend(pack.at, e), Append(pack.held, e))

ListpackInsert(i, e, where) ==
    /\ Kind("listpack")
    /\ LET p == lpSeek(pack.at, i - 1)
           at == lpInsert(pack.at, e, p, where).lp
       IN Becomes(at, IF where = "replace" THEN ReplaceAt(pack.held, i, e)
                      ELSE InsertAt(pack.held, IF where = "before" THEN i ELSE i + 1, e))

Cut(held, i, n) == SubSeq(held, 1, i - 1) \o SubSeq(held, i + n, Len(held))

ListpackDelete(i) ==
    /\ Kind("listpack")
    /\ Becomes(lpDelete(pack.at, lpSeek(pack.at, i - 1)).lp, Cut(pack.held, i, 1))

\* Indexes from the end as well, and counts past it
ListpackDeleteRange(i, n, fromEnd) ==
    /\ Kind("listpack")
    /\ Becomes(lpDeleteRange(pack.at, IF fromEnd THEN i - 1 - Len(pack.held) ELSE i - 1, n), Cut(pack.held, i, n))

\* What lpLength finds out it writes down
ListpackLength ==
    /\ Kind("listpack")
    /\ pack.at.num = UnknownCount
    /\ pack' = [pack EXCEPT !.at = lpLength(pack.at).lp]

ListpackMerge(e, first) ==
    /\ Kind("listpack")
    /\ LET other == lpAppend(lpNew, e)
       IN IF first THEN Becomes(lpMerge(other, pack.at), <<e>> \o pack.held)
          ELSE Becomes(lpMerge(pack.at, other), Append(pack.held, e))

ZiplistPush(e, head) ==
    /\ Kind("ziplist")
    /\ Becomes(ziplistPush(pack.at, e, head), IF head THEN <<e>> \o pack.held ELSE Append(pack.held, e))

ZiplistInsert(i, e) ==
    /\ Kind("ziplist")
    /\ Becomes(__ziplistInsert(pack.at, ziplistIndex(pack.at, i - 1), e), InsertAt(pack.held, i, e))

ZiplistReplace(i, e) ==
    /\ Kind("ziplist")
    /\ Becomes(ziplistReplace(pack.at, ziplistIndex(pack.at, i - 1), e), ReplaceAt(pack.held, i, e))

ZiplistDeleteRange(i, n) ==
    /\ Kind("ziplist")
    /\ Becomes(__ziplistDelete(pack.at, ziplistIndex(pack.at, i - 1), n), Cut(pack.held, i, n))

\* Of lists that hold something: the tail of an empty second list would be its end
ZiplistMerge(e, first) ==
    /\ Kind("ziplist") /\ pack.held # <<>>
    /\ LET other == ziplistPush(ziplistNew, e, TRUE)
       IN Becomes(ziplistMerge(IF first THEN other ELSE pack.at, IF first THEN pack.at ELSE other),
                  IF first THEN <<e>> \o pack.held ELSE Append(pack.held, e))

ZiplistLength ==
    /\ Kind("ziplist")
    /\ pack.at.len = UnknownCount
    /\ pack' = [pack EXCEPT !.at = ziplistLen(pack.at).zl]

IntsetAdd(v) ==
    /\ Kind("intset")
    /\ Becomes(intsetAdd(pack.at, v),
               IF \E i \in DOMAIN pack.held : pack.held[i] = v THEN pack.held
               ELSE SelectSeq(pack.held, LAMBDA w : w < v) \o <<v>> \o SelectSeq(pack.held, LAMBDA w : w > v))

IntsetRemove(v) ==
    /\ Kind("intset")
    /\ Becomes(intsetRemove(pack.at, v), SelectSeq(pack.held, LAMBDA w : w # v))

PackNext ==
    \/ \E e \in Elements, b \in BOOLEAN :
          \/ ListpackPush(e, b) \/ ListpackMerge(e, b) \/ ZiplistPush(e, b) \/ ZiplistMerge(e, b)
    \/ \E i \in DOMAIN pack.held, e \in Elements :
          \/ \E where \in {"before", "after", "replace"} : ListpackInsert(i, e, where)
          \/ ZiplistInsert(i, e) \/ ZiplistReplace(i, e)
    \/ \E i \in DOMAIN pack.held :
          \/ ListpackDelete(i)
          \/ \E n \in 1..Len(pack.held), b \in BOOLEAN : ListpackDeleteRange(i, n, b)
          \/ \E n \in 1..Len(pack.held) : ZiplistDeleteRange(i, n)
    \/ ListpackLength \/ ZiplistLength
    \/ \E v \in IntsetValues : IntsetAdd(v) \/ IntsetRemove(v)

-----------------------------------------------------------------------------
RECURSIVE LpForward(_, _)
LpForward(m, p) == IF p = -1 THEN <<>> ELSE <<lpGetWithSize(m, p)>> \o LpForward(m, lpNext(m, p))

RECURSIVE LpBackward(_, _)
LpBackward(m, p) == IF p = -1 THEN <<>> ELSE Append(LpBackward(m, lpPrev(m, p)), lpGetWithSize(m, p))

RECURSIVE ZipForward(_, _)
ZipForward(m, p) == IF p = -1 THEN <<>> ELSE <<ziplistGet(m, p)>> \o ZipForward(m, ziplistNext(m, p))

RECURSIVE ZipBackward(_, _)
ZipBackward(zl, p) == IF p = -1 THEN <<>> ELSE Append(ZipBackward(zl, ziplistPrev(zl, p)), ziplistGet(zl.mem, p))

\* Read in either direction, a packed list holds what was put in it, in order, after any sequence of
\* operations; its header agrees with it, the integrity check RDB loading relies on accepts it, and no
\* assertion has failed.  An intset holds its integers in increasing order.
PackHolds ==
    /\ Kind("listpack") =>
          LET lp == pack.at
          IN /\ LpForward(lp.mem, lpFirst(lp.mem)) = pack.held
             /\ LpBackward(lp.mem, lpLast(lp)) = pack.held
             /\ lp.num \in {UnknownCount, Len(pack.held)}
             /\ lpValidateIntegrity(lp, Len(lp.mem) + 6)
    /\ Kind("ziplist") =>
          LET zl == pack.at
          IN /\ zl.ok
             /\ ZipForward(zl.mem, IF Byte(zl.mem, 0) = END THEN -1 ELSE 0) = pack.held
             /\ ZipBackward(zl, ziplistPrev(zl, Len(zl.mem) - 1)) = pack.held
             /\ ziplistValidateIntegrity(zl)
    /\ Kind("intset") =>
          LET is == pack.at
          IN /\ is.length = Len(pack.held)
             /\ \A i \in 1..is.length : _intsetGet(is, i - 1) = pack.held[i]
             /\ is.length > 0 => intsetValidateIntegrity(is)

\* The pairs of a list of even length
PairsOf(s) == [i \in 1..Len(s) \div 2 |-> <<s[2 * i - 1], s[2 * i]>>]

\* Where the first element equal to e is, among those at every (skip + 1)th place
FirstOf(s, e, skip) ==
    LET at == {i \in DOMAIN s : (i - 1) % (skip + 1) = 0 /\ s[i] = e} IN IF at = {} THEN 0 ELSE Min(at)

\* Seeking from either end, searching with a step, counting, choosing random pairs and converting an old
\* ziplist for RDB loading all answer as the list of elements says; so does the search of an intset.
PackReads ==
    /\ Kind("listpack") =>
          LET lp == pack.at
              n == Len(pack.held)
              At(i) == lpSeek(lp, i)
          IN /\ lpLength(lp).n = n
             /\ \A i \in -n - 1..n :
                   At(i) = (IF i \in -n..n - 1 THEN StepOn(lp.mem, 0, i % n, TRUE) ELSE -1)
             /\ \A e \in Elements, skip \in 0..1 :
                   lpFind(lp.mem, 0, e, skip) =
                       (IF FirstOf(pack.held, e, skip) = 0 THEN -1 ELSE At(FirstOf(pack.held, e, skip) - 1))
             /\ (n > 0 /\ n % 2 = 0) =>
                   /\ lpRandomPairs(lp, [i \in 1..n \div 2 |-> i - 1]) = PairsOf(pack.held)
                   /\ \A k \in 0..n :
                         lpRandomPairsUnique(lp, k) =
                             {[i \in 1..Cardinality(S) |->
                                  PairsOf(pack.held)[CHOOSE j \in S : Cardinality({k2 \in S : k2 <= j}) = i]] :
                              S \in {T \in SUBSET (1..n \div 2) : Cardinality(T) = Min({k, n \div 2})}}
    /\ Kind("ziplist") =>
          LET zl == pack.at
              n == Len(pack.held)
              pairs == ziplistPairsConvertAndValidateIntegrity(zl)
              lp == ziplistConvertAndValidateIntegrity(zl)
          IN /\ ziplistLen(zl).n = n
             /\ \A i \in (IF n = 0 THEN {-1, 0} ELSE -n - 1..n) :
                   ziplistIndex(zl, i) = (IF i \in -n..n - 1 THEN ZipSkip(zl.mem, 0, i % n, 0)[1] ELSE -1)
             /\ \A e \in Elements, skip \in 0..1 :
                   ziplistFind(zl, 0, e, skip) =
                       (IF FirstOf(pack.held, e, skip) = 0 THEN -1
                        ELSE ziplistIndex(zl, FirstOf(pack.held, e, skip) - 1))
             /\ LpForward(lp.mem, lpFirst(lp.mem)) = pack.held
             /\ pairs.ok <=> n % 2 = 0 /\ \A i, j \in DOMAIN PairsOf(pack.held) :
                                  PairsOf(pack.held)[i][1] = PairsOf(pack.held)[j][1] => i = j
    /\ Kind("intset") =>
          \A v \in IntsetValues : intsetFind(pack.at, v) <=> \E i \in DOMAIN pack.held : pack.held[i] = v
=============================================================================
