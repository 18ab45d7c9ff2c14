-------------------------------- MODULE Rax ---------------------------------
(***************************************************************************)
(* The radix tree behind streams, consumer groups, cluster slots and       *)
(* client tracking (rax.c): chains of single children are compressed into  *)
(* one node, split again by an insertion and recompressed by a removal,    *)
(* and an iterator seeks any string, present or not, in both directions.   *)
(*                                                                         *)
(* A node is [key, val, compr, chars, kids]; a position in the tree is the *)
(* path of child indexes from the head, which is also the iterator's stack *)
(* of parents.  A key is a sequence of characters, a character an integer. *)
(* Where the allocator would fail, Redis stops, so that no path returns    *)
(* out of memory.  held is history: the map the caller believes in.        *)
(***************************************************************************)
EXTENDS Integers, Sequences, SequencesExt, FiniteSets, TLC

CONSTANTS RaxKeys,     \* strings inserted and removed
          RaxProbes,   \* strings looked up and sought
          RaxVals      \* values, 0 being NULL

VARIABLE rax

Leaf == [key |-> FALSE, val |-> 0, compr |-> FALSE, chars |-> <<>>, kids |-> <<>>]

raxNew == [head |-> Leaf, numele |-> 0, numnodes |-> 1, held |-> <<>>]

raxSetData(n, v) == [n EXCEPT !.key = TRUE, !.val = v]

RECURSIVE At(_, _)
At(n, path) == IF path = <<>> THEN n ELSE At(n.kids[Head(path)], Tail(path))

RECURSIVE Put(_, _, _)
Put(n, path, m) ==
    IF path = <<>> THEN m ELSE [n EXCEPT !.kids[Head(path)] = Put(@, Tail(path), m)]

Drop(s, n) == SubSeq(s, n + 1, Len(s))

\* The length of the longest common prefix
Common(a, b) ==
    LET short == IF Len(a) < Len(b) THEN Len(a) ELSE Len(b)
    IN  CHOOSE m \in 0..short : (m = short \/ a[m + 1] # b[m + 1]) /\ \A i \in 1..m : a[i] = b[i]

Lex(a, b) ==
    LET m == Common(a, b)
    IN  m = Len(a) \/ (m < Len(b) /\ a[m + 1] < b[m + 1])

\* Stops at node path, having matched i characters of s and, in a compressed node, j of its own
RECURSIVE WalkFrom(_, _, _, _)
WalkFrom(head, s, i, path) ==
    LET n == At(head, path)
        m == Common(n.chars, Drop(s, i))
        edges == {k \in DOMAIN n.chars : i < Len(s) /\ n.chars[k] = s[i + 1]}
    IN  IF n.chars = <<>> \/ i = Len(s) THEN [i |-> i, path |-> path, j |-> 0]
        ELSE IF n.compr
             THEN IF m # Len(n.chars) THEN [i |-> i + m, path |-> path, j |-> m]
                  ELSE WalkFrom(head, s, i + m, Append(path, 1))
             ELSE IF edges = {} THEN [i |-> i, path |-> path, j |-> 0]
                  ELSE WalkFrom(head, s, i + 1, Append(path, CHOOSE k \in edges : TRUE))

raxLowWalk(t, s) == WalkFrom(t.head, s, 0, <<>>)

Represents(t, w, s) == w.i = Len(s) /\ (w.j = 0 \/ ~At(t.head, w.path).compr)

raxFind(t, s) ==
    LET w == raxLowWalk(t, s)
    IN  IF Represents(t, w, s) /\ At(t.head, w.path).key THEN <<At(t.head, w.path).val>> ELSE <<>>

-----------------------------------------------------------------------------
\* Insertion

raxAddChild(n, c, child) ==
    LET pos == Cardinality({k \in DOMAIN n.chars : n.chars[k] <= c}) + 1
    IN  [n EXCEPT !.chars = InsertAt(@, pos, c), !.kids = InsertAt(@, pos, child)]

raxCompressNode(n, s, child) == [n EXCEPT !.compr = TRUE, !.chars = s, !.kids = <<child>>]

\* The characters that are left become a compressed node, or a child and then the rest
RECURSIVE Grown(_, _, _)
Grown(n, s, v) ==
    IF s = <<>> THEN raxSetData(n, v)
    ELSE IF n.chars = <<>> /\ Len(s) > 1 THEN raxCompressNode(n, s, raxSetData(Leaf, v))
    ELSE raxAddChild(n, s[1], Grown(Leaf, Tail(s), v))

Links(n, s) == IF s = <<>> THEN 0 ELSE IF Len(s) = 1 \/ n.chars = <<>> THEN 1 ELSE 2

Chain(chars, child) == [Leaf EXCEPT !.compr = Len(chars) > 1, !.chars = chars, !.kids = <<child>>]

Trimmed(n, j, child) == [n EXCEPT !.compr = j > 1, !.chars = SubSeq(@, 1, j), !.kids = <<child>>]

\* ALGO 1: the walk stopped at a character of a compressed node that differs
SplitAt(n, j, rest, v) ==
    LET postfix == Drop(n.chars, j + 1)
        next == IF postfix = <<>> THEN n.kids[1] ELSE Chain(postfix, n.kids[1])
        split == [(IF j = 0 THEN n ELSE Leaf) EXCEPT !.compr = FALSE, !.chars = <<n.chars[j + 1]>>, !.kids = <<next>>]
        grown == Grown(split, rest, v)
    IN  [node |-> IF j = 0 THEN grown ELSE Trimmed(n, j, grown),
         new |-> (IF j = 0 THEN 0 ELSE 1) + (IF postfix = <<>> THEN 0 ELSE 1) + Links(split, rest)]

\* ALGO 2: the string ended in the middle of a compressed node
CutAt(n, j, v) == Trimmed(n, j, raxSetData(Chain(Drop(n.chars, j), n.kids[1]), v))

Inserted(t, path, m, nodes) == [t EXCEPT !.head = Put(@, path, m), !.numele = @ + 1, !.numnodes = @ + nodes]

InsertNear(t, s, v, overwrite, w, n) ==
    LET rest == Drop(s, w.i)
        split(x) == Inserted(t, w.path, x.node, x.new)
    IN  CASE Represents(t, w, s) /\ n.key ->
               IF overwrite THEN [t EXCEPT !.head = Put(@, w.path, raxSetData(n, v))] ELSE t
          [] Represents(t, w, s) /\ ~n.key -> Inserted(t, w.path, raxSetData(n, v), 0)
          [] n.compr /\ w.i # Len(s) -> split(SplitAt(n, w.j, rest, v))
          [] n.compr /\ w.i = Len(s) /\ w.j # 0 -> Inserted(t, w.path, CutAt(n, w.j, v), 1)
          [] OTHER -> Inserted(t, w.path, Grown(n, rest, v), Links(n, rest))

InsertWalked(t, s, v, overwrite, w) == InsertNear(t, s, v, overwrite, w, At(t.head, w.path))

raxGenericInsert(t, s, v, overwrite) == InsertWalked(t, s, v, overwrite, raxLowWalk(t, s))

-----------------------------------------------------------------------------
\* Removal

Single(n) == n.compr \/ Len(n.chars) = 1

raxRemoveChild(n, k) ==
    IF n.compr THEN [n EXCEPT !.compr = FALSE, !.chars = <<>>, !.kids = <<>>]
    ELSE [n EXCEPT !.chars = RemoveAt(@, k), !.kids = RemoveAt(@, k)]

\* The first ancestor that is a key or has several children; else the head
RECURSIVE Stays(_, _)
Stays(head, path) ==
    LET n == At(head, path) IN
    IF path = <<>> \/ n.key \/ ~Single(n) THEN path ELSE Stays(head, Front(path))

RECURSIVE Highest(_, _)
Highest(head, path) ==
    LET up == At(head, Front(path)) IN
    IF path = <<>> THEN path
    ELSE IF up.key \/ ~Single(up) THEN path ELSE Highest(head, Front(path))

\* <<characters of the chain from n on, the first node that does not belong to it, its length>>
RECURSIVE Compressible(_)
Compressible(n) ==
    LET next == n.kids[1] IN
    IF next.key \/ ~Single(next) THEN <<n.chars, next, 1>>
    ELSE LET more == Compressible(next) IN <<n.chars \o more[1], more[2], more[3] + 1>>

CompressChain(t, path) ==
    LET start == Highest(t.head, path)
        chain == Compressible(At(t.head, start))
    IN  IF chain[3] = 1 THEN t
        ELSE [t EXCEPT !.head = Put(@, start, Chain(chain[1], chain[2])), !.numnodes = @ + 1 - chain[3]]

CompressCut(t, stop, cut) ==
    IF Len(cut.chars) = 1 /\ ~cut.key THEN CompressChain(t, stop) ELSE t

CutChild(t, path, stop, cut) ==
    CompressCut([t EXCEPT !.head = Put(@, stop, cut), !.numnodes = @ - (Len(path) - Len(stop))], stop, cut)

\* The empty nodes from path up to the one that stays
FreeUpTo(t, path, stop) ==
    CutChild(t, path, stop, raxRemoveChild(At(t.head, stop), path[Len(stop) + 1]))

FreeEmpty(t, path) == IF path = <<>> THEN t ELSE FreeUpTo(t, path, Stays(t.head, Front(path)))

Unset(t, path, n) == [t EXCEPT !.head = Put(@, path, [n EXCEPT !.key = FALSE, !.val = 0]), !.numele = @ - 1]

RemoveNode(t, path, n) ==
    IF n.chars = <<>> THEN FreeEmpty(Unset(t, path, n), path)
    ELSE IF Len(n.chars) = 1 THEN CompressChain(Unset(t, path, n), path) ELSE Unset(t, path, n)

RemoveWalked(t, s, w) ==
    LET n == At(t.head, w.path)
    IN  IF Represents(t, w, s) /\ n.key THEN RemoveNode(t, w.path, n) ELSE t

raxRemove(t, s) == RemoveWalked(t, s, raxLowWalk(t, s))

-----------------------------------------------------------------------------
\* Iteration

Iter(path, key) == [path |-> path, key |-> key, eof |-> FALSE]

Eof == [path |-> <<>>, key |-> <<>>, eof |-> TRUE]

Edge(n, k) == IF n.compr THEN n.chars ELSE <<n.chars[k]>>

Enter(it, n, k) == Iter(Append(it.path, k), it.key \o Edge(n, k))

\* Back to the parent, or to the node itself when its children are still to be looked at
Back(t, it, noup) ==
    LET path == IF noup THEN it.path ELSE Front(it.path)
        n == At(t.head, path)
    IN  Iter(path, SubSeq(it.key, 1, Len(it.key) - (IF n.compr THEN Len(n.chars) ELSE 1)))

Siblings(p, noup) == {k \in DOMAIN p.chars : ~p.compr /\ Len(p.chars) > IF noup THEN 0 ELSE 1}

RECURSIVE NextUp(_, _, _)
RECURSIVE NextDown(_, _)
NextDown(t, it) ==
    LET n == At(t.head, it.path)
        to == Enter(it, n, 1)
    IN  IF n.kids = <<>> THEN NextUp(t, it, FALSE)
        ELSE IF At(t.head, to.path).key THEN to ELSE NextDown(t, to)

NextUp(t, it, noup) ==
    LET up == Back(t, it, noup)
        p == At(t.head, up.path)
        after == {k \in Siblings(p, noup) : p.chars[k] > Last(it.key)}
        to == Enter(up, p, CHOOSE k \in after : \A x \in after : k <= x)
    IN  IF ~noup /\ it.path = <<>> THEN Eof
        ELSE IF after = {} THEN NextUp(t, up, FALSE)
        ELSE IF At(t.head, to.path).key THEN to ELSE NextDown(t, to)

raxIteratorNextStep(t, it, noup) ==
    IF it.eof THEN it ELSE IF noup THEN NextUp(t, it, TRUE) ELSE NextDown(t, it)

RECURSIVE raxSeekGreatest(_, _)
raxSeekGreatest(t, it) ==
    LET n == At(t.head, it.path)
    IN  IF n.chars = <<>> THEN it ELSE raxSeekGreatest(t, Enter(it, n, Len(n.kids)))

RECURSIVE raxIteratorPrevStep(_, _, _)
raxIteratorPrevStep(t, it, noup) ==
    LET up == Back(t, it, noup)
        p == At(t.head, up.path)
        before == {k \in Siblings(p, noup) : p.chars[k] < Last(it.key)}
        to == IF before = {} THEN up
              ELSE raxSeekGreatest(t, Enter(up, p, CHOOSE k \in before : \A x \in before : x <= k))
    IN  IF it.eof \/ (~noup /\ it.path = <<>>) THEN Eof
        ELSE IF At(t.head, to.path).key THEN to ELSE raxIteratorPrevStep(t, to, FALSE)

NeverInMiddle(n, j, gt) == FALSE

\* Below a string that ends inside a compressed node that is a key, the match is that key
InMiddle(n, j, gt) == n.compr /\ n.key /\ j > 0 /\ ~gt

\* The walk w stopped at node n, before or among its characters
SeekFrom(t, op, s, w, n) ==
    LET here == Iter(w.path, SubSeq(s, 1, w.i - w.j))
        past == Iter(w.path, here.key \o n.chars)
        gt == op \in {">", ">=", "^"}
        Step(it, noup) == IF gt THEN raxIteratorNextStep(t, it, noup) ELSE raxIteratorPrevStep(t, it, noup)
        differs == w.i # Len(s)
        ahead == n.chars[w.j + 1] > s[w.i + 1]
    IN  CASE op \in {"=", ">=", "<=", "^"} /\ Represents(t, w, s) /\ n.key -> Iter(w.path, s)
          [] op = "=" -> Eof
          [] differs /\ ~n.compr -> Step(Iter(w.path, Append(here.key, s[w.i + 1])), TRUE)
          [] differs /\ n.compr /\ ~gt /\ ~ahead -> raxSeekGreatest(t, here)
          [] differs /\ n.compr -> Step(IF gt = ahead THEN here ELSE past, gt # ahead)
          [] OTHER -> IF InMiddle(n, w.j, gt) THEN here ELSE Step(here, FALSE)

SeekWalked(t, op, s, w) == SeekFrom(t, op, s, w, At(t.head, w.path))

raxSeek(t, op, s) ==
    CASE t.numele = 0 -> Eof
      [] op = "$" -> raxSeekGreatest(t, Iter(<<>>, <<>>))
      [] OTHER -> SeekWalked(t, op, s, raxLowWalk(t, s))

RECURSIVE Forward(_, _)
Forward(t, it) == IF it.eof THEN <<>> ELSE <<it.key>> \o Forward(t, raxIteratorNextStep(t, it, FALSE))

RECURSIVE Backward(_, _)
Backward(t, it) == IF it.eof THEN <<>> ELSE <<it.key>> \o Backward(t, raxIteratorPrevStep(t, it, FALSE))

-----------------------------------------------------------------------------
RaxInit == rax = raxNew

raxInsert == \E s \in RaxKeys, v \in RaxVals :
    rax' = [raxGenericInsert(rax, s, v, TRUE) EXCEPT !.held = [k \in {s} |-> v] @@ rax.held]

raxTryInsert == \E s \in RaxKeys, v \in RaxVals :
    rax' = [raxGenericInsert(rax, s, v, FALSE) EXCEPT !.held = rax.held @@ [k \in {s} |-> v]]

RaxRemove == \E s \in RaxKeys :
    rax' = [raxRemove(rax, s) EXCEPT !.held = [k \in DOMAIN rax.held \ {s} |-> rax.held[k]]]

RaxNext == raxInsert \/ raxTryInsert \/ RaxRemove

-----------------------------------------------------------------------------
RECURSIVE NodesBelow(_)
NodesBelow(n) == 1 + FoldLeft(LAMBDA a, k : a + NodesBelow(k), 0, n.kids)

RECURSIVE WellShaped(_)
WellShaped(n) ==
    /\ n.compr => Len(n.chars) > 1 /\ Len(n.kids) = 1
    /\ ~n.compr => Len(n.kids) = Len(n.chars) /\ \A k \in 2..Len(n.chars) : n.chars[k - 1] < n.chars[k]
    /\ n.kids = <<>> => n.key \/ rax.numele = 0
    /\ \A k \in DOMAIN n.kids : WellShaped(n.kids[k])

\* Whatever was inserted, split, removed and recompressed, the tree finds exactly the strings it
\* holds, with their values, its two counters are right (raxFree asserts one of them), no branch
\* is left without a key, and edges are sorted.
RaxHolds ==
    /\ \A s \in RaxProbes : raxFind(rax, s) = IF s \in DOMAIN rax.held THEN <<rax.held[s]>> ELSE <<>>
    /\ rax.numele = Cardinality(DOMAIN rax.held)
    /\ rax.numnodes = NodesBelow(rax.head)
    /\ WellShaped(rax.head)

\* From any string, present or not, and with each of the operators, seeking and then stepping
\* returns the keys on that side, all of them, in lexicographical order.
RaxSeeks ==
    LET keys == DOMAIN rax.held
        Up(S) == [i \in 1..Cardinality(S) |-> CHOOSE k \in S : Cardinality({x \in S : Lex(x, k)}) = i]
    IN  /\ Forward(rax, raxSeek(rax, "^", <<>>)) = Up(keys)
        /\ Backward(rax, raxSeek(rax, "$", <<>>)) = Reverse(Up(keys))
        /\ \A s \in RaxProbes :
              LET above == {k \in keys : Lex(s, k) /\ k # s}
                  below == {k \in keys : Lex(k, s) /\ k # s}
                  same == keys \cap {s}
              IN  /\ Forward(rax, raxSeek(rax, ">", s)) = Up(above)
                  /\ Forward(rax, raxSeek(rax, ">=", s)) = Up(above \cup same)
                  /\ Backward(rax, raxSeek(rax, "<", s)) = Reverse(Up(below))
                  /\ Backward(rax, raxSeek(rax, "<=", s)) = Reverse(Up(below \cup same))
                  /\ raxSeek(rax, "=", s).eof = (same = {})
=============================================================================
